------------------------------- MODULE Codec --------------------------------
(***************************************************************************)
(* How ByteArray writes numbers (src/sylar/bytearray.cc, endian.h): the    *)
(* variable-length form of writeUint32 and writeUint64, the zigzag form of *)
(* the signed ones, and the fixed form in either byte order.               *)
(*                                                                         *)
(* The code has Width 32 or 64 and Group 7: seven bits of a number in each *)
(* byte, the eighth says that another byte follows.                        *)
(***************************************************************************)
EXTENDS Integers, Sequences, FiniteSetsExt

CONSTANTS Width, Group

ASSUME WidthAssumption == Width \in Nat \ {0} /\ Group \in Nat \ {0}

Byte == 0 .. 2 ^ (Group + 1) - 1
More == 2 ^ Group                         \* 0x80
Unsigned == 0 .. 2 ^ Width - 1
Signed == -(2 ^ (Width - 1)) .. 2 ^ (Width - 1) - 1

\* The loop "for (i = 0; i < 32; i += 7)" runs this often.
MaxGroups == (Width + Group - 1) \div Group

\* writeUint32 and writeUint64: the bytes in tmp.
EncodeUint(value) ==
  LET n == CHOOSE k \in 1 .. MaxGroups : value < 2 ^ (Group * k) /\ (k = 1 \/ value >= 2 ^ (Group * (k - 1)))
  IN [i \in 1 .. n |-> ((value \div 2 ^ (Group * (i - 1))) % More) + (IF i < n THEN More ELSE 0)]

\* Mutant: the marker bit is not taken off the byte.
ShiftedKeepsMarker(byte, i) == (byte * 2 ^ (Group * (i - 1))) % 2 ^ Width
\* What byte number i adds to the result; the shift drops the high bits.
Shifted(byte, i) == ((byte % More) * 2 ^ (Group * (i - 1))) % 2 ^ Width

\* readUint32 and readUint64 over the bytes they have fetched: result after each of them.
Decoding(bytes) ==
  LET result[i \in 0 .. Len(bytes)] == IF i = 0 THEN 0 ELSE result[i - 1] + Shifted(bytes[i], i)
  IN result
DecodeUint(bytes) == Decoding(bytes)[Len(bytes)]

\* How many of the bytes in front of the reader they fetch: up to one without the marker.
\* 0 stands for more than there are.
UintLength(bytes) ==
  LET ends == {i \in DOMAIN bytes : i = MaxGroups \/ bytes[i] < More}
  IN IF ends = {} THEN 0 ELSE Min(ends)

\* EncodeZigzag32; for the least number -v wraps around to itself.
EncodeZigzag(v) == (IF v < 0 THEN -v * 2 - 1 ELSE v * 2) % 2 ^ Width

\* DecodeZigzag32: (v >> 1) ^ -(v & 1), then read as signed.
DecodeZigzag(v) ==
  LET bits == IF v % 2 = 0 THEN v \div 2 ELSE 2 ^ Width - 1 - v \div 2
  IN IF bits >= 2 ^ (Width - 1) THEN bits - 2 ^ Width ELSE bits

\* A two-byte number in memory; it is swapped when the array's order is not the machine's,
\* which is little-endian.
Ordered(value, little) ==
  LET low == value % (2 * More)  high == value \div (2 * More)
  IN IF little THEN <<low, high>> ELSE <<high, low>>
Unordered(bytes, little) ==
  IF little THEN bytes[1] + 2 * More * bytes[2] ELSE bytes[2] + 2 * More * bytes[1]
=============================================================================
