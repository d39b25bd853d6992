----------------------------- MODULE ByteArray ------------------------------
(***************************************************************************)
(* ByteArray (src/sylar/bytearray.cc): a list of nodes of m_baseSize bytes *)
(* each, a position, the node m_cur that it lies in, and the two callers   *)
(* that hand its memory to a socket, SocketStream::read and write.         *)
(*                                                                         *)
(* All nodes have one size, so the copying loops are given in closed form: *)
(* byte number k of a transfer lies (npos + k) div base nodes behind m_cur *)
(* at (npos + k) mod base.  One array is used by one fiber at a time.      *)
(***************************************************************************)
EXTENDS Codec, SequencesExt

CONSTANTS
  BaseSizes,      \* the sizes of a node to be tried
  Texts,          \* what is written
  Numbers,        \* what writeUint32 and writeInt32 are given
  Shorts,         \* what writeFint16 is given
  Junk,           \* what fresh memory may hold
  MaxCapacity     \* bound: no array grows beyond it

\* Nodes have a size, and one fits; memory and texts hold bytes; a number is one that both
\* forms can take, v as unsigned and -v as signed; a text's length can be written.
ASSUME ArrayAssumption ==
  /\ BaseSizes \subseteq Nat \ {0} /\ MaxCapacity \in Nat /\ \A b \in BaseSizes : b <= MaxCapacity
  /\ Junk \subseteq Byte
  /\ \A t \in Texts : t \in Seq(Byte) /\ Len(t) \in Unsigned
  /\ \A v \in Numbers : v \in Unsigned /\ -v \in Signed
  /\ Shorts \subseteq 0 .. (2 * More) * (2 * More) - 1

VARIABLES
  ba,      \* [base, nodes, cur, position, size]; nodes are sequences of bytes
  little,  \* m_endian
  out,     \* what the last call returned
  sound,   \* ghost: no call so far that the code gets wrong
  alive    \* FALSE: a null pointer was followed

vars == <<ba, little, out, sound, alive>>

Null == 0
\* Bound: an array that has lost its soundness is not followed further.
InUse == alive /\ sound
Capacity(a) == a.base * Len(a.nodes)
getReadSize == ba.size - ba.position
npos == ba.position % ba.base
NodeAt(a, i) == IF i > Len(a.nodes) THEN Null ELSE i
Answer(op, value) == [op |-> op, status |-> "ok", value |-> value]
Failed(op) == [Answer(op, <<>>) EXCEPT !.status = "out_of_range"]

\* n bytes from node i on, the first of them at offset.
Cells(i, offset, n) ==
  [k \in 1 .. n |-> ba.nodes[i + (offset + k - 1) \div ba.base][((offset + k - 1) % ba.base) + 1]]
RunsOff(i, offset, n) == i = Null \/ i + (offset + n - 1) \div ba.base > Len(ba.nodes)

\* The bytes in front of the position, as the code fetches them.
Ahead == IF getReadSize = 0 THEN <<>> ELSE Cells(ba.cur, npos, getReadSize)

Init ==
  /\ \E base \in BaseSizes, j \in Junk :
       ba = [base |-> base, nodes |-> <<[k \in 1 .. base |-> j]>>, cur |-> 1, position |-> 0, size |-> 0]
  /\ little = FALSE /\ out = Answer("new", <<>>) /\ sound = TRUE /\ alive = TRUE

-----------------------------------------------------------------------------
(* Writing                                                                 *)

\* Mutant: a write at the very end leaves m_cur null.
AddCapacityKeepsCur(a, n, j) ==
  LET old == Capacity(a) - a.position
      fresh == [k \in 1 .. a.base |-> j]
  IN [a EXCEPT !.nodes = @ \o [i \in 1 .. (IF old >= n THEN 0 ELSE (n - old + a.base - 1) \div a.base) |-> fresh]]
AddCapacity(a, n, j) ==
  LET old == Capacity(a) - a.position
      fresh == [k \in 1 .. a.base |-> j]
  IN [a EXCEPT !.nodes = @ \o [i \in 1 .. (IF old >= n THEN 0 ELSE (n - old + a.base - 1) \div a.base) |-> fresh],
               !.cur = IF old = 0 /\ n > 0 THEN Len(a.nodes) + 1 ELSE @]

Copy(a, text) ==
  LET first == (a.cur - 1) * a.base + (a.position % a.base)
      At(i, k) == (i - 1) * a.base + k - 1
  IN [i \in 1 .. Len(a.nodes) |-> [k \in 1 .. a.base |->
        IF At(i, k) \in first .. first + Len(text) - 1 THEN text[At(i, k) - first + 1] ELSE a.nodes[i][k]]]

\* The last step of the loop advances the position by ncap, to the end of the node, however
\* little of it was written; m_cur moves on only when the node is full.
WriteTo(a, text, j) ==
  IF text = <<>> THEN a
  ELSE LET g == AddCapacity(a, Len(text), j)
           used == (g.position % g.base) + Len(text)
           end == g.position - (g.position % g.base) + g.base * ((used + g.base - 1) \div g.base)
       IN [g EXCEPT !.nodes = Copy(g, text), !.position = end, !.size = Max({@, end}),
                    !.cur = NodeAt(g, g.cur + used \div g.base)]

\* A write is sound if it ends with a node.
EndsWithNode(a, text) == text # <<>> => (a.position + Len(text)) % a.base = 0

\* The array after each of several writes.
Writing(a, texts, j) ==
  LET after[i \in 0 .. Len(texts)] == IF i = 0 THEN a ELSE WriteTo(after[i - 1], texts[i], j)
  IN after

\* A call that writes texts, which together are whole.
Writes(op, texts, whole) ==
  /\ InUse
  /\ \E j \in Junk : \E after \in {Writing(ba, texts, j)} :
       /\ ba' = after[Len(texts)]
       /\ sound' = (sound /\ \A i \in 1 .. Len(texts) : EndsWithNode(after[i - 1], texts[i]))
  /\ Capacity(ba') <= MaxCapacity
  /\ out' = Answer(op, whole)
  /\ UNCHANGED <<little, alive>>

WriteOne(text)    == Writes("write", <<text>>, text)
Write(text)       == WriteOne(text)
WriteUint(v)      == WriteOne(EncodeUint(v))
WriteInt(v)       == WriteOne(EncodeUint(EncodeZigzag(v)))
WriteFixed(v)     == WriteOne(Ordered(v, little))
WriteString(text) == Writes("write", <<EncodeUint(Len(text)), text>>, EncodeUint(Len(text)) \o text)

\* readFromFile: pieces of m_baseSize, the last one shorter and perhaps empty.
Pieces(text) ==
  [i \in 1 .. Len(text) \div ba.base + 1 |-> SubSeq(text, (i - 1) * ba.base + 1, Min({i * ba.base, Len(text)}))]
ReadFromFile(text) == Writes("file", Pieces(text), text)

-----------------------------------------------------------------------------
(* Reading                                                                 *)

\* read, which has checked the length: m_cur is followed even for no bytes at all.
Take(a, n) == [a EXCEPT !.position = @ + n, !.cur = NodeAt(a, @ + ((a.position % a.base) + n) \div a.base)]

Fails(op, n) ==
  /\ ba' = IF n = 0 THEN ba ELSE Take(ba, n)
  /\ out' = Failed(op) /\ UNCHANGED <<little, sound, alive>>
Crashes(op, flaw) ==
  /\ out' = [Answer(op, <<>>) EXCEPT !.status = "crash"] /\ alive' = FALSE
  /\ sound' = (sound /\ ~ flaw) /\ UNCHANGED <<ba, little>>
Returns(op, a, value) == ba' = a /\ out' = Answer(op, value) /\ UNCHANGED <<little, sound, alive>>

Read(n) ==
  /\ InUse
  /\ IF n > getReadSize THEN Fails("read", 0)
     ELSE IF ba.cur = Null THEN Crashes("read", n = 0)
     ELSE Returns("read", Take(ba, n), Cells(ba.cur, npos, n))

\* readUint32 and readUint64, one byte after another.
ReadUint ==
  LET k == UintLength(Ahead)
  IN /\ InUse
     /\ IF k = 0 THEN Fails("uint", getReadSize)
        ELSE Returns("uint", Take(ba, k), <<DecodeUint(SubSeq(Ahead, 1, k))>>)

ReadFixed ==
  /\ InUse
  /\ IF getReadSize < 2 THEN Fails("fixed", 0) ELSE Returns("fixed", Take(ba, 2), <<Unordered(Ahead, little)>>)

\* readStringVint: the length, then that many bytes.
ReadString ==
  LET k == UintLength(Ahead)
      n == DecodeUint(SubSeq(Ahead, 1, k))
      a == Take(ba, k)
  IN /\ InUse
     /\ IF k = 0 THEN Fails("string", getReadSize)
        ELSE IF k + n > getReadSize THEN Fails("string", k)
        ELSE IF a.cur = Null THEN Crashes("string", n = 0)
        ELSE Returns("string", Take(a, n), SubSeq(Ahead, k + 1, k + n))

\* read with a position: the offset is the position's, the node is m_cur all the same.  Behind
\* the end m_size - position wraps round, and no length is too long.
ReadAt(n, position) ==
  LET flaw == \/ position \div ba.base # ba.position \div ba.base \/ ba.position = Capacity(ba)
              \/ position > ba.size
  IN /\ InUse
     /\ IF position <= ba.size /\ n > ba.size - position THEN Fails("at", 0)
        ELSE IF ba.cur = Null \/ (n > 0 /\ RunsOff(ba.cur, position % ba.base, n)) THEN Crashes("at", flaw)
        ELSE /\ out' = Answer("at", Cells(ba.cur, position % ba.base, n))
             /\ sound' = (sound /\ ~ flaw) /\ UNCHANGED <<ba, little, alive>>

\* toString and toHexString.
ReadWhole == InUse /\ Returns("string_of", ba, Ahead)

-----------------------------------------------------------------------------
(* Positions                                                               *)

\* Mutant: a position behind the end does not make the array longer.
MoveToKeepsSize(a, v) == [a EXCEPT !.position = Min({v, a.size}), !.cur = NodeAt(a, Min({v, a.size}) \div a.base + 1)]
MoveTo(a, v) == [a EXCEPT !.position = v, !.size = Max({@, v}), !.cur = NodeAt(a, v \div a.base + 1)]

SetPosition(v) ==
  InUse /\ IF v > Capacity(ba) THEN Fails("move", 0) ELSE Returns("move", MoveTo(ba, v), <<>>)

\* All nodes but the first are freed.
Clear ==
  InUse /\ Returns("clear", [ba EXCEPT !.nodes = SubSeq(@, 1, 1), !.position = 0, !.size = 0, !.cur = 1], <<>>)

SetIsLittleEndian(val) ==
  InUse /\ little' = val /\ out' = Answer("order", <<>>) /\ UNCHANGED <<ba, sound, alive>>

-----------------------------------------------------------------------------
(* Memory for files and sockets                                            *)

\* getReadBuffers compares the room in a node with the whole length, not with what is left:
\* a transfer of more than a node must end with a node that is not the last.
BuffersBreak(n) == n > ba.base /\ ~ ((ba.position + n) % ba.base = 0 /\ ba.position + n < Capacity(ba))

GetReadBuffers(len) ==
  LET n == Min({len, getReadSize})
  IN InUse /\ IF BuffersBreak(n) THEN Crashes("buffers", TRUE) ELSE Returns("buffers", ba, SubSeq(Ahead, 1, n))

\* With a position of its own the nodes are counted from the root, but the length is still
\* bounded by what lies behind m_position.
GetReadBuffersAt(len, position) ==
  LET n == Min({len, getReadSize})
      flaw == position + n > ba.size
      node == NodeAt(ba, position \div ba.base + 1)
  IN /\ InUse
     /\ IF n > 0 /\ RunsOff(node, position % ba.base, n) THEN Crashes("at", flaw)
        ELSE /\ out' = Answer("at", IF n = 0 THEN <<>> ELSE Cells(node, position % ba.base, n))
             /\ sound' = (sound /\ ~ flaw) /\ UNCHANGED <<ba, little, alive>>

\* SocketStream::read: getWriteBuffers(length), recv, setPosition; text is what was received,
\* <<>> a recv that failed.
StreamRead(length, text) ==
  /\ InUse /\ Len(text) <= length
  /\ \E j \in Junk :
       LET g == AddCapacity(ba, length, j)
       IN ba' = IF text = <<>> THEN g ELSE MoveTo([g EXCEPT !.nodes = Copy(g, text)], ba.position + Len(text))
  /\ Capacity(ba') <= MaxCapacity
  /\ out' = Answer("stream", text) /\ UNCHANGED <<little, sound, alive>>

\* SocketStream::write: getReadBuffers(length), send, setPosition; sent bytes were taken.
StreamWrite(length, sent) ==
  LET n == Min({length, getReadSize})
  IN /\ InUse /\ sent <= n
     /\ IF BuffersBreak(n) THEN Crashes("send", TRUE)
        ELSE Returns("send", IF sent = 0 THEN ba ELSE MoveTo(ba, ba.position + sent), SubSeq(Ahead, 1, sent))

\* writeToFile takes the offset in the first node off the length also when the rest of the
\* array is shorter than a node: it then writes too little and runs on.
WriteToFile ==
  /\ InUse
  /\ IF npos > 0 /\ getReadSize \in 1 .. ba.base - 1
     THEN /\ out' = [Answer("dump", <<>>) EXCEPT !.status = "wrong"] /\ alive' \in BOOLEAN
          /\ sound' = FALSE /\ UNCHANGED <<ba, little>>
     ELSE Returns("dump", ba, Ahead)

-----------------------------------------------------------------------------
Stopped == ~ InUse /\ UNCHANGED vars

Next ==
  \/ \E text \in Texts : Write(text)
  \/ \E v \in Numbers : WriteUint(v)
  \/ \E v \in Numbers : WriteInt(-v)
  \/ \E v \in Shorts : WriteFixed(v)
  \/ \E text \in Texts : WriteString(text)
  \/ \E text \in Texts : ReadFromFile(text)
  \/ \E n \in 0 .. getReadSize + 1 : Read(n)
  \/ ReadUint
  \/ ReadFixed
  \/ ReadString
  \/ \E position \in 0 .. ba.size + 1 : \E n \in 0 .. ba.size + 1 : ReadAt(n, position)
  \/ ReadWhole
  \/ \E v \in 0 .. Capacity(ba) + 1 : SetPosition(v)
  \/ Clear
  \/ \E val \in BOOLEAN : SetIsLittleEndian(val)
  \/ \E len \in 1 .. ba.size + 1 : GetReadBuffers(len)
  \/ \E position \in 0 .. ba.size : \E len \in 1 .. ba.size : GetReadBuffersAt(len, position)
  \/ \E text \in Texts : \E more \in 0 .. 1 : StreamRead(Len(text) + more, text)
  \/ \E length \in 1 .. ba.size + 1 : \E sent \in 0 .. length : StreamWrite(length, sent)
  \/ WriteToFile
  \/ Stopped

Spec == Init /\ [][Next]_vars

-----------------------------------------------------------------------------
\* The members of ByteArray keep their shape: m_cur is a node of the list or null (never one
\* that clear() has deleted), and m_position <= m_size <= m_capacity.
TypeOK ==
  /\ ba.base \in BaseSizes /\ Capacity(ba) <= MaxCapacity
  /\ \A i \in DOMAIN ba.nodes : ba.nodes[i] \in [1 .. ba.base -> Byte]
  /\ ba.cur \in Null .. Len(ba.nodes) /\ ba.position \in 0 .. ba.size /\ ba.size <= Capacity(ba)
  /\ little \in BOOLEAN /\ sound \in BOOLEAN /\ alive \in BOOLEAN

\* m_cur and m_position are kept by separate assignments in write, read, setPosition, clear and
\* addCapacity; as long as every write has ended with a node they name one place: the node
\* m_cur is the one the position lies in, and null exactly at the end of the memory.
CurFollowsPosition == sound => ba.cur = NodeAt(ba, ba.position \div ba.base + 1)

\* The representation invariant of the chain.
ChainInv == TypeOK /\ CurFollowsPosition

\* What stands in front of the reader and was written as a number is read as that number:
\* every unsigned and every signed value, the least one too, and every two-byte one in the
\* order that is set.
NumbersComeBack ==
  sound /\ alive =>
    LET first == SubSeq(Ahead, 1, UintLength(Ahead))
    IN /\ \A v \in Unsigned : IsPrefix(EncodeUint(v), Ahead) => DecodeUint(first) = v
       /\ \A v \in Signed : IsPrefix(EncodeUint(EncodeZigzag(v)), Ahead) => DecodeZigzag(DecodeUint(first)) = v
       /\ \A v \in Shorts : IsPrefix(Ordered(v, little), Ahead) => Unordered(Ahead, little) = v

\* What a call may write.
Writable ==
  Texts \cup { EncodeUint(v) : v \in Unsigned } \cup { EncodeUint(EncodeZigzag(-v)) : v \in Numbers }
        \cup { Ordered(v, b) : v \in Shorts, b \in BOOLEAN } \cup { EncodeUint(Len(t)) \o t : t \in Texts }

\* write, writeFint8 and the rest, writeStringVint and readFromFile move the position by as many
\* bytes as they were given: whoever goes back and reads that many has read everything, as
\* src/test/test_bytearray.cc asserts (for nodes of one byte).
WriteAdvancesBySize ==
  [][out'.op \in {"write", "file"} => ba'.position = ba.position + Len(out'.value)]_vars

\* The array is a flat sequence of bytes with a position.  Every call that puts, moves, clears
\* or takes something does what FlatBytes says, whatever was called before; what is excused is
\* a read of no bytes at the end of the memory, a read or buffers at a position in another node
\* or behind the end, buffers of more than a node that do not end with one, and a file written
\* from inside the last node.  No write is excused: with nodes of more than a byte this fails
\* where WriteAdvancesBySize fails.
Flat == INSTANCE FlatBytes WITH
  Texts <- Writable,
  bytes <- IF alive /\ sound THEN Cells(1, 0, ba.size) ELSE <<>>,
  pos <- ba.position
ImplementsFlat == Flat!Spec
=============================================================================
