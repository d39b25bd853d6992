----------------------------- MODULE FlatBytes ------------------------------
(***************************************************************************)
(* What a ByteArray is meant to be: a sequence of bytes with a position.   *)
(* A write overwrites or appends at the position, a read returns what is   *)
(* there, everything that only looks returns it without moving.            *)
(*                                                                         *)
(* sound turns FALSE when the array is asked to look at itself in a way    *)
(* that it does not support (ByteArray says which); nothing is promised    *)
(* from then on.  A write or a move is always supported.                   *)
(***************************************************************************)
EXTENDS Codec

CONSTANTS Texts   \* what may be written

VARIABLES bytes, pos, little, out, sound

vars == <<bytes, pos, little, out, sound>>

Answer(op, value) == [op |-> op, status |-> "ok", value |-> value]
Failed(op) == [Answer(op, <<>>) EXCEPT !.status = "out_of_range"]

Init == bytes = <<>> /\ pos = 0 /\ little = FALSE /\ out = Answer("new", <<>>) /\ sound = TRUE

Ahead == SubSeq(bytes, pos + 1, Len(bytes))
Overwrite(text) ==
  [i \in 1 .. Max({Len(bytes), pos + Len(text)}) |->
     IF i \in pos + 1 .. pos + Len(text) THEN text[i - pos] ELSE bytes[i]]

Put(op, text) ==
  /\ bytes' = Overwrite(text) /\ pos' = pos + Len(text)
  /\ out' = Answer(op, text) /\ UNCHANGED <<little, sound>>

\* A read that asks for more than there is fails; what a compound read has fetched by then
\* stays read.
Get(op, n, value) == pos' = pos + n /\ out' = Answer(op, value) /\ UNCHANGED <<bytes, little, sound>>
Fail(op, n) == pos' = pos + n /\ out' = Failed(op) /\ UNCHANGED <<bytes, little, sound>>

Read(n) == IF n > Len(Ahead) THEN Fail("read", 0) ELSE Get("read", n, SubSeq(Ahead, 1, n))

ReadUint ==
  IF UintLength(Ahead) = 0 THEN Fail("uint", Len(Ahead))
  ELSE Get("uint", UintLength(Ahead), <<DecodeUint(SubSeq(Ahead, 1, UintLength(Ahead)))>>)

ReadFixed == IF Len(Ahead) < 2 THEN Fail("fixed", 0) ELSE Get("fixed", 2, <<Unordered(Ahead, little)>>)

ReadString ==
  LET k == UintLength(Ahead)
      n == DecodeUint(SubSeq(Ahead, 1, k))
  IN IF k = 0 THEN Fail("string", Len(Ahead))
     ELSE IF k + n > Len(Ahead) THEN Fail("string", k)
     ELSE Get("string", k + n, SubSeq(Ahead, k + 1, k + n))

Peek(op, from, n) ==
  out' = Answer(op, SubSeq(bytes, from + 1, from + n)) /\ UNCHANGED <<bytes, pos, little, sound>>

\* A position behind the end makes what lies between part of the array.
Move ==
  /\ \/ pos' \in 0 .. Len(bytes) /\ bytes' = bytes
     \/ /\ pos' > Len(bytes) /\ Len(bytes') = pos' /\ SubSeq(bytes', 1, Len(bytes)) = bytes
  /\ out' = Answer("move", <<>>) /\ UNCHANGED <<little, sound>>

MoveFails == out' = Failed("move") /\ UNCHANGED <<bytes, pos, little, sound>>
Wipe == bytes' = <<>> /\ pos' = 0 /\ out' = Answer("clear", <<>>) /\ UNCHANGED <<little, sound>>
SetOrder == little' \in BOOLEAN /\ out' = Answer("order", <<>>) /\ UNCHANGED <<bytes, pos, sound>>

Looking == {"read", "string", "at", "buffers", "send", "dump"}
Misuse == ~ sound \/ (~ sound' /\ out'.op \in Looking)

Sizes == 0 .. Len(bytes) + 1
Next ==
  \/ Misuse
  \/ sound' /\ \/ \E text \in Texts : \E op \in {"write", "file", "stream"} : Put(op, text)
               \/ \E n \in Sizes : Read(n)
               \/ ReadUint \/ ReadFixed \/ ReadString
               \/ \E n \in 0 .. Len(Ahead) : \E op \in {"string_of", "buffers", "dump"} : Peek(op, pos, n)
               \/ \E from \in 0 .. Len(bytes) : \E n \in 0 .. Len(bytes) - from : Peek("at", from, n)
               \/ Fail("at", 0)
               \/ \E n \in 0 .. Len(Ahead) : Get("send", n, SubSeq(Ahead, 1, n))
               \/ Move \/ MoveFails \/ Wipe \/ SetOrder

Spec == Init /\ [][Next]_vars
=============================================================================
