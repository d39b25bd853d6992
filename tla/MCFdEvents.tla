----------------------------- MODULE MCFdEvents -----------------------------
(* Small instances of FdEvents for TLC. *)
EXTENDS FdEvents

CONSTANTS rd, wr, k1, i1, i2

\* A reader and a writer of one descriptor; readers of two descriptors.
ReadAndWrite(fd) == [x \in {rd, wr} |-> IF x = rd THEN <<fd, "READ">> ELSE <<fd, "WRITE">>]
ReadersOf(f, g)  == [x \in {rd, wr} |-> IF x = rd THEN <<f, "READ">> ELSE <<g, "READ">>]

Use00 == ReadAndWrite(0)
Use22 == ReadAndWrite(2)
Use01 == ReadersOf(0, 1)
Use24 == ReadersOf(2, 4)

AllRequests == RequestOps
NoRequests == {}
=============================================================================
