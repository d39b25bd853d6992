----------------------------- MODULE MCHookIO -----------------------------
(***************************************************************************)
(* HookIO for TLC.  The configurations give one thread or several, three   *)
(* calls (an earlier one whose callbacks are late, the current one and a   *)
(* later one that must not feel them) and two arrivals, so that a call can *)
(* be woken, find the data gone and go to wait a second time.              *)
(***************************************************************************)
EXTENDS HookIO

MCOne == [concurrent |-> FALSE, addMayFail |-> FALSE]
MCOneFailing == [concurrent |-> FALSE, addMayFail |-> TRUE]
MCMany == [concurrent |-> TRUE, addMayFail |-> FALSE]
MCManyFailing == [concurrent |-> TRUE, addMayFail |-> TRUE]

MCPools == {MCOne, MCManyFailing}
MCOnlyMany == {MCMany}
MCOnlyOneFailing == {MCOneFailing}
=============================================================================
