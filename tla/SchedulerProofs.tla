--------------------------- MODULE SchedulerProofs ---------------------------
(***************************************************************************)
(* Proofs about Scheduler, for every number of threads and tasks, every    *)
(* assignment of pins and limits, with and without use_caller.             *)
(*                                                                         *)
(* Tasks may be scheduled twice, handed to wakers and woken late: the      *)
(* counters, the types and NothingLost hold however tasks are used.  That  *)
(* one thread at a time is on a stack does not, since m_state is written   *)
(* without a lock (StacksAreSafe); no theorem rests on it.                 *)
(***************************************************************************)
EXTENDS Scheduler, TLAPS, FiniteSetTheorems, SequenceTheorems

-----------------------------------------------------------------------------
(* The parts of the inductive invariant behind these properties. *)

\* The number of threads at one of the places P when p says where each one is.
CountAt(p, P) == Cardinality({t \in Threads : p[t] \in P})

\* The two counters are exact.
CountersExact ==
    /\ m_activeThreadCount = CountAt(pc, ActivePc)
    /\ m_idleThreadCount = CountAt(pc, IdlePc)

\* What the position of the constructing thread says about the pool.
CallerPhase ==
    /\ caller # "user" => m_stopping
    /\ caller = "user" /\ m_stopping => \A t \in Threads : pc[t] = "off"
    /\ caller = "user" => \A t \in Threads :
                             pc[t] # "done" /\ (pc[t] # "off" => ~idleTerm[t])
    /\ UseCaller => /\ ~Exited(Root) => caller = "inroot"
                    /\ pc[Root] = "done" => caller \in {"inroot", "join"}

InQueue(f, thr) == \E i \in DOMAIN m_fibers : m_fibers[i] = FiberAndThread(f, thr)

\* A task in state EXEC is on the stack of some thread.
ExecIsOnStack ==
    \A f \in Fibers : m_state[f] = "EXEC" =>
        \E t \in Threads : cur[t] = f /\ pc[t] \in {"exec", "handed"}

\* A task in state READY is in the list or about to be put there or taken.
ReadyIsOwned ==
    \A f \in Fibers : m_state[f] = "READY" =>
        \/ InQueue(f, AnyThread)
        \/ \E t \in Threads : cur[t] = f /\ pc[t] \in {"took", "swapout", "back", "post"}

\* A scheduled task that has not run yet is in the list or has been taken.
InitIsOwned ==
    \A f \in Fibers : m_state[f] = "INIT" /\ submits[f] > 0 /\ f \notin done =>
        \/ InQueue(f, Pin[f])
        \/ \E t \in Threads : cur[t] = f /\ pc[t] = "took"

\* A task that has been on a stack, or has handed out its pointer, is not INIT.
StartedIsNotInit ==
    \A f \in Fibers :
        f \in armed \/ (\E t \in Threads : OnStack(t, f)) =>
            m_state[f] # "INIT" \/ f \in done

\* A task is only in a final state when its function has ended.
FinishedIsDone == \A f \in Fibers : m_state[f] \in Finished => f \in done

\* Once the whole pool has exited, the entries any thread could have run
\* belong to tasks that have finished or parked themselves.
DrainedAtExit ==
    /\ caller # "user"
    /\ \A t \in Threads : Exited(t)
    /\ \E t \in Threads : pc[t] = "done"
    => \A f \in Fibers : InQueue(f, AnyThread) => Ran(f)

IInv ==
    /\ TypeOK
    /\ CountersExact
    /\ CallerPhase
    /\ ExecIsOnStack
    /\ ReadyIsOwned
    /\ InitIsOwned
    /\ StartedIsNotInit
    /\ FinishedIsDone
    /\ DrainedAtExit

-----------------------------------------------------------------------------
(* Lemmas on the operators of the model. *)

\* Taking an entry out of the list: the entries behind it move up by one.
LEMMA RemoveAtPositions ==
    ASSUME NEW S, NEW s \in Seq(S), NEW i \in DOMAIN s
    PROVE  /\ RemoveAt(s, i) \in Seq(S)
           /\ Len(RemoveAt(s, i)) = Len(s) - 1
           /\ \A k \in 1..(Len(s)-1) :
                 RemoveAt(s, i)[k] = IF k < i THEN s[k] ELSE s[k+1]
<1> DEFINE r == RemoveAt(s, i)
<1>1. i \in 1..Len(s) /\ Len(s) \in Nat
  OBVIOUS
<1>2. /\ SubSeq(s, 1, i-1) \in Seq(S)
      /\ Len(SubSeq(s, 1, i-1)) = i - 1
      /\ \A k \in 1..(i-1) : SubSeq(s, 1, i-1)[k] = s[k]
  BY <1>1
<1>3. /\ SubSeq(s, i+1, Len(s)) \in Seq(S)
      /\ Len(SubSeq(s, i+1, Len(s))) = Len(s) - i
      /\ \A k \in 1..(Len(s)-i) : SubSeq(s, i+1, Len(s))[k] = s[k+i]
  BY <1>1
<1>4. /\ r \in Seq(S)
      /\ Len(r) = Len(s) - 1
      /\ \A k \in 1..(Len(s)-1) : r[k] = IF k < i THEN s[k] ELSE s[k+1]
  <2> DEFINE a == SubSeq(s, 1, i-1)
             b == SubSeq(s, i+1, Len(s))
  <2>1. r = a \o b
    BY DEF RemoveAt
  <2>2. /\ a \o b \in Seq(S)
        /\ Len(a \o b) = Len(a) + Len(b)
        /\ \A k \in 1..(Len(a)+Len(b)) :
              (a \o b)[k] = IF k <= Len(a) THEN a[k] ELSE b[k - Len(a)]
    BY <1>2, <1>3, ConcatProperties
  <2>3. /\ a \in Seq(S) /\ Len(a) = i - 1 /\ \A k \in 1..(i-1) : a[k] = s[k]
        /\ b \in Seq(S) /\ Len(b) = Len(s) - i
        /\ \A k \in 1..(Len(s)-i) : b[k] = s[k+i]
    BY <1>2, <1>3
  <2> HIDE DEF a, b, r
  <2>4. r \in Seq(S) /\ Len(r) = Len(s) - 1
    BY <1>1, <2>1, <2>2, <2>3
  <2>5. ASSUME NEW k \in 1..(Len(s)-1)
        PROVE  r[k] = IF k < i THEN s[k] ELSE s[k+1]
    <3>1. CASE k < i
      BY <3>1, <1>1, <2>1, <2>2, <2>3
    <3>2. CASE k >= i
      <4>1. k - (i-1) \in 1..(Len(s)-i) /\ (k - (i-1)) + i = k + 1
        BY <3>2, <1>1
      <4>2. k \in 1..(Len(a)+Len(b)) /\ ~(k <= Len(a)) /\ k - Len(a) = k - (i-1)
        BY <3>2, <1>1, <2>3
      <4>3. r[k] = b[k - (i-1)]
        BY <4>2, <2>1, <2>2
      <4>4. b[k - (i-1)] = s[(k - (i-1)) + i]
        BY <4>1, <2>3
      <4>5. r[k] = s[k+1]
        BY <4>1, <4>3, <4>4
      <4>6. ~(k < i)
        BY <3>2, <1>1
      <4> QED BY <4>5, <4>6
    <3> QED BY <3>1, <3>2, <1>1
  <2> QED BY <2>4, <2>5 DEF r
<1> QED BY <1>4

\* What remains is what was there, less that entry.
LEMMA RemoveAtFacts ==
    ASSUME NEW S, NEW s \in Seq(S), NEW i \in DOMAIN s
    PROVE  /\ RemoveAt(s, i) \in Seq(S)
           /\ \A j \in DOMAIN RemoveAt(s, i) : \E k \in DOMAIN s : RemoveAt(s, i)[j] = s[k]
           /\ \A k \in DOMAIN s : k # i =>
                 \E j \in DOMAIN RemoveAt(s, i) : RemoveAt(s, i)[j] = s[k]
<1> DEFINE r == RemoveAt(s, i)
<1>1. i \in 1..Len(s) /\ Len(s) \in Nat
  OBVIOUS
<1>2. /\ r \in Seq(S)
      /\ Len(r) = Len(s) - 1
      /\ \A k \in 1..(Len(s)-1) : r[k] = IF k < i THEN s[k] ELSE s[k+1]
  BY RemoveAtPositions
<1>3. \A j \in DOMAIN r : \E k \in DOMAIN s : r[j] = s[k]
  BY <1>1, <1>2
<1>4. ASSUME NEW k \in DOMAIN s, k # i
      PROVE  \E j \in DOMAIN r : r[j] = s[k]
  <2>1. CASE k < i
    BY <2>1, <1>1, <1>2
  <2>2. CASE k > i
    <3>1. k-1 \in DOMAIN r /\ r[k-1] = s[k]
      BY <2>2, <1>1, <1>2
    <3> QED BY <3>1
  <2> QED BY <2>1, <2>2, <1>4, <1>1
<1> QED BY <1>2, <1>3, <1>4

\* The pool is finite.
LEMMA ThreadsFinite == IsFiniteSet(Threads)
<1>1. IsFiniteSet(Workers)
  BY ThreadsAssumption
<1>2. IsFiniteSet(IF UseCaller THEN {Root} ELSE {})
  BY FS_EmptySet, FS_Singleton
<1> QED BY <1>1, <1>2, FS_Union DEF Threads

\* Counting the threads at certain places when one thread moves.
LEMMA CountMoves ==
    ASSUME NEW P, NEW p, NEW q, NEW t \in Threads, NEW l,
           DOMAIN p = Threads, q = [p EXCEPT ![t] = l]
    PROVE  /\ CountAt(p, P) \in Nat
           /\ CountAt(q, P) \in Nat
           /\ CountAt(q, P) = CountAt(p, P) + (IF l \in P THEN 1 ELSE 0)
                                           - (IF p[t] \in P THEN 1 ELSE 0)
<1> DEFINE A == {u \in Threads : p[u] \in P}
           B == {u \in Threads : q[u] \in P}
<1>1. IsFiniteSet(A) /\ IsFiniteSet(B)
  BY ThreadsFinite, FS_Subset
<1>2. Cardinality(A) \in Nat /\ Cardinality(B) \in Nat
  BY <1>1, FS_CardinalityType
<1>3. ASSUME p[t] \in P <=> l \in P PROVE Cardinality(B) = Cardinality(A)
  <2>1. A = B
    BY <1>3
  <2> QED BY <2>1
<1>4. ASSUME p[t] \notin P, l \in P PROVE Cardinality(B) = Cardinality(A) + 1
  <2>1. B = A \cup {t} /\ t \notin A
    BY <1>4
  <2> QED BY <2>1, <1>1, FS_AddElement
<1>5. ASSUME p[t] \in P, l \notin P PROVE Cardinality(B) = Cardinality(A) - 1
  <2>1. B = A \ {t} /\ t \in A
    BY <1>5
  <2> QED BY <2>1, <1>1, FS_RemoveElement
<1>6. CountAt(p, P) = Cardinality(A) /\ CountAt(q, P) = Cardinality(B)
  BY DEF CountAt
<1> HIDE DEF A, B
<1> QED BY <1>2, <1>3, <1>4, <1>5, <1>6

\* What schedule() does to the list.
LEMMA AppendFacts ==
    ASSUME NEW S, NEW s \in Seq(S), NEW e \in S
    PROVE  /\ Append(s, e) \in Seq(S)
           /\ \A j \in DOMAIN Append(s, e) :
                 Append(s, e)[j] = e \/ \E k \in DOMAIN s : Append(s, e)[j] = s[k]
           /\ \A k \in DOMAIN s : \E j \in DOMAIN Append(s, e) : Append(s, e)[j] = s[k]
           /\ \E j \in DOMAIN Append(s, e) : Append(s, e)[j] = e
<1> DEFINE r == Append(s, e)
<1>1. /\ r \in Seq(S) /\ Len(r) = Len(s) + 1 /\ Len(s) \in Nat
      /\ \A k \in 1..Len(s) : r[k] = s[k]
      /\ r[Len(s) + 1] = e
  BY AppendProperties
<1>2. DOMAIN r = 1..(Len(s) + 1) /\ DOMAIN s = 1..Len(s)
  BY <1>1
<1> HIDE DEF r
<1>3. \A k \in DOMAIN s : k \in DOMAIN r /\ r[k] = s[k]
  BY <1>1, <1>2
<1>4. Len(s) + 1 \in DOMAIN r
  BY <1>1, <1>2
<1>5. \A j \in DOMAIN r : j = Len(s) + 1 \/ j \in DOMAIN s
  BY <1>1, <1>2
<1> QED BY <1>1, <1>3, <1>4, <1>5 DEF r

-----------------------------------------------------------------------------
(* Type correctness and the counters. *)

\* The invariant holds before anyone has called anything.
LEMMA InitIInv == Init => IInv
<1> SUFFICES ASSUME Init PROVE IInv
  OBVIOUS
<1> USE ThreadsAssumption, TasksAssumption DEF Init
<1>1. TypeOK
  <2>1. \A t \in Threads : pc[t] = "off" /\ cur[t] = NoFiber
    OBVIOUS
  <2>2. \A t \in Threads : pc[t] \in TaskPc <=> cur[t] \in Fibers
    BY <2>1 DEF TaskPc, ActivePc, OnStackPc
  <2>3. m_fibers \in Seq(Entry)
    OBVIOUS
  <2> QED BY <2>2, <2>3 DEF TypeOK, FiberState
<1>2. CountersExact
  <2>1. {t \in Threads : pc[t] \in ActivePc} = {} /\ {t \in Threads : pc[t] \in IdlePc} = {}
    BY DEF ActivePc, IdlePc, OnStackPc
  <2> QED BY <2>1, FS_EmptySet DEF CountersExact, CountAt
<1>3. CallerPhase
  BY DEF CallerPhase, Exited, Threads
<1>4. ExecIsOnStack /\ ReadyIsOwned /\ InitIsOwned
  BY DEF ExecIsOnStack, ReadyIsOwned, InitIsOwned
<1>5. StartedIsNotInit /\ FinishedIsDone /\ DrainedAtExit
  BY DEF StartedIsNotInit, FinishedIsDone, Finished, DrainedAtExit, OnStack, OnStackPc
<1> QED BY <1>1, <1>2, <1>3, <1>4, <1>5 DEF IInv

\* Where a thread moves, the counters follow.
Follows(n, P, t, l) ==
    n + (IF l \in P THEN 1 ELSE 0) - (IF pc[t] \in P THEN 1 ELSE 0)

LEMMA CountersMove ==
    ASSUME IInv, NEW t \in Threads, NEW l, pc' = [pc EXCEPT ![t] = l],
           m_activeThreadCount' = Follows(m_activeThreadCount, ActivePc, t, l),
           m_idleThreadCount' = Follows(m_idleThreadCount, IdlePc, t, l)
    PROVE  CountersExact' /\ m_activeThreadCount' \in Nat /\ m_idleThreadCount' \in Nat
<1>1. DOMAIN pc = Threads /\ CountersExact
  BY DEF IInv, TypeOK
<1>2. /\ CountAt(pc', ActivePc) \in Nat
      /\ CountAt(pc', ActivePc) = Follows(CountAt(pc, ActivePc), ActivePc, t, l)
  BY <1>1, CountMoves DEF Follows
<1>3. /\ CountAt(pc', IdlePc) \in Nat
      /\ CountAt(pc', IdlePc) = Follows(CountAt(pc, IdlePc), IdlePc, t, l)
  BY <1>1, CountMoves DEF Follows
<1> QED BY <1>1, <1>2, <1>3 DEF CountersExact

\* No step disturbs the counters.
LEMMA CountersStep ==
    IInv /\ [Next]_vars =>
        CountersExact' /\ m_activeThreadCount' \in Nat /\ m_idleThreadCount' \in Nat
<1> SUFFICES ASSUME IInv, [Next]_vars
             PROVE  CountersExact' /\ m_activeThreadCount' \in Nat /\ m_idleThreadCount' \in Nat
  OBVIOUS
<1>a. m_activeThreadCount \in Nat /\ m_idleThreadCount \in Nat /\ CountersExact
  BY DEF IInv, TypeOK
<1>b. ASSUME \A t \in Threads : pc[t] \notin ActivePc \cup IdlePc,
             \A t \in Threads : pc'[t] \notin ActivePc \cup IdlePc,
             UNCHANGED <<m_activeThreadCount, m_idleThreadCount>>
      PROVE  CountersExact'
  <2>1. /\ {t \in Threads : pc[t] \in ActivePc} = {t \in Threads : pc'[t] \in ActivePc}
        /\ {t \in Threads : pc[t] \in IdlePc} = {t \in Threads : pc'[t] \in IdlePc}
    BY <1>b
  <2> QED BY <2>1, <1>a, <1>b DEF CountersExact, CountAt
<1>1. CASE start
  <2>1. CASE m_stopping
    <3>1. \A t \in Threads : pc[t] = "off"
      BY <1>1, <2>1 DEF start, CallerAt, IInv, CallerPhase
    <3> QED BY <1>1, <2>1, <3>1, <1>a, <1>b DEF start, ActivePc, OnStackPc, IdlePc
  <2>2. CASE ~m_stopping
    BY <1>1, <2>2, <1>a DEF start, CountersExact
  <2> QED BY <2>1, <2>2
<1>2. CASE stop
  BY <1>2, <1>a DEF stop, CountersExact, pool
<1>4. CASE StopCallsRoot
  <2>1. CASE pc' = pc
    BY <1>4, <2>1, <1>a DEF StopCallsRoot, CountersExact
  <2>2. CASE pc' = [pc EXCEPT ![Root] = "top"] /\ Root \in Threads
    <3>1. pc[Root] \in {"off", "done"}
      BY <1>4, <2>2, ThreadsAssumption DEF StopCallsRoot, CallerAt, IInv, CallerPhase, Exited, Threads
    <3>2. /\ Follows(m_activeThreadCount, ActivePc, Root, "top") = m_activeThreadCount
          /\ Follows(m_idleThreadCount, IdlePc, Root, "top") = m_idleThreadCount
      BY <3>1, <1>a DEF Follows, ActivePc, OnStackPc, IdlePc
    <3> QED BY <1>4, <2>2, <3>2, CountersMove DEF StopCallsRoot
  <2>3. CASE pc' = [pc EXCEPT ![Root] = "top"] /\ Root \notin Threads
    <3>1. pc' = pc
      BY <2>3 DEF IInv, TypeOK
    <3> QED BY <3>1, <2>1
  <2>4. pc' = pc \/ pc' = [pc EXCEPT ![Root] = "top"]
    BY <1>4 DEF StopCallsRoot, IInv, TypeOK
  <2> QED BY <2>1, <2>2, <2>3, <2>4
<1>5. CASE RootReturns
  BY <1>5, <1>a DEF RootReturns, CountersExact, pool
<1>6. CASE StopReturns
  <2>1. \A t \in Threads : Exited(t)
    BY <1>6 DEF StopReturns, CallerAt, IInv, CallerPhase, Threads
  <2> QED BY <1>6, <2>1, <1>a, <1>b DEF StopReturns, pool, Exited, ActivePc, OnStackPc, IdlePc
<1>7. CASE \E f \in Fibers : CallerSchedules(f)
  BY <1>7, <1>a DEF CallerSchedules, CountersExact, pool
<1>8. CASE \E t \in Threads : \E f \in Fibers : TaskSchedules(t, f)
  BY <1>8, <1>a DEF TaskSchedules, CountersExact, pool
<1>9. CASE \E t \in Threads : swapIn(t)
  <2>1. PICK t \in Threads : swapIn(t)
    BY <1>9
  <2>2. CASE pc' = pc
    BY <2>1, <2>2, <1>a DEF swapIn, CountersExact, pool
  <2>3. CASE pc' = [pc EXCEPT ![t] = "exec"]
    <3>1. /\ Follows(m_activeThreadCount, ActivePc, t, "exec") = m_activeThreadCount
          /\ Follows(m_idleThreadCount, IdlePc, t, "exec") = m_idleThreadCount
      <4>1. pc[t] = "took"
        BY <2>1 DEF swapIn, At
      <4> QED BY <4>1, <1>a DEF Follows, ActivePc, OnStackPc, IdlePc
    <3> QED BY <2>1, <2>3, <3>1, CountersMove DEF swapIn, pool
  <2> QED BY <2>1, <2>2, <2>3 DEF swapIn, Goto
<1>10. CASE \E t \in Threads : Take(t)
  <2>1. PICK t \in Threads : Take(t)
    BY <1>10
  <2>2. pc' = [pc EXCEPT ![t] = "took"]
    BY <2>1 DEF Take, Goto
  <2>3. /\ m_activeThreadCount' = Follows(m_activeThreadCount, ActivePc, t, "took")
        /\ m_idleThreadCount' = Follows(m_idleThreadCount, IdlePc, t, "took")
    BY <2>1, <1>a DEF Take, At, pool, Follows, ActivePc, OnStackPc, IdlePc
  <2> QED BY <2>2, <2>3, CountersMove
<1>11. CASE \E t \in Threads : DropFinished(t)
  <2>1. PICK t \in Threads : DropFinished(t)
    BY <1>11
  <2>2. pc' = [pc EXCEPT ![t] = "top"]
    BY <2>1 DEF DropFinished, Goto
  <2>3. /\ m_activeThreadCount' = Follows(m_activeThreadCount, ActivePc, t, "top")
        /\ m_idleThreadCount' = Follows(m_idleThreadCount, IdlePc, t, "top")
    BY <2>1, <1>a DEF DropFinished, At, pool, Follows, ActivePc, OnStackPc, IdlePc
  <2> QED BY <2>2, <2>3, CountersMove
<1>12. CASE \E t \in Threads : HandOut(t)
  <2>1. PICK t \in Threads : HandOut(t)
    BY <1>12
  <2>2. pc' = [pc EXCEPT ![t] = "handed"]
    BY <2>1 DEF HandOut, Goto
  <2>3. /\ m_activeThreadCount' = Follows(m_activeThreadCount, ActivePc, t, "handed")
        /\ m_idleThreadCount' = Follows(m_idleThreadCount, IdlePc, t, "handed")
    BY <2>1, <1>a DEF HandOut, At, pool, Follows, ActivePc, OnStackPc, IdlePc
  <2> QED BY <2>2, <2>3, CountersMove
<1>13. CASE \E t \in Threads : YieldToHold(t)
  <2>1. PICK t \in Threads : YieldToHold(t)
    BY <1>13
  <2>2. pc' = [pc EXCEPT ![t] = "swapout"]
    BY <2>1 DEF YieldToHold, Goto
  <2>3. /\ m_activeThreadCount' = Follows(m_activeThreadCount, ActivePc, t, "swapout")
        /\ m_idleThreadCount' = Follows(m_idleThreadCount, IdlePc, t, "swapout")
    BY <2>1, <1>a DEF YieldToHold, At, pool, Follows, ActivePc, OnStackPc, IdlePc
  <2> QED BY <2>2, <2>3, CountersMove
<1>14. CASE \E t \in Threads : YieldToReady(t)
  <2>1. PICK t \in Threads : YieldToReady(t)
    BY <1>14
  <2>2. pc' = [pc EXCEPT ![t] = "swapout"]
    BY <2>1 DEF YieldToReady, Goto
  <2>3. /\ m_activeThreadCount' = Follows(m_activeThreadCount, ActivePc, t, "swapout")
        /\ m_idleThreadCount' = Follows(m_idleThreadCount, IdlePc, t, "swapout")
    BY <2>1, <1>a DEF YieldToReady, At, pool, Follows, ActivePc, OnStackPc, IdlePc
  <2> QED BY <2>2, <2>3, CountersMove
<1>15. CASE \E t \in Threads : MainFunc(t)
  <2>1. PICK t \in Threads : MainFunc(t)
    BY <1>15
  <2>2. pc' = [pc EXCEPT ![t] = "swapout"]
    BY <2>1 DEF MainFunc, Goto
  <2>3. /\ m_activeThreadCount' = Follows(m_activeThreadCount, ActivePc, t, "swapout")
        /\ m_idleThreadCount' = Follows(m_idleThreadCount, IdlePc, t, "swapout")
    BY <2>1, <1>a DEF MainFunc, At, pool, Follows, ActivePc, OnStackPc, IdlePc
  <2> QED BY <2>2, <2>3, CountersMove
<1>16. CASE \E t \in Threads : swapOut(t)
  <2>1. PICK t \in Threads : swapOut(t)
    BY <1>16
  <2>2. pc' = [pc EXCEPT ![t] = "back"]
    BY <2>1 DEF swapOut, Goto
  <2>3. /\ m_activeThreadCount' = Follows(m_activeThreadCount, ActivePc, t, "back")
        /\ m_idleThreadCount' = Follows(m_idleThreadCount, IdlePc, t, "back")
    BY <2>1, <1>a DEF swapOut, At, pool, Follows, ActivePc, OnStackPc, IdlePc
  <2> QED BY <2>2, <2>3, CountersMove
<1>17. CASE \E t \in Threads : Deactivate(t)
  <2>1. PICK t \in Threads : Deactivate(t)
    BY <1>17
  <2>2. pc' = [pc EXCEPT ![t] = "post"]
    BY <2>1 DEF Deactivate, Goto
  <2>3. /\ m_activeThreadCount' = Follows(m_activeThreadCount, ActivePc, t, "post")
        /\ m_idleThreadCount' = Follows(m_idleThreadCount, IdlePc, t, "post")
    BY <2>1, <1>a DEF Deactivate, At, pool, Follows, ActivePc, OnStackPc, IdlePc
  <2> QED BY <2>2, <2>3, CountersMove
<1>18. CASE \E t \in Threads : Requeue(t)
  <2>1. PICK t \in Threads : Requeue(t)
    BY <1>18
  <2>2. pc' = [pc EXCEPT ![t] = "top"]
    BY <2>1 DEF Requeue, Goto
  <2>3. /\ m_activeThreadCount' = Follows(m_activeThreadCount, ActivePc, t, "top")
        /\ m_idleThreadCount' = Follows(m_idleThreadCount, IdlePc, t, "top")
    BY <2>1, <1>a DEF Requeue, At, pool, Follows, ActivePc, OnStackPc, IdlePc
  <2> QED BY <2>2, <2>3, CountersMove
<1>19. CASE \E t \in Threads : Discard(t)
  <2>1. PICK t \in Threads : Discard(t)
    BY <1>19
  <2>2. pc' = [pc EXCEPT ![t] = "top"]
    BY <2>1 DEF Discard, Goto
  <2>3. /\ m_activeThreadCount' = Follows(m_activeThreadCount, ActivePc, t, "top")
        /\ m_idleThreadCount' = Follows(m_idleThreadCount, IdlePc, t, "top")
    BY <2>1, <1>a DEF Discard, At, pool, Follows, ActivePc, OnStackPc, IdlePc
  <2> QED BY <2>2, <2>3, CountersMove
<1>20. CASE \E t \in Threads : SeesHold(t)
  <2>1. PICK t \in Threads : SeesHold(t)
    BY <1>20
  <2>2. pc' = [pc EXCEPT ![t] = "sethold"]
    BY <2>1 DEF SeesHold, Goto
  <2>3. /\ m_activeThreadCount' = Follows(m_activeThreadCount, ActivePc, t, "sethold")
        /\ m_idleThreadCount' = Follows(m_idleThreadCount, IdlePc, t, "sethold")
    BY <2>1, <1>a DEF SeesHold, At, pool, Follows, ActivePc, OnStackPc, IdlePc
  <2> QED BY <2>2, <2>3, CountersMove
<1>21. CASE \E t \in Threads : SetHold(t)
  <2>1. PICK t \in Threads : SetHold(t)
    BY <1>21
  <2>2. pc' = [pc EXCEPT ![t] = "top"]
    BY <2>1 DEF SetHold, Goto
  <2>3. /\ m_activeThreadCount' = Follows(m_activeThreadCount, ActivePc, t, "top")
        /\ m_idleThreadCount' = Follows(m_idleThreadCount, IdlePc, t, "top")
    BY <2>1, <1>a DEF SetHold, At, pool, Follows, ActivePc, OnStackPc, IdlePc
  <2> QED BY <2>2, <2>3, CountersMove
<1>22. CASE \E t \in Threads : EnterIdle(t)
  <2>1. PICK t \in Threads : EnterIdle(t)
    BY <1>22
  <2>2. pc' = [pc EXCEPT ![t] = "idle"]
    BY <2>1 DEF EnterIdle, Goto
  <2>3. /\ m_activeThreadCount' = Follows(m_activeThreadCount, ActivePc, t, "idle")
        /\ m_idleThreadCount' = Follows(m_idleThreadCount, IdlePc, t, "idle")
    BY <2>1, <1>a DEF EnterIdle, At, pool, Follows, ActivePc, OnStackPc, IdlePc
  <2> QED BY <2>2, <2>3, CountersMove
<1>23. CASE \E t \in Threads : idle(t)
  <2>1. PICK t \in Threads : idle(t)
    BY <1>23
  <2>2. pc' = [pc EXCEPT ![t] = "idleout"]
    BY <2>1 DEF idle, Goto
  <2>3. /\ m_activeThreadCount' = Follows(m_activeThreadCount, ActivePc, t, "idleout")
        /\ m_idleThreadCount' = Follows(m_idleThreadCount, IdlePc, t, "idleout")
    BY <2>1, <1>a DEF idle, At, pool, Follows, ActivePc, OnStackPc, IdlePc
  <2> QED BY <2>2, <2>3, CountersMove
<1>24. CASE \E t \in Threads : LeaveIdle(t)
  <2>1. PICK t \in Threads : LeaveIdle(t)
    BY <1>24
  <2>2. pc' = [pc EXCEPT ![t] = "top"]
    BY <2>1 DEF LeaveIdle, Goto
  <2>3. /\ m_activeThreadCount' = Follows(m_activeThreadCount, ActivePc, t, "top")
        /\ m_idleThreadCount' = Follows(m_idleThreadCount, IdlePc, t, "top")
    BY <2>1, <1>a DEF LeaveIdle, At, pool, Follows, ActivePc, OnStackPc, IdlePc
  <2> QED BY <2>2, <2>3, CountersMove
<1>25. CASE \E t \in Threads : Exit(t)
  <2>1. PICK t \in Threads : Exit(t)
    BY <1>25
  <2>2. pc' = [pc EXCEPT ![t] = "done"]
    BY <2>1 DEF Exit, Goto
  <2>3. /\ m_activeThreadCount' = Follows(m_activeThreadCount, ActivePc, t, "done")
        /\ m_idleThreadCount' = Follows(m_idleThreadCount, IdlePc, t, "done")
    BY <2>1, <1>a DEF Exit, At, pool, Follows, ActivePc, OnStackPc, IdlePc
  <2> QED BY <2>2, <2>3, CountersMove
<1>26. CASE \E f \in Fibers : Wake(f)
  BY <1>26, <1>a DEF Wake, CountersExact, pool
<1>27. CASE Quiet \/ UNCHANGED vars
  BY <1>27, <1>a DEF Quiet, CountersExact, vars, pool
<1> QED BY <1>1, <1>2, <1>4, <1>5, <1>6, <1>7, <1>8, <1>9, <1>10, <1>11, <1>12, <1>13, <1>14, <1>15, <1>16, <1>17, <1>18, <1>19, <1>20, <1>21, <1>22, <1>23, <1>24, <1>25, <1>26, <1>27 DEF Next, UserStep, CallerStep, ThreadStep

\* No step disturbs the types.
LEMMA TypeStep == IInv /\ [Next]_vars => TypeOK'
<1> SUFFICES ASSUME IInv, [Next]_vars PROVE TypeOK'
  OBVIOUS
<1>1. CASE start
  <2> DEFINE PhaseGoal ==
        /\ \A t \in Threads : pc'[t] \in TaskPc <=> cur'[t] \in Fibers
        /\ pc' \in [Threads -> {"off", "top", "done"} \cup TaskPc \cup IdlePc]
        /\ idleTerm' \in [Threads -> BOOLEAN]
  <2>1. ASSUME m_stopping
        PROVE  PhaseGoal
    <3>1. \A t \in Threads : pc[t] = "off"
      BY <1>1, <2>1 DEF start, CallerAt, IInv, CallerPhase
    <3>2. \A t \in Threads : pc'[t] \in {"off", "top"} /\ cur'[t] = cur[t]
      BY <1>1, <2>1, <3>1 DEF start
    <3>3. \A t \in Threads : pc'[t] \in TaskPc <=> cur'[t] \in Fibers
      BY <3>1, <3>2 DEF IInv, TypeOK, TaskPc, ActivePc, OnStackPc
    <3>4. /\ pc' \in [Threads -> {"off", "top", "done"} \cup TaskPc \cup IdlePc]
          /\ idleTerm' \in [Threads -> BOOLEAN]
      BY <1>1, <2>1 DEF start, IInv, TypeOK
    <3> QED BY <3>3, <3>4
  <2>2. ASSUME ~m_stopping
        PROVE  PhaseGoal
    <3>1. pc' = pc /\ idleTerm' = idleTerm /\ cur' = cur
      BY <1>1, <2>2 DEF start
    <3> QED BY <3>1 DEF IInv, TypeOK
  <2>3. m_stopping' \in BOOLEAN /\ starts' \in Nat
    <3>1. m_stopping' = FALSE /\ starts' = starts + 1 /\ starts \in Nat
      BY <1>1 DEF start, IInv, TypeOK
    <3>2. m_stopping' \in BOOLEAN
      BY <3>1, Zenon
    <3>3. starts' \in Nat
      BY <3>1
    <3> QED BY <3>2, <3>3
  <2>4. UNCHANGED <<m_fibers, m_state, cur, abort, m_activeThreadCount, m_idleThreadCount,
                    m_autoStop, rootState, caller, stops, armed, done, submits, yields, holds>>
    BY <1>1 DEF start, tasks
  <2>5. /\ \A t \in Threads : pc'[t] \in TaskPc <=> cur'[t] \in Fibers
        /\ pc' \in [Threads -> {"off", "top", "done"} \cup TaskPc \cup IdlePc]
        /\ idleTerm' \in [Threads -> BOOLEAN]
    BY <2>1, <2>2
  <2> QED BY <2>3, <2>4, <2>5 DEF IInv, TypeOK
<1>2. CASE stop
  BY <1>2 DEF stop, CallerAt, IInv, TypeOK, FiberState, Finished, TaskPc, ActivePc, OnStackPc, IdlePc, Entry, vars, pool, flags, tasks
<1>4. CASE StopCallsRoot
  <2>1. Root \in Threads => pc[Root] \notin TaskPc
    BY <1>4, ThreadsAssumption DEF StopCallsRoot, CallerAt, IInv, CallerPhase, Exited, Threads, TaskPc, ActivePc, OnStackPc
  <2>2. \A t \in Threads : pc'[t] \in TaskPc <=> cur'[t] \in Fibers
    BY <1>4, <2>1 DEF StopCallsRoot, IInv, TypeOK, TaskPc, ActivePc, OnStackPc
  <2>3. idleTerm' \in [Threads -> BOOLEAN] /\ pc' \in [Threads -> {"off", "top", "done"} \cup TaskPc \cup IdlePc]
    BY <1>4 DEF StopCallsRoot, IInv, TypeOK
  <2> QED BY <1>4, <2>2, <2>3 DEF StopCallsRoot, IInv, TypeOK, tasks
<1>5. CASE RootReturns
  BY <1>5 DEF RootReturns, CallerAt, IInv, TypeOK, FiberState, Finished, TaskPc, ActivePc, OnStackPc, IdlePc, Entry, vars, pool, flags, tasks
<1>6. CASE StopReturns
  <2>1. \A t \in Threads : Exited(t)
    BY <1>6 DEF StopReturns, CallerAt, IInv, CallerPhase, Threads
  <2>2. \A t \in Threads : pc'[t] \in TaskPc <=> cur'[t] \in Fibers
    BY <1>6, <2>1 DEF StopReturns, IInv, TypeOK, TaskPc, ActivePc, OnStackPc, Exited
  <2> QED BY <1>6, <2>2 DEF StopReturns, IInv, TypeOK, pool, tasks
<1>7. CASE \E f \in Fibers : CallerSchedules(f)
  <2>1. PICK f \in Fibers : /\ submits' = [submits EXCEPT ![f] = @ + 1]
                            /\ m_fibers' = Append(m_fibers, [fiber |-> f, thread |-> Pin[f]])
    BY <1>7 DEF CallerSchedules, Submit, scheduleNoLock, FiberAndThread
  <2>2. m_fibers' \in Seq(Entry) /\ submits' \in [Fibers -> Nat]
    <3>1. [fiber |-> f, thread |-> Pin[f]] \in Entry
      BY TasksAssumption DEF Entry
    <3>2. m_fibers \in Seq(Entry) /\ submits \in [Fibers -> Nat]
      BY DEF IInv, TypeOK
    <3> QED BY <2>1, <3>1, <3>2, AppendFacts
  <2>3. UNCHANGED <<m_state, pc, cur, abort, pool, flags, armed, done, yields, holds>>
    BY <1>7 DEF CallerSchedules
  <2> QED BY <2>2, <2>3 DEF IInv, TypeOK, pool, flags
<1>8. CASE \E t \in Threads : \E f \in Fibers : TaskSchedules(t, f)
  <2>1. PICK f \in Fibers : /\ submits' = [submits EXCEPT ![f] = @ + 1]
                            /\ m_fibers' = Append(m_fibers, [fiber |-> f, thread |-> Pin[f]])
    BY <1>8 DEF TaskSchedules, Submit, scheduleNoLock, FiberAndThread
  <2>2. m_fibers' \in Seq(Entry) /\ submits' \in [Fibers -> Nat]
    <3>1. [fiber |-> f, thread |-> Pin[f]] \in Entry
      BY TasksAssumption DEF Entry
    <3>2. m_fibers \in Seq(Entry) /\ submits \in [Fibers -> Nat]
      BY DEF IInv, TypeOK
    <3> QED BY <2>1, <3>1, <3>2, AppendFacts
  <2>3. UNCHANGED <<m_state, pc, cur, abort, pool, flags, armed, done, yields, holds>>
    BY <1>8 DEF TaskSchedules
  <2> QED BY <2>2, <2>3 DEF IInv, TypeOK, pool, flags
<1>9. CASE \E t \in Threads : Take(t)
  <2>1. PICK t \in Threads : Take(t)
    BY <1>9
  <2>2. PICK i \in DOMAIN m_fibers : /\ cur' = [cur EXCEPT ![t] = m_fibers[i].fiber]
                                     /\ m_fibers' = RemoveAt(m_fibers, i)
    BY <2>1 DEF Take, Takeable
  <2>3. m_fibers' \in Seq(Entry) /\ m_fibers[i].fiber \in Fibers
    <3>1. m_fibers \in Seq(Entry)
      BY DEF IInv, TypeOK
    <3>2. m_fibers[i] \in Entry
      BY <3>1
    <3> QED BY <2>2, <3>1, <3>2, RemoveAtFacts DEF Entry
  <2>4. \A u \in Threads : pc'[u] \in TaskPc <=> cur'[u] \in Fibers
    BY <2>1, <2>2, <2>3 DEF Take, Goto, IInv, TypeOK, TaskPc, ActivePc
  <2>5. /\ cur' \in [Threads -> Fibers \cup {NoFiber}]
        /\ pc' \in [Threads -> {"off", "top", "done"} \cup TaskPc \cup IdlePc]
    BY <2>1, <2>2, <2>3 DEF Take, Goto, IInv, TypeOK, TaskPc, ActivePc
  <2>6. m_activeThreadCount' \in Nat
    <3>1. m_activeThreadCount' = m_activeThreadCount + 1
      BY <2>1 DEF Take
    <3>2. m_activeThreadCount \in Nat
      BY DEF IInv, TypeOK
    <3> QED BY <3>1, <3>2
  <2>7. UNCHANGED <<m_state, abort, m_idleThreadCount, idleTerm, flags, tasks>>
    BY <2>1 DEF Take
  <2> QED BY <2>3, <2>4, <2>5, <2>6, <2>7 DEF IInv, TypeOK, flags, tasks
<1>10. CASE \E t \in Threads : DropFinished(t)
  <2>1. PICK t \in Threads : DropFinished(t)
    BY <1>10
  <2>2. m_activeThreadCount' \in Nat
    BY <2>1, CountersStep DEF CountersExact
  <2> QED BY <2>1, <2>2, TasksAssumption DEF DropFinished, At, Goto, IInv, TypeOK, TaskPc, ActivePc, OnStackPc, IdlePc, flags, tasks
<1>11. CASE \E t \in Threads : swapIn(t)
  <2>1. PICK t \in Threads : swapIn(t)
    BY <1>11
  <2>2. \A u \in Threads : pc'[u] \in TaskPc <=> cur'[u] \in Fibers
    BY <2>1 DEF swapIn, At, Goto, IInv, TypeOK, TaskPc, ActivePc, OnStackPc
  <2>3. /\ m_state' \in [Fibers -> FiberState]
        /\ pc' \in [Threads -> {"off", "top", "done"} \cup TaskPc \cup IdlePc]
    BY <2>1 DEF swapIn, At, Goto, IInv, TypeOK, FiberState, TaskPc, ActivePc, OnStackPc
  <2>4. abort' \in {"none", "never reach", "swapIn of EXEC", "stack in use"}
    BY <2>1 DEF swapIn
  <2> QED BY <2>1, <2>2, <2>3, <2>4 DEF swapIn, IInv, TypeOK, pool, flags, tasks
<1>12. CASE \E t \in Threads : HandOut(t)
  BY <1>12 DEF HandOut, At, Goto, IInv, TypeOK, FiberState, Finished, TaskPc, ActivePc, OnStackPc, IdlePc, Entry, vars, pool, flags, tasks
<1>13. CASE \E t \in Threads : YieldToHold(t)
  BY <1>13 DEF YieldToHold, At, Goto, IInv, TypeOK, FiberState, Finished, TaskPc, ActivePc, OnStackPc, IdlePc, Entry, vars, pool, flags, tasks
<1>14. CASE \E t \in Threads : YieldToReady(t)
  BY <1>14 DEF YieldToReady, At, Goto, IInv, TypeOK, FiberState, Finished, TaskPc, ActivePc, OnStackPc, IdlePc, Entry, vars, pool, flags, tasks
<1>15. CASE \E t \in Threads : MainFunc(t)
  BY <1>15 DEF MainFunc, At, Goto, IInv, TypeOK, FiberState, Finished, TaskPc, ActivePc, OnStackPc, IdlePc, Entry, vars, pool, flags, tasks
<1>16. CASE \E t \in Threads : swapOut(t)
  BY <1>16 DEF swapOut, At, Goto, IInv, TypeOK, FiberState, Finished, TaskPc, ActivePc, OnStackPc, IdlePc, Entry, vars, pool, flags, tasks
<1>17. CASE \E t \in Threads : Deactivate(t)
  <2>1. PICK t \in Threads : Deactivate(t)
    BY <1>17
  <2>2. m_activeThreadCount' \in Nat
    BY <2>1, CountersStep DEF CountersExact
  <2> QED BY <2>1, <2>2 DEF Deactivate, At, Goto, IInv, TypeOK, TaskPc, ActivePc, OnStackPc, IdlePc, flags, tasks
<1>18. CASE \E t \in Threads : Requeue(t)
  <2>1. PICK t \in Threads : Requeue(t)
    BY <1>18
  <2>2. cur[t] \in Fibers
    BY <2>1 DEF Requeue, At, IInv, TypeOK, TaskPc
  <2>3. m_fibers' \in Seq(Entry)
    <3>1. [fiber |-> cur[t], thread |-> AnyThread] \in Entry
      BY <2>2 DEF Entry
    <3> QED BY <2>1, <3>1, AppendFacts DEF Requeue, scheduleNoLock, FiberAndThread, IInv, TypeOK
  <2>4. /\ \A u \in Threads : pc'[u] \in TaskPc <=> cur'[u] \in Fibers
        /\ pc' \in [Threads -> {"off", "top", "done"} \cup TaskPc \cup IdlePc]
        /\ cur' \in [Threads -> Fibers \cup {NoFiber}]
    BY <2>1, TasksAssumption DEF Requeue, Goto, IInv, TypeOK, TaskPc, ActivePc, OnStackPc
  <2> QED BY <2>1, <2>3, <2>4 DEF Requeue, IInv, TypeOK, pool, flags, tasks
<1>19. CASE \E t \in Threads : Discard(t)
  BY <1>19, TasksAssumption DEF Discard, At, Goto, IInv, TypeOK, FiberState, TaskPc, ActivePc, OnStackPc,
     IdlePc, pool, flags, tasks
<1>20. CASE \E t \in Threads : SeesHold(t)
  BY <1>20 DEF SeesHold, At, Goto, IInv, TypeOK, FiberState, Finished, TaskPc, ActivePc, OnStackPc, IdlePc, Entry, vars, pool, flags, tasks
<1>21. CASE \E t \in Threads : SetHold(t)
  BY <1>21, TasksAssumption DEF SetHold, At, Goto, IInv, TypeOK, FiberState, TaskPc, ActivePc, OnStackPc,
     IdlePc, pool, flags, tasks
<1>22. CASE \E t \in Threads : EnterIdle(t)
  BY <1>22 DEF EnterIdle, At, Goto, Takeable, IInv, TypeOK, FiberState, Finished, TaskPc, ActivePc, OnStackPc, IdlePc, Entry, vars, pool, flags, tasks
<1>23. CASE \E t \in Threads : idle(t)
  <2>1. Stopping \in BOOLEAN
    BY DEF Stopping
  <2> QED BY <1>23, <2>1 DEF idle, At, Goto, IInv, TypeOK, TaskPc, ActivePc, OnStackPc, IdlePc, flags, tasks
<1>24. CASE \E t \in Threads : LeaveIdle(t)
  <2>1. PICK t \in Threads : LeaveIdle(t)
    BY <1>24
  <2>2. m_idleThreadCount' \in Nat
    BY <2>1, CountersStep DEF CountersExact
  <2> QED BY <2>1, <2>2 DEF LeaveIdle, At, Goto, IInv, TypeOK, TaskPc, ActivePc, OnStackPc, IdlePc, flags, tasks
<1>25. CASE \E t \in Threads : Exit(t)
  BY <1>25 DEF Exit, At, Goto, Takeable, IInv, TypeOK, FiberState, Finished, TaskPc, ActivePc, OnStackPc, IdlePc, Entry, vars, pool, flags, tasks
<1>26. CASE \E f \in Fibers : Wake(f)
  BY <1>26 DEF Wake, scheduleNoLock, FiberAndThread, IInv, TypeOK, FiberState, Finished, TaskPc, ActivePc, OnStackPc, IdlePc, Entry, vars, pool, flags, tasks
<1>27. CASE Quiet \/ UNCHANGED vars
  BY <1>27 DEF Quiet, IInv, TypeOK, FiberState, Finished, TaskPc, ActivePc, OnStackPc, IdlePc, Entry, vars, pool, flags, tasks
<1> QED BY <1>1, <1>2, <1>4, <1>5, <1>6, <1>7, <1>8, <1>9, <1>10, <1>11, <1>12, <1>13, <1>14, <1>15, <1>16, <1>17, <1>18, <1>19, <1>20, <1>21, <1>22, <1>23, <1>24, <1>25, <1>26, <1>27 DEF Next, UserStep, CallerStep, ThreadStep

\* No step disturbs the phases of the constructing thread.
LEMMA CallerPhaseStep == IInv /\ [Next]_vars => CallerPhase'
<1> SUFFICES ASSUME IInv, [Next]_vars PROVE CallerPhase'
  OBVIOUS
<1>1. CASE start
  <2>1. caller = "user" /\ caller' = "user" /\ ~m_stopping'
    BY <1>1 DEF start, CallerAt
  <2>2. UseCaller => Root \in Threads /\ Root \notin Workers
    BY ThreadsAssumption DEF Threads
  <2>3. \A t \in Threads : t \notin Workers => pc'[t] = pc[t]
    BY <1>1 DEF start, IInv, TypeOK
  <2>4. ASSUME UseCaller PROVE pc'[Root] = "off"
    <3>1. ~Exited(Root) => caller = "inroot"
      BY <2>4 DEF IInv, CallerPhase
    <3>2. pc[Root] # "done"
      BY <2>1, <2>2, <2>4 DEF IInv, CallerPhase
    <3>3. pc[Root] = "off"
      BY <2>1, <3>1, <3>2 DEF Exited
    <3> QED BY <2>2, <2>3, <2>4, <3>3
  <2>5. /\ caller' # "user" => m_stopping'
        /\ caller' = "user" /\ m_stopping' => \A t \in Threads : pc'[t] = "off"
    BY <2>1
  <2>6. \A t \in Threads : pc'[t] # "done" /\ (pc'[t] # "off" => ~idleTerm'[t])
    BY <1>1, <2>1 DEF start, IInv, CallerPhase, TypeOK
  <2>7. UseCaller => /\ ~Exited(Root)' => caller' = "inroot"
                     /\ pc'[Root] = "done" => caller' \in {"inroot", "join"}
    BY <2>4 DEF Exited
  <2> QED BY <2>5, <2>6, <2>7 DEF CallerPhase
<1>2. CASE stop
  <2>1. /\ caller = "user" /\ caller' # "user" /\ m_stopping'
        /\ pc' = pc /\ idleTerm' = idleTerm
    BY <1>2 DEF stop, CallerAt, pool
  <2>2. UseCaller => Root \in Threads /\ pc[Root] = "off"
    BY <2>1 DEF IInv, CallerPhase, Exited, Threads
  <2> QED BY <2>1, <2>2 DEF CallerPhase, Exited
<1>4. CASE StopCallsRoot
  BY <1>4 DEF StopCallsRoot, CallerAt, IInv, CallerPhase, Exited, Stopping, TypeOK, vars, pool, flags, tasks
<1>5. CASE RootReturns
  BY <1>5 DEF RootReturns, CallerAt, IInv, CallerPhase, Exited, Stopping, TypeOK, vars, pool, flags, tasks
<1>6. CASE StopReturns
  <2>1. caller' = "user" /\ \A t \in Threads : pc'[t] = "off"
    BY <1>6 DEF StopReturns
  <2>2. UseCaller => Root \in Threads
    BY DEF Threads
  <2> QED BY <2>1, <2>2 DEF CallerPhase, Exited
<1>7. CASE \E f \in Fibers : CallerSchedules(f)
  BY <1>7 DEF CallerSchedules, Submit, scheduleNoLock, FiberAndThread, CallerAt, IInv, CallerPhase, Exited, Stopping, TypeOK, vars, pool, flags, tasks
<1>8. CASE \E t \in Threads : \E f \in Fibers : TaskSchedules(t, f)
  BY <1>8 DEF TaskSchedules, Submit, scheduleNoLock, FiberAndThread, At, IInv, CallerPhase, Exited, Stopping, TypeOK, vars, pool, flags, tasks
<1>9. CASE \E t \in Threads : Take(t)
  <2>1. PICK t \in Threads : pc[t] = "top" /\ pc' = [pc EXCEPT ![t] = "took"]
    BY <1>9 DEF Take, At, Goto
  <2>2. UNCHANGED <<caller, m_stopping, idleTerm>>
    BY <1>9 DEF Take, flags
  <2>3. \A u \in Threads : pc[u] # pc'[u] => pc[u] \in {"top", "took"} /\ pc'[u] \in {"took", "exec"}
    BY <2>1 DEF IInv, TypeOK
  <2>4. UseCaller => Root \in Threads
    BY DEF Threads
  <2> QED BY <2>2, <2>3, <2>4 DEF IInv, CallerPhase, Exited
<1>10. CASE \E t \in Threads : DropFinished(t)
  BY <1>10 DEF DropFinished, At, Goto, IInv, CallerPhase, Exited, Stopping, TypeOK, vars, pool, flags, tasks
<1>11. CASE \E t \in Threads : swapIn(t)
  <2>1. PICK t \in Threads : pc[t] = "took" /\ (pc' = pc \/ pc' = [pc EXCEPT ![t] = "exec"])
    BY <1>11 DEF swapIn, At, Goto
  <2>2. UNCHANGED <<caller, m_stopping, idleTerm>>
    BY <1>11 DEF swapIn, flags, pool
  <2>3. \A u \in Threads : pc[u] # pc'[u] => pc[u] \in {"top", "took"} /\ pc'[u] \in {"took", "exec"}
    BY <2>1 DEF IInv, TypeOK
  <2>4. UseCaller => Root \in Threads
    BY DEF Threads
  <2> QED BY <2>2, <2>3, <2>4 DEF IInv, CallerPhase, Exited
<1>12. CASE \E t \in Threads : HandOut(t)
  BY <1>12 DEF HandOut, At, Goto, IInv, CallerPhase, Exited, Stopping, TypeOK, vars, pool, flags, tasks
<1>13. CASE \E t \in Threads : YieldToHold(t)
  BY <1>13 DEF YieldToHold, At, Goto, IInv, CallerPhase, Exited, Stopping, TypeOK, vars, pool, flags, tasks
<1>14. CASE \E t \in Threads : YieldToReady(t)
  BY <1>14 DEF YieldToReady, At, Goto, IInv, CallerPhase, Exited, Stopping, TypeOK, vars, pool, flags, tasks
<1>15. CASE \E t \in Threads : MainFunc(t)
  BY <1>15 DEF MainFunc, At, Goto, IInv, CallerPhase, Exited, Stopping, TypeOK, vars, pool, flags, tasks
<1>16. CASE \E t \in Threads : swapOut(t)
  BY <1>16 DEF swapOut, At, Goto, IInv, CallerPhase, Exited, Stopping, TypeOK, vars, pool, flags, tasks
<1>17. CASE \E t \in Threads : Deactivate(t)
  BY <1>17 DEF Deactivate, At, Goto, IInv, CallerPhase, Exited, Stopping, TypeOK, vars, pool, flags, tasks
<1>18. CASE \E t \in Threads : Requeue(t)
  BY <1>18 DEF Requeue, At, Goto, scheduleNoLock, FiberAndThread, IInv, CallerPhase, Exited, Stopping, TypeOK, vars, pool, flags, tasks
<1>19. CASE \E t \in Threads : Discard(t)
  BY <1>19 DEF Discard, At, Goto, IInv, CallerPhase, Exited, Stopping, TypeOK, vars, pool, flags, tasks
<1>20. CASE \E t \in Threads : SeesHold(t)
  BY <1>20 DEF SeesHold, At, Goto, IInv, CallerPhase, Exited, Stopping, TypeOK, vars, pool, flags, tasks
<1>21. CASE \E t \in Threads : SetHold(t)
  BY <1>21 DEF SetHold, At, Goto, IInv, CallerPhase, Exited, Stopping, TypeOK, vars, pool, flags, tasks
<1>22. CASE \E t \in Threads : EnterIdle(t)
  BY <1>22 DEF EnterIdle, At, Goto, Takeable, IInv, CallerPhase, Exited, Stopping, TypeOK, vars, pool, flags, tasks
<1>23. CASE \E t \in Threads : idle(t)
  BY <1>23 DEF idle, At, Goto, IInv, CallerPhase, Exited, Stopping, TypeOK, vars, pool, flags, tasks
<1>24. CASE \E t \in Threads : LeaveIdle(t)
  BY <1>24 DEF LeaveIdle, At, Goto, IInv, CallerPhase, Exited, Stopping, TypeOK, vars, pool, flags, tasks
<1>25. CASE \E t \in Threads : Exit(t)
  BY <1>25 DEF Exit, At, Goto, Takeable, IInv, CallerPhase, Exited, Stopping, TypeOK, vars, pool, flags, tasks
<1>26. CASE \E f \in Fibers : Wake(f)
  BY <1>26 DEF Wake, scheduleNoLock, FiberAndThread, IInv, CallerPhase, Exited, Stopping, TypeOK, vars, pool, flags, tasks
<1>27. CASE Quiet \/ UNCHANGED vars
  <2>1. UNCHANGED <<caller, m_stopping, idleTerm, pc>>
    BY <1>27 DEF Quiet, vars, flags, pool
  <2> QED BY <2>1 DEF IInv, CallerPhase, Exited
<1> QED BY <1>1, <1>2, <1>4, <1>5, <1>6, <1>7, <1>8, <1>9, <1>10, <1>11, <1>12, <1>13, <1>14, <1>15, <1>16, <1>17, <1>18, <1>19, <1>20, <1>21, <1>22, <1>23, <1>24, <1>25, <1>26, <1>27 DEF Next, UserStep, CallerStep, ThreadStep

-----------------------------------------------------------------------------
(* The tasks. *)

\* schedule() adds one entry to the list and keeps the others.
LEMMA QueueAppend ==
    ASSUME IInv, NEW g \in Fibers, NEW x \in Threads \cup {AnyThread}, scheduleNoLock(g, x)
    PROVE  /\ InQueue(g, x)'
           /\ \A f \in Fibers, thr \in Threads \cup {AnyThread} :
                 /\ InQueue(f, thr) => InQueue(f, thr)'
                 /\ InQueue(f, thr)' => InQueue(f, thr) \/ (f = g /\ thr = x)
<1> DEFINE e == FiberAndThread(g, x)
<1>1. m_fibers \in Seq(Entry) /\ m_fibers' = Append(m_fibers, e)
  BY DEF IInv, TypeOK, scheduleNoLock
<1>2. e \in Entry
  BY DEF Entry, FiberAndThread
<1>3. /\ \A j \in DOMAIN m_fibers' :
            m_fibers'[j] = e \/ \E k \in DOMAIN m_fibers : m_fibers'[j] = m_fibers[k]
      /\ \A k \in DOMAIN m_fibers : \E j \in DOMAIN m_fibers' : m_fibers'[j] = m_fibers[k]
      /\ \E j \in DOMAIN m_fibers' : m_fibers'[j] = e
  BY <1>1, <1>2, AppendFacts
<1>4. \A f \in Fibers, thr \in Threads \cup {AnyThread} :
         FiberAndThread(f, thr) = e <=> f = g /\ thr = x
  BY DEF FiberAndThread
<1> HIDE DEF e
<1> QED BY <1>3, <1>4 DEF InQueue, e

\* Taking a task out of the list keeps the entries of the other tasks.
LEMMA QueueTake ==
    ASSUME IInv, NEW t \in Threads, Take(t)
    PROVE  \A f \in Fibers, thr \in Threads \cup {AnyThread} :
              /\ InQueue(f, thr) => InQueue(f, thr)' \/ cur'[t] = f
              /\ InQueue(f, thr)' => InQueue(f, thr)
<1>1. PICK i \in DOMAIN m_fibers : /\ cur' = [cur EXCEPT ![t] = m_fibers[i].fiber]
                                   /\ m_fibers' = RemoveAt(m_fibers, i)
  BY DEF Take, Takeable
<1>2. m_fibers \in Seq(Entry) /\ cur'[t] = m_fibers[i].fiber
  BY <1>1 DEF IInv, TypeOK
<1>3. /\ \A j \in DOMAIN m_fibers' : \E k \in DOMAIN m_fibers : m_fibers'[j] = m_fibers[k]
      /\ \A k \in DOMAIN m_fibers : k # i =>
            \E j \in DOMAIN m_fibers' : m_fibers'[j] = m_fibers[k]
  BY <1>1, <1>2, RemoveAtFacts
<1> SUFFICES ASSUME NEW f \in Fibers, NEW thr \in Threads \cup {AnyThread}
             PROVE  /\ InQueue(f, thr) => InQueue(f, thr)' \/ cur'[t] = f
                    /\ InQueue(f, thr)' => InQueue(f, thr)
  OBVIOUS
<1>4. m_fibers[i] = FiberAndThread(f, thr) => cur'[t] = f
  BY <1>2 DEF FiberAndThread
<1> QED BY <1>3, <1>4 DEF InQueue

\* swapIn either marks the task EXEC and goes on its stack, or aborts in place.
LEMMA SwapInFacts ==
    ASSUME NEW t \in Threads, swapIn(t)
    PROVE  /\ UNCHANGED <<m_fibers, cur, armed, submits, done>> /\ pc[t] = "took"
           /\ \/ UNCHANGED <<m_state, pc>>
              \/ /\ m_state' = [m_state EXCEPT ![cur[t]] = "EXEC"]
                 /\ pc' = [pc EXCEPT ![t] = "exec"]
BY DEF swapIn, At, Goto, tasks

\* When stop() is about to call the root fiber, no one runs it.
LEMMA RootIsOut == IInv /\ StopCallsRoot /\ Root \in Threads => pc[Root] \in {"off", "done"}
BY ThreadsAssumption DEF StopCallsRoot, CallerAt, IInv, CallerPhase, Exited, Threads

\* When stop() has joined the workers, the root fiber has returned too.
LEMMA AllExitedAtJoin == IInv /\ StopReturns => \A t \in Threads : Exited(t)
BY DEF StopReturns, CallerAt, IInv, CallerPhase, Threads

\* A task leaves state EXEC before its thread leaves its stack.
LEMMA ExecStep == IInv /\ [Next]_vars => ExecIsOnStack'
<1> SUFFICES ASSUME IInv, [Next]_vars PROVE ExecIsOnStack'
  OBVIOUS
<1>a. /\ pc \in [Threads -> {"off", "top", "done"} \cup TaskPc \cup IdlePc]
      /\ cur \in [Threads -> Fibers \cup {NoFiber}]
      /\ m_state \in [Fibers -> FiberState]
      /\ \A t \in Threads : pc[t] \in TaskPc <=> cur[t] \in Fibers
      /\ ExecIsOnStack
  BY DEF IInv, TypeOK
<1>1. CASE start
  <2>1. \A t \in Threads : pc[t] \in TaskPc => pc'[t] = pc[t]
    BY <1>1, <1>a DEF start, CallerAt, IInv, CallerPhase, TaskPc, ActivePc, OnStackPc
  <2>2. UNCHANGED <<m_fibers, m_state, cur, submits, armed, done>>
    BY <1>1 DEF start, tasks
  <2> QED BY <1>a, <2>1, <2>2 DEF ExecIsOnStack, TaskPc, ActivePc, OnStackPc
<1>2. CASE stop
  BY <1>2, <1>a DEF stop, CallerAt, ExecIsOnStack, TaskPc, ActivePc, OnStackPc, Finished, pool, flags, tasks
<1>4. CASE StopCallsRoot
  <2>1. \A t \in Threads : pc[t] \in TaskPc => pc'[t] = pc[t]
    BY <1>4, <1>a, RootIsOut DEF StopCallsRoot, TaskPc, ActivePc, OnStackPc
  <2>2. UNCHANGED <<m_fibers, m_state, cur, submits, armed, done>>
    BY <1>4 DEF StopCallsRoot, tasks
  <2> QED BY <1>a, <2>1, <2>2 DEF ExecIsOnStack, TaskPc, ActivePc, OnStackPc
<1>5. CASE RootReturns
  BY <1>5, <1>a DEF RootReturns, CallerAt, ExecIsOnStack, TaskPc, ActivePc, OnStackPc, Finished, pool, flags, tasks
<1>6. CASE StopReturns
  <2>1. \A t \in Threads : pc[t] \in TaskPc => pc'[t] = pc[t]
    BY <1>6, AllExitedAtJoin DEF StopReturns, Exited, TaskPc, ActivePc, OnStackPc
  <2>2. UNCHANGED <<m_fibers, m_state, cur, submits, armed, done>>
    BY <1>6 DEF StopReturns, tasks
  <2> QED BY <1>a, <2>1, <2>2 DEF ExecIsOnStack, TaskPc, ActivePc, OnStackPc
<1>7. CASE \E f \in Fibers : CallerSchedules(f)
  BY <1>7, <1>a DEF CallerSchedules, ExecIsOnStack, TaskPc, ActivePc, OnStackPc, Finished, pool, flags, tasks
<1>8. CASE \E t \in Threads : \E f \in Fibers : TaskSchedules(t, f)
  BY <1>8, <1>a DEF TaskSchedules, At, ExecIsOnStack, TaskPc, ActivePc, OnStackPc, Finished, pool, flags, tasks
<1>9. CASE \E t \in Threads : Take(t)
  BY <1>9, <1>a DEF Take, At, Goto, ExecIsOnStack, TaskPc, ActivePc, OnStackPc, Finished, pool, flags, tasks
<1>10. CASE \E t \in Threads : DropFinished(t)
  BY <1>10, <1>a DEF DropFinished, At, Goto, ExecIsOnStack, TaskPc, ActivePc, OnStackPc, Finished, pool, flags, tasks
<1>11. CASE \E t \in Threads : swapIn(t)
  <2>1. PICK t \in Threads : swapIn(t)
    BY <1>11
  <2> QED BY <2>1, <1>a, SwapInFacts DEF ExecIsOnStack, TaskPc, ActivePc
<1>12. CASE \E t \in Threads : HandOut(t)
  BY <1>12, <1>a DEF HandOut, At, Goto, ExecIsOnStack, TaskPc, ActivePc, OnStackPc, Finished, pool, flags, tasks
<1>13. CASE \E t \in Threads : YieldToHold(t)
  BY <1>13, <1>a DEF YieldToHold, At, Goto, ExecIsOnStack, TaskPc, ActivePc, OnStackPc, Finished, pool, flags, tasks
<1>14. CASE \E t \in Threads : YieldToReady(t)
  BY <1>14, <1>a DEF YieldToReady, At, Goto, ExecIsOnStack, TaskPc, ActivePc, OnStackPc, Finished, pool, flags, tasks
<1>15. CASE \E t \in Threads : MainFunc(t)
  BY <1>15, <1>a DEF MainFunc, At, Goto, ExecIsOnStack, TaskPc, ActivePc, OnStackPc, Finished, pool, flags, tasks
<1>16. CASE \E t \in Threads : swapOut(t)
  BY <1>16, <1>a DEF swapOut, At, Goto, ExecIsOnStack, TaskPc, ActivePc, OnStackPc, Finished, pool, flags, tasks
<1>17. CASE \E t \in Threads : Deactivate(t)
  BY <1>17, <1>a DEF Deactivate, At, Goto, ExecIsOnStack, TaskPc, ActivePc, OnStackPc, Finished, pool, flags, tasks
<1>18. CASE \E t \in Threads : Requeue(t)
  BY <1>18, <1>a DEF Requeue, At, Goto, ExecIsOnStack, TaskPc, ActivePc, OnStackPc, Finished, pool, flags, tasks
<1>19. CASE \E t \in Threads : Discard(t)
  BY <1>19, <1>a DEF Discard, At, Goto, ExecIsOnStack, TaskPc, ActivePc, OnStackPc, Finished, pool, flags, tasks
<1>20. CASE \E t \in Threads : SeesHold(t)
  BY <1>20, <1>a DEF SeesHold, At, Goto, ExecIsOnStack, TaskPc, ActivePc, OnStackPc, Finished, pool, flags, tasks
<1>21. CASE \E t \in Threads : SetHold(t)
  BY <1>21, <1>a DEF SetHold, At, Goto, ExecIsOnStack, TaskPc, ActivePc, OnStackPc, Finished, pool, flags, tasks
<1>22. CASE \E t \in Threads : EnterIdle(t)
  BY <1>22, <1>a DEF EnterIdle, At, Goto, ExecIsOnStack, TaskPc, ActivePc, OnStackPc, Finished, pool, flags, tasks
<1>23. CASE \E t \in Threads : idle(t)
  BY <1>23, <1>a DEF idle, At, Goto, ExecIsOnStack, TaskPc, ActivePc, OnStackPc, Finished, pool, flags, tasks
<1>24. CASE \E t \in Threads : LeaveIdle(t)
  BY <1>24, <1>a DEF LeaveIdle, At, Goto, ExecIsOnStack, TaskPc, ActivePc, OnStackPc, Finished, pool, flags, tasks
<1>25. CASE \E t \in Threads : Exit(t)
  BY <1>25, <1>a DEF Exit, At, Goto, ExecIsOnStack, TaskPc, ActivePc, OnStackPc, Finished, pool, flags, tasks
<1>26. CASE \E f \in Fibers : Wake(f)
  BY <1>26, <1>a DEF Wake, ExecIsOnStack, TaskPc, ActivePc, OnStackPc, Finished, pool, flags, tasks
<1>27. CASE Quiet \/ UNCHANGED vars
  BY <1>27, <1>a DEF Quiet, vars, ExecIsOnStack, TaskPc, ActivePc, OnStackPc, Finished, pool, flags, tasks
<1> QED BY <1>1, <1>2, <1>4, <1>5, <1>6, <1>7, <1>8, <1>9, <1>10, <1>11, <1>12, <1>13, <1>14, <1>15, <1>16, <1>17, <1>18, <1>19, <1>20, <1>21, <1>22, <1>23, <1>24, <1>25, <1>26, <1>27 DEF Next, UserStep, CallerStep, ThreadStep

\* A task in state READY is not forgotten.
LEMMA ReadyStep == IInv /\ [Next]_vars => ReadyIsOwned'
<1> SUFFICES ASSUME IInv, [Next]_vars PROVE ReadyIsOwned'
  OBVIOUS
<1>a. /\ pc \in [Threads -> {"off", "top", "done"} \cup TaskPc \cup IdlePc]
      /\ cur \in [Threads -> Fibers \cup {NoFiber}]
      /\ m_state \in [Fibers -> FiberState]
      /\ \A t \in Threads : pc[t] \in TaskPc <=> cur[t] \in Fibers
      /\ ReadyIsOwned
  BY DEF IInv, TypeOK
<1>1. CASE start
  <2>1. \A t \in Threads : pc[t] \in TaskPc => pc'[t] = pc[t]
    BY <1>1, <1>a DEF start, CallerAt, IInv, CallerPhase, TaskPc, ActivePc, OnStackPc
  <2>2. UNCHANGED <<m_fibers, m_state, cur, submits, armed, done>>
    BY <1>1 DEF start, tasks
  <2> QED BY <1>a, <2>1, <2>2 DEF ReadyIsOwned, InQueue, TaskPc, ActivePc, OnStackPc
<1>2. CASE stop
  BY <1>2, <1>a DEF stop, CallerAt, ReadyIsOwned, InQueue, TaskPc, ActivePc, OnStackPc, Finished, pool, flags, tasks
<1>4. CASE StopCallsRoot
  <2>1. \A t \in Threads : pc[t] \in TaskPc => pc'[t] = pc[t]
    BY <1>4, <1>a, RootIsOut DEF StopCallsRoot, TaskPc, ActivePc, OnStackPc
  <2>2. UNCHANGED <<m_fibers, m_state, cur, submits, armed, done>>
    BY <1>4 DEF StopCallsRoot, tasks
  <2> QED BY <1>a, <2>1, <2>2 DEF ReadyIsOwned, InQueue, TaskPc, ActivePc, OnStackPc
<1>5. CASE RootReturns
  BY <1>5, <1>a DEF RootReturns, CallerAt, ReadyIsOwned, InQueue, TaskPc, ActivePc, OnStackPc, Finished, pool, flags, tasks
<1>6. CASE StopReturns
  <2>1. \A t \in Threads : pc[t] \in TaskPc => pc'[t] = pc[t]
    BY <1>6, AllExitedAtJoin DEF StopReturns, Exited, TaskPc, ActivePc, OnStackPc
  <2>2. UNCHANGED <<m_fibers, m_state, cur, submits, armed, done>>
    BY <1>6 DEF StopReturns, tasks
  <2> QED BY <1>a, <2>1, <2>2 DEF ReadyIsOwned, InQueue, TaskPc, ActivePc, OnStackPc
<1>7. CASE \E f \in Fibers : CallerSchedules(f)
  <2>1. PICK g \in Fibers : CallerSchedules(g)
    BY <1>7
  <2>2. scheduleNoLock(g, Pin[g]) /\ Pin[g] \in Threads \cup {AnyThread}
    BY <2>1, TasksAssumption DEF CallerSchedules, Submit
  <2>3. /\ InQueue(g, Pin[g])'
        /\ \A f \in Fibers, thr \in Threads \cup {AnyThread} : InQueue(f, thr) => InQueue(f, thr)'
    BY <2>2, QueueAppend
  <2>4. UNCHANGED <<m_state, pc, cur>>
    BY <2>1 DEF CallerSchedules
  <2> QED BY <2>3, <2>4, <1>a DEF ReadyIsOwned
<1>8. CASE \E t \in Threads : \E f \in Fibers : TaskSchedules(t, f)
  <2>1. PICK t \in Threads, g \in Fibers : TaskSchedules(t, g)
    BY <1>8
  <2>2. scheduleNoLock(g, Pin[g]) /\ Pin[g] \in Threads \cup {AnyThread}
    BY <2>1, TasksAssumption DEF TaskSchedules, Submit
  <2>3. /\ InQueue(g, Pin[g])'
        /\ \A f \in Fibers, thr \in Threads \cup {AnyThread} : InQueue(f, thr) => InQueue(f, thr)'
    BY <2>2, QueueAppend
  <2>4. UNCHANGED <<m_state, pc, cur>>
    BY <2>1 DEF TaskSchedules
  <2> QED BY <2>3, <2>4, <1>a DEF ReadyIsOwned
<1>9. CASE \E t \in Threads : Take(t)
  <2>1. PICK t \in Threads : Take(t)
    BY <1>9
  <2>2. \A f \in Fibers : InQueue(f, AnyThread) => InQueue(f, AnyThread)' \/ cur'[t] = f
    BY <2>1, QueueTake
  <2>3. /\ pc[t] = "top" /\ pc'[t] = "took" /\ m_state' = m_state
        /\ \A u \in Threads : u # t => pc'[u] = pc[u] /\ cur'[u] = cur[u]
    BY <2>1, <1>a DEF Take, At, Goto
  <2> QED BY <2>2, <2>3, <1>a DEF ReadyIsOwned
<1>10. CASE \E t \in Threads : DropFinished(t)
  BY <1>10, <1>a DEF DropFinished, At, Goto, ReadyIsOwned, InQueue, TaskPc, ActivePc, OnStackPc, Finished, pool, flags, tasks
<1>11. CASE \E t \in Threads : swapIn(t)
  <2>1. PICK t \in Threads : swapIn(t)
    BY <1>11
  <2> QED BY <2>1, <1>a, SwapInFacts DEF ReadyIsOwned, InQueue, TaskPc, ActivePc
<1>12. CASE \E t \in Threads : HandOut(t)
  BY <1>12, <1>a DEF HandOut, At, Goto, ReadyIsOwned, InQueue, TaskPc, ActivePc, OnStackPc, Finished, pool, flags, tasks
<1>13. CASE \E t \in Threads : YieldToHold(t)
  BY <1>13, <1>a DEF YieldToHold, At, Goto, ReadyIsOwned, InQueue, TaskPc, ActivePc, OnStackPc, Finished, pool, flags, tasks
<1>14. CASE \E t \in Threads : YieldToReady(t)
  BY <1>14, <1>a DEF YieldToReady, At, Goto, ReadyIsOwned, InQueue, TaskPc, ActivePc, OnStackPc, Finished, pool, flags, tasks
<1>15. CASE \E t \in Threads : MainFunc(t)
  BY <1>15, <1>a DEF MainFunc, At, Goto, ReadyIsOwned, InQueue, TaskPc, ActivePc, OnStackPc, Finished, pool, flags, tasks
<1>16. CASE \E t \in Threads : swapOut(t)
  BY <1>16, <1>a DEF swapOut, At, Goto, ReadyIsOwned, InQueue, TaskPc, ActivePc, OnStackPc, Finished, pool, flags, tasks
<1>17. CASE \E t \in Threads : Deactivate(t)
  BY <1>17, <1>a DEF Deactivate, At, Goto, ReadyIsOwned, InQueue, TaskPc, ActivePc, OnStackPc, Finished, pool, flags, tasks
<1>18. CASE \E t \in Threads : Requeue(t)
  <2>1. PICK t \in Threads : Requeue(t)
    BY <1>18
  <2>2. PICK g \in Fibers : g = cur[t] /\ scheduleNoLock(g, AnyThread)
    BY <2>1, <1>a DEF Requeue, At, TaskPc, scheduleNoLock
  <2>3. /\ InQueue(g, AnyThread)'
        /\ \A f \in Fibers, thr \in Threads \cup {AnyThread} : InQueue(f, thr) => InQueue(f, thr)'
    BY <2>2, QueueAppend
  <2>4. /\ m_state' = m_state
        /\ \A u \in Threads : u # t => pc'[u] = pc[u] /\ cur'[u] = cur[u]
    BY <2>1, <1>a DEF Requeue, Goto
  <2> QED BY <2>2, <2>3, <2>4, <1>a DEF ReadyIsOwned
<1>19. CASE \E t \in Threads : Discard(t)
  BY <1>19, <1>a DEF Discard, At, Goto, ReadyIsOwned, InQueue, TaskPc, ActivePc, OnStackPc, Finished, pool, flags, tasks
<1>20. CASE \E t \in Threads : SeesHold(t)
  BY <1>20, <1>a DEF SeesHold, At, Goto, ReadyIsOwned, InQueue, TaskPc, ActivePc, OnStackPc, Finished, pool, flags, tasks
<1>21. CASE \E t \in Threads : SetHold(t)
  BY <1>21, <1>a DEF SetHold, At, Goto, ReadyIsOwned, InQueue, TaskPc, ActivePc, OnStackPc, Finished, pool, flags, tasks
<1>22. CASE \E t \in Threads : EnterIdle(t)
  BY <1>22, <1>a DEF EnterIdle, At, Goto, ReadyIsOwned, InQueue, TaskPc, ActivePc, OnStackPc, Finished, pool, flags, tasks
<1>23. CASE \E t \in Threads : idle(t)
  BY <1>23, <1>a DEF idle, At, Goto, ReadyIsOwned, InQueue, TaskPc, ActivePc, OnStackPc, Finished, pool, flags, tasks
<1>24. CASE \E t \in Threads : LeaveIdle(t)
  BY <1>24, <1>a DEF LeaveIdle, At, Goto, ReadyIsOwned, InQueue, TaskPc, ActivePc, OnStackPc, Finished, pool, flags, tasks
<1>25. CASE \E t \in Threads : Exit(t)
  BY <1>25, <1>a DEF Exit, At, Goto, ReadyIsOwned, InQueue, TaskPc, ActivePc, OnStackPc, Finished, pool, flags, tasks
<1>26. CASE \E f \in Fibers : Wake(f)
  <2>1. PICK g \in Fibers : Wake(g)
    BY <1>26
  <2>2. scheduleNoLock(g, AnyThread) /\ AnyThread \in Threads \cup {AnyThread}
    BY <2>1, TasksAssumption DEF Wake, Submit
  <2>3. /\ InQueue(g, AnyThread)'
        /\ \A f \in Fibers, thr \in Threads \cup {AnyThread} : InQueue(f, thr) => InQueue(f, thr)'
    BY <2>2, QueueAppend
  <2>4. UNCHANGED <<m_state, pc, cur>>
    BY <2>1 DEF Wake
  <2> QED BY <2>3, <2>4, <1>a DEF ReadyIsOwned
<1>27. CASE Quiet \/ UNCHANGED vars
  BY <1>27, <1>a DEF Quiet, vars, ReadyIsOwned, InQueue, TaskPc, ActivePc, OnStackPc, Finished, pool, flags, tasks
<1> QED BY <1>1, <1>2, <1>4, <1>5, <1>6, <1>7, <1>8, <1>9, <1>10, <1>11, <1>12, <1>13, <1>14, <1>15, <1>16, <1>17, <1>18, <1>19, <1>20, <1>21, <1>22, <1>23, <1>24, <1>25, <1>26, <1>27 DEF Next, UserStep, CallerStep, ThreadStep

\* A scheduled task that has not run yet is not forgotten.
LEMMA InitStep == IInv /\ [Next]_vars => InitIsOwned'
<1> SUFFICES ASSUME IInv, [Next]_vars PROVE InitIsOwned'
  OBVIOUS
<1>a. /\ pc \in [Threads -> {"off", "top", "done"} \cup TaskPc \cup IdlePc]
      /\ cur \in [Threads -> Fibers \cup {NoFiber}]
      /\ m_state \in [Fibers -> FiberState]
      /\ \A t \in Threads : pc[t] \in TaskPc <=> cur[t] \in Fibers
      /\ InitIsOwned /\ submits \in [Fibers -> Nat]
  BY DEF IInv, TypeOK
<1>1. CASE start
  <2>1. \A t \in Threads : pc[t] \in TaskPc => pc'[t] = pc[t]
    BY <1>1, <1>a DEF start, CallerAt, IInv, CallerPhase, TaskPc, ActivePc, OnStackPc
  <2>2. UNCHANGED <<m_fibers, m_state, cur, submits, armed, done>>
    BY <1>1 DEF start, tasks
  <2> QED BY <1>a, <2>1, <2>2 DEF InitIsOwned, InQueue, TaskPc, ActivePc, OnStackPc
<1>2. CASE stop
  BY <1>2, <1>a DEF stop, CallerAt, InitIsOwned, InQueue, TaskPc, ActivePc, OnStackPc, FiberState, Finished, pool, flags, tasks
<1>4. CASE StopCallsRoot
  <2>1. \A t \in Threads : pc[t] \in TaskPc => pc'[t] = pc[t]
    BY <1>4, <1>a, RootIsOut DEF StopCallsRoot, TaskPc, ActivePc, OnStackPc
  <2>2. UNCHANGED <<m_fibers, m_state, cur, submits, armed, done>>
    BY <1>4 DEF StopCallsRoot, tasks
  <2> QED BY <1>a, <2>1, <2>2 DEF InitIsOwned, InQueue, TaskPc, ActivePc, OnStackPc
<1>5. CASE RootReturns
  BY <1>5, <1>a DEF RootReturns, CallerAt, InitIsOwned, InQueue, TaskPc, ActivePc, OnStackPc, FiberState, Finished, pool, flags, tasks
<1>6. CASE StopReturns
  <2>1. \A t \in Threads : pc[t] \in TaskPc => pc'[t] = pc[t]
    BY <1>6, AllExitedAtJoin DEF StopReturns, Exited, TaskPc, ActivePc, OnStackPc
  <2>2. UNCHANGED <<m_fibers, m_state, cur, submits, armed, done>>
    BY <1>6 DEF StopReturns, tasks
  <2> QED BY <1>a, <2>1, <2>2 DEF InitIsOwned, InQueue, TaskPc, ActivePc, OnStackPc
<1>7. CASE \E f \in Fibers : CallerSchedules(f)
  <2>1. PICK g \in Fibers : CallerSchedules(g)
    BY <1>7
  <2>2. scheduleNoLock(g, Pin[g]) /\ Pin[g] \in Threads \cup {AnyThread}
    BY <2>1, TasksAssumption DEF CallerSchedules, Submit
  <2>3. /\ InQueue(g, Pin[g])'
        /\ \A f \in Fibers, thr \in Threads \cup {AnyThread} : InQueue(f, thr) => InQueue(f, thr)'
    BY <2>2, QueueAppend
  <2>4. UNCHANGED <<m_state, pc, cur, done>>
    BY <2>1 DEF CallerSchedules
  <2>5. \A f \in Fibers : f # g => submits'[f] = submits[f]
    BY <2>1, <1>a DEF CallerSchedules, Submit
  <2> QED BY <2>3, <2>4, <2>5, <1>a, TasksAssumption DEF InitIsOwned
<1>8. CASE \E t \in Threads : \E f \in Fibers : TaskSchedules(t, f)
  <2>1. PICK t \in Threads, g \in Fibers : TaskSchedules(t, g)
    BY <1>8
  <2>2. scheduleNoLock(g, Pin[g]) /\ Pin[g] \in Threads \cup {AnyThread}
    BY <2>1, TasksAssumption DEF TaskSchedules, Submit
  <2>3. /\ InQueue(g, Pin[g])'
        /\ \A f \in Fibers, thr \in Threads \cup {AnyThread} : InQueue(f, thr) => InQueue(f, thr)'
    BY <2>2, QueueAppend
  <2>4. UNCHANGED <<m_state, pc, cur, done>>
    BY <2>1 DEF TaskSchedules
  <2>5. \A f \in Fibers : f # g => submits'[f] = submits[f]
    BY <2>1, <1>a DEF TaskSchedules, Submit
  <2> QED BY <2>3, <2>4, <2>5, <1>a, TasksAssumption DEF InitIsOwned
<1>9. CASE \E t \in Threads : Take(t)
  <2>1. PICK t \in Threads : Take(t)
    BY <1>9
  <2>2. \A f \in Fibers : InQueue(f, Pin[f]) => InQueue(f, Pin[f])' \/ cur'[t] = f
    BY <2>1, QueueTake, TasksAssumption
  <2>3. /\ pc[t] = "top" /\ pc'[t] = "took" /\ m_state' = m_state /\ submits' = submits /\ done' = done
        /\ \A u \in Threads : u # t => pc'[u] = pc[u] /\ cur'[u] = cur[u]
    BY <2>1, <1>a DEF Take, At, Goto, tasks
  <2> QED BY <2>2, <2>3, <1>a DEF InitIsOwned
<1>10. CASE \E t \in Threads : DropFinished(t)
  BY <1>10, <1>a DEF DropFinished, At, Goto, InitIsOwned, InQueue, TaskPc, ActivePc, OnStackPc, FiberState, Finished, pool, flags, tasks
<1>11. CASE \E t \in Threads : swapIn(t)
  <2>1. PICK t \in Threads : swapIn(t)
    BY <1>11
  <2> QED BY <2>1, <1>a, SwapInFacts DEF InitIsOwned, InQueue, TaskPc, ActivePc
<1>12. CASE \E t \in Threads : HandOut(t)
  BY <1>12, <1>a DEF HandOut, At, Goto, InitIsOwned, InQueue, TaskPc, ActivePc, OnStackPc, FiberState, Finished, pool, flags, tasks
<1>13. CASE \E t \in Threads : YieldToHold(t)
  BY <1>13, <1>a DEF YieldToHold, At, Goto, InitIsOwned, InQueue, TaskPc, ActivePc, OnStackPc, FiberState, Finished, pool, flags, tasks
<1>14. CASE \E t \in Threads : YieldToReady(t)
  BY <1>14, <1>a DEF YieldToReady, At, Goto, InitIsOwned, InQueue, TaskPc, ActivePc, OnStackPc, FiberState, Finished, pool, flags, tasks
<1>15. CASE \E t \in Threads : MainFunc(t)
  BY <1>15, <1>a DEF MainFunc, At, Goto, InitIsOwned, InQueue, TaskPc, ActivePc, OnStackPc, FiberState, Finished, pool, flags, tasks
<1>16. CASE \E t \in Threads : swapOut(t)
  BY <1>16, <1>a DEF swapOut, At, Goto, InitIsOwned, InQueue, TaskPc, ActivePc, OnStackPc, FiberState, Finished, pool, flags, tasks
<1>17. CASE \E t \in Threads : Deactivate(t)
  BY <1>17, <1>a DEF Deactivate, At, Goto, InitIsOwned, InQueue, TaskPc, ActivePc, OnStackPc, FiberState, Finished, pool, flags, tasks
<1>18. CASE \E t \in Threads : Requeue(t)
  <2>1. PICK t \in Threads : Requeue(t)
    BY <1>18
  <2>2. PICK g \in Fibers : g = cur[t] /\ scheduleNoLock(g, AnyThread)
    BY <2>1, <1>a DEF Requeue, At, TaskPc, scheduleNoLock
  <2>3. /\ InQueue(g, AnyThread)'
        /\ \A f \in Fibers, thr \in Threads \cup {AnyThread} : InQueue(f, thr) => InQueue(f, thr)'
    BY <2>2, QueueAppend
  <2>4. /\ m_state' = m_state /\ submits' = submits /\ done' = done /\ pc[t] = "post"
        /\ \A u \in Threads : u # t => pc'[u] = pc[u] /\ cur'[u] = cur[u]
    BY <2>1, <1>a DEF Requeue, At, Goto, tasks
  <2> QED BY <2>3, <2>4, <1>a, TasksAssumption DEF InitIsOwned
<1>19. CASE \E t \in Threads : Discard(t)
  <2>1. PICK t \in Threads : Discard(t)
    BY <1>19
  <2>2. /\ UNCHANGED <<m_fibers, submits, done>> /\ pc[t] = "post"
        /\ \A u \in Threads : u # t => pc'[u] = pc[u] /\ cur'[u] = cur[u]
    BY <2>1, <1>a DEF Discard, At, Goto, tasks
  <2>3. \A f \in Fibers : m_state'[f] = m_state[f] \/ f \in done
    BY <2>1, <1>a DEF Discard, IInv, FinishedIsDone
  <2> QED BY <2>2, <2>3, <1>a DEF InitIsOwned, InQueue
<1>20. CASE \E t \in Threads : SeesHold(t)
  BY <1>20, <1>a DEF SeesHold, At, Goto, InitIsOwned, InQueue, TaskPc, ActivePc, OnStackPc, FiberState, Finished, pool, flags, tasks
<1>21. CASE \E t \in Threads : SetHold(t)
  BY <1>21, <1>a DEF SetHold, At, Goto, InitIsOwned, InQueue, TaskPc, ActivePc, OnStackPc, FiberState, Finished, pool, flags, tasks
<1>22. CASE \E t \in Threads : EnterIdle(t)
  BY <1>22, <1>a DEF EnterIdle, At, Goto, InitIsOwned, InQueue, TaskPc, ActivePc, OnStackPc, FiberState, Finished, pool, flags, tasks
<1>23. CASE \E t \in Threads : idle(t)
  BY <1>23, <1>a DEF idle, At, Goto, InitIsOwned, InQueue, TaskPc, ActivePc, OnStackPc, FiberState, Finished, pool, flags, tasks
<1>24. CASE \E t \in Threads : LeaveIdle(t)
  BY <1>24, <1>a DEF LeaveIdle, At, Goto, InitIsOwned, InQueue, TaskPc, ActivePc, OnStackPc, FiberState, Finished, pool, flags, tasks
<1>25. CASE \E t \in Threads : Exit(t)
  BY <1>25, <1>a DEF Exit, At, Goto, InitIsOwned, InQueue, TaskPc, ActivePc, OnStackPc, FiberState, Finished, pool, flags, tasks
<1>26. CASE \E f \in Fibers : Wake(f)
  <2>1. PICK g \in Fibers : Wake(g)
    BY <1>26
  <2>2. scheduleNoLock(g, AnyThread) /\ AnyThread \in Threads \cup {AnyThread}
    BY <2>1, TasksAssumption DEF Wake, Submit
  <2>3. /\ InQueue(g, AnyThread)'
        /\ \A f \in Fibers, thr \in Threads \cup {AnyThread} : InQueue(f, thr) => InQueue(f, thr)'
    BY <2>2, QueueAppend
  <2>4. UNCHANGED <<m_state, pc, cur, submits, done>>
    BY <2>1 DEF Wake
  <2> QED BY <2>3, <2>4, <1>a, TasksAssumption DEF InitIsOwned
<1>27. CASE Quiet \/ UNCHANGED vars
  BY <1>27, <1>a DEF Quiet, vars, InitIsOwned, InQueue, TaskPc, ActivePc, OnStackPc, FiberState, Finished, pool, flags, tasks
<1> QED BY <1>1, <1>2, <1>4, <1>5, <1>6, <1>7, <1>8, <1>9, <1>10, <1>11, <1>12, <1>13, <1>14, <1>15, <1>16, <1>17, <1>18, <1>19, <1>20, <1>21, <1>22, <1>23, <1>24, <1>25, <1>26, <1>27 DEF Next, UserStep, CallerStep, ThreadStep

\* No step takes a task back to INIT before its function has ended.
LEMMA StartedStep == IInv /\ [Next]_vars => StartedIsNotInit'
<1> SUFFICES ASSUME IInv, [Next]_vars PROVE StartedIsNotInit'
  OBVIOUS
<1>a. /\ pc \in [Threads -> {"off", "top", "done"} \cup TaskPc \cup IdlePc]
      /\ cur \in [Threads -> Fibers \cup {NoFiber}]
      /\ m_state \in [Fibers -> FiberState]
      /\ \A t \in Threads : pc[t] \in TaskPc <=> cur[t] \in Fibers
      /\ StartedIsNotInit
  BY DEF IInv, TypeOK
<1>1. CASE start
  <2>1. \A t \in Threads : pc[t] \in TaskPc => pc'[t] = pc[t]
    BY <1>1, <1>a DEF start, CallerAt, IInv, CallerPhase, TaskPc, ActivePc, OnStackPc
  <2>2. UNCHANGED <<m_fibers, m_state, cur, submits, armed, done>>
    BY <1>1 DEF start, tasks
  <2> QED BY <1>a, <2>1, <2>2 DEF StartedIsNotInit, OnStack, TaskPc, ActivePc, OnStackPc
<1>2. CASE stop
  BY <1>2, <1>a DEF stop, CallerAt, StartedIsNotInit, OnStack, TaskPc, ActivePc, OnStackPc, Finished, pool, flags, tasks
<1>4. CASE StopCallsRoot
  <2>1. \A t \in Threads : pc[t] \in TaskPc => pc'[t] = pc[t]
    BY <1>4, <1>a, RootIsOut DEF StopCallsRoot, TaskPc, ActivePc, OnStackPc
  <2>2. UNCHANGED <<m_fibers, m_state, cur, submits, armed, done>>
    BY <1>4 DEF StopCallsRoot, tasks
  <2> QED BY <1>a, <2>1, <2>2 DEF StartedIsNotInit, OnStack, TaskPc, ActivePc, OnStackPc
<1>5. CASE RootReturns
  BY <1>5, <1>a DEF RootReturns, CallerAt, StartedIsNotInit, OnStack, TaskPc, ActivePc, OnStackPc, Finished, pool, flags, tasks
<1>6. CASE StopReturns
  <2>1. \A t \in Threads : pc[t] \in TaskPc => pc'[t] = pc[t]
    BY <1>6, AllExitedAtJoin DEF StopReturns, Exited, TaskPc, ActivePc, OnStackPc
  <2>2. UNCHANGED <<m_fibers, m_state, cur, submits, armed, done>>
    BY <1>6 DEF StopReturns, tasks
  <2> QED BY <1>a, <2>1, <2>2 DEF StartedIsNotInit, OnStack, TaskPc, ActivePc, OnStackPc
<1>7. CASE \E f \in Fibers : CallerSchedules(f)
  BY <1>7, <1>a DEF CallerSchedules, StartedIsNotInit, OnStack, TaskPc, ActivePc, OnStackPc, Finished, pool, flags, tasks
<1>8. CASE \E t \in Threads : \E f \in Fibers : TaskSchedules(t, f)
  BY <1>8, <1>a DEF TaskSchedules, At, StartedIsNotInit, OnStack, TaskPc, ActivePc, OnStackPc, Finished, pool, flags, tasks
<1>9. CASE \E t \in Threads : Take(t)
  BY <1>9, <1>a DEF Take, At, Goto, StartedIsNotInit, OnStack, TaskPc, ActivePc, OnStackPc, Finished, pool, flags, tasks
<1>10. CASE \E t \in Threads : DropFinished(t)
  BY <1>10, <1>a DEF DropFinished, At, Goto, StartedIsNotInit, OnStack, TaskPc, ActivePc, OnStackPc, Finished, pool, flags, tasks
<1>11. CASE \E t \in Threads : swapIn(t)
  <2>1. PICK t \in Threads : swapIn(t)
    BY <1>11
  <2> QED BY <2>1, <1>a, SwapInFacts DEF StartedIsNotInit, OnStack, OnStackPc, TaskPc, ActivePc
<1>12. CASE \E t \in Threads : HandOut(t)
  BY <1>12, <1>a DEF HandOut, At, Goto, StartedIsNotInit, OnStack, TaskPc, ActivePc, OnStackPc, Finished, pool, flags, tasks
<1>13. CASE \E t \in Threads : YieldToHold(t)
  BY <1>13, <1>a DEF YieldToHold, At, Goto, StartedIsNotInit, OnStack, TaskPc, ActivePc, OnStackPc, Finished, pool, flags, tasks
<1>14. CASE \E t \in Threads : YieldToReady(t)
  BY <1>14, <1>a DEF YieldToReady, At, Goto, StartedIsNotInit, OnStack, TaskPc, ActivePc, OnStackPc, Finished, pool, flags, tasks
<1>15. CASE \E t \in Threads : MainFunc(t)
  BY <1>15, <1>a DEF MainFunc, At, Goto, StartedIsNotInit, OnStack, TaskPc, ActivePc, OnStackPc, Finished, pool, flags, tasks
<1>16. CASE \E t \in Threads : swapOut(t)
  BY <1>16, <1>a DEF swapOut, At, Goto, StartedIsNotInit, OnStack, TaskPc, ActivePc, OnStackPc, Finished, pool, flags, tasks
<1>17. CASE \E t \in Threads : Deactivate(t)
  BY <1>17, <1>a DEF Deactivate, At, Goto, StartedIsNotInit, OnStack, TaskPc, ActivePc, OnStackPc, Finished, pool, flags, tasks
<1>18. CASE \E t \in Threads : Requeue(t)
  BY <1>18, <1>a DEF Requeue, At, Goto, StartedIsNotInit, OnStack, TaskPc, ActivePc, OnStackPc, Finished, pool, flags, tasks
<1>19. CASE \E t \in Threads : Discard(t)
  <2>1. PICK t \in Threads : Discard(t)
    BY <1>19
  <2>2. /\ UNCHANGED <<armed, done>> /\ pc[t] = "post" /\ pc'[t] = "top"
        /\ \A u \in Threads : u # t => pc'[u] = pc[u] /\ cur'[u] = cur[u]
    BY <2>1, <1>a DEF Discard, At, Goto, tasks
  <2>3. \A f \in Fibers : m_state'[f] = m_state[f] \/ f \in done
    BY <2>1, <1>a DEF Discard, IInv, FinishedIsDone
  <2> QED BY <2>2, <2>3, <1>a DEF StartedIsNotInit, OnStack, OnStackPc
<1>20. CASE \E t \in Threads : SeesHold(t)
  BY <1>20, <1>a DEF SeesHold, At, Goto, StartedIsNotInit, OnStack, TaskPc, ActivePc, OnStackPc, Finished, pool, flags, tasks
<1>21. CASE \E t \in Threads : SetHold(t)
  BY <1>21, <1>a DEF SetHold, At, Goto, StartedIsNotInit, OnStack, TaskPc, ActivePc, OnStackPc, Finished, pool, flags, tasks
<1>22. CASE \E t \in Threads : EnterIdle(t)
  BY <1>22, <1>a DEF EnterIdle, At, Goto, StartedIsNotInit, OnStack, TaskPc, ActivePc, OnStackPc, Finished, pool, flags, tasks
<1>23. CASE \E t \in Threads : idle(t)
  BY <1>23, <1>a DEF idle, At, Goto, StartedIsNotInit, OnStack, TaskPc, ActivePc, OnStackPc, Finished, pool, flags, tasks
<1>24. CASE \E t \in Threads : LeaveIdle(t)
  BY <1>24, <1>a DEF LeaveIdle, At, Goto, StartedIsNotInit, OnStack, TaskPc, ActivePc, OnStackPc, Finished, pool, flags, tasks
<1>25. CASE \E t \in Threads : Exit(t)
  BY <1>25, <1>a DEF Exit, At, Goto, StartedIsNotInit, OnStack, TaskPc, ActivePc, OnStackPc, Finished, pool, flags, tasks
<1>26. CASE \E f \in Fibers : Wake(f)
  BY <1>26, <1>a DEF Wake, StartedIsNotInit, OnStack, TaskPc, ActivePc, OnStackPc, Finished, pool, flags, tasks
<1>27. CASE Quiet \/ UNCHANGED vars
  BY <1>27, <1>a DEF Quiet, vars, StartedIsNotInit, OnStack, TaskPc, ActivePc, OnStackPc, Finished, pool, flags, tasks
<1> QED BY <1>1, <1>2, <1>4, <1>5, <1>6, <1>7, <1>8, <1>9, <1>10, <1>11, <1>12, <1>13, <1>14, <1>15, <1>16, <1>17, <1>18, <1>19, <1>20, <1>21, <1>22, <1>23, <1>24, <1>25, <1>26, <1>27 DEF Next, UserStep, CallerStep, ThreadStep

\* A task reaches a final state in MainFunc only.
LEMMA FinishedStep == IInv /\ [Next]_vars => FinishedIsDone'
<1> SUFFICES ASSUME IInv, [Next]_vars PROVE FinishedIsDone'
  OBVIOUS
<1>a. /\ pc \in [Threads -> {"off", "top", "done"} \cup TaskPc \cup IdlePc]
      /\ cur \in [Threads -> Fibers \cup {NoFiber}]
      /\ m_state \in [Fibers -> FiberState]
      /\ \A t \in Threads : pc[t] \in TaskPc <=> cur[t] \in Fibers
      /\ FinishedIsDone
  BY DEF IInv, TypeOK
<1>1. CASE start
  BY <1>1, <1>a DEF start, FinishedIsDone, tasks
<1>2. CASE stop
  BY <1>2, <1>a DEF stop, CallerAt, FinishedIsDone, TaskPc, ActivePc, OnStackPc, Finished, pool, flags, tasks
<1>4. CASE StopCallsRoot
  BY <1>4, <1>a DEF StopCallsRoot, FinishedIsDone, tasks
<1>5. CASE RootReturns
  BY <1>5, <1>a DEF RootReturns, CallerAt, FinishedIsDone, TaskPc, ActivePc, OnStackPc, Finished, pool, flags, tasks
<1>6. CASE StopReturns
  BY <1>6, <1>a DEF StopReturns, FinishedIsDone, tasks
<1>7. CASE \E f \in Fibers : CallerSchedules(f)
  BY <1>7, <1>a DEF CallerSchedules, FinishedIsDone, TaskPc, ActivePc, OnStackPc, Finished, pool, flags, tasks
<1>8. CASE \E t \in Threads : \E f \in Fibers : TaskSchedules(t, f)
  BY <1>8, <1>a DEF TaskSchedules, At, FinishedIsDone, TaskPc, ActivePc, OnStackPc, Finished, pool, flags, tasks
<1>9. CASE \E t \in Threads : Take(t)
  BY <1>9, <1>a DEF Take, At, Goto, FinishedIsDone, TaskPc, ActivePc, OnStackPc, Finished, pool, flags, tasks
<1>10. CASE \E t \in Threads : DropFinished(t)
  BY <1>10, <1>a DEF DropFinished, At, Goto, FinishedIsDone, TaskPc, ActivePc, OnStackPc, Finished, pool, flags, tasks
<1>11. CASE \E t \in Threads : swapIn(t)
  BY <1>11, <1>a, SwapInFacts DEF FinishedIsDone, Finished
<1>12. CASE \E t \in Threads : HandOut(t)
  BY <1>12, <1>a DEF HandOut, At, Goto, FinishedIsDone, TaskPc, ActivePc, OnStackPc, Finished, pool, flags, tasks
<1>13. CASE \E t \in Threads : YieldToHold(t)
  BY <1>13, <1>a DEF YieldToHold, At, Goto, FinishedIsDone, TaskPc, ActivePc, OnStackPc, Finished, pool, flags, tasks
<1>14. CASE \E t \in Threads : YieldToReady(t)
  BY <1>14, <1>a DEF YieldToReady, At, Goto, FinishedIsDone, TaskPc, ActivePc, OnStackPc, Finished, pool, flags, tasks
<1>15. CASE \E t \in Threads : MainFunc(t)
  BY <1>15, <1>a DEF MainFunc, At, Goto, FinishedIsDone, TaskPc, ActivePc, OnStackPc, Finished, pool, flags, tasks
<1>16. CASE \E t \in Threads : swapOut(t)
  BY <1>16, <1>a DEF swapOut, At, Goto, FinishedIsDone, TaskPc, ActivePc, OnStackPc, Finished, pool, flags, tasks
<1>17. CASE \E t \in Threads : Deactivate(t)
  BY <1>17, <1>a DEF Deactivate, At, Goto, FinishedIsDone, TaskPc, ActivePc, OnStackPc, Finished, pool, flags, tasks
<1>18. CASE \E t \in Threads : Requeue(t)
  BY <1>18, <1>a DEF Requeue, At, Goto, FinishedIsDone, TaskPc, ActivePc, OnStackPc, Finished, pool, flags, tasks
<1>19. CASE \E t \in Threads : Discard(t)
  BY <1>19, <1>a DEF Discard, FinishedIsDone, Finished, tasks
<1>20. CASE \E t \in Threads : SeesHold(t)
  BY <1>20, <1>a DEF SeesHold, At, Goto, FinishedIsDone, TaskPc, ActivePc, OnStackPc, Finished, pool, flags, tasks
<1>21. CASE \E t \in Threads : SetHold(t)
  BY <1>21, <1>a DEF SetHold, At, Goto, FinishedIsDone, TaskPc, ActivePc, OnStackPc, Finished, pool, flags, tasks
<1>22. CASE \E t \in Threads : EnterIdle(t)
  BY <1>22, <1>a DEF EnterIdle, At, Goto, FinishedIsDone, TaskPc, ActivePc, OnStackPc, Finished, pool, flags, tasks
<1>23. CASE \E t \in Threads : idle(t)
  BY <1>23, <1>a DEF idle, At, Goto, FinishedIsDone, TaskPc, ActivePc, OnStackPc, Finished, pool, flags, tasks
<1>24. CASE \E t \in Threads : LeaveIdle(t)
  BY <1>24, <1>a DEF LeaveIdle, At, Goto, FinishedIsDone, TaskPc, ActivePc, OnStackPc, Finished, pool, flags, tasks
<1>25. CASE \E t \in Threads : Exit(t)
  BY <1>25, <1>a DEF Exit, At, Goto, FinishedIsDone, TaskPc, ActivePc, OnStackPc, Finished, pool, flags, tasks
<1>26. CASE \E f \in Fibers : Wake(f)
  BY <1>26, <1>a DEF Wake, FinishedIsDone, TaskPc, ActivePc, OnStackPc, Finished, pool, flags, tasks
<1>27. CASE Quiet \/ UNCHANGED vars
  BY <1>27, <1>a DEF Quiet, vars, FinishedIsDone, TaskPc, ActivePc, OnStackPc, Finished, pool, flags, tasks
<1> QED BY <1>1, <1>2, <1>4, <1>5, <1>6, <1>7, <1>8, <1>9, <1>10, <1>11, <1>12, <1>13, <1>14, <1>15, <1>16, <1>17, <1>18, <1>19, <1>20, <1>21, <1>22, <1>23, <1>24, <1>25, <1>26, <1>27 DEF Next, UserStep, CallerStep, ThreadStep

\* The last thread leaves nothing behind that it could have run.
LEMMA DrainedStep == IInv /\ [Next]_vars => DrainedAtExit'
<1> SUFFICES ASSUME IInv, [Next]_vars PROVE DrainedAtExit'
  OBVIOUS
<1>a. /\ pc \in [Threads -> {"off", "top", "done"} \cup TaskPc \cup IdlePc]
      /\ cur \in [Threads -> Fibers \cup {NoFiber}]
      /\ m_state \in [Fibers -> FiberState]
      /\ \A t \in Threads : pc[t] \in TaskPc <=> cur[t] \in Fibers
      /\ DrainedAtExit
  BY DEF IInv, TypeOK
<1>1. CASE start
  <2>1. caller' = "user"
    BY <1>1 DEF start, CallerAt, flags
  <2> QED BY <2>1 DEF DrainedAtExit
<1>2. CASE stop
  <2>1. \A t \in Threads : pc'[t] # "done"
    BY <1>2 DEF stop, CallerAt, IInv, CallerPhase
  <2> QED BY <2>1 DEF DrainedAtExit
<1>4. CASE StopCallsRoot
  <2>1. CASE pc' = pc
    <3>1. UNCHANGED <<m_fibers, m_state, done>> /\ caller # "user"
      BY <1>4 DEF StopCallsRoot, CallerAt, tasks
    <3> QED BY <2>1, <3>1, <1>a DEF DrainedAtExit, Exited, InQueue, Ran
  <2>2. CASE pc' = [pc EXCEPT ![Root] = "top"] /\ Root \in Threads
    BY <2>2, <1>a DEF DrainedAtExit, Exited
  <2>3. pc' = pc \/ (pc' = [pc EXCEPT ![Root] = "top"] /\ Root \in Threads)
    <3>1. pc' = pc \/ pc' = [pc EXCEPT ![Root] = "top"]
      BY <1>4, <1>a DEF StopCallsRoot
    <3>2. Root \notin Threads => [pc EXCEPT ![Root] = "top"] = pc
      BY <1>a
    <3> QED BY <3>1, <3>2
  <2> QED BY <2>1, <2>2, <2>3
<1>5. CASE RootReturns
  <2>1. UNCHANGED <<m_fibers, m_state, pc, done>> /\ caller # "user"
    BY <1>5 DEF RootReturns, CallerAt, tasks
  <2> QED BY <2>1, <1>a DEF DrainedAtExit, Exited, InQueue, Ran
<1>6. CASE StopReturns
  <2>1. caller' = "user"
    BY <1>6 DEF StopReturns
  <2> QED BY <2>1 DEF DrainedAtExit
<1>7. CASE \E f \in Fibers : CallerSchedules(f)
  <2>1. caller' = "user"
    BY <1>7 DEF CallerSchedules, CallerAt, flags
  <2> QED BY <2>1 DEF DrainedAtExit
<1>8. CASE \E t \in Threads : \E f \in Fibers : TaskSchedules(t, f)
  <2>1. \E t \in Threads : pc'[t] = "exec"
    BY <1>8 DEF TaskSchedules, At
  <2> QED BY <2>1 DEF DrainedAtExit, Exited
<1>9. CASE \E t \in Threads : Take(t)
  <2>1. \E t \in Threads : pc'[t] = "took"
    BY <1>9, <1>a DEF Take, Goto
  <2> QED BY <2>1 DEF DrainedAtExit, Exited
<1>10. CASE \E t \in Threads : DropFinished(t)
  <2>1. \E t \in Threads : pc'[t] = "top"
    BY <1>10, <1>a DEF DropFinished, Goto
  <2> QED BY <2>1 DEF DrainedAtExit, Exited
<1>11. CASE \E t \in Threads : swapIn(t)
  <2>1. \E t \in Threads : pc'[t] \in {"took", "exec"}
    BY <1>11, <1>a DEF swapIn, At, Goto
  <2> QED BY <2>1 DEF DrainedAtExit, Exited
<1>12. CASE \E t \in Threads : HandOut(t)
  <2>1. \E t \in Threads : pc'[t] = "handed"
    BY <1>12, <1>a DEF HandOut, Goto
  <2> QED BY <2>1 DEF DrainedAtExit, Exited
<1>13. CASE \E t \in Threads : YieldToHold(t)
  <2>1. \E t \in Threads : pc'[t] = "swapout"
    BY <1>13, <1>a DEF YieldToHold, Goto
  <2> QED BY <2>1 DEF DrainedAtExit, Exited
<1>14. CASE \E t \in Threads : YieldToReady(t)
  <2>1. \E t \in Threads : pc'[t] = "swapout"
    BY <1>14, <1>a DEF YieldToReady, Goto
  <2> QED BY <2>1 DEF DrainedAtExit, Exited
<1>15. CASE \E t \in Threads : MainFunc(t)
  <2>1. \E t \in Threads : pc'[t] = "swapout"
    BY <1>15, <1>a DEF MainFunc, Goto
  <2> QED BY <2>1 DEF DrainedAtExit, Exited
<1>16. CASE \E t \in Threads : swapOut(t)
  <2>1. \E t \in Threads : pc'[t] = "back"
    BY <1>16, <1>a DEF swapOut, Goto
  <2> QED BY <2>1 DEF DrainedAtExit, Exited
<1>17. CASE \E t \in Threads : Deactivate(t)
  <2>1. \E t \in Threads : pc'[t] = "post"
    BY <1>17, <1>a DEF Deactivate, Goto
  <2> QED BY <2>1 DEF DrainedAtExit, Exited
<1>18. CASE \E t \in Threads : Requeue(t)
  <2>1. \E t \in Threads : pc'[t] = "top"
    BY <1>18, <1>a DEF Requeue, Goto
  <2> QED BY <2>1 DEF DrainedAtExit, Exited
<1>19. CASE \E t \in Threads : Discard(t)
  <2>1. \E t \in Threads : pc'[t] = "top"
    BY <1>19, <1>a DEF Discard, Goto
  <2> QED BY <2>1 DEF DrainedAtExit, Exited
<1>20. CASE \E t \in Threads : SeesHold(t)
  <2>1. \E t \in Threads : pc'[t] = "sethold"
    BY <1>20, <1>a DEF SeesHold, Goto
  <2> QED BY <2>1 DEF DrainedAtExit, Exited
<1>21. CASE \E t \in Threads : SetHold(t)
  <2>1. \E t \in Threads : pc'[t] = "top"
    BY <1>21, <1>a DEF SetHold, Goto
  <2> QED BY <2>1 DEF DrainedAtExit, Exited
<1>22. CASE \E t \in Threads : EnterIdle(t)
  <2>1. \E t \in Threads : pc'[t] = "idle"
    BY <1>22, <1>a DEF EnterIdle, Goto
  <2> QED BY <2>1 DEF DrainedAtExit, Exited
<1>23. CASE \E t \in Threads : idle(t)
  <2>1. \E t \in Threads : pc'[t] = "idleout"
    BY <1>23, <1>a DEF idle, Goto
  <2> QED BY <2>1 DEF DrainedAtExit, Exited
<1>24. CASE \E t \in Threads : LeaveIdle(t)
  <2>1. \E t \in Threads : pc'[t] = "top"
    BY <1>24, <1>a DEF LeaveIdle, Goto
  <2> QED BY <2>1 DEF DrainedAtExit, Exited
<1>25. CASE \E t \in Threads : Exit(t)
  <2>1. PICK t \in Threads : Exit(t)
    BY <1>25
  <2> SUFFICES ASSUME \A u \in Threads : Exited(u)', NEW f \in Fibers, InQueue(f, AnyThread)'
               PROVE  FALSE
    BY DEF DrainedAtExit
  <2>2. /\ pc[t] = "top" /\ pc' = [pc EXCEPT ![t] = "done"]
        /\ Takeable(t) = {} /\ m_fibers' = m_fibers
    BY <2>1 DEF Exit, At, Goto
  <2>3. \A u \in Threads : pc[u] \in {"off", "done", "top"}
    BY <2>2, <1>a DEF Exited
  <2>4. PICK i \in DOMAIN m_fibers : m_fibers[i] = FiberAndThread(f, AnyThread)
    BY <2>2 DEF InQueue
  <2>5. m_state[f] = "EXEC"
    BY <2>2, <2>4 DEF Takeable, FiberAndThread
  <2> QED BY <2>3, <2>5 DEF IInv, ExecIsOnStack
<1>26. CASE \E f \in Fibers : Wake(f)
  <2>1. PICK g \in Fibers : Wake(g)
    BY <1>26
  <2>2. UNCHANGED <<m_state, pc, caller, done>> /\ scheduleNoLock(g, AnyThread) /\ g \in armed
    BY <2>1 DEF Wake, flags
  <2> SUFFICES ASSUME caller # "user", \A t \in Threads : Exited(t), \E t \in Threads : pc[t] = "done",
                      NEW f \in Fibers, InQueue(f, AnyThread)'
               PROVE  Ran(f)
    BY <2>2 DEF DrainedAtExit, Exited, Ran
  <2>3. InQueue(f, AnyThread) \/ f = g
    BY <2>2, QueueAppend
  <2>4. CASE InQueue(f, AnyThread)
    BY <2>4, <1>a DEF DrainedAtExit
  <2>5. CASE f = g /\ ~InQueue(f, AnyThread)
    <3>1. m_state[f] # "INIT" \/ f \in done
      BY <2>2, <2>5 DEF IInv, StartedIsNotInit
    <3>2. m_state[f] # "EXEC"
      BY DEF IInv, ExecIsOnStack, Exited
    <3>3. m_state[f] # "READY"
      BY <2>5 DEF IInv, ReadyIsOwned, Exited
    <3>4. m_state[f] \in Finished => f \in done
      BY DEF IInv, FinishedIsDone
    <3> QED BY <3>1, <3>2, <3>3, <3>4, <1>a DEF FiberState, Finished, Ran
  <2> QED BY <2>3, <2>4, <2>5
<1>27. CASE Quiet \/ UNCHANGED vars
  <2>1. UNCHANGED <<m_fibers, m_state, pc, caller, done>>
    BY <1>27 DEF Quiet, vars, flags, tasks
  <2> QED BY <2>1, <1>a DEF DrainedAtExit, Exited, InQueue, Ran
<1> QED BY <1>1, <1>2, <1>4, <1>5, <1>6, <1>7, <1>8, <1>9, <1>10, <1>11, <1>12, <1>13, <1>14, <1>15, <1>16, <1>17, <1>18, <1>19, <1>20, <1>21, <1>22, <1>23, <1>24, <1>25, <1>26, <1>27 DEF Next, UserStep, CallerStep, ThreadStep

-----------------------------------------------------------------------------
(* The theorems. *)

\* IInv is inductive: every step of every thread preserves it.
THEOREM Inductive == Spec => []IInv
<1>1. IInv /\ [Next]_vars => IInv'
  BY TypeStep, CountersStep, CallerPhaseStep, ExecStep, ReadyStep, InitStep, StartedStep,
     FinishedStep, DrainedStep DEF IInv
<1> QED BY InitIInv, <1>1, PTL DEF Spec

\* Every variable of the scheduler keeps its type; in particular the two
\* unsigned counters of scheduler.h:142-143 never go below zero.
THEOREM TypeCorrect == Spec => []TypeOK
<1>1. IInv => TypeOK
  BY DEF IInv
<1> QED BY <1>1, Inductive, PTL

\* stopping() is never true while a thread is running a task.
THEOREM StoppingIsSound == Spec => []StoppingMeansNoTaskRuns
<1>1. IInv => StoppingMeansNoTaskRuns
  <2> SUFFICES ASSUME IInv, Stopping, NEW t \in Threads
               PROVE  pc[t] \notin ActivePc
    BY DEF StoppingMeansNoTaskRuns
  <2> DEFINE A == {u \in Threads : pc[u] \in ActivePc}
  <2>1. IsFiniteSet(A)
    BY ThreadsFinite, FS_Subset
  <2>2. Cardinality(A) = 0
    BY DEF IInv, CountersExact, CountAt, Stopping
  <2>3. A = {}
    BY <2>1, <2>2, FS_EmptySet
  <2> QED BY <2>3
<1> QED BY <1>1, Inductive, PTL

\* When stop() is about to return after the pool has run, every task that was
\* scheduled without a pin has finished or has parked itself: tasks that yield
\* or are scheduled while the threads are leaving are not lost.
THEOREM NothingLost == Spec => []NoTaskLost
<1>1. IInv => NoTaskLost
  <2> SUFFICES ASSUME IInv, caller = "join", \A t \in Threads : Exited(t),
                      \E t \in Threads : pc[t] = "done",
                      NEW f \in Fibers, submits[f] > 0, Pin[f] = AnyThread
               PROVE  Ran(f)
    BY DEF NoTaskLost
  <2>1. m_state[f] # "EXEC"
    BY DEF IInv, ExecIsOnStack, Exited
  <2>2. InQueue(f, AnyThread) => Ran(f)
    BY DEF IInv, DrainedAtExit
  <2>3. m_state[f] = "READY" => InQueue(f, AnyThread)
    BY DEF IInv, ReadyIsOwned, Exited
  <2>4. m_state[f] = "INIT" => InQueue(f, AnyThread) \/ f \in done
    BY DEF IInv, InitIsOwned, Exited
  <2>5. m_state[f] \in FiberState
    BY DEF IInv, TypeOK
  <2>6. m_state[f] \in Finished => f \in done
    BY DEF IInv, FinishedIsDone
  <2> QED BY <2>1, <2>2, <2>3, <2>4, <2>5, <2>6 DEF FiberState, Finished, Ran
<1> QED BY <1>1, Inductive, PTL
=============================================================================
