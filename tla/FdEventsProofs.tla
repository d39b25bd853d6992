--------------------------- MODULE FdEventsProofs ---------------------------
(***************************************************************************)
(* Proofs about FdEvents, for every set of descriptors, waiters,           *)
(* cancellers and idle fibers, including the races in which the assertions *)
(* of the code fail or contexts are lost.                                  *)
(*                                                                         *)
(* The inductive invariant adds to the invariants TLC checks that          *)
(* m_fdContexts has a context for every descriptor below its size and for  *)
(* no other, and that only descriptors from 2 on are ever grown for: both  *)
(* are what keeps m_fdContexts[fd] in range after contextResize(fd * 1.5). *)
(***************************************************************************)
EXTENDS FdEvents, FiniteSetTheorems, TLAPS

TableFilled ==
    /\ size >= 2
    /\ \A fd \in Fds : gen[fd] # 0 <=> fd < size
    /\ \A w \in Waiters : pc[w] = "grow" => Use[w][1] >= 2

IInv == TypeOK /\ TableFilled /\ PendingExact /\ WaiterHeldOnce

-----------------------------------------------------------------------------

LEMMA EventsFinite == IsFiniteSet(Events)
  <1>1. IsFiniteSet({"READ"})
    BY FS_Singleton
  <1>2. Events = {"READ"} \cup {"WRITE"}
    BY DEF Events
  <1> QED BY <1>1, <1>2, FS_AddElement

\* There are finitely many contexts, and so finitely many registrations.
LEMMA RegisteredFinite ==
    ASSUME NEW S, S \subseteq Ctxs \X Events
    PROVE  IsFiniteSet(S) /\ Cardinality(S) \in Nat
  <1>1. IsFiniteSet(1..MaxGen)
    BY FdEventsAssumption, FS_Interval
  <1>2. IsFiniteSet(Ctxs)
    BY <1>1, FdEventsAssumption, FS_Product DEF Ctxs
  <1>3. IsFiniteSet(Events)
    BY EventsFinite
  <1>4. IsFiniteSet(Ctxs \X Events)
    BY <1>2, <1>3, FS_Product
  <1> QED BY <1>4, FS_Subset, FS_CardinalityType

LEMMA UseFacts ==
    ASSUME NEW w \in Waiters
    PROVE  Use[w][1] \in Fds /\ Use[w][2] \in Events /\ Use[w][1] \in Nat
  BY FdEventsAssumption

LEMMA FirstContext ==
    ASSUME NEW fd \in Fds
    PROVE  <<fd, 1>> \in Ctxs
  BY FdEventsAssumption DEF Ctxs

LEMMA InitIInv == Init => IInv
  <1> HAVE Init
  <1>1. TypeOK
    <2>1. gen \in [Fds -> 0..MaxGen] /\ made \in [Fds -> 0..MaxGen] /\ size \in Nat
      BY FdEventsAssumption DEF Init
    <2>2. scheduler \in [Ctxs -> [Events -> {"null", "set", "garbage"}]]
      <3>1. scheduler \in [Ctxs -> [Events -> FreshSchedulers]]
        BY DEF Init
      <3>2. \A f \in [Events -> FreshSchedulers] : f \in [Events -> {"null", "set", "garbage"}]
        <4>1. FreshSchedulers \subseteq {"null", "set", "garbage"}
          BY FdEventsAssumption
        <4> QED BY <4>1
      <3> QED BY <3>1, <3>2
    <2>3. events \in [Ctxs -> SUBSET Events] /\ waiter \in [Ctxs -> [Events -> Waiters \cup {NoOne}]]
      BY DEF Init
    <2>4. pc \in [Waiters -> {"run", "grow", "lock", "waiting"}] /\ hold \in [Waiters -> Ctxs]
      BY UseFacts, FirstContext DEF Init
    <2>5. /\ req \in [Cancellers -> {NoReq} \cup [at : {"lock", "shut"}, r : RequestOps, c : Ctxs]]
          /\ reports \in [Idlers -> SUBSET [c : Ctxs, got : SUBSET (Events \cup {"ERR"})]]
      BY Zenon DEF Init
    <2>6. isOpen \in [Fds -> BOOLEAN] /\ edge \in [Fds -> BOOLEAN]
      BY Zenon DEF Init
    <2>7. /\ ready \in [Fds -> SUBSET (Events \cup {"ERR"})]
          /\ mask \in [Fds -> SUBSET Events]
          /\ ptr \in [Fds -> Ctxs]
      BY FirstContext DEF Init
    <2>8. m_pendingEventCount \in Nat /\ orphan \subseteq Waiters
      BY DEF Init
    <2> QED BY <2>1, <2>2, <2>3, <2>4, <2>5, <2>6, <2>7, <2>8 DEF TypeOK
  <1>2. TableFilled
    BY FdEventsAssumption DEF Init, TableFilled
  <1>3. PendingExact
    <2>1. Registered = {}
      BY DEF Init, Registered
    <2> QED BY <2>1, FS_EmptySet DEF Init, PendingExact
  <1>4. WaiterHeldOnce
    BY DEF Init, WaiterHeldOnce
  <1> QED BY <1>1, <1>2, <1>3, <1>4 DEF IInv

\* The kernel's variables keep their types under the epoll_ctl operations.
LEMMA CtlFacts ==
    ASSUME TypeOK, NEW fd \in Fds, NEW m \in SUBSET Events, NEW c \in Ctxs,
           CtlSet(fd, m, c) \/ CtlLeave(fd, m, c)
    PROVE  /\ isOpen' \in [Fds -> BOOLEAN] /\ edge' \in [Fds -> BOOLEAN]
           /\ ready' \in [Fds -> SUBSET (Events \cup {"ERR"})]
           /\ mask' \in [Fds -> SUBSET Events]
           /\ ptr' \in [Fds -> Ctxs]
  <1>1. UNCHANGED <<isOpen, ready>>
    BY DEF CtlSet, CtlLeave
  <1>2. mask' \in [Fds -> SUBSET Events]
    BY DEF CtlSet, CtlLeave, TypeOK
  <1>3. ptr' \in [Fds -> Ctxs]
    BY DEF CtlSet, CtlLeave, TypeOK
  <1>4. edge' \in [Fds -> BOOLEAN]
    BY DEF CtlSet, CtlLeave, TypeOK
  <1> QED BY <1>1, <1>2, <1>3, <1>4 DEF TypeOK

\* Ending registrations: the counter falls by exactly what has gone, and each
\* of the owners is let go.
LEMMA EndFacts ==
    ASSUME IInv, NEW c \in Ctxs, NEW S \in SUBSET events[c], EndRegistrations(c, S), hold' = hold
    PROVE  /\ events' \in [Ctxs -> SUBSET Events]
           /\ scheduler' \in [Ctxs -> [Events -> {"null", "set", "garbage"}]]
           /\ waiter' \in [Ctxs -> [Events -> Waiters \cup {NoOne}]]
           /\ m_pendingEventCount' \in Nat
           /\ pc' \in [Waiters -> {"run", "grow", "lock", "waiting"}]
           /\ \A w \in Waiters : pc'[w] \in {"run", pc[w]}
           /\ PendingExact'
           /\ WaiterHeldOnce'
  <1>1. events[c] \subseteq Events /\ S \subseteq Events
    BY DEF IInv, TypeOK
  <1>2. /\ events' \in [Ctxs -> SUBSET Events]
        /\ \A d \in Ctxs : events'[d] = IF d = c THEN events[d] \ S ELSE events[d]
    BY <1>1 DEF EndRegistrations, IInv, TypeOK
  <1>3. scheduler' \in [Ctxs -> [Events -> {"null", "set", "garbage"}]]
    <2>1. [e \in Events |-> IF e \in S THEN "null" ELSE scheduler[c][e]]
              \in [Events -> {"null", "set", "garbage"}]
      BY DEF IInv, TypeOK
    <2> QED BY <2>1 DEF EndRegistrations, IInv, TypeOK
  <1>4. /\ waiter' \in [Ctxs -> [Events -> Waiters \cup {NoOne}]]
        /\ \A d \in Ctxs, e \in Events :
              waiter'[d][e] = IF d = c /\ e \in S THEN NoOne ELSE waiter[d][e]
    <2>1. [e \in Events |-> IF e \in S THEN NoOne ELSE waiter[c][e]]
              \in [Events -> Waiters \cup {NoOne}]
      BY DEF IInv, TypeOK
    <2> QED BY <2>1 DEF EndRegistrations, IInv, TypeOK
  <1>5. /\ pc' \in [Waiters -> {"run", "grow", "lock", "waiting"}]
        /\ \A w \in Waiters : pc'[w] = IF \E e \in S : waiter[c][e] = w THEN "run" ELSE pc[w]
    BY DEF EndRegistrations, IInv, TypeOK
  <1>6. PendingExact' /\ m_pendingEventCount' \in Nat
    <2> DEFINE T == {c} \X S
    <2>1. Registered' = Registered \ T
      BY <1>1, <1>2 DEF Registered
    <2>2. T \subseteq Registered /\ Registered \subseteq Ctxs \X Events
      BY <1>1 DEF Registered
    <2>3. IsFiniteSet(Registered) /\ Cardinality(Registered) \in Nat
      BY <2>2, RegisteredFinite
    <2>4. IsFiniteSet(S)
      BY <1>1, EventsFinite, FS_Subset
    <2>5. Cardinality(T) = Cardinality(S) /\ Cardinality(S) \in Nat
      <3>1. IsFiniteSet({c}) /\ Cardinality({c}) = 1
        BY FS_Singleton
      <3>2. Cardinality(T) = Cardinality({c}) * Cardinality(S)
        BY <2>4, <3>1, FS_Product
      <3>3. Cardinality(S) \in Nat
        BY <2>4, FS_CardinalityType
      <3> QED BY <3>1, <3>2, <3>3
    <2> HIDE DEF T
    <2>6. Cardinality(Registered \ T) = Cardinality(Registered) - Cardinality(Registered \cap T)
      BY <2>3, FS_Difference
    <2>7. Registered \cap T = T
      BY <2>2
    <2>8. IsFiniteSet(Registered \ T) /\ Cardinality(Registered \ T) \in Nat
      BY <2>2, RegisteredFinite
    <2>9. m_pendingEventCount' = Cardinality(Registered) - Cardinality(S)
      BY DEF EndRegistrations, IInv, PendingExact
    <2> QED BY <2>1, <2>5, <2>6, <2>7, <2>8, <2>9 DEF PendingExact
  <1>7. WaiterHeldOnce'
    <2>1. \A e \in S, w \in Waiters : waiter[c][e] = w => hold[w] = c /\ Use[w][2] = e
      BY <1>1 DEF IInv, WaiterHeldOnce
    <2>2. ASSUME NEW w \in Waiters, pc'[w] = "waiting"
          PROVE  Use[w][2] \in events'[hold'[w]] /\ waiter'[hold'[w]][Use[w][2]] = w
      <3>1. pc[w] = "waiting" /\ ~(\E e \in S : waiter[c][e] = w)
        BY <1>5, <2>2
      <3>2. Use[w][2] \in events[hold[w]] /\ waiter[hold[w]][Use[w][2]] = w
        BY <3>1 DEF IInv, WaiterHeldOnce
      <3>3. hold[w] \in Ctxs /\ Use[w][2] \in Events
        BY UseFacts DEF IInv, TypeOK
      <3>4. ~(hold[w] = c /\ Use[w][2] \in S)
        BY <3>1, <3>2
      <3> QED BY <1>2, <1>4, <3>2, <3>3, <3>4
    <2>3. ASSUME NEW d \in Ctxs, NEW e \in Events, e \in events'[d]
          PROVE  \E w \in Waiters : /\ waiter'[d][e] = w /\ pc'[w] = "waiting"
                                    /\ hold'[w] = d /\ Use[w][2] = e
      <3>1. e \in events[d] /\ ~(d = c /\ e \in S)
        BY <1>2, <2>3
      <3>2. PICK w \in Waiters : waiter[d][e] = w /\ pc[w] = "waiting" /\ hold[w] = d /\ Use[w][2] = e
        BY <3>1 DEF IInv, WaiterHeldOnce
      <3>3. ~(\E f \in S : waiter[c][f] = w)
        BY <2>1, <3>1, <3>2
      <3> QED BY <1>4, <1>5, <3>1, <3>2, <3>3
    <2>4. ASSUME NEW d \in Ctxs, NEW e \in Events, e \notin events'[d]
          PROVE  waiter'[d][e] = NoOne
      <3>1. e \notin events[d] \/ (d = c /\ e \in S)
        BY <1>2, <2>4
      <3>2. e \notin events[d] => waiter[d][e] = NoOne
        BY DEF IInv, WaiterHeldOnce
      <3> QED BY <1>4, <3>1, <3>2
    <2> QED BY <2>2, <2>3, <2>4 DEF WaiterHeldOnce
  <1> QED BY <1>2, <1>3, <1>4, <1>5, <1>6, <1>7

-----------------------------------------------------------------------------
(* The steps. *)

\* Arrive, Consume, Reopen and Shut touch neither contexts nor waiters.
LEMMA KernelStepInv ==
    ASSUME IInv,
           \/ \E fd \in Fds : KernelStep(fd)
           \/ \E k \in Cancellers : Shut(k)
    PROVE  IInv'
  <1> USE DEF table, context, threads, kernel
  <1>1. UNCHANGED <<table, context, pc, hold, reports>>
    BY DEF KernelStep, Arrive, Consume, Reopen, Shut
  <1>2. /\ isOpen' \in [Fds -> BOOLEAN] /\ edge' \in [Fds -> BOOLEAN]
        /\ ready' \in [Fds -> SUBSET (Events \cup {"ERR"})]
        /\ mask' \in [Fds -> SUBSET Events]
        /\ ptr' \in [Fds -> Ctxs]
    <2>1. CASE \E fd \in Fds : KernelStep(fd)
      <3> PICK fd \in Fds : KernelStep(fd)
        BY <2>1
      <3>1. ASSUME NEW e \in Events \cup {"ERR"}, Arrive(fd, e)
            PROVE  <1>2!:
        BY <3>1 DEF Arrive, IInv, TypeOK
      <3>2. ASSUME NEW e \in Events, Consume(fd, e)
            PROVE  <1>2!:
        BY <3>2 DEF Consume, IInv, TypeOK
      <3>3. CASE Reopen(fd)
        BY <3>3 DEF Reopen, IInv, TypeOK
      <3> QED BY <3>1, <3>2, <3>3 DEF KernelStep
    <2>2. CASE \E k \in Cancellers : Shut(k)
      BY <2>2 DEF Shut, IInv, TypeOK
    <2> QED BY <2>1, <2>2
  <1>3. req' \in [Cancellers -> {NoReq} \cup [at : {"lock", "shut"}, r : RequestOps, c : Ctxs]]
    <2>1. req' = req \/ \E k \in Cancellers : req' = [req EXCEPT ![k] = NoReq]
      BY DEF KernelStep, Arrive, Consume, Reopen, Shut
    <2> QED BY <2>1 DEF IInv, TypeOK
  <1>4. orphan' \subseteq Waiters
    BY DEF KernelStep, Arrive, Consume, Reopen, Shut, IInv, TypeOK
  <1>5. TypeOK'
    BY <1>1, <1>2, <1>3, <1>4 DEF IInv, TypeOK
  <1> QED
    BY <1>1, <1>5 DEF IInv, TableFilled, PendingExact, Registered, WaiterHeldOnce

\* The lookup finds a context, or leaves a descriptor of at least 2 to grow for.
LEMMA AddLookupInv ==
    ASSUME IInv, NEW w \in Waiters, AddLookup(w)
    PROVE  IInv'
  <1> USE DEF table, context, threads, kernel
  <1>1. UNCHANGED <<table, context, kernel, req, reports, orphan>>
    BY DEF AddLookup
  <1>2. Use[w][1] \in Fds /\ Use[w][1] \in Nat
    BY UseFacts
  <1>3. pc[w] = "run"
    BY DEF AddLookup
  <1>4. \/ /\ size > Use[w][1]
           /\ pc' = [pc EXCEPT ![w] = "lock"]
           /\ hold' = [hold EXCEPT ![w] = <<Use[w][1], gen[Use[w][1]]>>]
        \/ /\ size <= Use[w][1]
           /\ pc' = [pc EXCEPT ![w] = "grow"] /\ hold' = hold
    BY <1>2 DEF AddLookup, IInv, TypeOK
  <1>5. hold' \in [Waiters -> Ctxs]
    <2>1. size > Use[w][1] => <<Use[w][1], gen[Use[w][1]]>> \in Ctxs
      <3>1. size > Use[w][1] => gen[Use[w][1]] # 0
        BY <1>2 DEF IInv, TableFilled, TypeOK
      <3>2. gen[Use[w][1]] \in 0..MaxGen
        BY <1>2 DEF IInv, TypeOK
      <3> QED BY <1>2, <3>1, <3>2, FdEventsAssumption DEF Ctxs
    <2> QED BY <1>4, <2>1 DEF IInv, TypeOK
  <1>6. pc' \in [Waiters -> {"run", "grow", "lock", "waiting"}]
    BY <1>4 DEF IInv, TypeOK
  <1>7. TypeOK'
    BY <1>1, <1>5, <1>6 DEF IInv, TypeOK
  <1>8. TableFilled'
    <2>1. \A v \in Waiters : pc'[v] = "grow" => Use[v][1] >= 2
      BY <1>2, <1>4 DEF IInv, TypeOK, TableFilled
    <2> QED BY <1>1, <2>1 DEF IInv, TableFilled
  <1>9. PendingExact'
    BY <1>1 DEF IInv, PendingExact, Registered
  <1>10. \A v \in Waiters : pc'[v] = "waiting" <=> pc[v] = "waiting"
    BY <1>3, <1>4 DEF IInv, TypeOK
  <1>11. \A v \in Waiters : pc[v] = "waiting" => hold'[v] = hold[v]
    BY <1>3, <1>4 DEF IInv, TypeOK
  <1>12. WaiterHeldOnce'
    BY <1>1, <1>10, <1>11 DEF IInv, WaiterHeldOnce
  <1> QED BY <1>7, <1>8, <1>9, <1>12 DEF IInv

\* Growing (or cutting) the table to fd * 1.5 leaves room for fd itself.
LEMMA AddGrowInv ==
    ASSUME IInv, NEW w \in Waiters, AddGrow(w)
    PROVE  IInv'
  <1> DEFINE fd == Use[w][1]
             n  == (fd * 3) \div 2
  <1> USE DEF table, context, threads, kernel
  <1>1. UNCHANGED <<context, kernel, req, reports, orphan>>
    BY DEF AddGrow
  <1>2. pc[w] = "grow" /\ pc' = [pc EXCEPT ![w] = "lock"]
    BY DEF AddGrow
  <1>3. fd \in Fds /\ fd \in Nat /\ fd >= 2
    BY <1>2, UseFacts DEF IInv, TableFilled
  <1>4. n \in Nat /\ n > fd /\ n >= 2
    BY <1>3
  <1>5. /\ size' = n
        /\ gen' = [f \in Fds |-> IF f >= n THEN 0 ELSE IF gen[f] = 0 THEN made[f] + 1 ELSE gen[f]]
        /\ made' = [f \in Fds |-> IF f < n /\ gen[f] = 0 THEN made[f] + 1 ELSE made[f]]
        /\ \A f \in Fds : f < n /\ gen[f] = 0 => made[f] < MaxGen
        /\ hold' = [hold EXCEPT ![w] = <<fd, gen'[fd]>>]
    BY DEF AddGrow, contextResize
  <1> HIDE DEF n
  <1>6. \A f \in Fds : f \in Nat /\ gen[f] \in 0..MaxGen /\ made[f] \in 0..MaxGen
    BY FdEventsAssumption DEF IInv, TypeOK
  <1>7. gen' \in [Fds -> 0..MaxGen] /\ made' \in [Fds -> 0..MaxGen]
    <2>1. \A f \in Fds : /\ gen'[f] \in 0..MaxGen /\ made'[f] \in 0..MaxGen
      BY <1>4, <1>5, <1>6, FdEventsAssumption
    <2> QED BY <1>5, <2>1
  <1>8. \A f \in Fds : gen'[f] # 0 <=> f < n
    BY <1>4, <1>5, <1>6
  <1>9. hold' \in [Waiters -> Ctxs]
    <2>1. gen'[fd] \in 1..MaxGen
      BY <1>3, <1>4, <1>7, <1>8, FdEventsAssumption
    <2>2. <<fd, gen'[fd]>> \in Ctxs
      BY <1>3, <2>1 DEF Ctxs
    <2> QED BY <1>5, <2>2 DEF IInv, TypeOK
  <1>10. pc' \in [Waiters -> {"run", "grow", "lock", "waiting"}]
    BY <1>2 DEF IInv, TypeOK
  <1>11. TypeOK'
    BY <1>1, <1>4, <1>5, <1>7, <1>9, <1>10 DEF IInv, TypeOK
  <1>12. TableFilled'
    <2>1. \A v \in Waiters : pc'[v] = "grow" => pc[v] = "grow"
      BY <1>2 DEF IInv, TypeOK
    <2> QED BY <1>4, <1>5, <1>8, <2>1 DEF IInv, TableFilled
  <1>13. PendingExact'
    BY <1>1 DEF IInv, PendingExact, Registered
  <1>14. \A v \in Waiters : (pc'[v] = "waiting" <=> pc[v] = "waiting")
                            /\ (pc[v] = "waiting" => hold'[v] = hold[v])
    BY <1>2, <1>5 DEF IInv, TypeOK
  <1>15. WaiterHeldOnce'
    BY <1>1, <1>14 DEF IInv, WaiterHeldOnce
  <1> QED BY <1>11, <1>12, <1>13, <1>15 DEF IInv

\* A registration that succeeds puts its waiter into a context that was empty.
LEMMA AddLockedInv ==
    ASSUME IInv, NEW w \in Waiters, AddLocked(w)
    PROVE  IInv'
  <1> DEFINE c == hold[w]
             e == Use[w][2]
  <1> USE DEF table, context, threads, kernel
  <1>1. UNCHANGED <<table, hold, req, reports, orphan>> /\ pc[w] = "lock"
    BY DEF AddLocked
  <1>2. c \in Ctxs /\ e \in Events /\ c[1] \in Fds
    BY UseFacts DEF IInv, TypeOK, Ctxs
  <1>3. CASE UNCHANGED <<context, kernel>> /\ (pc' = pc \/ pc' = [pc EXCEPT ![w] = "run"])
    <2>1. pc' \in [Waiters -> {"run", "grow", "lock", "waiting"}]
      BY <1>3 DEF IInv, TypeOK
    <2>2. \A v \in Waiters : /\ (pc'[v] = "waiting" <=> pc[v] = "waiting")
                              /\ (pc'[v] = "grow" => pc[v] = "grow")
      <3>1. pc \in [Waiters -> {"run", "grow", "lock", "waiting"}] /\ pc[w] = "lock"
        BY <1>1 DEF IInv, TypeOK
      <3>2. CASE pc' = pc
        BY <3>2
      <3>3. CASE pc' = [pc EXCEPT ![w] = "run"]
        BY <3>1, <3>3
      <3> QED BY <1>3, <3>2, <3>3
    <2>3. TypeOK'
      BY <1>1, <1>3, <2>1 DEF IInv, TypeOK
    <2>4. TableFilled'
      BY <1>1, <2>2 DEF IInv, TableFilled
    <2>5. PendingExact'
      BY <1>3 DEF IInv, PendingExact, Registered
    <2>6. WaiterHeldOnce'
      BY <1>1, <1>3, <2>2 DEF IInv, WaiterHeldOnce
    <2> QED BY <2>3, <2>4, <2>5, <2>6 DEF IInv
  <1>4. CASE /\ e \notin events[c]
             /\ CtlSet(c[1], events[c] \cup {e}, c)
             /\ m_pendingEventCount' = m_pendingEventCount + 1
             /\ events' = [events EXCEPT ![c] = @ \cup {e}]
             /\ scheduler' = [scheduler EXCEPT ![c][e] = "set"]
             /\ waiter' = [waiter EXCEPT ![c][e] = w]
             /\ pc' = [pc EXCEPT ![w] = "waiting"]
    <2> HIDE DEF c, e
    <2>1. /\ events' \in [Ctxs -> SUBSET Events]
          /\ \A d \in Ctxs : events'[d] = IF d = c THEN events[d] \cup {e} ELSE events[d]
      BY <1>2, <1>4 DEF IInv, TypeOK
    <2>2. scheduler' \in [Ctxs -> [Events -> {"null", "set", "garbage"}]]
      BY <1>2, <1>4 DEF IInv, TypeOK
    <2>3. /\ waiter' \in [Ctxs -> [Events -> Waiters \cup {NoOne}]]
          /\ \A d \in Ctxs, f \in Events :
                waiter'[d][f] = IF d = c /\ f = e THEN w ELSE waiter[d][f]
      BY <1>2, <1>4 DEF IInv, TypeOK
    <2>4. /\ pc' \in [Waiters -> {"run", "grow", "lock", "waiting"}]
          /\ \A v \in Waiters : pc'[v] = IF v = w THEN "waiting" ELSE pc[v]
      BY <1>4 DEF IInv, TypeOK
    <2>5. PendingExact' /\ m_pendingEventCount' \in Nat
      <3>1. Registered' = Registered \cup {<<c, e>>} /\ <<c, e>> \notin Registered
        BY <1>2, <1>4, <2>1 DEF Registered
      <3>2. IsFiniteSet(Registered) /\ Cardinality(Registered) \in Nat
        <4>1. Registered \subseteq Ctxs \X Events
          BY DEF Registered
        <4> QED BY <4>1, RegisteredFinite
      <3>3. Cardinality(Registered \cup {<<c, e>>}) = Cardinality(Registered) + 1
        BY <3>1, <3>2, FS_AddElement
      <3> QED BY <1>4, <3>1, <3>2, <3>3 DEF IInv, PendingExact
    <2>6. TypeOK'
      <3>1. events[c] \cup {e} \in SUBSET Events
        BY <1>2 DEF IInv, TypeOK
      <3>2. /\ isOpen' \in [Fds -> BOOLEAN] /\ edge' \in [Fds -> BOOLEAN]
            /\ ready' \in [Fds -> SUBSET (Events \cup {"ERR"})]
            /\ mask' \in [Fds -> SUBSET Events]
            /\ ptr' \in [Fds -> Ctxs]
        BY <1>2, <1>4, <3>1, CtlFacts DEF IInv
      <3> QED BY <1>1, <2>1, <2>2, <2>3, <2>4, <2>5, <3>2 DEF IInv, TypeOK
    <2>7. TableFilled'
      BY <1>1, <2>4 DEF IInv, TableFilled
    <2>8. WaiterHeldOnce'
      <3>1. ASSUME NEW v \in Waiters, pc'[v] = "waiting"
            PROVE  Use[v][2] \in events'[hold'[v]] /\ waiter'[hold'[v]][Use[v][2]] = v
        <4>1. CASE v = w
          BY <1>1, <1>2, <2>1, <2>3, <4>1 DEF c, e
        <4>2. CASE v # w
          <5>1. Use[v][2] \in events[hold[v]] /\ waiter[hold[v]][Use[v][2]] = v
            BY <2>4, <3>1, <4>2 DEF IInv, WaiterHeldOnce
          <5>2. hold[v] \in Ctxs /\ Use[v][2] \in Events
            BY UseFacts DEF IInv, TypeOK
          <5>3. ~(hold[v] = c /\ Use[v][2] = e)
            BY <1>4, <5>1
          <5> QED BY <1>1, <2>1, <2>3, <5>1, <5>2, <5>3
        <4> QED BY <4>1, <4>2
      <3>2. ASSUME NEW d \in Ctxs, NEW f \in Events, f \in events'[d]
            PROVE  \E v \in Waiters : /\ waiter'[d][f] = v /\ pc'[v] = "waiting"
                                      /\ hold'[v] = d /\ Use[v][2] = f
        <4>1. CASE d = c /\ f = e
          BY <1>1, <2>3, <2>4, <4>1 DEF c, e
        <4>2. CASE ~(d = c /\ f = e)
          <5>1. f \in events[d]
            BY <2>1, <3>2, <4>2
          <5>2. PICK v \in Waiters : waiter[d][f] = v /\ pc[v] = "waiting" /\ hold[v] = d /\ Use[v][2] = f
            BY <5>1 DEF IInv, WaiterHeldOnce
          <5> QED BY <1>1, <2>3, <2>4, <4>2, <5>2
        <4> QED BY <4>1, <4>2
      <3>3. ASSUME NEW d \in Ctxs, NEW f \in Events, f \notin events'[d]
            PROVE  waiter'[d][f] = NoOne
        <4>1. f \notin events[d] /\ ~(d = c /\ f = e)
          BY <2>1, <3>3
        <4>2. waiter[d][f] = NoOne
          BY <4>1 DEF IInv, WaiterHeldOnce
        <4> QED BY <2>3, <4>1, <4>2
      <3> QED BY <3>1, <3>2, <3>3 DEF WaiterHeldOnce
    <2> QED BY <2>5, <2>6, <2>7, <2>8 DEF IInv
  <1> QED BY <1>3, <1>4 DEF AddLocked

\* A request's lookup changes only the canceller, to a context that exists.
LEMMA BeginRequestInv ==
    ASSUME IInv, NEW k \in Cancellers, NEW r \in Requests, BeginRequest(k, r)
    PROVE  IInv'
  <1> USE DEF table, context, threads, kernel
  <1>1. UNCHANGED <<table, context, kernel, pc, hold, reports, orphan>>
    BY DEF BeginRequest
  <1>2. r \in RequestOps
    BY FdEventsAssumption
  <1>3. r.fd \in Fds /\ r.fd \in Nat
    BY <1>2, FdEventsAssumption DEF RequestOps
  <1>4. <<r.fd, 1>> \in Ctxs
    BY <1>3, FirstContext
  <1>5. size > r.fd => <<r.fd, gen[r.fd]>> \in Ctxs
    <2>1. size > r.fd => gen[r.fd] # 0
      BY <1>3 DEF IInv, TableFilled, TypeOK
    <2>2. gen[r.fd] \in 0..MaxGen
      BY <1>3 DEF IInv, TypeOK
    <2> QED BY <1>3, <2>1, <2>2, FdEventsAssumption DEF Ctxs
  <1>6. PICK q \in [at : {"lock", "shut"}, r : RequestOps, c : Ctxs] :
            req' = [req EXCEPT ![k] = q]
    <2>1. CASE size > r.fd /\ req' = [req EXCEPT ![k] =
                                    [at |-> "lock", r |-> r, c |-> <<r.fd, gen[r.fd]>>]]
      BY <1>2, <1>5, <2>1
    <2>2. CASE req' = [req EXCEPT ![k] = [at |-> "shut", r |-> r, c |-> <<r.fd, 1>>]]
      BY <1>2, <1>4, <2>2
    <2> QED BY <2>1, <2>2 DEF BeginRequest
  <1>7. req' \in [Cancellers -> {NoReq} \cup [at : {"lock", "shut"}, r : RequestOps, c : Ctxs]]
    BY <1>6 DEF IInv, TypeOK
  <1>8. TypeOK'
    BY <1>1, <1>7 DEF IInv, TypeOK
  <1> QED
    BY <1>1, <1>8 DEF IInv, TableFilled, PendingExact, Registered, WaiterHeldOnce

\* epoll_wait only fills the idle fiber's buffer, with contexts.
LEMMA EpollWaitInv ==
    ASSUME IInv, NEW i \in Idlers, EpollWait(i)
    PROVE  IInv'
  <1> USE DEF table, context, threads, kernel
  <1>1. UNCHANGED <<isOpen, ready, mask, ptr, table, context, pc, hold, req, orphan>>
    BY DEF EpollWait
  <1>2. edge' \in [Fds -> BOOLEAN]
    BY DEF EpollWait, IInv, TypeOK
  <1>3. reports' \in [Idlers -> SUBSET [c : Ctxs, got : SUBSET (Events \cup {"ERR"})]]
    <2>1. PICK S \in SUBSET Fds :
              reports' = [reports EXCEPT ![i] =
                  {[c |-> ptr[fd], got |-> Reported(fd, mask[fd])] :
                      fd \in {f \in S : Reported(f, mask[f]) # {}}}]
      BY DEF EpollWait
    <2>2. \A fd \in Fds : [c |-> ptr[fd], got |-> Reported(fd, mask[fd])]
                               \in [c : Ctxs, got : SUBSET (Events \cup {"ERR"})]
      BY DEF Reported, IInv, TypeOK
    <2>3. {[c |-> ptr[fd], got |-> Reported(fd, mask[fd])] :
              fd \in {f \in S : Reported(f, mask[f]) # {}}}
              \in SUBSET [c : Ctxs, got : SUBSET (Events \cup {"ERR"})]
      BY <2>2
    <2> QED BY <2>1, <2>3 DEF IInv, TypeOK
  <1>4. TypeOK'
    BY <1>1, <1>2, <1>3 DEF IInv, TypeOK
  <1> QED
    BY <1>1, <1>4 DEF IInv, TableFilled, PendingExact, Registered, WaiterHeldOnce

\* Common to a cancellation and to the handling of a report: registrations of
\* one context end, or nothing happens to contexts, kernel and waiters.
LEMMA EndInv ==
    ASSUME IInv, UNCHANGED <<table, hold, orphan>>,
           req' \in [Cancellers -> {NoReq} \cup [at : {"lock", "shut"}, r : RequestOps, c : Ctxs]],
           reports' \in [Idlers -> SUBSET [c : Ctxs, got : SUBSET (Events \cup {"ERR"})]],
           \/ UNCHANGED <<context, kernel, pc>>
           \/ \E c \in Ctxs, fd \in Fds : \E S \in SUBSET events[c] :
                 CtlLeave(fd, events[c] \ S, c) /\ EndRegistrations(c, S)
    PROVE  IInv'
  <1> USE DEF table, context, kernel
  <1>1. CASE UNCHANGED <<context, kernel, pc>>
    <2>1. TypeOK'
      BY <1>1 DEF IInv, TypeOK
    <2> QED
      BY <1>1, <2>1 DEF IInv, TableFilled, PendingExact, Registered, WaiterHeldOnce
  <1>2. ASSUME NEW c \in Ctxs, NEW fd \in Fds, NEW S \in SUBSET events[c],
               CtlLeave(fd, events[c] \ S, c), EndRegistrations(c, S)
        PROVE  IInv'
    <2>1. /\ events' \in [Ctxs -> SUBSET Events]
          /\ scheduler' \in [Ctxs -> [Events -> {"null", "set", "garbage"}]]
          /\ waiter' \in [Ctxs -> [Events -> Waiters \cup {NoOne}]]
          /\ m_pendingEventCount' \in Nat
          /\ pc' \in [Waiters -> {"run", "grow", "lock", "waiting"}]
          /\ \A w \in Waiters : pc'[w] \in {"run", pc[w]}
          /\ PendingExact'
          /\ WaiterHeldOnce'
      BY <1>2, EndFacts
    <2>2. events[c] \ S \in SUBSET Events
      BY DEF IInv, TypeOK
    <2>3. /\ isOpen' \in [Fds -> BOOLEAN] /\ edge' \in [Fds -> BOOLEAN]
          /\ ready' \in [Fds -> SUBSET (Events \cup {"ERR"})]
          /\ mask' \in [Fds -> SUBSET Events]
          /\ ptr' \in [Fds -> Ctxs]
      BY <1>2, <2>2, CtlFacts DEF IInv
    <2>4. TypeOK'
      BY <2>1, <2>3 DEF IInv, TypeOK
    <2>5. TableFilled'
      BY <2>1 DEF IInv, TableFilled
    <2> QED BY <2>1, <2>4, <2>5 DEF IInv
  <1> QED BY <1>1, <1>2

LEMMA EndLockedInv ==
    ASSUME IInv, NEW k \in Cancellers, EndLocked(k)
    PROVE  IInv'
  <1> USE DEF table, context, threads, kernel
  <1>1. UNCHANGED <<table, hold, reports, orphan>> /\ req' = [req EXCEPT ![k] = AfterLock(k)]
    BY DEF EndLocked
  <1>2. req[k] \in [at : {"lock", "shut"}, r : RequestOps, c : Ctxs]
    <2>1. req[k].at = "lock"
      BY DEF EndLocked
    <2>2. req[k] # NoReq
      BY <2>1 DEF NoReq
    <2> QED BY <2>2 DEF IInv, TypeOK
  <1>3. AfterLock(k) \in {NoReq} \cup [at : {"lock", "shut"}, r : RequestOps, c : Ctxs]
    BY <1>2 DEF AfterLock
  <1>4. req' \in [Cancellers -> {NoReq} \cup [at : {"lock", "shut"}, r : RequestOps, c : Ctxs]]
    BY <1>1, <1>3 DEF IInv, TypeOK
  <1>5. req[k].c \in Ctxs /\ req[k].r.fd \in Fds
    BY <1>2 DEF RequestOps
  <1>6. \/ UNCHANGED <<context, kernel, pc>>
        \/ \E c \in Ctxs, fd \in Fds : \E S \in SUBSET events[c] :
              CtlLeave(fd, events[c] \ S, c) /\ EndRegistrations(c, S)
    <2> DEFINE c == req[k].c
               r == req[k].r
               gone == events[c] \cap (IF r.op \in {"cancelAll", "close"} THEN Events ELSE {r.ev})
    <2>1. gone \in SUBSET events[c]
      OBVIOUS
    <2>2. IF gone # {} /\ CanChange(r.fd)
          THEN CtlLeave(r.fd, events[c] \ gone, c) /\ EndRegistrations(c, gone)
          ELSE UNCHANGED <<context, kernel, pc>>
      BY DEF EndLocked
    <2> HIDE DEF gone
    <2> QED BY <1>5, <2>1, <2>2
  <1>7. reports' \in [Idlers -> SUBSET [c : Ctxs, got : SUBSET (Events \cup {"ERR"})]]
    BY <1>1 DEF IInv, TypeOK
  <1> QED BY <1>1, <1>4, <1>6, <1>7, EndInv

LEMMA HandleReportInv ==
    ASSUME IInv, NEW i \in Idlers, NEW r \in reports[i], HandleReport(i, r)
    PROVE  IInv'
  <1> DEFINE real == (r.got \cap Events) \cup (IF "ERR" \in r.got THEN events[r.c] ELSE {})
  <1> USE DEF table, context, threads, kernel
  <1>1. UNCHANGED <<table, hold, req, orphan>> /\ reports' = [reports EXCEPT ![i] = @ \ {r}]
    BY DEF HandleReport
  <1>2. r \in [c : Ctxs, got : SUBSET (Events \cup {"ERR"})]
    BY DEF IInv, TypeOK
  <1>3. r.c \in Ctxs /\ r.c[1] \in Fds
    BY <1>2 DEF Ctxs
  <1>4. reports' \in [Idlers -> SUBSET [c : Ctxs, got : SUBSET (Events \cup {"ERR"})]]
    BY <1>1 DEF IInv, TypeOK
  <1>5. \/ UNCHANGED <<context, kernel, pc>>
        \/ \E c \in Ctxs, fd \in Fds : \E S \in SUBSET events[c] :
              CtlLeave(fd, events[c] \ S, c) /\ EndRegistrations(c, S)
    <2>1. \/ UNCHANGED <<context, kernel, pc>>
          \/ /\ real \subseteq events[r.c]
             /\ CtlLeave(r.c[1], events[r.c] \ real, r.c)
             /\ EndRegistrations(r.c, real)
      BY DEF HandleReport
    <2> HIDE DEF real
    <2> QED BY <1>3, <2>1
  <1>6. req' \in [Cancellers -> {NoReq} \cup [at : {"lock", "shut"}, r : RequestOps, c : Ctxs]]
    BY <1>1 DEF IInv, TypeOK
  <1> QED BY <1>1, <1>4, <1>5, <1>6, EndInv

-----------------------------------------------------------------------------

\* The inductive invariant holds in every reachable state.
THEOREM FdEventsInductive == Spec => []IInv
  <1>1. ASSUME IInv, [Next]_vars
        PROVE  IInv'
    <2>1. CASE UNCHANGED vars
      <3>1. UNCHANGED <<table, context, kernel, threads, orphan>>
        BY <2>1 DEF vars
      <3>2. TypeOK'
        BY <1>1, <3>1 DEF table, context, kernel, threads, IInv, TypeOK
      <3> QED
        BY <1>1, <3>1, <3>2 DEF table, context, threads, IInv, TableFilled, PendingExact,
           Registered, WaiterHeldOnce
    <2>2. CASE \E w \in Waiters : WaiterStep(w)
      BY <1>1, <2>2, AddLookupInv, AddGrowInv, AddLockedInv DEF WaiterStep
    <2>3. CASE \E k \in Cancellers : CancellerStep(k)
      BY <1>1, <2>3, BeginRequestInv, EndLockedInv, KernelStepInv DEF CancellerStep
    <2>4. CASE \E i \in Idlers : IdlerStep(i)
      BY <1>1, <2>4, EpollWaitInv, HandleReportInv DEF IdlerStep
    <2>5. CASE \E fd \in Fds : KernelStep(fd)
      BY <1>1, <2>5, KernelStepInv
    <2> QED BY <1>1, <2>1, <2>2, <2>3, <2>4, <2>5 DEF Next
  <1> QED BY <1>1, InitIInv, PTL DEF Spec

\* Every pointer addEvent, the cancellations and the idle fibers work with is a
\* context of m_fdContexts' making: no lookup, and no growth, is out of range.
THEOREM FdEventsTypeCorrect == Spec => []TypeOK
  <1>1. IInv => TypeOK
    BY DEF IInv
  <1> QED BY <1>1, FdEventsInductive, PTL

\* The counter idle fibers read before they stop is the number of registrations.
THEOREM PendingIsExact == Spec => []PendingExact
  <1>1. IInv => PendingExact
    BY DEF IInv
  <1> QED BY <1>1, FdEventsInductive, PTL

\* Each waiter is in one EventContext while it waits and in none otherwise.
THEOREM NoDoubleWake == Spec => []WaiterHeldOnce
  <1>1. IInv => WaiterHeldOnce
    BY DEF IInv
  <1> QED BY <1>1, FdEventsInductive, PTL
=============================================================================
