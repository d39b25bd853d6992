---------------------------- MODULE IoLoopProofs ----------------------------
(***************************************************************************)
(* Proofs about IoLoop, for every number of threads, every script of jobs  *)
(* with any delays, every width of int and every MAX_TIMEOUT.              *)
(***************************************************************************)
EXTENDS IoLoop, TLAPS, FiniteSetTheorems, SequenceTheorems, WellFoundedInduction

-----------------------------------------------------------------------------
(* The parts of the inductive invariant. *)

ActivePc == {"run", "finish", "tickleFront"}
CountedOffPc == {"tickleEvent", "triggered"}
Pc == {"scan", "enter", "done"} \cup ActivePc \cup IdlePc

\* The number of threads at one of the places P when p says where each one is.
CountAt(p, P) == Cardinality({t \in Workers : p[t] \in P})

\* The types of the variables, of the locals of each thread among them.
Types ==
    /\ script \in Scripts
    /\ m_fibers \in Seq(Task)
    /\ m_stopping \in BOOLEAN
    /\ due \subseteq timers /\ timers \subseteq Ids
    /\ ready \subseteq registered /\ registered \subseteq Ids
    /\ caller \in {"user", "tickle", "stop", "join", "stopped"}
    /\ next \in Nat
    /\ m_stopping <=> caller \in {"stop", "join", "stopped"}
    /\ ~m_stopping => next <= Len(script)
    /\ pc \in [Workers -> Pc]
    /\ cur \in [Workers -> Task \cup {NoTask}]
    /\ endless \in [Workers -> BOOLEAN]
    /\ got \in [Workers -> SUBSET (Ids \cup {Pipe})]
    /\ cbs \in [Workers -> SUBSET Ids]
    /\ idleTerm \in [Workers -> BOOLEAN]
    /\ \A t \in Workers : pc[t] = "run" => cur[t] \in Task

\* The counters that run() keeps.
RunCounters ==
    /\ m_activeThreadCount = CountAt(pc, ActivePc)
    /\ m_idleThreadCount = CountAt(pc, IdlePc)

\* An event that an epoll_wait has returned is in the hands of one thread, and
\* a thread has events or callbacks in its hands only on its way through idle().
HandsOff ==
    /\ \A t \in Workers : \A i \in got[t] \ {Pipe} : i \in registered /\ i \notin ready
    /\ \A t, u \in Workers : t # u => got[t] \cap got[u] \subseteq {Pipe}
    /\ \A t \in Workers : got[t] # {} =>
          pc[t] \in {"expire", "schedule", "tickleExpired", "events", "tickleEvent", "triggered"}
    /\ \A t \in Workers : cbs[t] # {} => pc[t] = "schedule"

InList(x) == \E k \in DOMAIN m_fibers : m_fibers[k] = x

Running(x) == \E t \in Workers : pc[t] = "run" /\ cur[t] = x

\* Nothing is in the list, in a thread, in a timer or an event that nobody created.
OnlyCreated ==
    /\ \A k \in DOMAIN m_fibers : m_fibers[k] \in Created
    /\ \A t \in Workers : pc[t] = "run" => cur[t] \in Created
    /\ ran \subseteq Created
    /\ \A i \in timers \cup registered : <<"cb", i>> \in Created
    /\ \A t \in Workers : \A i \in cbs[t] : <<"cb", i>> \in Created

\* A job is in one place: once in the list, or with one thread, or done.
JobsOnce ==
    /\ \A j, k \in DOMAIN m_fibers :
          m_fibers[j] = m_fibers[k] /\ m_fibers[j][1] = "job" => j = k
    /\ \A k \in DOMAIN m_fibers : m_fibers[k][1] = "job" =>
          /\ m_fibers[k] \notin ran
          /\ \A t \in Workers : pc[t] = "run" => cur[t] # m_fibers[k]
    /\ \A t \in Workers : pc[t] = "run" /\ cur[t][1] = "job" =>
          /\ cur[t] \notin ran
          /\ \A u \in Workers : u # t /\ pc[u] = "run" => cur[u] # cur[t]

\* What has been created and has not run is somewhere.
NoneLost ==
    \A x \in Created :
        \/ x \in ran \/ InList(x) \/ Running(x)
        \/ \E i \in Ids : /\ x = <<"cb", i>>
                          /\ i \in timers \cup registered \/ \E t \in Workers : i \in cbs[t]

\* A thread that has decided to end did so after every job had run.
EndsAfterJobs ==
    /\ \A t \in Workers : idleTerm[t] \/ pc[t] = "leave" =>
          m_stopping /\ \A i \in Ids : <<"job", i>> \in ran
    /\ \A t \in Workers : pc[t] = "done" => idleTerm[t]

\* Whatever is left has somebody who has not yet looked past it: the looks of
\* stopping() are in the order timers, events, tasks.
SomebodyLooks ==
    /\ timers # {} => \E u \in Workers :
          ~idleTerm[u] /\ pc[u] \notin {"pending?", "tasks?", "leave", "done"}
    /\ registered # {} => \E u \in Workers :
          ~idleTerm[u] /\ pc[u] \notin {"tasks?", "leave", "done"}
    /\ m_fibers # <<>> => \E u \in Workers : pc[u] # "done"

LoopInv ==
    /\ Types /\ RunCounters /\ PendingCountsEvents
    /\ HandsOff /\ OnlyCreated /\ JobsOnce /\ NoneLost
    /\ EndsAfterJobs /\ SomebodyLooks

-----------------------------------------------------------------------------
(* Lemmas on the operators of the model. *)

\* The ids of a script are the finite set 1 .. Len(script), its delays natural numbers.
LEMMA ScriptFacts ==
    ASSUME script \in Scripts
    PROVE  /\ Len(script) \in Nat
           /\ Ids = 1 .. Len(script)
           /\ IsFiniteSet(Ids)
           /\ \A i \in Ids : i \in Nat /\ script[i].delay \in Nat
           /\ \A i \in Ids : script[i].kind \in {"plain", "timer", "event"}
<1>1. script \in Seq(Job)
  BY LoopAssumption
<1>2. Len(script) \in Nat /\ Ids = 1 .. Len(script)
  BY <1>1 DEF Ids
<1>3. IsFiniteSet(1 .. Len(script))
  BY <1>2, FS_Interval
<1>4. \A i \in Ids : script[i] \in Job
  BY <1>1, <1>2
<1>5. \A j \in Job : j.delay \in Nat /\ j.kind \in {"plain", "timer", "event"}
  BY DEF Job
<1> QED BY <1>2, <1>3, <1>4, <1>5

\* A set of natural numbers has a least element.
LEMMA LeastNat ==
    ASSUME NEW T, T \subseteq Nat, T # {}
    PROVE  Min(T) \in Nat
<1> DEFINE R == OpToRel(<, Nat)
<1>1. \E x \in T : \A y \in T : ~(<<y, x>> \in R)
  <2>1. IsWellFoundedOn(R, Nat)
    BY NatLessThanWellFounded DEF R
  <2> QED BY <2>1, WFMin
<1>2. \A x, y \in Nat : ~(<<y, x>> \in R) => x <= y
  BY DEF OpToRel
<1>3. \E x \in T : \A y \in T : x <= y
  BY <1>1, <1>2
<1> QED BY <1>3 DEF Min

\* getNextTimer answers ~0ull only when no timer is left: no thread passes its
\* first look while a timer is armed.
LEMMA ForeverMeansNone ==
    ASSUME Types, NextTimer = Forever
    PROVE  timers = {}
<1> SUFFICES ASSUME timers # {} PROVE FALSE
  OBVIOUS
<1> DEFINE T == {script[i].delay : i \in timers}
<1>1. T \subseteq Nat /\ T # {}
  BY ScriptFacts DEF Types
<1>2. Min(T) \in Nat
  BY <1>1, LeastNat
<1>3. NextTimer = 0 \/ NextTimer = Min(T)
  BY DEF NextTimer
<1> HIDE DEF T
<1> QED BY <1>2, <1>3 DEF Forever

\* The sequence that schedule(begin, end) is given for a set of callbacks has
\* every one of them and nothing else.
LEMMA CallbacksFacts ==
    ASSUME NEW ids, IsFiniteSet(ids), ids \subseteq Nat
    PROVE  /\ Callbacks(ids) \in Seq(Task)
           /\ \A k \in DOMAIN Callbacks(ids) : \E i \in ids : Callbacks(ids)[k] = <<"cb", i>>
           /\ \A i \in ids : \E k \in DOMAIN Callbacks(ids) : Callbacks(ids)[k] = <<"cb", i>>
<1> DEFINE n == Cardinality(ids)
           s == SetToSeq(ids)
<1>1. n \in Nat /\ ExistsBijection(1 .. n, ids)
  BY FS_CardinalityType
<1>2. \E f \in [1 .. n -> ids] : IsInjective(f)
  BY <1>1 DEF ExistsBijection, Bijection, Injection, IsInjective
<1>3. s \in [1 .. n -> ids] /\ IsInjective(s)
  BY <1>2 DEF SetToSeq
<1>4. s \in Injection(1 .. n, ids)
  BY <1>3 DEF Injection
<1>5. IsFiniteSet(1 .. n) /\ Cardinality(1 .. n) = n
  BY <1>1, FS_Interval
<1>6. s \in Surjection(1 .. n, ids)
  BY <1>4, <1>5, FS_Injection
<1>7. \A i \in ids : \E k \in 1 .. n : s[k] = i
  BY <1>6 DEF Surjection
<1>8. Callbacks(ids) = [k \in 1 .. n |-> <<"cb", s[k]>>]
  BY <1>3 DEF Callbacks
<1> HIDE DEF s, n
<1>9. \A k \in 1 .. n : <<"cb", s[k]>> \in Task
  BY <1>3 DEF Task
<1>10. Callbacks(ids) \in Seq(Task)
  BY <1>1, <1>8, <1>9, IsASeq
<1> QED BY <1>3, <1>7, <1>8, <1>10

\* What Push does to the list: c is s followed by r.
Pushed(s, r, c) ==
    /\ \A k \in DOMAIN s : k \in DOMAIN c /\ c[k] = s[k]
    /\ \A k \in DOMAIN c :
          k \in DOMAIN s \/ (\E j \in DOMAIN r : c[k] = r[j] /\ k = Len(s) + j)
    /\ \A j \in DOMAIN r : \E k \in DOMAIN c : c[k] = r[j]

LEMMA PushFacts ==
    ASSUME NEW S, NEW s \in Seq(S), NEW r \in Seq(S), NEW c, c = s \o r
    PROVE  c \in Seq(S) /\ Pushed(s, r, c)
<1>1. /\ c \in Seq(S) /\ Len(c) = Len(s) + Len(r)
      /\ \A k \in 1 .. (Len(s) + Len(r)) : c[k] = IF k <= Len(s) THEN s[k] ELSE r[k - Len(s)]
  BY ConcatProperties
<1>2. Len(s) \in Nat /\ Len(r) \in Nat /\ DOMAIN s = 1 .. Len(s) /\ DOMAIN r = 1 .. Len(r)
      /\ DOMAIN c = 1 .. (Len(s) + Len(r))
  BY <1>1
<1>4. \A k \in DOMAIN s : k \in DOMAIN c /\ c[k] = s[k]
  BY <1>1, <1>2
<1>5. ASSUME NEW k \in DOMAIN c, k \notin DOMAIN s
      PROVE  \E j \in DOMAIN r : c[k] = r[j] /\ k = Len(s) + j
  <2>1. k - Len(s) \in DOMAIN r /\ c[k] = r[k - Len(s)] /\ k = Len(s) + (k - Len(s))
    BY <1>1, <1>2, <1>5
  <2> QED BY <2>1
<1>6. ASSUME NEW j \in DOMAIN r
      PROVE  \E k \in DOMAIN c : c[k] = r[j]
  <2>1. Len(s) + j \in DOMAIN c /\ ~(Len(s) + j <= Len(s)) /\ (Len(s) + j) - Len(s) = j
    BY <1>2
  <2>2. c[Len(s) + j] = r[j]
    BY <1>1, <1>2, <2>1
  <2> QED BY <2>1, <2>2
<1> QED BY <1>1, <1>4, <1>5, <1>6 DEF Pushed

\* The sequence that schedule(x) pushes.
LEMMA OneTask ==
    ASSUME NEW S, NEW e \in S
    PROVE  <<e>> \in Seq(S) /\ DOMAIN <<e>> = {1} /\ <<e>>[1] = e
OBVIOUS

\* What Take does to the list.
LEMMA TakeFacts ==
    ASSUME NEW S, NEW s \in Seq(S), s # <<>>
    PROVE  /\ Head(s) \in S /\ Tail(s) \in Seq(S)
           /\ 1 \in DOMAIN s /\ Head(s) = s[1]
           /\ \A k \in DOMAIN Tail(s) :
                 /\ k \in Nat /\ k + 1 \in DOMAIN s /\ k + 1 # 1
                 /\ Tail(s)[k] = s[k + 1]
           /\ \A k \in DOMAIN s : k # 1 => \E j \in DOMAIN Tail(s) : Tail(s)[j] = s[k]
<1>1. Len(s) \in Nat /\ Len(s) # 0 /\ DOMAIN s = 1 .. Len(s)
  BY EmptySeq
<1>2. /\ Head(s) = s[1] /\ Tail(s) \in Seq(S) /\ Len(Tail(s)) = Len(s) - 1
      /\ \A k \in 1 .. Len(Tail(s)) : Tail(s)[k] = s[k + 1]
  BY HeadTailProperties
<1>3. DOMAIN Tail(s) = 1 .. (Len(s) - 1)
  BY <1>1, <1>2
<1>4. ASSUME NEW k \in DOMAIN s, k # 1
      PROVE  \E j \in DOMAIN Tail(s) : Tail(s)[j] = s[k]
  <2>1. k - 1 \in DOMAIN Tail(s) /\ (k - 1) + 1 = k
    BY <1>1, <1>3, <1>4
  <2>2. Tail(s)[k - 1] = s[(k - 1) + 1]
    BY <1>2, <1>3, <2>1, <1>1
  <2> QED BY <2>1, <2>2
<1>5. Head(s) \in S
  BY <1>1, <1>2
<1> QED BY <1>1, <1>2, <1>3, <1>4, <1>5

\* A count of zero means that no thread is there.
LEMMA CountZero ==
    ASSUME NEW P, NEW p, CountAt(p, P) = 0
    PROVE  \A t \in Workers : p[t] \notin P
<1>1. IsFiniteSet({t \in Workers : p[t] \in P})
  BY LoopAssumption, FS_Subset
<1>2. {t \in Workers : p[t] \in P} = {}
  BY <1>1, FS_EmptySet DEF CountAt
<1> QED BY <1>2

-----------------------------------------------------------------------------
(* Type correctness. *)

\* The invariant holds before the first schedule().
LEMMA InitLoopInv == Init => LoopInv
<1> SUFFICES ASSUME Init PROVE LoopInv
  OBVIOUS
<1> USE DEF Init
<1>1. Types
  <2>1. Len(script) \in Nat /\ 0 <= Len(script)
    BY ScriptFacts
  <2>2. m_fibers \in Seq(Task)
    OBVIOUS
  <2>3. pc \in [Workers -> Pc]
    BY DEF Pc
  <2> QED BY <2>1, <2>2, <2>3 DEF Types
<1>2. RunCounters /\ PendingCountsEvents
  <2>1. /\ {t \in Workers : pc[t] \in ActivePc} = {}
        /\ {t \in Workers : pc[t] \in IdlePc} = {}
        /\ {t \in Workers : pc[t] \in {"tickleEvent", "triggered"}} = {}
    BY DEF ActivePc, IdlePc
  <2>2. Cardinality({}) = 0
    BY FS_EmptySet
  <2>3. m_pendingEventCount = 0 /\ registered = {} /\ 0 = 0 + 0
    OBVIOUS
  <2> QED BY <2>1, <2>2, <2>3 DEF RunCounters, CountAt, PendingCountsEvents
<1>3. HandsOff /\ JobsOnce /\ EndsAfterJobs /\ SomebodyLooks
  BY DEF HandsOff, JobsOnce, EndsAfterJobs, SomebodyLooks
<1>4. Created = {}
  BY ScriptFacts DEF Created
<1>5. OnlyCreated /\ NoneLost
  BY <1>4 DEF OnlyCreated, NoneLost
<1> QED BY <1>1, <1>2, <1>3, <1>5 DEF LoopInv

\* Who is in Created.
Submitted(i) == i \in Ids /\ (m_stopping \/ i <= next)

LeftBehind(i) == i \in Ids /\ script[i].kind # "plain" /\ <<"job", i>> \in ran

LEMMA CreatedFacts ==
    Types => /\ \A x \in Created : \E i \in Ids : \/ x = <<"job", i>> /\ Submitted(i)
                                                  \/ x = <<"cb", i>> /\ LeftBehind(i)
             /\ \A i \in Ids : <<"job", i>> \in Created <=> Submitted(i)
             /\ \A i \in Ids : <<"cb", i>> \in Created <=> LeftBehind(i)
<1> SUFFICES ASSUME Types
             PROVE  /\ \A x \in Created : \E i \in Ids : \/ x = <<"job", i>> /\ Submitted(i)
                                                         \/ x = <<"cb", i>> /\ LeftBehind(i)
                    /\ \A i \in Ids : <<"job", i>> \in Created <=> Submitted(i)
                    /\ \A i \in Ids : <<"cb", i>> \in Created <=> LeftBehind(i)
  OBVIOUS
<1> DEFINE J == IF m_stopping THEN Ids ELSE 1 .. next
           C == {j \in Ids : script[j].kind # "plain" /\ <<"job", j>> \in ran}
<1>1. Created = {<<"job", i>> : i \in J} \cup {<<"cb", i>> : i \in C}
  BY DEF Created
<1>2. \A i : i \in J <=> Submitted(i)
  BY ScriptFacts DEF Types, Submitted
<1>3. \A i : i \in C <=> LeftBehind(i)
  BY DEF LeftBehind
<1> HIDE DEF J, C
<1>4. \A i \in Ids : <<"job", i>> \in Created <=> Submitted(i)
  BY <1>1, <1>2
<1>5. \A i \in Ids : <<"cb", i>> \in Created <=> LeftBehind(i)
  BY <1>1, <1>3
<1>6. ASSUME NEW x \in Created
      PROVE  \E i \in Ids : \/ x = <<"job", i>> /\ Submitted(i)
                            \/ x = <<"cb", i>> /\ LeftBehind(i)
  <2>1. CASE x \in {<<"job", i>> : i \in J}
    <3>1. PICK i \in J : x = <<"job", i>>
      BY <2>1
    <3>2. Submitted(i) /\ i \in Ids
      BY <1>2 DEF Submitted
    <3> QED BY <3>1, <3>2
  <2>2. CASE x \in {<<"cb", i>> : i \in C}
    BY <2>2, <1>3 DEF LeftBehind
  <2> QED BY <1>1, <2>1, <2>2
<1> QED BY <1>4, <1>5, <1>6

\* A job that a thread runs is one of the script's, and has not run before.
LEMMA RunningJob ==
    ASSUME LoopInv, NEW t \in Workers, pc[t] = "run", cur[t][1] = "job"
    PROVE  /\ cur[t][2] \in Ids
           /\ cur[t] = <<"job", cur[t][2]>>
           /\ cur[t] \notin ran
<1>1. cur[t] \in Created
  BY DEF LoopInv, OnlyCreated
<1>2. PICK i \in Ids : cur[t] = <<"job", i>>
  BY <1>1, CreatedFacts DEF LoopInv
<1> QED BY <1>2 DEF LoopInv, JobsOnce

\* Every step keeps the types.
LEMMA TypesStep == LoopInv /\ [Next]_vars => Types'
<1> SUFFICES ASSUME LoopInv, Types, HandsOff, [Next]_vars
             PROVE  Types'
  BY DEF LoopInv
<1>s. /\ Len(script) \in Nat /\ Ids = 1 .. Len(script) /\ IsFiniteSet(Ids)
      /\ \A i \in Ids : i \in Nat
  BY ScriptFacts DEF Types
<1>i. script' = script => Ids' = Ids
  BY DEF Ids
<1>t. \A i \in Nat : <<"job", i>> \in Task /\ <<"cb", i>> \in Task
  BY DEF Task
<1>p. ASSUME NEW r \in Seq(Task) PROVE m_fibers \o r \in Seq(Task)
  BY PushFacts DEF Types
<1> USE DEF Types
<1>1. CASE Submit
  <2>1. << <<"job", next + 1>> >> \in Seq(Task)
    <3> DEFINE e == <<"job", next + 1>>
    <3>0. next + 1 \in Nat
      OBVIOUS
    <3>1. e \in Task
      BY <3>0, <1>t
    <3> HIDE DEF e
    <3>2. <<e>> \in Seq(Task)
      BY <3>1, OneTask
    <3> QED BY <3>2 DEF e
  <2>2. m_fibers' \in Seq(Task)
    BY <1>1, <2>1, <1>p DEF Submit, Push
  <2> QED BY <1>1, <2>2, <1>i, <1>s DEF Submit, clock, events, local
<1>2. CASE SubmitTickle
  BY <1>2, <1>i DEF SubmitTickle, clock, events, local
<1>3. CASE BeginStop
  BY <1>3, <1>i DEF BeginStop, clock, events, local
<1>4. CASE StopTickle
  <2>1. caller' \in {"stop", "join"} /\ m_stopping' = m_stopping
    BY <1>4 DEF StopTickle
  <2> QED BY <1>4, <2>1, <1>i DEF StopTickle, clock, events, local
<1>5. CASE Join
  BY <1>5, <1>i DEF Join, clock, events, local
<1>6. ASSUME NEW t \in Workers, Take(t) PROVE Types'
  <2>1. Head(m_fibers) \in Task /\ Tail(m_fibers) \in Seq(Task)
    BY <1>6, TakeFacts DEF Take
  <2> QED BY <1>6, <2>1, <1>i DEF Take, Go, clock, events, Pc, ActivePc
<1>7. ASSUME NEW t \in Workers, FindNone(t) PROVE Types'
  BY <1>7, <1>i DEF FindNone, Go, lists, clock, events, Pc
<1>8. ASSUME NEW t \in Workers, RunPlain(t) PROVE Types'
  BY <1>8, <1>i DEF RunPlain, Go, lists, clock, events, Pc, ActivePc
<1>9. ASSUME NEW t \in Workers, RunAddTimer(t) PROVE Types'
  <2>1. cur[t][2] \in Ids
    BY <1>9, RunningJob DEF RunAddTimer
  <2> QED BY <1>9, <2>1, <1>i DEF RunAddTimer, Go, lists, events, Pc, ActivePc
<1>10. ASSUME NEW t \in Workers, RunAddEvent(t) PROVE Types'
  <2>1. cur[t][2] \in Ids
    BY <1>10, RunningJob DEF RunAddEvent
  <2> QED BY <1>10, <2>1, <1>i DEF RunAddEvent, Go, lists, clock, Pc, ActivePc
<1>11. ASSUME NEW t \in Workers, Finish(t) PROVE Types'
  BY <1>11, <1>i DEF Finish, Go, clock, events, Pc
<1>12. ASSUME NEW t \in Workers, EnterIdle(t) PROVE Types'
  BY <1>12, <1>i DEF EnterIdle, Go, lists, clock, events, Pc, IdlePc
<1>13. ASSUME NEW t \in Workers, LookAtTimers(t) PROVE Types'
  BY <1>13, <1>i DEF LookAtTimers, Go, lists, events, Pc, IdlePc
<1>14. ASSUME NEW t \in Workers, LookAtPending(t) PROVE Types'
  BY <1>14, <1>i DEF LookAtPending, Go, lists, clock, events, Pc, IdlePc
<1>15. ASSUME NEW t \in Workers, LookAtTasks(t) PROVE Types'
  BY <1>15, <1>i DEF LookAtTasks, Go, lists, clock, events, Pc, IdlePc
<1>16. ASSUME NEW t \in Workers, Wake(t) PROVE Types'
  BY <1>16, <1>i DEF Wake, Go, lists, clock, Pc, IdlePc
<1>17. ASSUME NEW t \in Workers, WaitEnds(t) PROVE Types'
  BY <1>17, <1>i DEF WaitEnds, Go, lists, clock, events, Pc, IdlePc
<1>18. ASSUME NEW t \in Workers, ListExpired(t) PROVE Types'
  BY <1>18, <1>i DEF ListExpired, Go, lists, events, Pc, IdlePc
<1>19. ASSUME NEW t \in Workers, ScheduleExpired(t) PROVE Types'
  <2>1. IsFiniteSet(cbs[t]) /\ cbs[t] \subseteq Nat
    BY <1>s, FS_Subset
  <2>2. m_fibers' \in Seq(Task)
    BY <1>19, <2>1, CallbacksFacts, <1>p DEF ScheduleExpired, Push
  <2> QED BY <1>19, <2>2, <1>i DEF ScheduleExpired, Go, clock, events, Pc, IdlePc
<1>20. ASSUME NEW t \in Workers, Trigger(t) PROVE Types'
  <2>1. PICK i \in got[t] \ {Pipe} :
                            /\ got' = [got EXCEPT ![t] = @ \ {i}]
                            /\ registered' = registered \ {i}
                            /\ Push(<< <<"cb", i>> >>)
    BY <1>20 DEF Trigger
  <2>2. << <<"cb", i>> >> \in Seq(Task)
    <3> DEFINE e == <<"cb", i>>
    <3>1. e \in Task
      BY <1>s, <1>t
    <3> HIDE DEF e
    <3>2. <<e>> \in Seq(Task)
      BY <3>1, OneTask
    <3> QED BY <3>2 DEF e
  <2>3. m_fibers' \in Seq(Task)
    BY <2>1, <2>2, <1>p DEF Push
  <2>4. ready' \subseteq registered'
    BY <1>20, <2>1 DEF Trigger, HandsOff
  <2> QED BY <1>20, <2>1, <2>3, <2>4, <1>i DEF Trigger, Go, clock, Pc, IdlePc
<1>21. ASSUME NEW t \in Workers, Triggered(t) PROVE Types'
  BY <1>21, <1>i DEF Triggered, Go, lists, clock, Pc, IdlePc
<1>22. ASSUME NEW t \in Workers, Tickle(t) PROVE Types'
  <2>1. TickleReturn[pc[t]] \in {"finish", "events", "triggered"}
    BY <1>22 DEF Tickle, TickleReturn
  <2> QED BY <1>22, <2>1, <1>i DEF Tickle, Go, lists, clock, events, Pc, IdlePc, ActivePc
<1>23. ASSUME NEW t \in Workers, LeaveIdle(t) PROVE Types'
  BY <1>23, <1>i DEF LeaveIdle, Go, lists, clock, events, Pc
<1>24. ASSUME NEW i \in Ids, TimerDue(i) PROVE Types'
  BY <1>24, <1>i DEF TimerDue, lists, events, local
<1>25. ASSUME NEW i \in Ids, FdReady(i) PROVE Types'
  BY <1>25, <1>i DEF FdReady, lists, clock, local
<1>26. CASE UNCHANGED vars
  BY <1>26, <1>i DEF vars, lists, clock, events, local
<1>drain. ASSUME NEW t \in Workers, Drain(t) PROVE Types'
  BY <1>drain, <1>i DEF Drain, lists, clock, events
<1> QED BY <1>drain, <1>1, <1>2, <1>3, <1>4, <1>5, <1>6, <1>7, <1>8, <1>9, <1>10, <1>11, <1>12, <1>13,
           <1>14, <1>15, <1>16, <1>17, <1>18, <1>19, <1>20, <1>21, <1>22, <1>23, <1>24, <1>25,
           <1>26
        DEF Next, Scheduling, Stop, Stopped, Worker

-----------------------------------------------------------------------------
(* The counters. *)

\* How a count follows the thread that moves.
Follows(n, P, t, l) ==
    n + (IF l \in P THEN 1 ELSE 0) - (IF pc[t] \in P THEN 1 ELSE 0)

LEMMA CountFollows ==
    ASSUME DOMAIN pc = Workers, NEW P, NEW t \in Workers, NEW l, pc' = [pc EXCEPT ![t] = l]
    PROVE  /\ CountAt(pc, P) \in Nat /\ CountAt(pc', P) \in Nat
           /\ CountAt(pc', P) = Follows(CountAt(pc, P), P, t, l)
<1> DEFINE A == {u \in Workers : pc[u] \in P}
           B == {u \in Workers : pc'[u] \in P}
<1>1. IsFiniteSet(A) /\ IsFiniteSet(B)
  BY LoopAssumption, FS_Subset
<1>2. Cardinality(A) \in Nat /\ Cardinality(B) \in Nat
  BY <1>1, FS_CardinalityType
<1>3. ASSUME pc[t] \in P <=> l \in P PROVE Cardinality(B) = Cardinality(A)
  <2>1. A = B
    BY <1>3
  <2> QED BY <2>1
<1>4. ASSUME pc[t] \notin P, l \in P PROVE Cardinality(B) = Cardinality(A) + 1
  <2>1. B = A \cup {t} /\ t \notin A
    BY <1>4
  <2> QED BY <2>1, <1>1, FS_AddElement
<1>5. ASSUME pc[t] \in P, l \notin P PROVE Cardinality(B) = Cardinality(A) - 1
  <2>1. B = A \ {t} /\ t \in A
    BY <1>5
  <2> QED BY <2>1, <1>1, FS_RemoveElement
<1>6. CountAt(pc, P) = Cardinality(A) /\ CountAt(pc', P) = Cardinality(B)
  BY DEF CountAt
<1> HIDE DEF A, B
<1> QED BY <1>2, <1>3, <1>4, <1>5, <1>6 DEF Follows

\* The counters after a step of one thread.
LEMMA CountersMove ==
    ASSUME LoopInv, Types', NEW t \in Workers, NEW l, pc' = [pc EXCEPT ![t] = l],
           m_activeThreadCount' = Follows(m_activeThreadCount, ActivePc, t, l),
           m_idleThreadCount' = Follows(m_idleThreadCount, IdlePc, t, l),
           m_pendingEventCount' - Cardinality(registered')
               = Follows(m_pendingEventCount - Cardinality(registered), CountedOffPc, t, l),
           m_pendingEventCount' \in Int
    PROVE  RunCounters' /\ PendingCountsEvents'
<1>1. DOMAIN pc = Workers
  BY DEF LoopInv, Types
<1>2a. /\ CountAt(pc, ActivePc) \in Nat /\ CountAt(pc', ActivePc) \in Nat
      /\ CountAt(pc', ActivePc) = Follows(CountAt(pc, ActivePc), ActivePc, t, l)
  BY <1>1, CountFollows
<1>2b. /\ CountAt(pc, IdlePc) \in Nat /\ CountAt(pc', IdlePc) \in Nat
      /\ CountAt(pc', IdlePc) = Follows(CountAt(pc, IdlePc), IdlePc, t, l)
  BY <1>1, CountFollows
<1>2c. /\ CountAt(pc, CountedOffPc) \in Nat /\ CountAt(pc', CountedOffPc) \in Nat
      /\ CountAt(pc', CountedOffPc) = Follows(CountAt(pc, CountedOffPc), CountedOffPc, t, l)
  BY <1>1, CountFollows
<1>3. RunCounters'
  <2>1. RunCounters
    BY DEF LoopInv
  <2> QED BY <1>2a, <1>2b, <2>1 DEF RunCounters
<1>4. Cardinality(registered) \in Nat /\ Cardinality(registered') \in Nat
  <2>1. IsFiniteSet(Ids) /\ registered \subseteq Ids
    BY ScriptFacts DEF LoopInv, Types
  <2>2. IsFiniteSet(Ids') /\ registered' \subseteq Ids'
    <3>1. script' \in Seq(Job) /\ registered' \subseteq DOMAIN script'
      BY LoopAssumption DEF Types, Ids
    <3>2. Len(script') \in Nat /\ DOMAIN script' = 1 .. Len(script')
      BY <3>1
    <3> QED BY <3>1, <3>2, FS_Interval DEF Ids
  <2> QED BY <2>1, <2>2, FS_Subset, FS_CardinalityType
<1>5. PendingCountsEvents'
  <2>1. m_pendingEventCount = Cardinality(registered) + CountAt(pc, CountedOffPc)
    BY DEF LoopInv, PendingCountsEvents, CountAt, CountedOffPc
  <2> DEFINE a == CountAt(pc, CountedOffPc)
             b == CountAt(pc', CountedOffPc)
  <2>2. a \in Nat /\ b \in Nat /\ b = Follows(a, CountedOffPc, t, l)
    BY <1>2c
  <2>3. b = CountAt(pc, CountedOffPc)'
    BY DEF CountAt
  <2>4. m_pendingEventCount = Cardinality(registered) + a
    BY <2>1
  <2> HIDE DEF a, b
  <2>5. m_pendingEventCount' = Cardinality(registered') + b
    BY <1>4, <2>2, <2>4 DEF Follows
  <2> QED BY <2>3, <2>5 DEF PendingCountsEvents, CountAt, CountedOffPc
<1> QED BY <1>3, <1>5

\* No step disturbs the counters.
LEMMA CountersStep ==
    ASSUME LoopInv, Types', [Next]_vars
    PROVE  RunCounters' /\ PendingCountsEvents'
<1>a. /\ Types /\ RunCounters /\ PendingCountsEvents
      /\ m_activeThreadCount \in Nat /\ m_idleThreadCount \in Nat
      /\ IsFiniteSet(registered) /\ Cardinality(registered) \in Nat
      /\ m_pendingEventCount \in Nat
  <2>1. Types /\ RunCounters /\ PendingCountsEvents
    BY DEF LoopInv
  <2>2. IsFiniteSet(registered) /\ Cardinality(registered) \in Nat
    BY <2>1, ScriptFacts, FS_Subset, FS_CardinalityType DEF Types
  <2>3. \A P : CountAt(pc, P) \in Nat
    BY LoopAssumption, FS_Subset, FS_CardinalityType DEF CountAt
  <2>4. CountAt(pc, CountedOffPc) \in Nat
        /\ m_pendingEventCount = Cardinality(registered) + CountAt(pc, CountedOffPc)
    BY <2>1, <2>3 DEF PendingCountsEvents, CountAt, CountedOffPc
  <2> QED BY <2>1, <2>2, <2>3, <2>4 DEF RunCounters
<1>b. ASSUME UNCHANGED <<pc, m_activeThreadCount, m_idleThreadCount, m_pendingEventCount,
                         registered>>
      PROVE  RunCounters' /\ PendingCountsEvents'
  BY <1>a, <1>b DEF RunCounters, CountAt, PendingCountsEvents
<1>c. ASSUME NEW t \in Workers, NEW l, pc' = [pc EXCEPT ![t] = l],
             UNCHANGED <<m_activeThreadCount, m_idleThreadCount, m_pendingEventCount, registered>>,
             l \in ActivePc <=> pc[t] \in ActivePc,
             l \in IdlePc <=> pc[t] \in IdlePc,
             l \in CountedOffPc <=> pc[t] \in CountedOffPc
      PROVE  RunCounters' /\ PendingCountsEvents'
  <2>1. /\ m_activeThreadCount' = Follows(m_activeThreadCount, ActivePc, t, l)
        /\ m_idleThreadCount' = Follows(m_idleThreadCount, IdlePc, t, l)
        /\ m_pendingEventCount' - Cardinality(registered')
               = Follows(m_pendingEventCount - Cardinality(registered), CountedOffPc, t, l)
        /\ m_pendingEventCount' \in Int
    BY <1>a, <1>c DEF Follows
  <2> QED BY <1>c, <2>1, CountersMove
<1> USE DEF ActivePc, IdlePc, CountedOffPc, Go
<1>1. CASE Submit \/ SubmitTickle \/ BeginStop \/ StopTickle \/ Join
  BY <1>1, <1>b DEF Submit, SubmitTickle, BeginStop, StopTickle, Join, local, events
<1>2. ASSUME NEW t \in Workers, Take(t) PROVE RunCounters' /\ PendingCountsEvents'
  <2>1. /\ m_activeThreadCount' = Follows(m_activeThreadCount, ActivePc, t, "run")
        /\ m_idleThreadCount' = Follows(m_idleThreadCount, IdlePc, t, "run")
        /\ m_pendingEventCount' - Cardinality(registered')
               = Follows(m_pendingEventCount - Cardinality(registered), CountedOffPc, t, "run")
        /\ m_pendingEventCount' \in Int
    BY <1>2, <1>a DEF Take, Follows, events
  <2> QED BY <1>2, <2>1, CountersMove DEF Take
<1>3. ASSUME NEW t \in Workers, FindNone(t) PROVE RunCounters' /\ PendingCountsEvents'
  BY <1>3, <1>c DEF FindNone, lists, events
<1>4. ASSUME NEW t \in Workers, RunPlain(t) PROVE RunCounters' /\ PendingCountsEvents'
  BY <1>4, <1>c DEF RunPlain, lists, events
<1>5. ASSUME NEW t \in Workers, RunAddTimer(t) PROVE RunCounters' /\ PendingCountsEvents'
  BY <1>5, <1>c DEF RunAddTimer, lists, events
<1>6. ASSUME NEW t \in Workers, RunAddEvent(t) PROVE RunCounters' /\ PendingCountsEvents'
  <2> DEFINE i == cur[t][2]
  <2>1. i \in Ids /\ cur[t] = <<"job", i>> /\ cur[t] \notin ran
    BY <1>6, RunningJob DEF RunAddEvent
  <2>2. i \notin registered
    <3>1. SUFFICES ASSUME i \in registered PROVE FALSE
      OBVIOUS
    <3>2. <<"cb", i>> \in Created
      BY <3>1 DEF LoopInv, OnlyCreated
    <3>3. <<"job", i>> \in ran
      BY <3>2, <2>1, <1>a, CreatedFacts DEF LeftBehind
    <3> QED BY <3>3, <2>1
  <2>3. Cardinality(registered') = Cardinality(registered) + 1
    BY <1>6, <1>a, <2>2, FS_AddElement DEF RunAddEvent
  <2>4. /\ m_activeThreadCount' = Follows(m_activeThreadCount, ActivePc, t, "finish")
        /\ m_idleThreadCount' = Follows(m_idleThreadCount, IdlePc, t, "finish")
    BY <1>6, <1>a DEF RunAddEvent, Follows, lists
  <2>5. /\ m_pendingEventCount' - Cardinality(registered')
               = Follows(m_pendingEventCount - Cardinality(registered), CountedOffPc, t, "finish")
        /\ m_pendingEventCount' \in Int
    BY <1>6, <1>a, <2>3 DEF RunAddEvent, Follows
  <2> QED BY <1>6, <2>4, <2>5, CountersMove DEF RunAddEvent
<1>7. ASSUME NEW t \in Workers, Finish(t) PROVE RunCounters' /\ PendingCountsEvents'
  <2>1. /\ m_activeThreadCount' = Follows(m_activeThreadCount, ActivePc, t, "scan")
        /\ m_idleThreadCount' = Follows(m_idleThreadCount, IdlePc, t, "scan")
        /\ m_pendingEventCount' - Cardinality(registered')
               = Follows(m_pendingEventCount - Cardinality(registered), CountedOffPc, t, "scan")
        /\ m_pendingEventCount' \in Int
    BY <1>7, <1>a DEF Finish, Follows, events
  <2> QED BY <1>7, <2>1, CountersMove DEF Finish
<1>8. ASSUME NEW t \in Workers, EnterIdle(t) PROVE RunCounters' /\ PendingCountsEvents'
  <2>1. /\ m_activeThreadCount' = Follows(m_activeThreadCount, ActivePc, t, "timer?")
        /\ m_idleThreadCount' = Follows(m_idleThreadCount, IdlePc, t, "timer?")
        /\ m_pendingEventCount' - Cardinality(registered')
               = Follows(m_pendingEventCount - Cardinality(registered), CountedOffPc, t, "timer?")
        /\ m_pendingEventCount' \in Int
    BY <1>8, <1>a DEF EnterIdle, Follows, events, lists
  <2> QED BY <1>8, <2>1, CountersMove DEF EnterIdle
<1>9. ASSUME NEW t \in Workers, LookAtTimers(t) PROVE RunCounters' /\ PendingCountsEvents'
  BY <1>9, <1>c DEF LookAtTimers, lists, events
<1>10. ASSUME NEW t \in Workers, LookAtPending(t) PROVE RunCounters' /\ PendingCountsEvents'
  BY <1>10, <1>c DEF LookAtPending, lists, events
<1>11. ASSUME NEW t \in Workers, LookAtTasks(t) PROVE RunCounters' /\ PendingCountsEvents'
  BY <1>11, <1>c DEF LookAtTasks, lists, events
<1>12. ASSUME NEW t \in Workers, Wake(t) PROVE RunCounters' /\ PendingCountsEvents'
  BY <1>12, <1>c DEF Wake, lists
<1>13. ASSUME NEW t \in Workers, WaitEnds(t) PROVE RunCounters' /\ PendingCountsEvents'
  BY <1>13, <1>c DEF WaitEnds, lists, events
<1>14. ASSUME NEW t \in Workers, ListExpired(t) PROVE RunCounters' /\ PendingCountsEvents'
  BY <1>14, <1>c DEF ListExpired, lists, events
<1>15. ASSUME NEW t \in Workers, ScheduleExpired(t) PROVE RunCounters' /\ PendingCountsEvents'
  BY <1>15, <1>c DEF ScheduleExpired, lists, events
<1>16. ASSUME NEW t \in Workers, Trigger(t) PROVE RunCounters' /\ PendingCountsEvents'
  <2>1. PICK i \in got[t] \ {Pipe} : registered' = registered \ {i}
    BY <1>16 DEF Trigger
  <2>2. i \in registered
    BY DEF LoopInv, HandsOff
  <2>3. Cardinality(registered') = Cardinality(registered) - 1
    BY <2>1, <2>2, <1>a, FS_RemoveElement
  <2>4. PICK l \in {"tickleEvent", "triggered"} : pc' = [pc EXCEPT ![t] = l]
    BY <1>16 DEF Trigger
  <2>5. /\ m_activeThreadCount' = Follows(m_activeThreadCount, ActivePc, t, l)
        /\ m_idleThreadCount' = Follows(m_idleThreadCount, IdlePc, t, l)
    BY <1>16, <1>a DEF Trigger, Follows
  <2>6. /\ m_pendingEventCount' - Cardinality(registered')
               = Follows(m_pendingEventCount - Cardinality(registered), CountedOffPc, t, l)
        /\ m_pendingEventCount' \in Int
    BY <1>16, <1>a, <2>3 DEF Trigger, Follows
  <2> QED BY <2>4, <2>5, <2>6, CountersMove
<1>17. ASSUME NEW t \in Workers, Triggered(t) PROVE RunCounters' /\ PendingCountsEvents'
  <2>1. /\ m_activeThreadCount' = Follows(m_activeThreadCount, ActivePc, t, "events")
        /\ m_idleThreadCount' = Follows(m_idleThreadCount, IdlePc, t, "events")
        /\ m_pendingEventCount' - Cardinality(registered')
               = Follows(m_pendingEventCount - Cardinality(registered), CountedOffPc, t, "events")
        /\ m_pendingEventCount' \in Int
    BY <1>17, <1>a DEF Triggered, Follows, lists
  <2> QED BY <1>17, <2>1, CountersMove DEF Triggered
<1>18. ASSUME NEW t \in Workers, Tickle(t) PROVE RunCounters' /\ PendingCountsEvents'
  <2>1. PICK l \in {"finish", "events", "triggered"} :
          /\ pc' = [pc EXCEPT ![t] = l]
          /\ l \in ActivePc <=> pc[t] \in ActivePc
          /\ l \in IdlePc <=> pc[t] \in IdlePc
          /\ l \in CountedOffPc <=> pc[t] \in CountedOffPc
    <3>1. CASE pc[t] = "tickleFront"
      BY <1>18, <3>1 DEF Tickle, TickleReturn
    <3>2. CASE pc[t] = "tickleExpired"
      BY <1>18, <3>2 DEF Tickle, TickleReturn
    <3>3. CASE pc[t] = "tickleEvent"
      BY <1>18, <3>3 DEF Tickle, TickleReturn
    <3> QED BY <1>18, <3>1, <3>2, <3>3 DEF Tickle, TickleReturn
  <2> QED BY <1>18, <2>1, <1>c DEF Tickle, lists, events
<1>19. ASSUME NEW t \in Workers, LeaveIdle(t) PROVE RunCounters' /\ PendingCountsEvents'
  <2>1. /\ m_activeThreadCount' = Follows(m_activeThreadCount, ActivePc, t, "scan")
        /\ m_idleThreadCount' = Follows(m_idleThreadCount, IdlePc, t, "scan")
        /\ m_pendingEventCount' - Cardinality(registered')
               = Follows(m_pendingEventCount - Cardinality(registered), CountedOffPc, t, "scan")
        /\ m_pendingEventCount' \in Int
    BY <1>19, <1>a DEF LeaveIdle, Follows, events, lists
  <2> QED BY <1>19, <2>1, CountersMove DEF LeaveIdle
<1>20. ASSUME NEW i \in Ids, TimerDue(i) \/ FdReady(i) PROVE RunCounters' /\ PendingCountsEvents'
  BY <1>20, <1>b DEF TimerDue, FdReady, lists, events, local
<1>21. CASE UNCHANGED vars
  BY <1>21, <1>b DEF vars, lists, events, local
<1>drain. ASSUME NEW t \in Workers, Drain(t) PROVE RunCounters' /\ PendingCountsEvents'
  BY <1>drain, <1>b DEF Drain, lists, events
<1> QED BY <1>drain, <1>1, <1>2, <1>3, <1>4, <1>5, <1>6, <1>7, <1>8, <1>9, <1>10, <1>11, <1>12, <1>13,
           <1>14, <1>15, <1>16, <1>17, <1>18, <1>19, <1>20, <1>21
        DEF Next, Scheduling, Stop, Stopped, Worker

-----------------------------------------------------------------------------
(* Where the tasks are. *)

\* CreatedFacts in the next state.
CreatedAre ==
    /\ \A x \in Created : \E i \in Ids : \/ x = <<"job", i>> /\ Submitted(i)
                                         \/ x = <<"cb", i>> /\ LeftBehind(i)
    /\ \A i \in Ids : <<"job", i>> \in Created <=> Submitted(i)
    /\ \A i \in Ids : <<"cb", i>> \in Created <=> LeftBehind(i)

LEMMA CreatedThen == Types => CreatedAre
BY CreatedFacts DEF CreatedAre

LEMMA CreatedThenNext == Types' => CreatedAre'
BY CreatedThen, PTL

\* What epoll_wait and listExpiredCb hand out is in the hands of one thread.
LEMMA HandsOffStep ==
    ASSUME LoopInv, Types', [Next]_vars
    PROVE  HandsOff'
<1>a. Types /\ HandsOff
  BY DEF LoopInv
<1> USE <1>a DEF Types, HandsOff, Go
<1>1. CASE Submit \/ SubmitTickle \/ BeginStop \/ StopTickle \/ Join
  BY <1>1 DEF Submit, SubmitTickle, BeginStop, StopTickle, Join, local, events
<1>2. ASSUME NEW t \in Workers, Take(t) PROVE HandsOff'
  BY <1>2 DEF Take, events
<1>3. ASSUME NEW t \in Workers, FindNone(t) PROVE HandsOff'
  BY <1>3 DEF FindNone, events
<1>4. ASSUME NEW t \in Workers, RunPlain(t) PROVE HandsOff'
  BY <1>4 DEF RunPlain, events
<1>5. ASSUME NEW t \in Workers, RunAddTimer(t) PROVE HandsOff'
  BY <1>5 DEF RunAddTimer, events
<1>6. ASSUME NEW t \in Workers, RunAddEvent(t) PROVE HandsOff'
  BY <1>6 DEF RunAddEvent
<1>7. ASSUME NEW t \in Workers, Finish(t) PROVE HandsOff'
  BY <1>7 DEF Finish, events
<1>8. ASSUME NEW t \in Workers, EnterIdle(t) PROVE HandsOff'
  BY <1>8 DEF EnterIdle, events
<1>9. ASSUME NEW t \in Workers, LookAtTimers(t) PROVE HandsOff'
  BY <1>9 DEF LookAtTimers, events
<1>10. ASSUME NEW t \in Workers, LookAtPending(t) PROVE HandsOff'
  BY <1>10 DEF LookAtPending, events
<1>11. ASSUME NEW t \in Workers, LookAtTasks(t) PROVE HandsOff'
  BY <1>11 DEF LookAtTasks, events
<1>12. ASSUME NEW t \in Workers, Wake(t) PROVE HandsOff'
  <2>1. /\ got' = [got EXCEPT ![t] = ready \cup {p \in {Pipe} : edge}]
        /\ ready' = {} /\ UNCHANGED <<registered, cbs>>
        /\ pc' = [pc EXCEPT ![t] = "expire"] /\ pc[t] = "wait"
    BY <1>12 DEF Wake
  <2>2. got'[t] \subseteq ready \cup {Pipe} /\ \A u \in Workers : u # t => got'[u] = got[u]
    BY <2>1
  <2>3. \A u, v \in Workers : u # v => got'[u] \cap got'[v] \subseteq {Pipe}
    BY <2>2
  <2> QED BY <2>1, <2>2, <2>3
<1>13. ASSUME NEW t \in Workers, WaitEnds(t) PROVE HandsOff'
  BY <1>13 DEF WaitEnds, events
<1>14. ASSUME NEW t \in Workers, ListExpired(t) PROVE HandsOff'
  BY <1>14 DEF ListExpired, events
<1>15. ASSUME NEW t \in Workers, ScheduleExpired(t) PROVE HandsOff'
  BY <1>15 DEF ScheduleExpired, events
<1>16. ASSUME NEW t \in Workers, Trigger(t) PROVE HandsOff'
  <2>1. PICK i \in got[t] \ {Pipe} : got' = [got EXCEPT ![t] = @ \ {i}] /\ registered' = registered \ {i}
    BY <1>16 DEF Trigger
  <2>2. /\ pc[t] = "events" /\ UNCHANGED <<ready, cbs>>
        /\ \E l \in {"tickleEvent", "triggered"} : pc' = [pc EXCEPT ![t] = l]
    BY <1>16 DEF Trigger
  <2> QED BY <2>1, <2>2
<1>17. ASSUME NEW t \in Workers, Triggered(t) PROVE HandsOff'
  BY <1>17 DEF Triggered
<1>18. ASSUME NEW t \in Workers, Tickle(t) PROVE HandsOff'
  <2>1. CASE pc[t] = "tickleFront"
    BY <1>18, <2>1 DEF Tickle, TickleReturn, events
  <2>2. CASE pc[t] = "tickleExpired"
    BY <1>18, <2>2 DEF Tickle, TickleReturn, events
  <2>3. CASE pc[t] = "tickleEvent"
    BY <1>18, <2>3 DEF Tickle, TickleReturn, events
  <2> QED BY <1>18, <2>1, <2>2, <2>3 DEF Tickle, TickleReturn
<1>19. ASSUME NEW t \in Workers, LeaveIdle(t) PROVE HandsOff'
  BY <1>19 DEF LeaveIdle, events
<1>20. ASSUME NEW i \in Ids, TimerDue(i) \/ FdReady(i) PROVE HandsOff'
  BY <1>20 DEF TimerDue, FdReady, events, local
<1>21. CASE UNCHANGED vars
  BY <1>21 DEF vars, events, local
<1>drain. ASSUME NEW t \in Workers, Drain(t) PROVE HandsOff'
  BY <1>drain DEF Drain, events
<1> QED BY <1>drain, <1>1, <1>2, <1>3, <1>4, <1>5, <1>6, <1>7, <1>8, <1>9, <1>10, <1>11, <1>12, <1>13,
           <1>14, <1>15, <1>16, <1>17, <1>18, <1>19, <1>20, <1>21
        DEF Next, Scheduling, Stop, Stopped, Worker

\* A step that leaves the tasks where they are.
LEMMA QuietStep ==
    ASSUME LoopInv, Types', Created' = Created,
           UNCHANGED <<script, m_fibers, timers, registered, cbs, ran>>,
           \A u \in Workers : pc'[u] = "run" <=> pc[u] = "run",
           \A u \in Workers : pc[u] = "run" => cur'[u] = cur[u]
    PROVE  OnlyCreated' /\ JobsOnce' /\ NoneLost'
<1>1. OnlyCreated'
  BY DEF LoopInv, OnlyCreated
<1>2. JobsOnce'
  BY DEF LoopInv, JobsOnce
<1>3. NoneLost'
  BY DEF LoopInv, NoneLost, InList, Running, Ids
<1> QED BY <1>1, <1>2, <1>3

\* Submit puts the next job where no task was.
LEMMA SubmitPlaces ==
    ASSUME LoopInv, Types', Submit
    PROVE  OnlyCreated' /\ JobsOnce' /\ NoneLost'
<1>a. /\ Types /\ OnlyCreated /\ JobsOnce /\ NoneLost /\ CreatedAre /\ CreatedAre'
      /\ Len(script) \in Nat /\ Ids = 1 .. Len(script)
  BY CreatedThen, CreatedThenNext, ScriptFacts DEF LoopInv, Types
<1>n. PICK n \in Ids : n = next + 1
  BY <1>a DEF Submit, Types
<1> DEFINE e == <<"job", n>>
<1>b. /\ UNCHANGED <<script, timers, registered, cbs, ran, pc, cur, m_stopping>>
      /\ m_fibers' = m_fibers \o <<e>> /\ next' = next + 1 /\ ~m_stopping
      /\ Ids' = Ids
  BY <1>a, <1>n DEF Submit, Push, clock, events, local, Types, Ids
<1>c. e \in Task /\ <<e>> \in Seq(Task) /\ DOMAIN <<e>> = {1} /\ <<e>>[1] = e
  <2>1. e \in Task
    BY <1>a, <1>n DEF Task
  <2> HIDE DEF e
  <2> QED BY <2>1, OneTask
<1>d. /\ \A k \in DOMAIN m_fibers : k \in DOMAIN m_fibers' /\ m_fibers'[k] = m_fibers[k]
      /\ \A k \in DOMAIN m_fibers' :
            k \in DOMAIN m_fibers \/ (m_fibers'[k] = e /\ k = Len(m_fibers) + 1)
      /\ \E k \in DOMAIN m_fibers' : m_fibers'[k] = e
  <2>1. m_fibers \in Seq(Task)
    BY <1>a DEF Types
  <2>2. m_fibers' = m_fibers \o <<e>>
    BY <1>b
  <2> DEFINE r == <<e>>
  <2>3. r \in Seq(Task) /\ DOMAIN r = {1} /\ r[1] = e
    BY <1>c
  <2> HIDE DEF e, r
  <2>4. m_fibers' = m_fibers \o r
    BY <2>2 DEF r
  <2>5. Pushed(m_fibers, r, m_fibers')
    BY <2>1, <2>3, <2>4, PushFacts
  <2> QED BY <2>3, <2>5 DEF Pushed
<1>e. e \notin Created
  <2>1. ~Submitted(n)
    BY <1>a, <1>b, <1>n DEF Submitted, Types
  <2> QED BY <2>1, <1>a, <1>b DEF CreatedAre
<1>f. \A x \in Created : x \in Created'
  <2>1. \A i \in Ids : Submitted(i) => Submitted(i)'
    BY <1>a, <1>b DEF Submitted, Types
  <2>2. \A i \in Ids : LeftBehind(i) => LeftBehind(i)'
    BY <1>b DEF LeftBehind
  <2> QED BY <1>a, <1>b, <2>1, <2>2 DEF CreatedAre
<1>g. \A x \in Created' : x = e \/ x \in Created
  <2>1. \A i \in Ids : Submitted(i)' => i = n \/ Submitted(i)
    BY <1>a, <1>b, <1>n DEF Submitted, Types
  <2>2. \A i \in Ids : LeftBehind(i)' => LeftBehind(i)
    BY <1>b DEF LeftBehind
  <2> QED BY <1>a, <1>b, <2>1, <2>2 DEF CreatedAre
<1>h. e \in Created'
  <2>1. Submitted(n)'
    BY <1>a, <1>b, <1>n DEF Submitted, Types
  <2> QED BY <2>1, <1>a, <1>b DEF CreatedAre
<1> HIDE DEF e
<1>1. OnlyCreated'
  BY <1>a, <1>b, <1>d, <1>f, <1>h DEF OnlyCreated
<1>2. JobsOnce'
  <2>1. /\ \A k \in DOMAIN m_fibers : m_fibers[k] # e
        /\ \A t \in Workers : pc[t] = "run" => cur[t] # e
        /\ e \notin ran
    BY <1>a, <1>e DEF OnlyCreated
  <2> QED BY <1>a, <1>b, <1>d, <2>1 DEF JobsOnce
<1>3. NoneLost'
  BY <1>a, <1>b, <1>d, <1>g DEF NoneLost, InList, Running
<1> QED BY <1>1, <1>2, <1>3

\* Take moves the first task from the list to the thread.
LEMMA TakePlaces ==
    ASSUME LoopInv, Types', NEW t \in Workers, Take(t)
    PROVE  OnlyCreated' /\ JobsOnce' /\ NoneLost'
<1>a. Types /\ OnlyCreated /\ JobsOnce /\ NoneLost
  BY DEF LoopInv
<1>b. /\ UNCHANGED <<script, timers, registered, cbs, ran, m_stopping, next>>
      /\ m_fibers # <<>> /\ m_fibers' = Tail(m_fibers)
      /\ pc[t] = "scan" /\ pc' = [pc EXCEPT ![t] = "run"]
      /\ cur' = [cur EXCEPT ![t] = Head(m_fibers)]
      /\ Created' = Created /\ Ids' = Ids
  BY DEF Take, Go, clock, events, Created, Ids
<1>c. /\ pc'[t] = "run" /\ cur'[t] = Head(m_fibers)
      /\ \A u \in Workers : u # t => pc'[u] = pc[u] /\ cur'[u] = cur[u]
  BY <1>a, <1>b DEF Types
<1>d. /\ 1 \in DOMAIN m_fibers /\ Head(m_fibers) = m_fibers[1]
      /\ \A k \in DOMAIN m_fibers' :
            k \in Nat /\ k + 1 \in DOMAIN m_fibers /\ k + 1 # 1 /\ m_fibers'[k] = m_fibers[k + 1]
      /\ \A k \in DOMAIN m_fibers : k # 1 => \E j \in DOMAIN m_fibers' : m_fibers'[j] = m_fibers[k]
  BY <1>a, <1>b, TakeFacts DEF Types
<1>1. OnlyCreated'
  BY <1>a, <1>b, <1>c, <1>d DEF OnlyCreated
<1>2. JobsOnce'
  <2>1. \A j, k \in DOMAIN m_fibers' :
            m_fibers'[j] = m_fibers'[k] /\ m_fibers'[j][1] = "job" => j = k
    <3>1. \A j, k \in Nat : j + 1 = k + 1 => j = k
      OBVIOUS
    <3> QED BY <1>a, <1>d, <3>1 DEF JobsOnce
  <2>2. ASSUME NEW k \in DOMAIN m_fibers', m_fibers'[k][1] = "job"
        PROVE  /\ m_fibers'[k] \notin ran'
               /\ \A u \in Workers : pc'[u] = "run" => cur'[u] # m_fibers'[k]
    BY <1>a, <1>b, <1>c, <1>d, <2>2 DEF JobsOnce
  <2>3. ASSUME NEW u \in Workers, pc'[u] = "run", cur'[u][1] = "job"
        PROVE  /\ cur'[u] \notin ran'
               /\ \A v \in Workers : v # u /\ pc'[v] = "run" => cur'[v] # cur'[u]
    <3>1. CASE u = t
      BY <1>a, <1>b, <1>c, <1>d, <2>3, <3>1 DEF JobsOnce
    <3>2. CASE u # t
      BY <1>a, <1>b, <1>c, <1>d, <2>3, <3>2 DEF JobsOnce
    <3> QED BY <3>1, <3>2
  <2> QED BY <2>1, <2>2, <2>3 DEF JobsOnce
<1>3. NoneLost'
  <2>1. \A x : InList(x) => InList(x)' \/ Running(x)'
    BY <1>c, <1>d DEF InList, Running
  <2>2. \A x : Running(x) => Running(x)'
    BY <1>b, <1>c DEF Running
  <2> QED BY <1>a, <1>b, <2>1, <2>2 DEF NoneLost
<1> QED BY <1>1, <1>2, <1>3

\* A task that has run leaves behind its callback, if it is a job with a timer
\* or an event.
LEMMA RunPlaces ==
    ASSUME LoopInv, Types', NEW t \in Workers, RunPlain(t) \/ RunAddTimer(t) \/ RunAddEvent(t)
    PROVE  OnlyCreated' /\ JobsOnce' /\ NoneLost'
<1>a. /\ Types /\ OnlyCreated /\ JobsOnce /\ NoneLost /\ CreatedAre /\ CreatedAre'
  BY CreatedThen, CreatedThenNext DEF LoopInv
<1> DEFINE i == cur[t][2]
<1>b. /\ UNCHANGED <<script, m_fibers, m_stopping, next, cbs, cur>>
      /\ pc[t] = "run" /\ ran' = ran \cup {cur[t]}
      /\ \E l \in {"finish", "tickleFront"} : pc' = [pc EXCEPT ![t] = l]
      /\ Ids' = Ids
  BY DEF RunPlain, RunAddTimer, RunAddEvent, Go, lists, Ids
<1>c. /\ pc'[t] # "run"
      /\ \A u \in Workers : u # t => pc'[u] = pc[u]
  BY <1>a, <1>b DEF Types
<1>d. \A j \in Ids : Submitted(j)' <=> Submitted(j)
  BY <1>b DEF Submitted
<1>e. \A j \in Ids : LeftBehind(j)' <=> LeftBehind(j) \/ (cur[t] = <<"job", j>> /\ script[j].kind # "plain")
  BY <1>b DEF LeftBehind
<1>f. \A x \in Created : x \in Created'
  BY <1>a, <1>b, <1>d, <1>e DEF CreatedAre
<1>g. /\ timers \subseteq timers' /\ registered \subseteq registered'
      /\ \A j \in (timers' \cup registered') \ (timers \cup registered) :
            cur[t] = <<"job", j>> /\ script[j].kind # "plain"
      /\ \A j \in Ids : cur[t] = <<"job", j>> /\ script[j].kind # "plain"
                          => j \in timers' \cup registered'
  <2>1. CASE RunPlain(t)
    BY <2>1 DEF RunPlain, clock, events
  <2>2. CASE RunAddTimer(t)
    <3>1. cur[t] = <<"job", i>> /\ i \in Ids
      BY <2>2, RunningJob DEF RunAddTimer
    <3> QED BY <2>2, <3>1 DEF RunAddTimer, events
  <2>3. CASE RunAddEvent(t)
    <3>1. cur[t] = <<"job", i>> /\ i \in Ids
      BY <2>3, RunningJob DEF RunAddEvent
    <3> QED BY <2>3, <3>1 DEF RunAddEvent, clock
  <2> QED BY <2>1, <2>2, <2>3
<1>1. OnlyCreated'
  <2>1. ASSUME NEW j \in timers' \cup registered'
        PROVE  <<"cb", j>> \in Created'
    <3>1. CASE j \in timers \cup registered
      BY <1>a, <1>f, <3>1 DEF OnlyCreated
    <3>2. CASE j \notin timers \cup registered
      <4>1. cur[t] = <<"job", j>> /\ script[j].kind # "plain" /\ j \in Ids
        BY <1>b, <1>g, <3>2 DEF Types
      <4> QED BY <4>1, <1>a, <1>b, <1>e DEF CreatedAre
    <3> QED BY <3>1, <3>2
  <2>2. ran' \subseteq Created'
    BY <1>a, <1>b, <1>f DEF OnlyCreated
  <2>3. \A u \in Workers : pc'[u] = "run" => cur'[u] \in Created'
    BY <1>a, <1>b, <1>c, <1>f DEF OnlyCreated
  <2> QED BY <1>a, <1>b, <1>f, <2>1, <2>2, <2>3 DEF OnlyCreated
<1>2. JobsOnce'
  BY <1>a, <1>b, <1>c DEF JobsOnce
<1>3. NoneLost'
  <2> SUFFICES ASSUME NEW x \in Created'
               PROVE  \/ x \in ran' \/ InList(x)' \/ Running(x)'
                      \/ \E j \in Ids : /\ x = <<"cb", j>>
                                        /\ \/ j \in timers' \cup registered'
                                           \/ \E u \in Workers : j \in cbs'[u]
    BY <1>b DEF NoneLost
  <2>1. CASE x \in Created
    <3>1. InList(x) => InList(x)'
      BY <1>b DEF InList
    <3>2. Running(x) => Running(x)' \/ x \in ran'
      BY <1>b, <1>c DEF Running
    <3> QED BY <1>a, <1>b, <1>g, <2>1, <3>1, <3>2 DEF NoneLost
  <2>2. CASE x \notin Created
    <3>1. PICK j \in Ids : x = <<"cb", j>> /\ cur[t] = <<"job", j>> /\ script[j].kind # "plain"
      BY <1>a, <1>b, <1>d, <1>e, <2>2 DEF CreatedAre
    <3> QED BY <3>1, <1>g
  <2> QED BY <2>1, <2>2
<1> QED BY <1>1, <1>2, <1>3

\* listExpiredCb moves the timers that are due into the hands of the thread.
LEMMA ListExpiredPlaces ==
    ASSUME LoopInv, Types', NEW t \in Workers, ListExpired(t)
    PROVE  OnlyCreated' /\ JobsOnce' /\ NoneLost'
<1>a. Types /\ HandsOff /\ OnlyCreated /\ JobsOnce /\ NoneLost
  BY DEF LoopInv
<1>b. /\ UNCHANGED <<script, m_fibers, m_stopping, next, registered, cur, ran>>
      /\ pc[t] = "expire" /\ cbs' = [cbs EXCEPT ![t] = due] /\ timers' = timers \ due
      /\ \E l \in {"events", "schedule"} : pc' = [pc EXCEPT ![t] = l]
      /\ Created' = Created /\ Ids' = Ids
  BY DEF ListExpired, Go, lists, events, Created, Ids
<1>c. /\ pc'[t] # "run" /\ cbs[t] = {} /\ cbs'[t] = due
      /\ \A u \in Workers : u # t => pc'[u] = pc[u] /\ cbs'[u] = cbs[u]
  BY <1>a, <1>b DEF Types, HandsOff
<1>1. OnlyCreated'
  BY <1>a, <1>b, <1>c DEF OnlyCreated, Types
<1>2. JobsOnce'
  BY <1>a, <1>b, <1>c DEF JobsOnce
<1>3. NoneLost'
  <2>1. \A x : InList(x) => InList(x)'
    BY <1>b DEF InList
  <2>2. \A x : Running(x) => Running(x)'
    BY <1>b, <1>c DEF Running
  <2>3. \A i : i \in timers => i \in timers' \/ i \in cbs'[t]
    BY <1>b, <1>c
  <2>4. \A i : (\E u \in Workers : i \in cbs[u]) => \E u \in Workers : i \in cbs'[u]
    BY <1>c
  <2> QED BY <1>a, <1>b, <2>1, <2>2, <2>3, <2>4 DEF NoneLost
<1> QED BY <1>1, <1>2, <1>3

\* schedule(cbs.begin(), cbs.end()) moves them into the list.
LEMMA ScheduleExpiredPlaces ==
    ASSUME LoopInv, Types', NEW t \in Workers, ScheduleExpired(t)
    PROVE  OnlyCreated' /\ JobsOnce' /\ NoneLost'
<1> DEFINE r == Callbacks(cbs[t])
<1>a. Types /\ HandsOff /\ OnlyCreated /\ JobsOnce /\ NoneLost
  BY DEF LoopInv
<1>b. /\ UNCHANGED <<script, m_stopping, next, timers, registered, cur, ran>>
      /\ m_fibers' = m_fibers \o r /\ cbs' = [cbs EXCEPT ![t] = {}]
      /\ pc[t] = "schedule"
      /\ \E l \in {"tickleExpired", "events"} : pc' = [pc EXCEPT ![t] = l]
      /\ Created' = Created /\ Ids' = Ids
  BY DEF ScheduleExpired, Push, Go, clock, events, Created, Ids
<1>c. /\ pc'[t] # "run" /\ cbs'[t] = {}
      /\ \A u \in Workers : u # t => pc'[u] = pc[u] /\ cbs'[u] = cbs[u]
  BY <1>a, <1>b DEF Types
<1>d. /\ r \in Seq(Task)
      /\ \A k \in DOMAIN r : \E i \in cbs[t] : r[k] = <<"cb", i>>
      /\ \A i \in cbs[t] : \E k \in DOMAIN r : r[k] = <<"cb", i>>
  <2>1. IsFiniteSet(cbs[t]) /\ cbs[t] \subseteq Nat
    BY <1>a, ScriptFacts, FS_Subset DEF Types
  <2> QED BY <2>1, CallbacksFacts
<1> HIDE DEF r
<1>e. Pushed(m_fibers, r, m_fibers')
  BY <1>a, <1>b, <1>d, PushFacts DEF Types
<1>1. OnlyCreated'
  <2>1. \A k \in DOMAIN m_fibers' : m_fibers'[k] \in Created
    BY <1>a, <1>d, <1>e DEF OnlyCreated, Pushed
  <2> QED BY <1>a, <1>b, <1>c, <2>1 DEF OnlyCreated
<1>2. JobsOnce'
  <2>1. \A k \in DOMAIN m_fibers' : m_fibers'[k][1] = "job" =>
            k \in DOMAIN m_fibers /\ m_fibers'[k] = m_fibers[k]
    BY <1>d, <1>e DEF Pushed
  <2> QED BY <1>a, <1>b, <1>c, <2>1 DEF JobsOnce
<1>3. NoneLost'
  <2>1. \A x : InList(x) => InList(x)'
    BY <1>e DEF InList, Pushed
  <2>2. \A x : Running(x) => Running(x)'
    BY <1>b, <1>c DEF Running
  <2>3. \A i \in cbs[t] : InList(<<"cb", i>>)'
    BY <1>d, <1>e DEF InList, Pushed
  <2>4. \A i : (\E u \in Workers : i \in cbs[u]) =>
            i \in cbs[t] \/ \E u \in Workers : i \in cbs'[u]
    BY <1>c
  <2> QED BY <1>a, <1>b, <2>1, <2>2, <2>3, <2>4 DEF NoneLost
<1> QED BY <1>1, <1>2, <1>3

\* triggerEvent moves the callback of the event into the list.
LEMMA TriggerPlaces ==
    ASSUME LoopInv, Types', NEW t \in Workers, Trigger(t)
    PROVE  OnlyCreated' /\ JobsOnce' /\ NoneLost'
<1>a. Types /\ HandsOff /\ OnlyCreated /\ JobsOnce /\ NoneLost
  BY DEF LoopInv
<1>n. PICK i \in got[t] \ {Pipe} : registered' = registered \ {i} /\ Push(<< <<"cb", i>> >>)
  BY DEF Trigger
<1> DEFINE e == <<"cb", i>>
           r == <<e>>
<1>b. /\ UNCHANGED <<script, m_stopping, next, timers, cbs, cur, ran>>
      /\ m_fibers' = m_fibers \o r
      /\ pc[t] = "events"
      /\ \E l \in {"tickleEvent", "triggered"} : pc' = [pc EXCEPT ![t] = l]
      /\ Created' = Created /\ Ids' = Ids /\ i \in registered
  BY <1>a, <1>n DEF Trigger, Push, Go, clock, Created, Ids, HandsOff
<1>c. /\ pc'[t] # "run"
      /\ \A u \in Workers : u # t => pc'[u] = pc[u]
  BY <1>a, <1>b DEF Types
<1>d. /\ r \in Seq(Task) /\ DOMAIN r = {1} /\ r[1] = e
      /\ e[1] = "cb" /\ e \in Created
  <2>1. e \in Task
    BY <1>a, <1>b, ScriptFacts DEF Types, Task
  <2>2. e[1] = "cb" /\ e \in Created
    BY <1>a, <1>b DEF OnlyCreated
  <2> HIDE DEF e
  <2> QED BY <2>1, <2>2, OneTask
<1>e. Pushed(m_fibers, r, m_fibers')
  <2> HIDE DEF r
  <2> QED BY <1>a, <1>b, <1>d, PushFacts DEF Types
<1> HIDE DEF r, e
<1>1. OnlyCreated'
  <2>1. \A k \in DOMAIN m_fibers' : m_fibers'[k] \in Created
    BY <1>a, <1>d, <1>e DEF OnlyCreated, Pushed
  <2> QED BY <1>a, <1>b, <1>c, <1>n, <2>1 DEF OnlyCreated
<1>2. JobsOnce'
  <2>1. \A k \in DOMAIN m_fibers' : m_fibers'[k][1] = "job" =>
            k \in DOMAIN m_fibers /\ m_fibers'[k] = m_fibers[k]
    BY <1>d, <1>e DEF Pushed
  <2> QED BY <1>a, <1>b, <1>c, <2>1 DEF JobsOnce
<1>3. NoneLost'
  <2>1. \A x : InList(x) => InList(x)'
    BY <1>e DEF InList, Pushed
  <2>2. \A x : Running(x) => Running(x)'
    BY <1>b, <1>c DEF Running
  <2>3. InList(e)'
    BY <1>d, <1>e DEF InList, Pushed
  <2>4. \A j \in registered : j \in registered' \/ j = i
    BY <1>n
  <2> QED BY <1>a, <1>b, <2>1, <2>2, <2>3, <2>4 DEF NoneLost, e
<1> QED BY <1>1, <1>2, <1>3

\* Every step keeps every task in its one place.
LEMMA PlacesStep ==
    ASSUME LoopInv, Types', [Next]_vars
    PROVE  OnlyCreated' /\ JobsOnce' /\ NoneLost'
<1>a. Types
  BY DEF LoopInv
<1>b. \A t \in Workers : \A l : pc[t] # "run" /\ l # "run" =>
         \A u \in Workers : [pc EXCEPT ![t] = l][u] = "run" <=> pc[u] = "run"
  BY <1>a DEF Types
<1>c. \A t \in Workers : \A x : pc[t] # "run" =>
         \A u \in Workers : pc[u] = "run" => [cur EXCEPT ![t] = x][u] = cur[u]
  BY <1>a DEF Types
<1>d. UNCHANGED <<script, m_stopping, next, ran>> => Created' = Created
  BY DEF Created, Ids
<1>1. CASE SubmitTickle \/ Join
  BY <1>1, <1>d, QuietStep DEF SubmitTickle, Join, clock, events, local
<1>2. CASE BeginStop \/ StopTickle
  <2>1. Created' = Created
    <3>1. CASE BeginStop
      <4>1. Ids = 1 .. next /\ ~m_stopping
        BY <1>a, <3>1, ScriptFacts DEF BeginStop, Types
      <4> QED BY <3>1, <4>1 DEF BeginStop, Created, Ids
    <3>2. CASE StopTickle
      BY <1>a, <3>2 DEF StopTickle, Created, Ids, Types
    <3> QED BY <1>2, <3>1, <3>2
  <2> QED BY <1>2, <2>1, QuietStep DEF BeginStop, StopTickle, clock, events, local
<1>3. ASSUME NEW t \in Workers, FindNone(t)
      PROVE  OnlyCreated' /\ JobsOnce' /\ NoneLost'
  BY <1>3, <1>b, <1>d, QuietStep DEF FindNone, Go, lists, clock, events
<1>4. ASSUME NEW t \in Workers, Finish(t)
      PROVE  OnlyCreated' /\ JobsOnce' /\ NoneLost'
  BY <1>4, <1>b, <1>c, <1>d, QuietStep DEF Finish, Go, clock, events
<1>5. ASSUME NEW t \in Workers, EnterIdle(t)
      PROVE  OnlyCreated' /\ JobsOnce' /\ NoneLost'
  BY <1>5, <1>b, <1>d, QuietStep DEF EnterIdle, Go, lists, clock, events
<1>6. ASSUME NEW t \in Workers, LookAtTimers(t)
      PROVE  OnlyCreated' /\ JobsOnce' /\ NoneLost'
  BY <1>6, <1>b, <1>d, QuietStep DEF LookAtTimers, Go, lists, events
<1>7. ASSUME NEW t \in Workers, LookAtPending(t)
      PROVE  OnlyCreated' /\ JobsOnce' /\ NoneLost'
  BY <1>7, <1>b, <1>d, QuietStep DEF LookAtPending, Go, lists, clock, events
<1>8. ASSUME NEW t \in Workers, LookAtTasks(t)
      PROVE  OnlyCreated' /\ JobsOnce' /\ NoneLost'
  BY <1>8, <1>b, <1>d, QuietStep DEF LookAtTasks, Go, lists, clock, events
<1>9. ASSUME NEW t \in Workers, Wake(t)
      PROVE  OnlyCreated' /\ JobsOnce' /\ NoneLost'
  BY <1>9, <1>b, <1>d, QuietStep DEF Wake, Go, lists, clock
<1>10. ASSUME NEW t \in Workers, WaitEnds(t)
       PROVE  OnlyCreated' /\ JobsOnce' /\ NoneLost'
  BY <1>10, <1>b, <1>d, QuietStep DEF WaitEnds, Go, lists, clock, events
<1>11. ASSUME NEW t \in Workers, Triggered(t)
       PROVE  OnlyCreated' /\ JobsOnce' /\ NoneLost'
  BY <1>11, <1>b, <1>d, QuietStep DEF Triggered, Go, lists, clock
<1>12. ASSUME NEW t \in Workers, Tickle(t)
       PROVE  OnlyCreated' /\ JobsOnce' /\ NoneLost'
  <2>1. pc[t] # "run" /\ TickleReturn[pc[t]] # "run"
    BY <1>12 DEF Tickle, TickleReturn
  <2> QED BY <1>12, <2>1, <1>b, <1>d, QuietStep DEF Tickle, Go, lists, clock, events
<1>13. ASSUME NEW t \in Workers, LeaveIdle(t)
       PROVE  OnlyCreated' /\ JobsOnce' /\ NoneLost'
  BY <1>13, <1>b, <1>d, QuietStep DEF LeaveIdle, Go, lists, clock, events
<1>14. ASSUME NEW i \in Ids, TimerDue(i) \/ FdReady(i)
       PROVE  OnlyCreated' /\ JobsOnce' /\ NoneLost'
  BY <1>14, <1>d, QuietStep DEF TimerDue, FdReady, lists, clock, events, local
<1>15. CASE UNCHANGED vars
  BY <1>15, <1>d, QuietStep DEF vars, lists, clock, events, local
<1>drain. ASSUME NEW t \in Workers, Drain(t) PROVE OnlyCreated' /\ JobsOnce' /\ NoneLost'
  BY <1>drain, <1>d, QuietStep DEF Drain, lists, clock, events
<1> QED BY <1>drain, <1>1, <1>2, <1>3, <1>4, <1>5, <1>6, <1>7, <1>8, <1>9, <1>10, <1>11, <1>12, <1>13,
           <1>14, <1>15, SubmitPlaces, TakePlaces, RunPlaces, ListExpiredPlaces,
           ScheduleExpiredPlaces, TriggerPlaces
        DEF Next, Scheduling, Stop, Stopped, Worker

-----------------------------------------------------------------------------
(* Who still looks when a thread decides to end. *)

\* A thread that finds stopping() true finds it after every job has run: the list
\* is empty, no thread is inside a task, and a job is nowhere else.
LEMMA StoppingMeansJobsRan ==
    ASSUME LoopInv, m_stopping, m_fibers = <<>>, m_activeThreadCount = 0
    PROVE  \A i \in Ids : <<"job", i>> \in ran
<1>1. Types /\ NoneLost /\ CreatedAre
  BY CreatedThen DEF LoopInv
<1>2. \A u \in Workers : pc[u] # "run"
  BY CountZero DEF LoopInv, RunCounters, ActivePc
<1>3. ASSUME NEW i \in Ids PROVE <<"job", i>> \in ran
  <2>1. <<"job", i>> \in Created
    BY <1>1 DEF CreatedAre, Submitted
  <2>2. ~Running(<<"job", i>>)
    BY <1>2 DEF Running
  <2>3. ~InList(<<"job", i>>)
    BY DEF InList
  <2>4. \A j \in Ids : <<"job", i>> # <<"cb", j>>
    OBVIOUS
  <2> QED BY <1>1, <2>1, <2>2, <2>3, <2>4 DEF NoneLost
<1> QED BY <1>3

\* The decision to end stays justified.
LEMMA EndsStep ==
    ASSUME LoopInv, Types', [Next]_vars
    PROVE  EndsAfterJobs'
<1>a. Types /\ EndsAfterJobs
  BY DEF LoopInv
<1>r. ran \subseteq ran' /\ script' = script /\ (m_stopping => m_stopping')
  BY DEF Next, vars, Scheduling, Stop, Stopped, Worker, Submit, SubmitTickle, BeginStop, StopTickle, Join,
         Take, FindNone, RunPlain, RunAddTimer, RunAddEvent, Finish, EnterIdle,
         LookAtTimers, LookAtPending, LookAtTasks, Wake, WaitEnds, ListExpired, ScheduleExpired,
         Drain, Trigger, Triggered, Tickle, LeaveIdle, TimerDue, FdReady, lists
<1>b. ASSUME \A u \in Workers : idleTerm'[u] \/ pc'[u] = "leave" => idleTerm[u] \/ pc[u] = "leave",
             \A u \in Workers : pc'[u] = "done" => idleTerm'[u]
      PROVE  EndsAfterJobs'
  BY <1>a, <1>b, <1>r DEF EndsAfterJobs, Ids
<1>c. ASSUME NEW t \in Workers, NEW l, pc' = [pc EXCEPT ![t] = l], idleTerm' = idleTerm,
             l \notin {"leave", "done"}
      PROVE  EndsAfterJobs'
  BY <1>a, <1>b, <1>c DEF EndsAfterJobs, Types
<1>1. CASE UNCHANGED <<pc, idleTerm>>
  BY <1>1, <1>a, <1>b DEF EndsAfterJobs
<1>2. CASE Submit \/ SubmitTickle \/ BeginStop \/ StopTickle \/ Join
  BY <1>2, <1>1 DEF Submit, SubmitTickle, BeginStop, StopTickle, Join, local
<1>3. ASSUME NEW t \in Workers, Take(t) PROVE EndsAfterJobs'
  BY <1>3, <1>c DEF Take, Go
<1>4. ASSUME NEW t \in Workers, FindNone(t) PROVE EndsAfterJobs'
  BY <1>4, <1>a, <1>b DEF FindNone, Go, Types, EndsAfterJobs
<1>5. ASSUME NEW t \in Workers, RunPlain(t) PROVE EndsAfterJobs'
  BY <1>5, <1>c DEF RunPlain, Go
<1>6. ASSUME NEW t \in Workers, RunAddTimer(t) PROVE EndsAfterJobs'
  <2>1. PICK l \in {"tickleFront", "finish"} : pc' = [pc EXCEPT ![t] = l] /\ idleTerm' = idleTerm
    BY <1>6 DEF RunAddTimer, Go
  <2> QED BY <2>1, <1>c
<1>7. ASSUME NEW t \in Workers, RunAddEvent(t) PROVE EndsAfterJobs'
  BY <1>7, <1>c DEF RunAddEvent, Go
<1>8. ASSUME NEW t \in Workers, Finish(t) PROVE EndsAfterJobs'
  BY <1>8, <1>c DEF Finish, Go
<1>9. ASSUME NEW t \in Workers, EnterIdle(t) PROVE EndsAfterJobs'
  BY <1>9, <1>c DEF EnterIdle, Go
<1>10. ASSUME NEW t \in Workers, LookAtTimers(t) PROVE EndsAfterJobs'
  BY <1>10, <1>c DEF LookAtTimers, Go
<1>11. ASSUME NEW t \in Workers, LookAtPending(t) PROVE EndsAfterJobs'
  BY <1>11, <1>c DEF LookAtPending, Go
<1>12. ASSUME NEW t \in Workers, LookAtTasks(t) PROVE EndsAfterJobs'
  <2>1. CASE m_stopping /\ m_fibers = <<>> /\ m_activeThreadCount = 0
    <3>1. \A i \in Ids : <<"job", i>> \in ran
      BY <2>1, StoppingMeansJobsRan
    <3> QED BY <1>12, <2>1, <3>1, <1>a, <1>r DEF LookAtTasks, Go, EndsAfterJobs, Types, Ids
  <2>2. CASE ~(m_stopping /\ m_fibers = <<>> /\ m_activeThreadCount = 0)
    BY <1>12, <2>2, <1>c DEF LookAtTasks, Go
  <2> QED BY <2>1, <2>2
<1>13. ASSUME NEW t \in Workers, Wake(t) PROVE EndsAfterJobs'
  BY <1>13, <1>c DEF Wake, Go
<1>14. ASSUME NEW t \in Workers, WaitEnds(t) PROVE EndsAfterJobs'
  BY <1>14, <1>c DEF WaitEnds, Go
<1>15. ASSUME NEW t \in Workers, ListExpired(t) PROVE EndsAfterJobs'
  BY <1>15, <1>c DEF ListExpired, Go
<1>16. ASSUME NEW t \in Workers, ScheduleExpired(t) PROVE EndsAfterJobs'
  BY <1>16, <1>c DEF ScheduleExpired, Go
<1>17. ASSUME NEW t \in Workers, Trigger(t) PROVE EndsAfterJobs'
  <2>1. PICK l \in {"tickleEvent", "triggered"} : pc' = [pc EXCEPT ![t] = l] /\ idleTerm' = idleTerm
    BY <1>17 DEF Trigger, Go
  <2> QED BY <2>1, <1>c
<1>18. ASSUME NEW t \in Workers, Triggered(t) PROVE EndsAfterJobs'
  BY <1>18, <1>c DEF Triggered, Go
<1>19. ASSUME NEW t \in Workers, Tickle(t) PROVE EndsAfterJobs'
  <2>1. TickleReturn[pc[t]] \notin {"leave", "done"}
    BY <1>19 DEF Tickle, TickleReturn
  <2> QED BY <1>19, <2>1, <1>c DEF Tickle, Go
<1>20. ASSUME NEW t \in Workers, LeaveIdle(t) PROVE EndsAfterJobs'
  BY <1>20, <1>a, <1>b DEF LeaveIdle, Go, Types, EndsAfterJobs
<1>21. ASSUME NEW i \in Ids, TimerDue(i) \/ FdReady(i) PROVE EndsAfterJobs'
  BY <1>21, <1>1 DEF TimerDue, FdReady, local
<1>22. CASE UNCHANGED vars
  BY <1>22, <1>1 DEF vars, local
<1>drain. ASSUME NEW t \in Workers, Drain(t) PROVE EndsAfterJobs'
  BY <1>drain, <1>1 DEF Drain
<1> QED BY <1>drain, <1>2, <1>3, <1>4, <1>5, <1>6, <1>7, <1>8, <1>9, <1>10, <1>11, <1>12, <1>13,
           <1>14, <1>15, <1>16, <1>17, <1>18, <1>19, <1>20, <1>21, <1>22
        DEF Next, Scheduling, Stop, Stopped, Worker

\* A thread that runs a job has not decided to end.
LEMMA RunnerStays ==
    ASSUME LoopInv, NEW t \in Workers, pc[t] = "run", cur[t][1] = "job"
    PROVE  ~idleTerm[t]
BY RunningJob DEF LoopInv, EndsAfterJobs

\* What is left keeps somebody who has not looked past it.
LEMMA LooksStep ==
    ASSUME LoopInv, Types', [Next]_vars
    PROVE  SomebodyLooks'
<1>a. Types /\ EndsAfterJobs /\ SomebodyLooks
  BY DEF LoopInv
<1> DEFINE PastTimers == {"pending?", "tasks?", "leave", "done"}
           PastEvents == {"tasks?", "leave", "done"}
<1>b. ASSUME timers' # {} => timers # {}, registered' # {} => registered # {},
             m_fibers' # <<>> => m_fibers # <<>>,
             UNCHANGED <<pc, idleTerm>>
      PROVE  SomebodyLooks'
  BY <1>a, <1>b DEF SomebodyLooks
\* A thread that moves without ending or looking keeps its place among those who look.
<1>c. ASSUME NEW t \in Workers, NEW l, pc' = [pc EXCEPT ![t] = l], idleTerm' = idleTerm,
             l \notin PastTimers, pc[t] \notin PastTimers,
             timers' # {} => timers # {} \/ ~idleTerm[t],
             registered' # {} => registered # {} \/ ~idleTerm[t]
      PROVE  SomebodyLooks'
  <2>1. pc'[t] = l /\ \A u \in Workers : u # t => pc'[u] = pc[u]
    BY <1>a, <1>c DEF Types
  <2> QED BY <1>a, <1>c, <2>1 DEF SomebodyLooks
<1>1. CASE Submit
  <2>1. \A u \in Workers : pc[u] # "done"
    BY <1>1, <1>a DEF Submit, EndsAfterJobs, Types
  <2>2. \E u \in Workers : pc'[u] # "done"
    BY <1>1, <2>1, LoopAssumption DEF Submit, local
  <2> QED BY <1>1, <2>2, <1>a DEF Submit, SomebodyLooks, clock, events, local
<1>2. CASE SubmitTickle \/ BeginStop \/ StopTickle \/ Join
  BY <1>2, <1>b DEF SubmitTickle, BeginStop, StopTickle, Join, clock, events, local
<1>3. ASSUME NEW t \in Workers, Take(t) PROVE SomebodyLooks'
  BY <1>3, <1>c DEF Take, Go, clock, events
<1>4. ASSUME NEW t \in Workers, FindNone(t) PROVE SomebodyLooks'
  <2>1. /\ UNCHANGED <<timers, registered, m_fibers, idleTerm>> /\ m_fibers = <<>>
        /\ pc'[t] = (IF idleTerm[t] THEN "done" ELSE "enter")
        /\ \A u \in Workers : u # t => pc'[u] = pc[u]
    BY <1>4, <1>a DEF FindNone, Go, lists, clock, events, Types
  <2>2. ASSUME ~idleTerm[t] PROVE pc'[t] \notin PastTimers
    BY <2>1, <2>2
  <2> QED BY <2>1, <2>2, <1>a DEF SomebodyLooks
<1>5. ASSUME NEW t \in Workers, RunPlain(t) PROVE SomebodyLooks'
  BY <1>5, <1>c DEF RunPlain, Go, clock, events
<1>6. ASSUME NEW t \in Workers, RunAddTimer(t) PROVE SomebodyLooks'
  BY <1>6, <1>c, RunnerStays DEF RunAddTimer, Go, events
<1>7. ASSUME NEW t \in Workers, RunAddEvent(t) PROVE SomebodyLooks'
  BY <1>7, <1>c, RunnerStays DEF RunAddEvent, Go, clock
<1>8. ASSUME NEW t \in Workers, Finish(t) PROVE SomebodyLooks'
  BY <1>8, <1>c DEF Finish, Go, clock, events
<1>9. ASSUME NEW t \in Workers, EnterIdle(t) PROVE SomebodyLooks'
  BY <1>9, <1>c DEF EnterIdle, Go, clock, events
<1>10. ASSUME NEW t \in Workers, LookAtTimers(t) PROVE SomebodyLooks'
  <2>1. /\ UNCHANGED <<timers, registered, m_fibers, idleTerm>> /\ pc[t] = "timer?"
        /\ pc'[t] = (IF NextTimer = Forever THEN "pending?" ELSE "wait")
        /\ \A u \in Workers : u # t => pc'[u] = pc[u]
    BY <1>10, <1>a DEF LookAtTimers, Go, lists, events, Types
  <2>2. timers # {} => pc'[t] = "wait"
    BY <2>1, <1>a, ForeverMeansNone
  <2>3. pc'[t] \notin PastEvents
    BY <2>1
  <2> QED BY <2>1, <2>2, <2>3, <1>a DEF SomebodyLooks
<1>11. ASSUME NEW t \in Workers, LookAtPending(t) PROVE SomebodyLooks'
  <2>1. /\ UNCHANGED <<timers, registered, m_fibers, idleTerm>> /\ pc[t] = "pending?"
        /\ pc'[t] = (IF m_pendingEventCount = 0 THEN "tasks?" ELSE "wait")
        /\ \A u \in Workers : u # t => pc'[u] = pc[u]
    BY <1>11, <1>a DEF LookAtPending, Go, lists, clock, events, Types
  <2>2. ASSUME m_pendingEventCount = 0 PROVE registered = {}
    <3>1. IsFiniteSet(registered) /\ Cardinality(registered) \in Nat
      BY <1>a, ScriptFacts, FS_Subset, FS_CardinalityType DEF Types
    <3>2. CountAt(pc, CountedOffPc) \in Nat
      BY LoopAssumption, FS_Subset, FS_CardinalityType DEF CountAt
    <3>3. m_pendingEventCount = Cardinality(registered) + CountAt(pc, CountedOffPc)
      BY DEF LoopInv, PendingCountsEvents, CountAt, CountedOffPc
    <3>4. Cardinality(registered) = 0
      BY <2>2, <3>1, <3>2, <3>3
    <3> QED BY <3>1, <3>4, FS_EmptySet
  <2> QED BY <2>1, <2>2, <1>a DEF SomebodyLooks
<1>12. ASSUME NEW t \in Workers, LookAtTasks(t) PROVE SomebodyLooks'
  <2>1. /\ UNCHANGED <<timers, registered, m_fibers, idleTerm>> /\ pc[t] = "tasks?"
        /\ pc'[t] \in {"leave", "wait"}
        /\ \A u \in Workers : u # t => pc'[u] = pc[u]
    BY <1>12, <1>a DEF LookAtTasks, Go, lists, clock, events, Types
  <2> QED BY <2>1, <1>a DEF SomebodyLooks
<1>13. ASSUME NEW t \in Workers, Wake(t) PROVE SomebodyLooks'
  BY <1>13, <1>c DEF Wake, Go, clock
<1>14. ASSUME NEW t \in Workers, WaitEnds(t) PROVE SomebodyLooks'
  BY <1>14, <1>c DEF WaitEnds, Go, clock, events
<1>15. ASSUME NEW t \in Workers, ListExpired(t) PROVE SomebodyLooks'
  BY <1>15, <1>c DEF ListExpired, Go, events
<1>16. ASSUME NEW t \in Workers, ScheduleExpired(t) PROVE SomebodyLooks'
  BY <1>16, <1>c DEF ScheduleExpired, Go, clock, events
<1>17. ASSUME NEW t \in Workers, Trigger(t) PROVE SomebodyLooks'
  BY <1>17, <1>c DEF Trigger, Go, clock
<1>18. ASSUME NEW t \in Workers, Triggered(t) PROVE SomebodyLooks'
  BY <1>18, <1>c DEF Triggered, Go, clock
<1>19. ASSUME NEW t \in Workers, Tickle(t) PROVE SomebodyLooks'
  <2>1. TickleReturn[pc[t]] \notin PastTimers /\ pc[t] \notin PastTimers
    BY <1>19 DEF Tickle, TickleReturn
  <2> QED BY <1>19, <2>1, <1>c DEF Tickle, Go, clock, events
<1>20. ASSUME NEW t \in Workers, LeaveIdle(t) PROVE SomebodyLooks'
  <2>1. /\ UNCHANGED <<timers, registered, m_fibers>> /\ pc[t] \in {"leave", "events"}
        /\ pc'[t] = "scan" /\ idleTerm'[t] = (pc[t] = "leave")
        /\ \A u \in Workers : u # t => pc'[u] = pc[u] /\ idleTerm'[u] = idleTerm[u]
    BY <1>20, <1>a DEF LeaveIdle, Go, lists, clock, events, Types
  <2> QED BY <2>1, <1>a DEF SomebodyLooks
<1>21. ASSUME NEW i \in Ids, TimerDue(i) \/ FdReady(i) PROVE SomebodyLooks'
  BY <1>21, <1>b DEF TimerDue, FdReady, lists, clock, events, local
<1>22. CASE UNCHANGED vars
  BY <1>22, <1>b DEF vars, lists, clock, events, local
<1>drain. ASSUME NEW t \in Workers, Drain(t) PROVE SomebodyLooks'
  BY <1>drain, <1>b DEF Drain, lists, clock, events
<1> QED BY <1>drain, <1>1, <1>2, <1>3, <1>4, <1>5, <1>6, <1>7, <1>8, <1>9, <1>10, <1>11, <1>12, <1>13,
           <1>14, <1>15, <1>16, <1>17, <1>18, <1>19, <1>20, <1>21, <1>22
        DEF Next, Scheduling, Stop, Stopped, Worker

-----------------------------------------------------------------------------
(* The theorems. *)

\* The parts together are inductive.
LEMMA LoopInvariant == Spec => []LoopInv
<1>1. LoopInv /\ [Next]_vars => LoopInv'
  BY TypesStep, CountersStep, HandsOffStep, PlacesStep, EndsStep, LooksStep DEF LoopInv
<1> QED BY InitLoopInv, <1>1, PTL DEF Spec

\* However many threads run() and idle() have interleaved, the three counters that
\* tickle() and stopping() read without a lock are exact: threads inside a task,
\* threads inside idle(), events waited for plus those about to be counted off.
THEOREM CountersAreExact == Spec => []CountersExact
<1>1. LoopInv => CountersExact
  <2> SUFFICES ASSUME LoopInv PROVE CountersExact
    OBVIOUS
  <2>1. Types /\ RunCounters /\ PendingCountsEvents
    BY DEF LoopInv
  <2>2. IsFiniteSet(registered) /\ Cardinality(registered) \in Nat
    BY <2>1, ScriptFacts, FS_Subset, FS_CardinalityType DEF Types
  <2>3. CountAt(pc, CountedOffPc) \in Nat
    BY LoopAssumption, FS_Subset, FS_CardinalityType DEF CountAt
  <2>4. m_pendingEventCount = Cardinality(registered) + CountAt(pc, CountedOffPc)
    BY <2>1 DEF PendingCountsEvents, CountAt, CountedOffPc
  <2>5. m_pendingEventCount \in Nat
    BY <2>2, <2>3, <2>4
  <2> QED BY <2>1, <2>5 DEF CountersExact, TypeOK, Types, RunCounters, CountAt, ActivePc
<1> QED BY LoopInvariant, <1>1, PTL

\* A job given to schedule() is taken by one thread and runs once, whichever of
\* the threads wake for it.
THEOREM JobsAreTakenOnce == Spec => []JobsOnce
<1>1. LoopInv => JobsOnce
  BY DEF LoopInv
<1> QED BY LoopInvariant, <1>1, PTL

\* When the last thread of the pool has left run(), the list is empty and every
\* task, timer and event there ever was has run: although each thread decides
\* from three looks at three moments that stopping() holds, none relies on
\* another that has just decided the same.
THEOREM NothingIsLostByStop == Spec => []StopLosesNothing
<1>1. LoopInv => StopLosesNothing
  <2> SUFFICES ASSUME LoopInv, \A t \in Workers : pc[t] = "done"
               PROVE  m_fibers = <<>> /\ ran = Created
    BY DEF StopLosesNothing, Exited
  <2>1. timers = {} /\ registered = {} /\ m_fibers = <<>>
    BY DEF LoopInv, SomebodyLooks
  <2>2. \A t \in Workers : cbs[t] = {}
    BY DEF LoopInv, HandsOff
  <2>3. \A x : ~InList(x) /\ ~Running(x)
    BY <2>1 DEF InList, Running
  <2>4. \A x \in Created : x \in ran
    BY <2>1, <2>2, <2>3 DEF LoopInv, NoneLost
  <2>5. \A x \in ran : x \in Created
    BY DEF LoopInv, OnlyCreated
  <2> QED BY <2>1, <2>4, <2>5
<1> QED BY LoopInvariant, <1>1, PTL
=============================================================================
