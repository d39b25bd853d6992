----------------------------- MODULE TimerProofs -----------------------------
(***************************************************************************)
(* Proofs about Timer, for every set of timers, of threads and of periods  *)
(* and every course of the wall clock.                                     *)
(*                                                                         *)
(* The inductive invariant adds four facts to the invariants that TLC      *)
(* checks: a timer's m_next is never smaller than its period (what keeps   *)
(* the subtraction in Timer::reset defined), a timer on its way into the   *)
(* set has its callback, a cancelled timer has none, and a one-shot timer  *)
(* that still has its callback has not fired and was not cancelled.        *)
(*                                                                         *)
(* A second one, TimesInv with Announced, is about times: no reading of the *)
(* clock is ahead of it, and an idle loop that sleeps for a later timer than *)
(* the front has been told. It holds until the clock is set back, and if no *)
(* thread takes an hour between reading the clock and locking, which the   *)
(* theorem built on it says with ThreadsPrompt.                            *)
(*                                                                         *)
(* A third one, ErasInv, is about set-backs: m_previouseTime is the reading *)
(* of the last listing, readings of one era do not run ahead of the clock, *)
(* and owed covers the set-backs that no listing has seen yet and the      *)
(* listing that may still see an m_previouseTime from an earlier era.      *)
(***************************************************************************)
EXTENDS Timer, WellFoundedInduction, TLAPS

PeriodFits == \A i \in TimerIds : m_ms[i] <= m_next[i]

CancelledIsDead == \A i \in TimerIds : cancelled[i] => ~m_cb[i] /\ phase[i] = "shared"

BuiltHasCallback == \A i \in TimerIds : phase[i] = "built" => m_cb[i]

PristineWhileArmed ==
    \A i \in TimerIds :
        /\ phase[i] = "unused" => fired[i] = 0 /\ ~cancelled[i]
        /\ ~m_recurring[i] /\ m_cb[i] => fired[i] = 0 /\ ~cancelled[i]

IInv ==
    /\ TypeOK
    /\ IndexMatchesTimers
    /\ PeriodFits
    /\ BuiltHasCallback
    /\ CancelledIsDead
    /\ PristineWhileArmed
    /\ OneShotEndsOnce

Live(i) == phase[i] = "shared" /\ m_cb[i]

-----------------------------------------------------------------------------

\* The constants' assumptions hold of the initial state: every part of the
\* invariant is true before the first timer exists.
LEMMA InitIInv == Init => IInv
  <1> HAVE Init
  <1>1. TypeOK
    <2>1. /\ m_cb \in [TimerIds -> BOOLEAN]
          /\ m_recurring \in [TimerIds -> BOOLEAN]
          /\ cancelled \in [TimerIds -> BOOLEAN]
          /\ m_tickled \in BOOLEAN
      BY Zenon DEF Init
    <2>2. /\ clock \in Nat /\ backs \in Nat /\ m_previouseTime \in Nat /\ lastSeen \in Nat
          /\ m_timers \subseteq Nat \X TimerIds
          /\ m_next \in [TimerIds -> Nat]
          /\ m_ms \in [TimerIds -> Nat]
          /\ phase \in [TimerIds -> {"unused", "built", "shared"}]
          /\ now \in [Threads -> Nat \cup {NotListing}]
          /\ fired \in [TimerIds -> 0..2]
          /\ ErasOK
      BY TimerAssumption DEF Init, ErasOK
    <2> QED BY <2>1, <2>2, Zenon DEF TypeOK
  <1>2. IndexMatchesTimers
    BY DEF Init, IndexMatchesTimers
  <1> QED
    BY <1>1, <1>2 DEF Init, IInv, PeriodFits, BuiltHasCallback, CancelledIsDead,
       PristineWhileArmed, OneShotEndsOnce

\* A set of naturals has a smallest element.
LEMMA LeastExists ==
    ASSUME NEW S, S \subseteq Nat, S # {}
    PROVE  \E x \in S : \A y \in S : x <= y
  <1> DEFINE R == OpToRel(<, Nat)
  <1>1. \E x \in S : \A y \in S : ~(<<y, x>> \in R)
    <2> HIDE DEF R
    <2>1. IsWellFoundedOn(R, Nat)
      BY NatLessThanWellFounded DEF R
    <2> QED BY <2>1, WFMin
  <1>2. \A x, y \in Nat : y < x => <<y, x>> \in R
    BY DEF OpToRel
  <1> HIDE DEF R
  <1>3. PICK x \in S : \A y \in S : ~(<<y, x>> \in R)
    BY <1>1
  <1>4. \A y \in S : ~(y < x)
    BY <1>2, <1>3
  <1>5. \A y \in S : x <= y
    BY <1>4, SMT
  <1> QED BY <1>5

\* *m_timers.begin(): a time, and no later than any timer's.
LEMMA FrontFacts ==
    ASSUME NEW S, S \subseteq Nat \X TimerIds
    PROVE  Front(S) \in Nat /\ \A p \in S : Front(S) <= p[1]
  <1>1. CASE S = {}
    BY <1>1, TimerAssumption DEF Front
  <1>2. CASE S # {}
    <2> DEFINE K == {p[1] : p \in S}
    <2>1. K \subseteq Nat /\ K # {}
      BY <1>2
    <2>2. \E x \in K : \A y \in K : x <= y
      <3> HIDE DEF K
      <3> QED BY <2>1, LeastExists
    <2>3. Min(K) \in K /\ \A y \in K : Min(K) <= y
      <3> HIDE DEF K
      <3> QED BY <2>2 DEF Min
    <2>4. Front(S) = Min(K)
      BY <1>2 DEF Front
    <2> QED BY <2>1, <2>3, <2>4
  <1> QED BY <1>1, <1>2

\* What membership in the set means: the pair's timer is live, and the key is
\* the timer's m_next.
LEMMA Membership ==
    ASSUME IndexMatchesTimers
    PROVE  \A k, i : <<k, i>> \in m_timers <=> i \in TimerIds /\ Live(i) /\ k = m_next[i]
  BY DEF IndexMatchesTimers, Live

\* The converse, for the next state.
LEMMA MembershipNext ==
    ASSUME m_timers' \subseteq Nat \X TimerIds,
           \A i \in TimerIds : \A k \in Nat : <<k, i>> \in m_timers' <=> Live(i)' /\ k = m_next'[i],
           \A i \in TimerIds : m_next'[i] \in Nat
    PROVE  IndexMatchesTimers'
  <1>1. \A p \in m_timers' : \E i \in TimerIds : Live(i)' /\ p = <<m_next'[i], i>>
    <2> TAKE p \in m_timers'
    <2>1. PICK k \in Nat, i \in TimerIds : p = <<k, i>>
      OBVIOUS
    <2> QED BY <2>1
  <1>2. \A i \in TimerIds : Live(i)' => <<m_next'[i], i>> \in m_timers'
    OBVIOUS
  <1> QED BY <1>1, <1>2 DEF IndexMatchesTimers, Live

\* The clock and the readings of it change nothing the invariant speaks of.
LEMMA ClockStep ==
    ASSUME IInv, \/ Tick \/ SetBack \/ getNextTimer \/ \E t \in Threads : ReadNow(t)
    PROVE  IInv'
  <1> USE DEF env, fields, ghosts, eras
  <1>1. UNCHANGED <<m_timers, m_next, m_ms, m_cb, m_recurring, phase, m_previouseTime,
                    fired, cancelled>>
    BY DEF Tick, SetBack, getNextTimer, ReadNow
  <1>2. clock' \in Nat /\ backs' \in Nat
    BY TimerAssumption DEF Tick, SetBack, getNextTimer, ReadNow, IInv, TypeOK
  <1>3. m_tickled' \in BOOLEAN
    BY DEF Tick, SetBack, getNextTimer, ReadNow, IInv, TypeOK
  <1>4. ErasOK'
    <2>1. CASE SetBack
      BY <2>1, TimerAssumption DEF SetBack, Charged, Min2, IInv, TypeOK, ErasOK
    <2>2. CASE Tick \/ getNextTimer \/ \E t \in Threads : ReadNow(t)
      BY <2>2 DEF Tick, getNextTimer, ReadNow, IInv, TypeOK, ErasOK
    <2> QED BY <2>1, <2>2
  <1>5. now' \in [Threads -> Nat \cup {NotListing}]
    BY DEF Tick, SetBack, getNextTimer, ReadNow, IInv, TypeOK
  <1>6. lastSeen' \in Nat
    <2>1. CASE getNextTimer
      BY <2>1, FrontFacts DEF getNextTimer, IInv, TypeOK
    <2> QED BY <2>1 DEF Tick, SetBack, ReadNow, IInv, TypeOK
  <1>7. TypeOK'
    BY <1>1, <1>2, <1>3, <1>4, <1>5, <1>6 DEF IInv, TypeOK
  <1> QED
    BY <1>1, <1>7 DEF IInv, IndexMatchesTimers, PeriodFits, BuiltHasCallback,
       CancelledIsDead, PristineWhileArmed, OneShotEndsOnce

\* The constructor: the timer is not in the set yet, and has its first m_next.
LEMMA BuildStep ==
    ASSUME IInv, NEW i \in TimerIds, NEW ms \in Periods, NEW rec \in BOOLEAN, Build(i, ms, rec)
    PROVE  IInv'
  <1> USE DEF env, fields, ghosts, eras
  <1>0. ms \in Nat
    BY TimerAssumption
  <1>1. TypeOK'
    BY <1>0 DEF Build, IInv, TypeOK, ErasOK
  <1>2. \A j \in TimerIds : Live(j)' <=> Live(j)
    BY DEF Build, Live, IInv, TypeOK
  <1>3. \A j \in TimerIds : Live(j) => m_next'[j] = m_next[j]
    BY DEF Build, Live, IInv, TypeOK
  <1>4. IndexMatchesTimers'
    <2>1. m_timers' = m_timers
      BY DEF Build
    <2>2. \A j \in TimerIds, k \in Nat : <<k, j>> \in m_timers' <=> Live(j)' /\ k = m_next'[j]
      BY <1>2, <1>3, <2>1, Membership DEF IInv
    <2> QED BY <1>1, <2>2, MembershipNext DEF TypeOK
  <1>5. PeriodFits'
    BY <1>0 DEF Build, PeriodFits, IInv, TypeOK
  <1>6. CancelledIsDead'
    BY DEF Build, CancelledIsDead, PristineWhileArmed, IInv, TypeOK
  <1>7. PristineWhileArmed'
    BY DEF Build, PristineWhileArmed, IInv, TypeOK
  <1>8. OneShotEndsOnce'
    BY DEF Build, PristineWhileArmed, OneShotEndsOnce, IInv, TypeOK
  <1>9. BuiltHasCallback'
    BY DEF Build, BuiltHasCallback, IInv, TypeOK
  <1> QED BY <1>1, <1>4, <1>5, <1>6, <1>7, <1>8, <1>9 DEF IInv

\* Inserting a timer keeps the types: its key is a time.
LEMMA InsertFacts ==
    ASSUME TypeOK, NEW S, S \subseteq Nat \X TimerIds, NEW i \in TimerIds, NEW key \in Nat,
           InsertTimer(S, i, key)
    PROVE  /\ m_timers' = S \cup {<<key, i>>}
           /\ m_timers' \subseteq Nat \X TimerIds
           /\ m_tickled' \in BOOLEAN
  <1>1. m_timers' = S \cup {<<key, i>>}
    BY DEF InsertTimer
  <1>2. m_tickled \in BOOLEAN
    BY DEF TypeOK
  <1>3. m_tickled' \in BOOLEAN
    BY <1>2, Zenon DEF InsertTimer
  <1> QED BY <1>1, <1>3

\* addTimer: a live timer enters the set under its m_next.
LEMMA AddStep ==
    ASSUME IInv, NEW i \in TimerIds, addTimer(i)
    PROVE  IInv'
  <1> USE DEF env, fields, ghosts, eras
  <1>1. /\ m_timers' = m_timers \cup {<<m_next[i], i>>}
        /\ m_timers' \subseteq Nat \X TimerIds
        /\ m_tickled' \in BOOLEAN
    <2>1. m_next[i] \in Nat /\ m_timers \subseteq Nat \X TimerIds
      BY DEF IInv, TypeOK
    <2>2. InsertTimer(m_timers, i, m_next[i])
      BY DEF addTimer
    <2> QED BY <2>1, <2>2, InsertFacts DEF IInv
  <1>2. phase[i] = "built" /\ phase' = [phase EXCEPT ![i] = "shared"]
    BY DEF addTimer
  <1>3. UNCHANGED <<env, m_next, m_ms, m_cb, m_recurring, m_previouseTime, now, ghosts, eras>>
    BY DEF addTimer
  <1>4. TypeOK'
    BY <1>1, <1>2, <1>3 DEF IInv, TypeOK, ErasOK
  <1>5. m_cb[i]
    BY <1>2 DEF IInv, BuiltHasCallback
  <1>6. IndexMatchesTimers'
    <2>1. \A j \in TimerIds : Live(j)' <=> Live(j) \/ j = i
      BY <1>2, <1>3, <1>5 DEF Live, IInv, TypeOK
    <2>2. \A j \in TimerIds, k \in Nat : <<k, j>> \in m_timers' <=> Live(j)' /\ k = m_next'[j]
      BY <1>1, <1>2, <1>3, <2>1, Membership DEF IInv, Live
    <2> QED BY <1>4, <2>2, MembershipNext DEF TypeOK
  <1> QED
    BY <1>2, <1>3, <1>4, <1>6 DEF IInv, PeriodFits, CancelledIsDead, PristineWhileArmed,
       OneShotEndsOnce, BuiltHasCallback, TypeOK

\* cancel: the entry found is the timer's own, and both disappear.
LEMMA CancelStep ==
    ASSUME IInv, NEW i \in TimerIds, cancel(i)
    PROVE  IInv'
  <1> USE DEF env, fields, ghosts, eras
  <1>1. phase[i] = "shared" /\ m_cb[i] /\ m_cb' = [m_cb EXCEPT ![i] = FALSE]
    BY DEF cancel
  <1>2. m_timers' = m_timers \ {<<m_next[i], i>>} /\ cancelled' = [cancelled EXCEPT ![i] = TRUE]
    BY DEF cancel
  <1>3. UNCHANGED <<env, m_next, m_ms, m_recurring, phase, m_tickled, m_previouseTime, now,
                    fired, lastSeen, eras>>
    BY DEF cancel
  <1>4. TypeOK'
    BY <1>1, <1>2, <1>3 DEF IInv, TypeOK, ErasOK
  <1>5. IndexMatchesTimers'
    <2>1. \A j \in TimerIds : Live(j)' <=> Live(j) /\ j # i
      BY <1>1, <1>3 DEF Live, IInv, TypeOK
    <2>2. \A j \in TimerIds, k \in Nat : <<k, j>> \in m_timers' <=> Live(j)' /\ k = m_next'[j]
      BY <1>2, <1>3, <2>1, Membership DEF IInv
    <2> QED BY <1>4, <2>2, MembershipNext DEF TypeOK
  <1>6. PristineWhileArmed'
    BY <1>1, <1>2, <1>3 DEF IInv, TypeOK, PristineWhileArmed
  <1>7. OneShotEndsOnce'
    BY <1>1, <1>2, <1>3 DEF IInv, TypeOK, PristineWhileArmed, OneShotEndsOnce
  <1>8. CancelledIsDead'
    BY <1>1, <1>2, <1>3 DEF IInv, TypeOK, CancelledIsDead
  <1> QED
    BY <1>1, <1>3, <1>4, <1>5, <1>6, <1>7, <1>8 DEF IInv, PeriodFits, BuiltHasCallback, TypeOK

\* refresh and reset: the timer leaves the set under its old m_next and comes
\* back under the new one.
LEMMA RearmStep ==
    ASSUME IInv, NEW i \in TimerIds,
           refresh(i) \/ \E ms \in Periods, from_now \in BOOLEAN : reset(i, ms, from_now)
    PROVE  IInv'
  <1> USE DEF env, fields, ghosts, eras
  <1>1. PICK key \in Nat, ms \in Nat :
            /\ ms <= key
            /\ m_next' = [m_next EXCEPT ![i] = key]
            /\ m_ms' = [m_ms EXCEPT ![i] = ms]
            /\ m_timers' = (m_timers \ {<<m_next[i], i>>}) \cup {<<key, i>>}
            /\ m_tickled' \in BOOLEAN
    <2>1. CASE refresh(i)
      <3> DEFINE key == clock + m_ms[i]
      <3>1. key \in Nat /\ m_ms[i] \in Nat /\ m_ms[i] <= key
        BY DEF IInv, TypeOK
      <3>2. m_ms' = [m_ms EXCEPT ![i] = m_ms[i]] /\ m_next'[i] = key
        BY <2>1 DEF refresh, IInv, TypeOK
      <3>3. m_tickled' \in BOOLEAN
        BY <2>1 DEF refresh, IInv, TypeOK
      <3> QED BY <2>1, <3>1, <3>2, <3>3 DEF refresh
    <2>2. ASSUME NEW ms \in Periods, NEW from_now \in BOOLEAN, reset(i, ms, from_now)
          PROVE  \E key \in Nat :
                    /\ ms <= key
                    /\ m_next' = [m_next EXCEPT ![i] = key]
                    /\ m_ms' = [m_ms EXCEPT ![i] = ms]
                    /\ m_timers' = (m_timers \ {<<m_next[i], i>>}) \cup {<<key, i>>}
                    /\ m_tickled' \in BOOLEAN
      <3> DEFINE begin == IF from_now THEN clock ELSE m_next[i] - m_ms[i]
                 rest  == m_timers \ {<<m_next[i], i>>}
      <3>1. begin \in Nat /\ ms \in Nat
        BY TimerAssumption DEF IInv, TypeOK, PeriodFits
      <3>2. begin + ms \in Nat /\ ms <= begin + ms
        BY <3>1
      <3>3. rest \subseteq Nat \X TimerIds
        BY DEF IInv, TypeOK
      <3>4. /\ m_next' = [m_next EXCEPT ![i] = begin + ms]
            /\ m_ms' = [m_ms EXCEPT ![i] = ms]
            /\ InsertTimer(rest, i, begin + ms)
        BY <2>2 DEF reset
      <3>5. m_timers' = rest \cup {<<begin + ms, i>>} /\ m_tickled' \in BOOLEAN
        <4> HIDE DEF rest, begin
        <4> QED BY <3>2, <3>3, <3>4, InsertFacts DEF IInv
      <3> HIDE DEF begin
      <3> QED BY <3>2, <3>4, <3>5
    <2>3. ASSUME NEW ms \in Periods PROVE ms \in Nat
      BY TimerAssumption
    <2> QED BY <2>1, <2>2, <2>3
  <1>2. phase[i] = "shared" /\ m_cb[i]
    BY DEF refresh, reset
  <1>3. UNCHANGED <<env, m_cb, m_recurring, phase, m_previouseTime, now, fired, cancelled, lastSeen, eras>>
    BY DEF refresh, reset
  <1>4. TypeOK'
    <2>1. m_timers' \subseteq Nat \X TimerIds
      BY <1>1 DEF IInv, TypeOK
    <2> QED BY <1>1, <1>3, <2>1 DEF IInv, TypeOK, ErasOK
  <1>5. IndexMatchesTimers'
    <2>1. \A j \in TimerIds : Live(j)' <=> Live(j)
      BY <1>3 DEF Live
    <2>2. m_next'[i] = key /\ \A j \in TimerIds \ {i} : m_next'[j] = m_next[j]
      BY <1>1 DEF IInv, TypeOK
    <2>3. Live(i)
      BY <1>2 DEF Live
    <2>4. \A j \in TimerIds, k \in Nat : <<k, j>> \in m_timers' <=> Live(j)' /\ k = m_next'[j]
      <3> TAKE j \in TimerIds, k \in Nat
      <3>1. <<k, j>> \in m_timers <=> Live(j) /\ k = m_next[j]
        BY Membership DEF IInv
      <3> QED BY <1>1, <2>1, <2>2, <2>3, <3>1
    <2> QED BY <1>4, <2>4, MembershipNext DEF TypeOK
  <1>6. PeriodFits'
    BY <1>1 DEF IInv, TypeOK, PeriodFits
  <1> QED
    BY <1>3, <1>4, <1>5, <1>6 DEF IInv, CancelledIsDead, PristineWhileArmed, OneShotEndsOnce,
       BuiltHasCallback

\* Who is taken out by listExpiredCb: live timers, each under its own m_next.
LEMMA OutFacts ==
    ASSUME IInv, NEW n \in Nat
    PROVE  /\ \A p \in Expired(n) : p[2] \in TimerIds /\ Live(p[2]) /\ p = <<m_next[p[2]], p[2]>>
           /\ Expired(n) \subseteq m_timers
  <1>1. Expired(n) \subseteq m_timers
    BY DEF Expired
  <1>2. ASSUME NEW p \in m_timers
        PROVE  p[2] \in TimerIds /\ Live(p[2]) /\ p = <<m_next[p[2]], p[2]>>
    <2>1. PICK k \in Nat, j \in TimerIds : p = <<k, j>>
      BY DEF IInv, TypeOK
    <2>2. Live(j) /\ k = m_next[j]
      BY <2>1, Membership DEF IInv
    <2> QED BY <2>1, <2>2
  <1> QED BY <1>1, <1>2

\* A listing keeps the account an integer.
LEMMA ErasStep ==
    ASSUME TypeOK, NEW t \in Threads, listExpiredCb(t)
    PROVE  ErasOK'
  <1>1. /\ now[t] \in Nat /\ era \in [Threads -> Nat] /\ owed \in Int /\ BackLimit \in Nat
        /\ prevRead \in Nat /\ prevEra \in Nat /\ lastEra \in Nat
    BY TimerAssumption DEF listExpiredCb, TypeOK, ErasOK, NotListing
  <1>2. Settle(t) /\ era' = [era EXCEPT ![t] = 0]
    BY DEF listExpiredCb
  <1>3. CASE m_timers = {}
    BY <1>1, <1>2, <1>3 DEF Settle, ErasOK
  <1>4. CASE m_timers # {}
    <2>1. prevRead' \in Nat /\ prevEra' \in Nat /\ lastEra' \in Nat
      BY <1>1, <1>2, <1>4 DEF Settle
    <2>2. owed' = Charged(owed) \/ owed' = owed - 1 \/ owed' = owed
      BY <1>2, <1>4 DEF Settle
    <2>3. owed' \in Int
      BY <2>2, <1>1 DEF Charged, Min2
    <2> QED BY <1>1, <1>2, <2>1, <2>3 DEF ErasOK
  <1> QED BY <1>3, <1>4

\* listExpiredCb: what is taken out loses its callback or comes back later.
LEMMA ExpireStep ==
    ASSUME IInv, NEW t \in Threads, listExpiredCb(t)
    PROVE  /\ IInv'
           /\ \A i \in TimerIds : cancelled[i] => fired'[i] = fired[i]
  <1> DEFINE n     == now[t]
             gone  == Expired(n)
             out   == {p[2] : p \in gone}
             again == {i \in out : m_recurring[i]}
  <1> USE DEF env, fields, ghosts, eras
  <1>1. n \in Nat
    BY DEF listExpiredCb, IInv, TypeOK, NotListing
  <1>2. /\ m_next' = [i \in TimerIds |-> IF i \in again THEN n + m_ms[i] ELSE m_next[i]]
        /\ m_timers' = (m_timers \ gone) \cup {<<n + m_ms[i], i>> : i \in again}
        /\ m_cb' = [i \in TimerIds |-> m_cb[i] /\ ~(i \in out \ again)]
        /\ fired' = [i \in TimerIds |-> IF i \in out THEN Min2(fired[i] + 1, 2) ELSE fired[i]]
    BY DEF listExpiredCb
  <1>3. m_previouseTime' \in Nat /\ now' = [now EXCEPT ![t] = NotListing]
    BY <1>1 DEF listExpiredCb, PreviouseTime, IInv, TypeOK
  <1>4. UNCHANGED <<clock, backs, m_ms, m_recurring, phase, m_tickled, cancelled, lastSeen>>
    BY DEF listExpiredCb
  <1>5. \A j \in out : j \in TimerIds /\ Live(j) /\ <<m_next[j], j>> \in gone
    BY <1>1, OutFacts
  <1>6. \A j \in TimerIds, k \in Nat : <<k, j>> \in gone => j \in out /\ k = m_next[j]
    BY <1>1, OutFacts
  <1>7. \A j \in again : j \in out /\ m_recurring[j]
    OBVIOUS
  <1>8. \A j \in out : m_recurring[j] => j \in again
    OBVIOUS
  <1> HIDE DEF n, gone, out, again
  <1>9. TypeOK'
    <2>1. m_next' \in [TimerIds -> Nat] /\ m_timers' \subseteq Nat \X TimerIds
      <3>1. \A i \in TimerIds : n + m_ms[i] \in Nat /\ m_next[i] \in Nat
        BY <1>1 DEF IInv, TypeOK
      <3>2. m_next' \in [TimerIds -> Nat]
        BY <1>2, <3>1
      <3>3. {<<n + m_ms[i], i>> : i \in again} \subseteq Nat \X TimerIds
        <4>1. \A i \in again : i \in TimerIds
          BY <1>5, <1>7
        <4>2. \A i \in again : <<n + m_ms[i], i>> \in Nat \X TimerIds
          BY <3>1, <4>1
        <4> QED BY <4>2, Zenon
      <3>4. m_timers \subseteq Nat \X TimerIds
        BY DEF IInv, TypeOK
      <3> QED BY <1>2, <3>2, <3>3, <3>4
    <2>2. m_cb' \in [TimerIds -> BOOLEAN]
      BY <1>2, Zenon
    <2>3. fired' \in [TimerIds -> 0..2]
      BY <1>2 DEF IInv, TypeOK, Min2
    <2>4. now' \in [Threads -> Nat \cup {NotListing}]
      BY <1>3 DEF IInv, TypeOK
    <2>5. ErasOK'
      BY ErasStep DEF IInv, TypeOK
    <2> QED BY <1>3, <1>4, <2>1, <2>2, <2>3, <2>4, <2>5 DEF IInv, TypeOK
  <1>10. IndexMatchesTimers'
    <2>1. \A j \in TimerIds, k \in Nat : <<k, j>> \in m_timers' <=> Live(j)' /\ k = m_next'[j]
      <3> TAKE j \in TimerIds, k \in Nat
      <3>1. <<k, j>> \in m_timers <=> Live(j) /\ k = m_next[j]
        BY Membership DEF IInv
      <3>2. <<k, j>> \in {<<n + m_ms[i], i>> : i \in again} <=> j \in again /\ k = n + m_ms[j]
        OBVIOUS
      <3>3. CASE j \in again
        <4>1. j \in out /\ Live(j) /\ m_next'[j] = n + m_ms[j]
          BY <1>2, <1>5, <1>7, <3>3
        <4>2. Live(j)'
          BY <1>2, <1>4, <3>3, <4>1 DEF Live
        <4>3. <<k, j>> \in m_timers => <<k, j>> \in gone
          BY <1>5, <3>1, <4>1
        <4> QED BY <1>2, <3>2, <3>3, <4>1, <4>2, <4>3
      <3>4. CASE j \in out \ again
        <4>1. ~Live(j)'
          BY <1>2, <3>4 DEF Live
        <4>2. <<k, j>> \in m_timers => <<k, j>> \in gone
          BY <1>5, <3>1, <3>4
        <4> QED BY <1>2, <3>2, <3>4, <4>1, <4>2
      <3>5. CASE j \notin out
        <4>1. j \notin again
          BY <1>7, <3>5
        <4>2. m_next'[j] = m_next[j] /\ (Live(j)' <=> Live(j))
          BY <1>2, <1>4, <3>5, <4>1 DEF Live
        <4>3. <<k, j>> \notin gone
          BY <1>6, <3>5
        <4> QED BY <1>2, <3>1, <3>2, <4>1, <4>2, <4>3
      <3> QED BY <3>3, <3>4, <3>5
    <2> QED BY <1>9, <2>1, MembershipNext DEF TypeOK
  <1>11. PeriodFits'
    BY <1>1, <1>2, <1>4 DEF IInv, TypeOK, PeriodFits
  <1>12. BuiltHasCallback'
    BY <1>2, <1>4, <1>5 DEF IInv, BuiltHasCallback, Live
  <1>13. CancelledIsDead'
    BY <1>2, <1>4 DEF IInv, CancelledIsDead
  <1>14. \A i \in TimerIds : i \in out => m_cb[i] /\ phase[i] = "shared" /\ ~cancelled[i]
    BY <1>5 DEF IInv, CancelledIsDead, Live
  <1>15. PristineWhileArmed'
    <2> SUFFICES ASSUME NEW i \in TimerIds
                 PROVE  /\ phase'[i] = "unused" => fired'[i] = 0 /\ ~cancelled'[i]
                        /\ ~m_recurring'[i] /\ m_cb'[i] => fired'[i] = 0 /\ ~cancelled'[i]
      BY DEF PristineWhileArmed
    <2>1. /\ phase[i] = "unused" => fired[i] = 0 /\ ~cancelled[i]
          /\ ~m_recurring[i] /\ m_cb[i] => fired[i] = 0 /\ ~cancelled[i]
      BY DEF IInv, PristineWhileArmed
    <2>2. CASE i \in out
      <3>1. phase'[i] = "shared"
        BY <1>4, <1>14, <2>2
      <3>2. ~m_recurring'[i] => ~m_cb'[i]
        BY <1>2, <1>4, <1>7, <2>2
      <3> QED BY <3>1, <3>2
    <2>3. CASE i \notin out
      <3>1. fired'[i] = fired[i] /\ (m_cb'[i] => m_cb[i])
        BY <1>2, <2>3
      <3> QED BY <1>4, <2>1, <3>1
    <2> QED BY <2>2, <2>3
  <1>16. OneShotEndsOnce'
    <2> SUFFICES ASSUME NEW i \in TimerIds, ~m_recurring'[i]
                 PROVE  fired'[i] + (IF cancelled'[i] THEN 1 ELSE 0) <= 1
      BY DEF OneShotEndsOnce
    <2>1. ~m_recurring[i] /\ cancelled'[i] = cancelled[i] /\ fired[i] \in 0..2
      BY <1>4 DEF IInv, TypeOK
    <2>2. CASE i \in out
      <3>1. fired[i] = 0 /\ ~cancelled[i]
        BY <1>14, <2>1, <2>2 DEF IInv, PristineWhileArmed
      <3>2. fired'[i] = 1
        BY <1>2, <2>2, <3>1 DEF Min2
      <3> QED BY <2>1, <3>1, <3>2
    <2>3. CASE i \notin out
      <3>1. fired'[i] = fired[i]
        BY <1>2, <2>3
      <3>2. fired[i] + (IF cancelled[i] THEN 1 ELSE 0) <= 1
        BY <2>1 DEF IInv, OneShotEndsOnce
      <3> QED BY <2>1, <3>1, <3>2
    <2> QED BY <2>2, <2>3
  <1>17. \A i \in TimerIds : cancelled[i] => fired'[i] = fired[i]
    BY <1>2, <1>14
  <1> QED BY <1>9, <1>10, <1>11, <1>12, <1>13, <1>15, <1>16, <1>17 DEF IInv

\* Every step keeps the invariant, and none of them hands out the callback of
\* a timer whose cancel() has returned true.
LEMMA NextStep ==
    ASSUME IInv, [Next]_vars
    PROVE  /\ IInv'
           /\ \A i \in TimerIds : cancelled[i] => fired'[i] = fired[i]
  <1>1. CASE UNCHANGED vars
    BY <1>1 DEF vars, env, fields, ghosts, eras, IInv, TypeOK, ErasOK, IndexMatchesTimers, PeriodFits,
       BuiltHasCallback, CancelledIsDead, PristineWhileArmed, OneShotEndsOnce
  <1>2. CASE \/ Tick \/ SetBack \/ getNextTimer \/ \E t \in Threads : ReadNow(t)
    <2>1. fired' = fired
      BY <1>2 DEF Tick, SetBack, getNextTimer, ReadNow, ghosts
    <2> QED BY <1>2, <2>1, ClockStep
  <1>3. ASSUME NEW i \in TimerIds, OwnerStep(i)
        PROVE  IInv' /\ fired' = fired
    <2>1. fired' = fired
      BY <1>3 DEF OwnerStep, Build, addTimer, cancel, refresh, reset, ghosts
    <2>2. IInv'
      BY <1>3, BuildStep, AddStep, CancelStep, RearmStep DEF OwnerStep
    <2> QED BY <2>1, <2>2
  <1>4. ASSUME NEW t \in Threads, listExpiredCb(t)
        PROVE  IInv' /\ \A i \in TimerIds : cancelled[i] => fired'[i] = fired[i]
    BY <1>4, ExpireStep
  <1> QED BY <1>1, <1>2, <1>3, <1>4 DEF Next

\* The inductive invariant holds in every reachable state.
THEOREM TimerInductive == Spec => []IInv
  <1>1. IInv /\ [Next]_vars => IInv'
    BY NextStep
  <1> QED BY <1>1, InitIInv, PTL DEF Spec

\* Times and periods stay natural numbers: neither the subtraction in
\* Timer::reset nor the clock arithmetic of the manager goes below zero.
THEOREM TimerTypeCorrect == Spec => []TypeOK
  <1>1. IInv => TypeOK
    BY DEF IInv
  <1> QED BY <1>1, TimerInductive, PTL

\* m_timers holds exactly the live timers, each under the key that find()
\* computes for it, so the unchecked erase(find()) of Timer::cancel is defined.
THEOREM IndexIsExact == Spec => []IndexMatchesTimers
  <1>1. IInv => IndexMatchesTimers
    BY DEF IInv
  <1> QED BY <1>1, TimerInductive, PTL

\* A one-shot timer fires once or is cancelled, never both, never twice.
THEOREM OneShotIsOnce == Spec => []OneShotEndsOnce
  <1>1. IInv => OneShotEndsOnce
    BY DEF IInv
  <1> QED BY <1>1, TimerInductive, PTL

\* Once cancel() has returned true, listExpiredCb never hands the callback out.
THEOREM CancelIsFinal == Spec => CancelledNeverFires
  <1>1. IInv /\ [Next]_vars => [\A i \in TimerIds : cancelled[i] => fired'[i] = fired[i]]_vars
    BY NextStep
  <1> QED BY <1>1, TimerInductive, PTL DEF Spec, CancelledNeverFires

-----------------------------------------------------------------------------
(* The times themselves. *)

\* No time in a timer or a thread is beyond the last one by more than a period.
TimesBounded ==
    /\ clock <= LastTick /\ lastSeen <= Never
    /\ \A t \in Threads : now[t] <= LastTick
    /\ \A i \in TimerIds : m_ms[i] \in Periods \cup {0} /\ m_next[i] <= LastTick + m_ms[i]

\* Until the clock is set back, nothing has been read from its future.
ClockLeads ==
    backs = 0 =>
        /\ \A t \in Threads : now[t] <= clock
        /\ m_previouseTime <= clock
        /\ \A i \in TimerIds : m_next[i] <= clock + m_ms[i]

TimesInv == TimesBounded /\ ClockLeads

\* What EarlierFrontAnnounced says of every timer in the set.
Announced == ~m_tickled => \A p \in m_timers : lastSeen <= p[1]

\* No thread takes an hour from reading the clock to locking m_mutex.
ThreadsPrompt == \A t \in Threads : now[t] # NotListing => clock <= now[t] + Hour

LEMMA TimesInit == Init => TimesInv
  BY TimerAssumption, NeverAssumption DEF Init, TimesInv, TimesBounded, ClockLeads, NotListing

\* A timer that is built, refreshed, reset or repeated is armed from a time that
\* some thread has read.
LEMMA TimesStep ==
    ASSUME IInv, TimesInv, [Next]_vars
    PROVE  TimesInv'
  <1> USE DEF env, fields, ghosts, eras
  <1>t. TypeOK /\ TimesBounded /\ ClockLeads
    BY DEF IInv, TimesInv
  <1>k. /\ clock \in Nat /\ backs \in Nat /\ m_previouseTime \in Nat /\ lastSeen \in Nat
        /\ \A i \in TimerIds : m_next[i] \in Nat /\ m_ms[i] \in Nat
        /\ \A t \in Threads : now[t] \in Nat \cup {-1}
        /\ Hour \in Nat /\ LastTick \in Nat /\ Never \in Nat /\ Periods \subseteq Nat
    BY <1>t, TimerAssumption DEF TypeOK, NotListing
  <1>1. CASE UNCHANGED vars
    BY <1>1, <1>t DEF vars, TimesInv, TimesBounded, ClockLeads
  <1>2. CASE Tick
    <2>1. /\ clock < LastTick /\ clock' = clock + 1
          /\ UNCHANGED <<backs, m_next, m_ms, now, m_previouseTime, lastSeen>>
      BY <1>2 DEF Tick
    <2>2. TimesBounded'
      BY <2>1, <1>t, <1>k DEF TimesBounded
    <2>3. ClockLeads'
      BY <2>1, <1>t, <1>k DEF ClockLeads
    <2> QED BY <2>2, <2>3 DEF TimesInv
  <1>3. CASE SetBack
    <2>1. /\ clock' <= clock /\ backs' # 0
          /\ UNCHANGED <<m_next, m_ms, now, m_previouseTime, lastSeen>>
      BY <1>3, <1>k, TimerAssumption DEF SetBack
    <2>2. clock' \in Int
      BY <1>3, <1>k, TimerAssumption DEF SetBack
    <2> QED BY <2>1, <2>2, <1>t, <1>k DEF TimesInv, TimesBounded, ClockLeads
  <1>4. CASE getNextTimer
    <2>1. /\ lastSeen' = Front(m_timers)
          /\ UNCHANGED <<clock, backs, m_next, m_ms, now, m_previouseTime>>
      BY <1>4 DEF getNextTimer
    <2>2. Front(m_timers) <= Never
      <3>1. CASE m_timers = {}
        BY <3>1, <1>k DEF Front
      <3>2. CASE m_timers # {}
        <4>1. PICK p \in m_timers : p \in Nat \X TimerIds
          BY <3>2, <1>t DEF TypeOK
        <4>2. Front(m_timers) \in Nat /\ Front(m_timers) <= p[1]
          BY <1>t, FrontFacts DEF TypeOK
        <4>3. PICK k \in Nat, i \in TimerIds : p = <<k, i>>
          BY <4>1
        <4>4. k = m_next[i]
          BY <4>3, Membership DEF IInv
        <4>5. m_next[i] <= Never
          BY <1>t, <1>k, NeverAssumption DEF TimesBounded
        <4> QED BY <4>2, <4>3, <4>4, <4>5, <1>k
      <3> QED BY <3>1, <3>2
    <2> QED BY <2>1, <2>2, <1>t DEF TimesInv, TimesBounded, ClockLeads
  <1>5. ASSUME NEW t \in Threads, ReadNow(t) PROVE TimesInv'
    <2>1. /\ now' = [now EXCEPT ![t] = clock]
          /\ UNCHANGED <<clock, backs, m_next, m_ms, m_previouseTime, lastSeen>>
      BY <1>5 DEF ReadNow
    <2>2. \A u \in Threads : now'[u] = now[u] \/ now'[u] = clock
      BY <2>1, <1>t DEF TypeOK
    <2> QED BY <2>1, <2>2, <1>t, <1>k DEF TimesInv, TimesBounded, ClockLeads
  <1>6. ASSUME NEW i \in TimerIds, OwnerStep(i) PROVE TimesInv'
    <2>1. UNCHANGED <<clock, backs, now, m_previouseTime, lastSeen>>
      BY <1>6 DEF OwnerStep, Build, addTimer, cancel, refresh, reset
    <2>2. CASE UNCHANGED <<m_next, m_ms>>
      BY <2>1, <2>2, <1>t DEF TimesInv, TimesBounded, ClockLeads
    <2>3. ASSUME NEW ms \in Periods \cup {0}, NEW begin \in Nat, begin <= LastTick,
                 backs = 0 => begin <= clock,
                 m_next' = [m_next EXCEPT ![i] = begin + ms],
                 m_ms' = [m_ms EXCEPT ![i] = ms]
          PROVE  TimesInv'
      <3>1. ms \in Nat
        BY <1>k
      <3>2. /\ m_next'[i] = begin + ms /\ m_ms'[i] = ms
            /\ \A j \in TimerIds : j # i => m_next'[j] = m_next[j] /\ m_ms'[j] = m_ms[j]
        BY <2>3, <1>t DEF TypeOK
      <3>3. m_next'[i] <= LastTick + m_ms'[i] /\ (backs = 0 => m_next'[i] <= clock + m_ms'[i])
        BY <2>3, <3>1, <3>2, <1>k
      <3>4. TimesBounded'
        BY <2>1, <3>2, <3>3, <1>t DEF TimesBounded
      <3>5. ClockLeads'
        BY <2>1, <3>2, <3>3, <1>t DEF ClockLeads
      <3> QED BY <3>4, <3>5 DEF TimesInv
    <2>c. clock <= LastTick
      BY <1>t DEF TimesBounded
    <2>4. ASSUME NEW ms \in Periods, NEW rec \in BOOLEAN, Build(i, ms, rec) PROVE TimesInv'
      <3>1. m_next' = [m_next EXCEPT ![i] = clock + ms] /\ m_ms' = [m_ms EXCEPT ![i] = ms]
        BY <2>4 DEF Build
      <3>2. clock \in Nat /\ clock <= clock /\ ms \in Periods \cup {0}
        BY <1>k
      <3> QED BY <3>1, <3>2, <2>3, <2>c
    <2>5. CASE addTimer(i) \/ cancel(i)
      BY <2>5, <2>2 DEF addTimer, cancel
    <2>6. CASE refresh(i)
      <3>1. m_ms[i] \in Periods \cup {0} /\ m_ms' = [m_ms EXCEPT ![i] = m_ms[i]]
        BY <2>6, <1>t DEF refresh, TypeOK, TimesBounded
      <3>2. m_next' = [m_next EXCEPT ![i] = clock + m_ms[i]]
        BY <2>6 DEF refresh
      <3>3. clock \in Nat /\ clock <= clock
        BY <1>k
      <3> QED BY <3>1, <3>2, <3>3, <2>3, <2>c
    <2>7. ASSUME NEW ms \in Periods, NEW from_now \in BOOLEAN, reset(i, ms, from_now) PROVE TimesInv'
      <3> DEFINE begin == IF from_now THEN clock ELSE m_next[i] - m_ms[i]
      <3>1. m_next' = [m_next EXCEPT ![i] = begin + ms] /\ m_ms' = [m_ms EXCEPT ![i] = ms]
        BY <2>7 DEF reset
      <3>2. begin \in Nat /\ begin <= LastTick /\ (backs = 0 => begin <= clock)
        BY <2>c, <1>t, <1>k DEF IInv, PeriodFits, TimesBounded, ClockLeads
      <3> HIDE DEF begin
      <3> QED BY <3>1, <3>2, <2>3
    <2> QED BY <1>6, <2>4, <2>5, <2>6, <2>7 DEF OwnerStep
  <1>7. ASSUME NEW t \in Threads, listExpiredCb(t) PROVE TimesInv'
    <2>1. /\ now' = [now EXCEPT ![t] = NotListing] /\ now[t] # NotListing
          /\ m_previouseTime' = m_previouseTime \/ m_previouseTime' = now[t]
          /\ UNCHANGED <<clock, backs, m_ms, lastSeen>>
      BY <1>7 DEF listExpiredCb, PreviouseTime
    <2>2. \A i \in TimerIds : m_next'[i] = m_next[i] \/ m_next'[i] = now[t] + m_ms[i]
      BY <1>7 DEF listExpiredCb
    <2>3. now[t] \in Nat /\ now[t] <= LastTick /\ (backs = 0 => now[t] <= clock)
      BY <2>1, <1>t, <1>k DEF TimesBounded, ClockLeads, NotListing
    <2>4. \A u \in Threads : now'[u] = now[u] \/ now'[u] = -1
      BY <2>1, <1>t DEF TypeOK, NotListing
    <2>5. TimesBounded'
      <3>1. \A u \in Threads : now'[u] <= LastTick
        BY <2>4, <1>t, <1>k DEF TimesBounded
      <3>2. \A i \in TimerIds : m_next'[i] <= LastTick + m_ms[i]
        BY <2>2, <2>3, <1>t, <1>k DEF TimesBounded
      <3> QED BY <2>1, <3>1, <3>2, <1>t DEF TimesBounded
    <2>6. ClockLeads'
      <3> SUFFICES ASSUME backs = 0
                   PROVE  /\ \A u \in Threads : now'[u] <= clock
                          /\ m_previouseTime' <= clock
                          /\ \A i \in TimerIds : m_next'[i] <= clock + m_ms[i]
        BY <2>1 DEF ClockLeads
      <3>1. \A u \in Threads : now'[u] <= clock
        BY <2>4, <1>t, <1>k DEF ClockLeads
      <3>2. m_previouseTime' <= clock
        BY <2>1, <2>3, <1>t DEF ClockLeads
      <3>3. \A i \in TimerIds : m_next'[i] <= clock + m_ms[i]
        BY <2>2, <2>3, <1>t, <1>k DEF ClockLeads
      <3> QED BY <3>1, <3>2, <3>3
    <2> QED BY <2>5, <2>6 DEF TimesInv
  <1> QED BY <1>1, <1>2, <1>3, <1>4, <1>5, <1>6, <1>7 DEF Next

\* A prompt thread never takes a steady clock for one that was set back, whatever
\* m_previouseTime another thread has left meanwhile.
LEMMA NoFalseRollover ==
    ASSUME IInv, TimesInv, ThreadsPrompt, backs = 0, NEW t \in Threads, now[t] # NotListing
    PROVE  /\ now[t] \in Nat
           /\ ~Rollover(now[t])
           /\ \A k, i : <<k, i>> \in Expired(now[t]) => <<k, i>> \in m_timers /\ k <= now[t]
  <1>1. now[t] \in Nat /\ clock \in Nat /\ m_previouseTime \in Nat /\ Hour \in Nat
    BY TimerAssumption DEF IInv, TypeOK
  <1>2. clock <= now[t] + Hour /\ m_previouseTime <= clock
    BY DEF ThreadsPrompt, TimesInv, ClockLeads
  <1>3. ~Rollover(now[t])
    BY <1>1, <1>2 DEF Rollover
  <1> QED BY <1>1, <1>3 DEF Expired

\* x is no later than the front if it is no later than any timer and ~0ull.
LEMMA BelowFront ==
    ASSUME NEW S, S \subseteq Nat \X TimerIds, NEW x \in Nat, x <= Never, \A p \in S : x <= p[1]
    PROVE  x <= Front(S)
  <1>1. CASE S = {}
    BY <1>1 DEF Front
  <1>2. CASE S # {}
    <2> DEFINE K == {p[1] : p \in S}
    <2>1. K \subseteq Nat /\ K # {} /\ \A y \in K : x <= y
      BY <1>2
    <2>2. \E m \in K : \A y \in K : m <= y
      <3> HIDE DEF K
      <3> QED BY <2>1, LeastExists
    <2>3. Min(K) \in K
      <3> HIDE DEF K
      <3> QED BY <2>2 DEF Min
    <2>4. Front(S) = Min(K)
      BY <1>2 DEF Front
    <2> QED BY <2>1, <2>3, <2>4
  <1> QED BY <1>1, <1>2

\* An insertion that is not announced is not in front of what was seen.
LEMMA InsertAnnounces ==
    ASSUME TypeOK, lastSeen <= Never, NEW S, S \subseteq Nat \X TimerIds, NEW i \in TimerIds,
           NEW key \in Nat, InsertTimer(S, i, key), UNCHANGED lastSeen,
           ~m_tickled => \A p \in S : lastSeen <= p[1]
    PROVE  Announced'
  <1> SUFFICES ASSUME ~m_tickled', NEW p \in m_timers'
               PROVE  lastSeen <= p[1]
    BY DEF Announced
  <1>1. m_timers' = S \cup {<<key, i>>}
    BY DEF InsertTimer
  <1>2. Front(S) \in Nat /\ lastSeen \in Nat
    BY FrontFacts DEF TypeOK
  <1>3. ~m_tickled /\ Front(S) <= key
    <2>1. m_tickled \in BOOLEAN /\ m_tickled' = FALSE
      BY DEF TypeOK, InsertTimer
    <2>2. ~m_tickled
      BY <2>1 DEF InsertTimer
    <2>3. CASE key = Front(S)
      BY <2>2, <2>3, <1>2
    <2>4. CASE key # Front(S)
      <3>1. ~(key <= Front(S) /\ ~m_tickled)
        BY <2>4 DEF InsertTimer
      <3> QED BY <2>2, <3>1, <1>2
    <2> QED BY <2>3, <2>4
  <1>4. \A q \in S : lastSeen <= q[1]
    BY <1>3
  <1>5. lastSeen <= Front(S)
    BY <1>2, <1>4, BelowFront
  <1>6. CASE p \in S
    BY <1>4, <1>6
  <1>7. CASE p = <<key, i>>
    BY <1>2, <1>3, <1>5, <1>7
  <1> QED BY <1>1, <1>6, <1>7

\* Whoever re-arms a timer under a steady clock moves it to a later time.
LEMMA AnnouncedStep ==
    ASSUME IInv, TimesInv, ThreadsPrompt, backs = 0, Announced, [Next]_vars
    PROVE  Announced'
  <1> USE DEF env, fields, ghosts, eras
  <1>t. TypeOK /\ lastSeen <= Never
    BY DEF IInv, TimesInv, TimesBounded
  <1>k. /\ clock \in Nat /\ lastSeen \in Nat
        /\ \A i \in TimerIds : m_next[i] \in Nat /\ m_ms[i] \in Nat
        /\ m_timers \subseteq Nat \X TimerIds
        /\ Periods \subseteq Nat
    BY <1>t, TimerAssumption DEF TypeOK
  <1>1. CASE UNCHANGED <<m_tickled, lastSeen>> /\ m_timers' \subseteq m_timers
    BY <1>1 DEF Announced
  <1>2. CASE getNextTimer
    BY <1>2, <1>k, FrontFacts DEF getNextTimer, Announced
  <1>3. ASSUME NEW i \in TimerIds, addTimer(i) PROVE Announced'
    <2>1. InsertTimer(m_timers, i, m_next[i]) /\ UNCHANGED lastSeen
      BY <1>3 DEF addTimer
    <2> QED BY <2>1, <1>t, <1>k, InsertAnnounces DEF Announced
  <1>4. ASSUME NEW i \in TimerIds, refresh(i) PROVE Announced'
    <2>1. /\ <<m_next[i], i>> \in m_timers /\ UNCHANGED <<m_tickled, lastSeen>>
          /\ m_timers' = (m_timers \ {<<m_next[i], i>>}) \cup {<<m_next'[i], i>>}
          /\ m_next'[i] = clock + m_ms[i]
      BY <1>4, <1>t DEF refresh, TypeOK
    <2>2. m_next[i] <= clock + m_ms[i]
      BY DEF TimesInv, ClockLeads
    <2>3. ~m_tickled => lastSeen <= m_next[i]
      BY <2>1 DEF Announced
    <2>4. ~m_tickled => lastSeen <= m_next'[i]
      BY <2>1, <2>2, <2>3, <1>k
    <2> QED BY <2>1, <2>4 DEF Announced
  <1>5. ASSUME NEW i \in TimerIds, NEW ms \in Periods, NEW from_now \in BOOLEAN, reset(i, ms, from_now)
        PROVE  Announced'
    <2> DEFINE begin == IF from_now THEN clock ELSE m_next[i] - m_ms[i]
               rest  == m_timers \ {<<m_next[i], i>>}
    <2>1. begin + ms \in Nat
      BY <1>k DEF IInv, PeriodFits
    <2>2. InsertTimer(rest, i, begin + ms) /\ UNCHANGED lastSeen
      BY <1>5 DEF reset
    <2>3. rest \subseteq Nat \X TimerIds /\ (~m_tickled => \A p \in rest : lastSeen <= p[1])
      BY <1>k DEF Announced
    <2> HIDE DEF begin, rest
    <2> QED BY <2>1, <2>2, <2>3, <1>t, InsertAnnounces
  <1>6. ASSUME NEW t \in Threads, listExpiredCb(t) PROVE Announced'
    <2> DEFINE n     == now[t]
               gone  == Expired(n)
               out   == {p[2] : p \in gone}
               again == {i \in out : m_recurring[i]}
    <2>1. /\ now[t] # NotListing /\ UNCHANGED <<m_tickled, lastSeen>>
          /\ m_timers' = (m_timers \ gone) \cup {<<n + m_ms[i], i>> : i \in again}
      BY <1>6 DEF listExpiredCb
    <2>2. n \in Nat /\ \A k, i : <<k, i>> \in gone => <<k, i>> \in m_timers /\ k <= n
      BY <2>1, NoFalseRollover
    <2>3. ASSUME ~m_tickled, NEW i \in again PROVE lastSeen <= n + m_ms[i]
      <3>1. PICK p \in gone : p[2] = i
        OBVIOUS
      <3>2. p \in m_timers
        BY DEF Expired
      <3>3. PICK k \in Nat, j \in TimerIds : p = <<k, j>>
        BY <3>2, <1>k
      <3>4. lastSeen <= k /\ k <= n /\ j = i
        BY <2>2, <2>3, <3>1, <3>2, <3>3 DEF Announced
      <3> QED BY <2>2, <3>3, <3>4, <1>k
    <2> HIDE DEF again, gone, n
    <2> QED BY <2>1, <2>3 DEF Announced
  <1>7. \/ UNCHANGED vars \/ Tick \/ SetBack
        \/ \E t \in Threads : ReadNow(t)
        \/ \E i \in TimerIds : cancel(i) \/ \E ms \in Periods, rec \in BOOLEAN : Build(i, ms, rec)
        => UNCHANGED <<m_tickled, lastSeen>> /\ m_timers' \subseteq m_timers
    BY DEF vars, Tick, SetBack, ReadNow, cancel, Build
  <1> QED BY <1>1, <1>2, <1>3, <1>4, <1>5, <1>6, <1>7 DEF Next, OwnerStep

\* Times stay within their bounds, whatever the clock does.
LEMMA TimesInvariant == Spec => []TimesInv
  <1>1. IInv /\ TimesInv /\ [Next]_vars => TimesInv'
    BY TimesStep
  <1> QED BY <1>1, TimesInit, TimerInductive, PTL DEF Spec

\* Until the clock is set back, and unless a thread takes an hour to come from
\* GetCurrentMS() to the lock in listExpiredCb, a timer that comes to the front by
\* addTimer, refresh, reset or a repetition is announced to an idle loop that
\* sleeps until the front it has seen.
THEOREM FrontIsAnnounced == Spec /\ []ThreadsPrompt => []EarlierFrontAnnounced
  <1>1. Init => (backs = 0 => Announced)
    BY DEF Init, Announced
  <1>2. /\ IInv /\ TimesInv /\ ThreadsPrompt /\ (backs = 0 => Announced) /\ [Next]_vars
        => (backs = 0 => Announced)'
    <2> SUFFICES ASSUME IInv, TimesInv, ThreadsPrompt, backs = 0 => Announced, [Next]_vars, backs' = 0
                 PROVE  Announced'
      OBVIOUS
    <2>1. backs = 0
      <3>1. backs \in Nat
        BY DEF IInv, TypeOK
      <3>2. backs' = backs \/ backs' = backs + 1
        BY DEF Next, vars, env, Tick, SetBack, OwnerStep, Build, addTimer, cancel, refresh, reset,
           getNextTimer, ReadNow, listExpiredCb
      <3> QED BY <3>1, <3>2
    <2> QED BY <2>1, AnnouncedStep
  <1>3. IInv /\ TimesInv /\ (backs = 0 => Announced) => EarlierFrontAnnounced
    <2> SUFFICES ASSUME IInv, TimesInv, Announced, ~m_tickled PROVE lastSeen <= Front(m_timers)
      BY DEF EarlierFrontAnnounced
    <2> QED BY BelowFront DEF IInv, TypeOK, TimesInv, TimesBounded, Announced
  <1> QED BY <1>1, <1>2, <1>3, TimerInductive, TimesInvariant, PTL DEF Spec

-----------------------------------------------------------------------------
(* Set-backs of the clock. *)

\* Readings and what is known of their eras.
ErasOrdered ==
    /\ prevEra <= lastEra /\ lastEra <= backs /\ backs <= BackLimit
    /\ prevRead = m_previouseTime
    /\ prevEra = backs => prevRead <= clock
    /\ \A t \in Threads :
        /\ era[t] <= backs
        /\ now[t] # NotListing /\ era[t] = backs => now[t] <= clock

\* The account covers what may still come.
AccountCovers ==
    /\ owed <= BackLimit + 1
    /\ owed >= (backs - lastEra) + (IF prevEra < lastEra THEN 1 ELSE 0)

ErasInv == ErasOrdered /\ AccountCovers

LEMMA ErasInit == Init => ErasInv
  BY TimerAssumption DEF Init, ErasInv, ErasOrdered, AccountCovers, NotListing

\* A listing that is not late and follows one of the same era finds no rollover.
LEMMA OnTimeIsNotEarly ==
    ASSUME TypeOK, ErasOrdered, NEW t \in Threads, now[t] # NotListing, ~Late(t), prevEra = backs
    PROVE  ~Early(now[t])
  <1>1. now[t] \in Nat /\ m_previouseTime \in Nat /\ Hour \in Nat /\ prevRead = m_previouseTime
    BY TimerAssumption DEF TypeOK, NotListing, ErasOrdered
  <1>2. now[t] >= prevRead
    BY <1>1 DEF Late
  <1>3. ~Rollover(now[t])
    BY <1>1, <1>2 DEF Rollover
  <1>4. m_timers \subseteq Nat \X TimerIds
    BY DEF TypeOK
  <1>5. \A p \in m_timers : p[1] \in Nat
    BY <1>4
  <1>6. \A p \in Expired(now[t]) : p[1] \in Nat /\ p[1] <= now[t]
    BY <1>3, <1>5 DEF Expired
  <1> QED BY <1>1, <1>6 DEF Early

\* Only a set-back and a listing change the account, and each keeps it covered.
LEMMA ErasInvStep ==
    ASSUME IInv, ErasInv, [Next]_vars
    PROVE  ErasInv'
  <1> USE DEF env, eras
  <1>t. TypeOK /\ ErasOK /\ ErasOrdered /\ AccountCovers
    BY DEF IInv, TypeOK, ErasInv
  <1>k. /\ clock \in Nat /\ backs \in Nat /\ m_previouseTime \in Nat /\ BackLimit \in Nat
        /\ prevRead \in Nat /\ prevEra \in Nat /\ lastEra \in Nat /\ owed \in Int
        /\ \A t \in Threads : era[t] \in Nat /\ now[t] \in Nat \cup {-1}
        /\ now \in [Threads -> Nat \cup {-1}] /\ era \in [Threads -> Nat]
    BY <1>t, TimerAssumption DEF TypeOK, ErasOK, NotListing
  <1>s. /\ prevEra <= lastEra /\ lastEra <= backs /\ backs <= BackLimit
        /\ owed <= BackLimit + 1
        /\ owed >= backs - lastEra
        /\ prevEra < lastEra => owed >= (backs - lastEra) + 1
    BY <1>t, <1>k DEF ErasOrdered, AccountCovers
  <1>n. /\ clock \in Nat /\ backs \in Nat /\ BackLimit \in Nat
        /\ prevEra \in Nat /\ lastEra \in Nat /\ owed \in Int
    BY <1>k
  <1>1. CASE UNCHANGED <<clock, backs, m_previouseTime, now, eras>>
    BY <1>1, <1>t DEF ErasInv, ErasOrdered, AccountCovers
  <1>2. CASE Tick
    <2>1. clock' = clock + 1 /\ UNCHANGED <<backs, m_previouseTime, now, eras>>
      BY <1>2 DEF Tick
    <2>2. ErasOrdered'
      BY <2>1, <1>t, <1>k DEF ErasOrdered, NotListing
    <2>3. AccountCovers'
      BY <2>1, <1>t DEF AccountCovers
    <2> QED BY <2>2, <2>3 DEF ErasInv
  <1>3. CASE SetBack
    <2>1. /\ backs < BackLimit /\ backs' = backs + 1 /\ owed' = Charged(owed)
          /\ UNCHANGED <<m_previouseTime, now, era, prevRead, prevEra, lastEra>>
      BY <1>3 DEF SetBack
    <2>2. ErasOrdered'
      BY <2>1, <1>t, <1>k DEF ErasOrdered
    <2>3. AccountCovers'
      <3>1. owed' = IF owed + 1 < BackLimit + 1 THEN owed + 1 ELSE BackLimit + 1
        BY <2>1 DEF Charged, Min2
      <3> QED BY <2>1, <3>1, <1>t, <1>k DEF AccountCovers, ErasOrdered
    <2> QED BY <2>2, <2>3 DEF ErasInv
  <1>4. ASSUME NEW t \in Threads, ReadNow(t) PROVE ErasInv'
    <2>1. /\ now' = [now EXCEPT ![t] = clock] /\ era' = [era EXCEPT ![t] = backs]
          /\ UNCHANGED <<clock, backs, m_previouseTime, prevRead, prevEra, lastEra, owed>>
      BY <1>4 DEF ReadNow
    <2>2. \A u \in Threads : \/ now'[u] = now[u] /\ era'[u] = era[u]
                             \/ now'[u] = clock /\ era'[u] = backs
      BY <2>1, <1>k
    <2>3. ErasOrdered'
      BY <2>1, <2>2, <1>t, <1>k DEF ErasOrdered
    <2>4. AccountCovers'
      BY <2>1, <1>t DEF AccountCovers
    <2> QED BY <2>3, <2>4 DEF ErasInv
  <1>5. ASSUME NEW t \in Threads, listExpiredCb(t) PROVE ErasInv'
    <2>1. /\ now[t] # NotListing /\ Settle(t)
          /\ now' = [now EXCEPT ![t] = NotListing] /\ era' = [era EXCEPT ![t] = 0]
          /\ m_previouseTime' = PreviouseTime(now[t])
          /\ UNCHANGED <<clock, backs>>
      BY <1>5 DEF listExpiredCb
    <2>2. \A u \in Threads : \/ now'[u] = now[u] /\ era'[u] = era[u]
                             \/ now'[u] = NotListing /\ era'[u] = 0
      BY <2>1, <1>k
    <2>3. \A u \in Threads : /\ era'[u] <= backs
                             /\ now'[u] # NotListing /\ era'[u] = backs => now'[u] <= clock
      BY <2>2, <1>t, <1>k DEF ErasOrdered
    <2>4. now[t] \in Nat /\ era[t] \in Nat /\ era[t] <= backs /\ (era[t] = backs => now[t] <= clock)
      BY <2>1, <1>t, <1>k DEF ErasOrdered, NotListing
    <2>5. CASE m_timers = {}
      <3>1. UNCHANGED <<prevRead, prevEra, lastEra, owed, m_previouseTime>>
        BY <2>1, <2>5 DEF Settle, PreviouseTime
      <3> QED BY <3>1, <2>1, <2>3, <1>t DEF ErasInv, ErasOrdered, AccountCovers
    <2>6. CASE m_timers # {}
      <3> DEFINE e == era[t]
      <3>1. /\ prevRead' = now[t] /\ prevEra' = e /\ m_previouseTime' = now[t]
            /\ lastEra' = IF e > lastEra THEN e ELSE lastEra
        BY <2>1, <2>6 DEF Settle, PreviouseTime
      <3>e. e \in Nat /\ e <= backs /\ backs' = backs
        BY <2>1, <2>4
      <3>2. ErasOrdered'
        <4> HIDE DEF e
        <4>1. prevEra' <= lastEra' /\ lastEra' <= backs' /\ backs' <= BackLimit
          BY <3>1, <3>e, <1>s, <1>n
        <4>2. prevEra' = backs' => prevRead' <= clock'
          BY <3>1, <3>e, <2>1, <2>4 DEF e
        <4> QED BY <4>1, <4>2, <3>1, <2>1, <2>3 DEF ErasOrdered
      <3>3. CASE Late(t)
        <4>1. owed' = Charged(owed)
          BY <2>1, <2>6, <3>3 DEF Settle
        <4>2. owed' = IF owed + 1 < BackLimit + 1 THEN owed + 1 ELSE BackLimit + 1
          BY <4>1 DEF Charged, Min2
        <4>3. AccountCovers'
          <5> HIDE DEF e
          <5> QED BY <4>2, <3>1, <3>e, <1>s, <1>n DEF AccountCovers
        <4> QED BY <4>3, <3>2 DEF ErasInv
      <3>4. CASE ~Late(t)
        <4>1. owed' = IF Early(now[t]) THEN owed - 1 ELSE owed
          BY <2>1, <2>6, <3>4 DEF Settle
        <4>2. e = backs
          BY <3>4, <3>e, <1>n DEF Late
        <4> HIDE DEF e
        <4>3. CASE prevEra = backs
          <5>1. ~Early(now[t])
            BY <2>1, <3>4, <4>3, <1>t, OnTimeIsNotEarly
          <5>2. owed' = owed
            BY <4>1, <5>1
          <5>3. AccountCovers'
            BY <4>2, <4>3, <5>2, <3>1, <3>e, <1>s, <1>n DEF AccountCovers
          <5> QED BY <5>3, <3>2 DEF ErasInv
        <4>4. CASE prevEra # backs
          <5>1. owed >= 1
            BY <4>4, <1>s, <1>n
          <5>2. owed' = owed \/ owed' = owed - 1
            BY <4>1
          <5>3. AccountCovers'
            BY <5>1, <5>2, <4>2, <3>1, <3>e, <1>s, <1>n DEF AccountCovers
          <5> QED BY <5>3, <3>2 DEF ErasInv
        <4> QED BY <4>3, <4>4
      <3> QED BY <3>3, <3>4
    <2> QED BY <2>5, <2>6
  <1>6. \/ UNCHANGED vars \/ getNextTimer \/ \E i \in TimerIds : OwnerStep(i)
        => UNCHANGED <<clock, backs, m_previouseTime, now, eras>>
    BY DEF vars, getNextTimer, OwnerStep, Build, addTimer, cancel, refresh, reset
  <1> QED BY <1>1, <1>2, <1>3, <1>4, <1>5, <1>6 DEF Next

\* Whatever the clock does and however long threads take between reading it and
\* locking: each listExpiredCb that hands timers out before their time was itself
\* overtaken, or uses up one set-back or one overtaken listing; a set-back of the
\* clock therefore releases the timers of a TimerManager at most once.
THEOREM SetBackIsPaidOnce == Spec => []SetBackCostsOnce
  <1>1. IInv /\ ErasInv /\ [Next]_vars => ErasInv'
    BY ErasInvStep
  <1>2. IInv /\ ErasInv => SetBackCostsOnce
    BY DEF IInv, TypeOK, ErasOK, ErasInv, ErasOrdered, AccountCovers, SetBackCostsOnce
  <1> QED BY <1>1, <1>2, ErasInit, TimerInductive, PTL DEF Spec
=============================================================================
