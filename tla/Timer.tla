-------------------------------- MODULE Timer --------------------------------
(***************************************************************************)
(* Timers: src/sylar/timer.{h,cc}.                                         *)
(*                                                                         *)
(* m_timers is a std::set ordered by Timer::Comparator, which reads the    *)
(* m_next of the timers it holds.  The position of a timer in the tree is  *)
(* where its m_next put it when it was inserted, so the model keeps pairs  *)
(* <<key, timer>>: find() succeeds only if the key is still the timer's    *)
(* m_next.  A critical section of m_mutex is one step; the readings of the *)
(* clock that the code takes outside of it are steps of their own.         *)
(***************************************************************************)
EXTENDS Integers, FiniteSets, FiniteSetsExt

CONSTANTS
    TimerIds,     \* the Timer objects
    Threads,      \* threads that run listExpiredCb (idle fibers of the IOManager)
    Periods,      \* the values of ms passed to addTimer and reset
    Hour,         \* 60 * 60 * 1000 in detectClockRollover
    Start,        \* the wall clock when the TimerManager is constructed
    LastTick,     \* bound on the wall clock
    BackLimit,    \* bound on how often the wall clock is set back
    BackBy,       \* by how much it is set back
    Never         \* ~0ull, getNextTimer's answer when there is no timer

ASSUME TimerAssumption ==
    /\ Periods \subseteq Nat
    /\ Hour \in Nat
    /\ Start \in Nat
    /\ LastTick \in Nat
    /\ BackLimit \in Nat
    /\ BackBy \subseteq Nat
    /\ Start > Hour
    /\ Never \in Nat

\* ~0ull is later than any time a timer can have: the 64-bit sums do not wrap.
ASSUME NeverAssumption ==
    /\ Start <= LastTick /\ LastTick <= Never
    /\ \A ms \in Periods : LastTick + ms <= Never

VARIABLES
    clock,            \* GetCurrentMS(), the wall clock
    backs,            \* how often it was set back so far
    m_timers,         \* the ordered set, as pairs <<key, timer>>
    m_next, m_ms,     \* the fields of the timers
    m_cb,             \* m_cb # nullptr
    m_recurring,
    phase,            \* "unused", "built" (constructed), "shared" (returned)
    m_tickled,
    m_previouseTime,
    now,              \* now_ms of each thread inside listExpiredCb, or NotListing
    \* what the properties talk about
    fired,            \* how often the callback was handed out: 0, 1, or 2 for more
    cancelled,        \* cancel() returned true
    lastSeen,         \* the front of m_timers at the last getNextTimer()
    era,              \* the value of backs when each thread read the clock
    prevRead,         \* the reading of the clock the last listing worked with
    prevEra,          \* the value of backs when it was taken
    lastEra,          \* the greatest prevEra so far
    owed              \* set-backs and late listings not yet paid for, see SetBackCostsOnce

env    == <<clock, backs>>
fields == <<m_next, m_ms, m_cb, m_recurring, phase>>
eras   == <<era, prevRead, prevEra, lastEra, owed>>
ghosts == <<fired, cancelled, lastSeen>>
vars   == <<env, m_timers, fields, m_tickled, m_previouseTime, now, ghosts, eras>>

NotListing == -1

Min2(a, b) == IF a < b THEN a ELSE b

\* *m_timers.begin(): the smallest key.
Front(timers) == IF timers = {} THEN Never ELSE Min({p[1] : p \in timers})

Init ==
    /\ clock = Start
    /\ backs = 0
    /\ m_timers = {}
    /\ m_next = [i \in TimerIds |-> 0]
    /\ m_ms = [i \in TimerIds |-> 0]
    /\ m_cb = [i \in TimerIds |-> FALSE]
    /\ m_recurring = [i \in TimerIds |-> FALSE]
    /\ phase = [i \in TimerIds |-> "unused"]
    /\ m_tickled = FALSE
    /\ m_previouseTime = Start
    /\ now = [t \in Threads |-> NotListing]
    /\ fired = [i \in TimerIds |-> 0]
    /\ cancelled = [i \in TimerIds |-> FALSE]
    /\ lastSeen = Never
    /\ era = [t \in Threads |-> 0]
    /\ prevRead = Start
    /\ prevEra = 0
    /\ lastEra = 0
    /\ owed = 0

-----------------------------------------------------------------------------
(* The wall clock (gettimeofday): it advances, and an operator may set it back. *)

Tick ==
    /\ clock < LastTick
    /\ clock' = clock + 1
    /\ UNCHANGED <<backs, m_timers, fields, m_tickled, m_previouseTime, now, ghosts, eras>>

\* owed counts up to what BackLimit set-backs and one late listing can cost.
Charged(n) == Min2(n + 1, BackLimit + 1)

SetBack ==
    /\ backs < BackLimit
    \* the clock stays more than an hour after the epoch, so the unsigned
    \* subtraction in detectClockRollover does not wrap
    /\ \E b \in BackBy : clock - b > Hour /\ clock' = clock - b
    /\ backs' = backs + 1
    /\ owed' = Charged(owed)
    /\ UNCHANGED <<m_timers, fields, m_tickled, m_previouseTime, now, ghosts,
                   era, prevRead, prevEra, lastEra>>

-----------------------------------------------------------------------------
(* Timers as their owners see them. *)

\* The constructor, before addTimer takes the lock.
Build(i, ms, rec) ==
    /\ phase[i] = "unused"
    /\ phase' = [phase EXCEPT ![i] = "built"]
    /\ m_next' = [m_next EXCEPT ![i] = clock + ms]
    /\ m_ms' = [m_ms EXCEPT ![i] = ms]
    /\ m_cb' = [m_cb EXCEPT ![i] = TRUE]
    /\ m_recurring' = [m_recurring EXCEPT ![i] = rec]
    /\ UNCHANGED <<env, m_timers, m_tickled, m_previouseTime, now, ghosts, eras>>

\* Mutant: an insertion at the front is not remembered.
InsertSilently(timers, i, key) ==
    /\ m_timers' = timers \cup {<<key, i>>}
    /\ m_tickled' = m_tickled

\* addTimer(val, lock): insert, and remember that the front has changed.
\* onTimerInsertedAtFront() is called when at_front holds.
InsertTimer(timers, i, key) ==
    LET at_front == key <= Front(timers) /\ ~m_tickled
    IN  /\ m_timers' = timers \cup {<<key, i>>}
        /\ \/ key # Front(timers) /\ m_tickled' = (m_tickled \/ at_front)
           \* between equal times the order is that of the addresses
           \/ key = Front(timers) /\ m_tickled' \in {m_tickled, TRUE}

\* The locked part of addTimer(ms, cb, recurring).
addTimer(i) ==
    /\ phase[i] = "built"
    /\ phase' = [phase EXCEPT ![i] = "shared"]
    /\ InsertTimer(m_timers, i, m_next[i])
    /\ UNCHANGED <<env, m_next, m_ms, m_cb, m_recurring, m_previouseTime, now, ghosts, eras>>

\* Mutant: cancel drops the callback and leaves the timer in the set.
cancelKeepsEntry(i) ==
    /\ phase[i] = "shared"
    /\ m_cb[i]
    /\ m_cb' = [m_cb EXCEPT ![i] = FALSE]
    /\ cancelled' = [cancelled EXCEPT ![i] = TRUE]
    /\ UNCHANGED <<env, m_timers, m_next, m_ms, m_recurring, phase, m_tickled,
                   m_previouseTime, now, fired, lastSeen, eras>>

\* Timer::cancel.  The iterator find() returns is erased unchecked.
cancel(i) ==
    /\ phase[i] = "shared"
    /\ m_cb[i]
    /\ m_cb' = [m_cb EXCEPT ![i] = FALSE]
    /\ m_timers' = m_timers \ {<<m_next[i], i>>}
    /\ cancelled' = [cancelled EXCEPT ![i] = TRUE]
    /\ UNCHANGED <<env, m_next, m_ms, m_recurring, phase, m_tickled, m_previouseTime, now,
                   fired, lastSeen, eras>>

\* Timer::refresh, when it returns true.
refresh(i) ==
    /\ phase[i] = "shared"
    /\ m_cb[i]
    /\ <<m_next[i], i>> \in m_timers
    /\ m_next' = [m_next EXCEPT ![i] = clock + m_ms[i]]
    /\ m_timers' = (m_timers \ {<<m_next[i], i>>}) \cup {<<m_next'[i], i>>}
    /\ UNCHANGED <<env, m_ms, m_cb, m_recurring, phase, m_tickled, m_previouseTime, now,
                   ghosts, eras>>

\* Timer::reset, when it changes something.
reset(i, ms, from_now) ==
    /\ phase[i] = "shared"
    /\ ms # m_ms[i] \/ from_now
    /\ m_cb[i]
    /\ <<m_next[i], i>> \in m_timers
    /\ LET begin == IF from_now THEN clock ELSE m_next[i] - m_ms[i]
       IN  /\ m_next' = [m_next EXCEPT ![i] = begin + ms]
           /\ InsertTimer(m_timers \ {<<m_next[i], i>>}, i, begin + ms)
    /\ m_ms' = [m_ms EXCEPT ![i] = ms]
    /\ UNCHANGED <<env, m_cb, m_recurring, phase, m_previouseTime, now, ghosts, eras>>

-----------------------------------------------------------------------------
(* The idle loop's side. *)

\* getNextTimer: from here on an earlier front has to be announced again.
getNextTimer ==
    /\ m_tickled' = FALSE
    /\ lastSeen' = Front(m_timers)
    /\ UNCHANGED <<env, m_timers, fields, m_previouseTime, now, fired, cancelled, eras>>

\* listExpiredCb reads the clock before it locks.
ReadNow(t) ==
    /\ now[t] = NotListing
    /\ now' = [now EXCEPT ![t] = clock]
    /\ era' = [era EXCEPT ![t] = backs]
    /\ UNCHANGED <<env, m_timers, fields, m_tickled, m_previouseTime, ghosts,
                   prevRead, prevEra, lastEra, owed>>

\* detectClockRollover
Rollover(n) == n < m_previouseTime /\ n < m_previouseTime - Hour

\* Mutant: the time is not remembered when it has gone back.
PreviouseTimeKept(n) == IF m_timers = {} \/ Rollover(n) THEN m_previouseTime ELSE n

\* What detectClockRollover leaves in m_previouseTime; without timers
\* listExpiredCb returns before it is called.
PreviouseTime(n) == IF m_timers = {} THEN m_previouseTime ELSE n

\* Mutant: the timer that is exactly due is left behind.
ExpiredStrict(n) == {p \in m_timers : Rollover(n) \/ p[1] < n}

\* The timers listExpiredCb takes out: those up to and including now, or all.
Expired(n) == {p \in m_timers : Rollover(n) \/ p[1] <= n}

\* The clock was set back, or a later reading was used, after this thread read
\* the clock and before it got the lock.
Late(t) == era[t] < backs \/ (prevEra = backs /\ now[t] < prevRead)

\* Timers are handed out before their time.
Early(n) == \E p \in Expired(n) : p[1] > n

\* What a listing does to the account of set-backs.
Settle(t) ==
    IF m_timers = {}
      THEN UNCHANGED <<prevRead, prevEra, lastEra, owed>>
      ELSE /\ prevRead' = now[t]
           /\ prevEra' = era[t]
           /\ lastEra' = IF era[t] > lastEra THEN era[t] ELSE lastEra
           /\ owed' = IF Late(t) THEN Charged(owed)
                      ELSE IF Early(now[t]) THEN owed - 1 ELSE owed

\* The locked part of listExpiredCb.
listExpiredCb(t) ==
    /\ now[t] # NotListing
    /\ now' = [now EXCEPT ![t] = NotListing]
    /\ m_previouseTime' = PreviouseTime(now[t])
    /\ Settle(t)
    /\ LET gone  == Expired(now[t])
           out   == {p[2] : p \in gone}
           again == {i \in out : m_recurring[i]}
       IN  /\ m_next' = [i \in TimerIds |-> IF i \in again THEN now[t] + m_ms[i] ELSE m_next[i]]
           /\ m_timers' = (m_timers \ gone) \cup {<<now[t] + m_ms[i], i>> : i \in again}
           /\ m_cb' = [i \in TimerIds |-> m_cb[i] /\ ~(i \in out \ again)]
           /\ fired' = [i \in TimerIds |-> IF i \in out THEN Min2(fired[i] + 1, 2) ELSE fired[i]]
    /\ era' = [era EXCEPT ![t] = 0]
    /\ UNCHANGED <<env, m_ms, m_recurring, phase, m_tickled, cancelled, lastSeen>>

OwnerStep(i) ==
    \/ \E ms \in Periods, rec \in BOOLEAN : Build(i, ms, rec)
    \/ addTimer(i)
    \/ cancel(i)
    \/ refresh(i)
    \/ \E ms \in Periods, from_now \in BOOLEAN : reset(i, ms, from_now)

Next ==
    \/ Tick
    \/ SetBack
    \/ \E i \in TimerIds : OwnerStep(i)
    \/ getNextTimer
    \/ \E t \in Threads : ReadNow(t) \/ listExpiredCb(t)

Spec == Init /\ [][Next]_vars

\* Idle loops keep running; a thread inside listExpiredCb gets the lock.
FairSpec == Spec /\ \A t \in Threads : WF_vars(ReadNow(t) \/ listExpiredCb(t))

-----------------------------------------------------------------------------
(* Properties. *)

ErasOK ==
    /\ era \in [Threads -> Nat]
    /\ prevRead \in Nat
    /\ prevEra \in Nat
    /\ lastEra \in Nat
    /\ owed \in Int

\* Types of the timers' fields and of the manager's (timer.h): times and periods
\* are naturals, i.e. no unsigned subtraction of the code goes below zero.
TypeOK ==
    /\ clock \in Nat
    /\ backs \in Nat
    /\ m_timers \subseteq (Nat \X TimerIds)
    /\ m_next \in [TimerIds -> Nat]
    /\ m_ms \in [TimerIds -> Nat]
    /\ m_cb \in [TimerIds -> BOOLEAN]
    /\ m_recurring \in [TimerIds -> BOOLEAN]
    /\ phase \in [TimerIds -> {"unused", "built", "shared"}]
    /\ m_tickled \in BOOLEAN
    /\ m_previouseTime \in Nat
    /\ now \in [Threads -> Nat \cup {NotListing}]
    /\ fired \in [TimerIds -> 0..2]
    /\ cancelled \in [TimerIds -> BOOLEAN]
    /\ lastSeen \in Nat
    /\ ErasOK

\* The ordered set is never corrupted and always complete: it holds a timer
\* exactly while the timer has a callback, under the key find() computes.  This
\* is what makes the unchecked erase(find(...)) of Timer::cancel defined, and
\* what makes refresh and reset find every live timer.
IndexMatchesTimers ==
    m_timers = {<<m_next[i], i>> : i \in {j \in TimerIds : phase[j] = "shared" /\ m_cb[j]}}

\* A one-shot timer ends in one way: its callback is handed out once, or
\* cancel() returns true and it is never handed out.
OneShotEndsOnce ==
    \A i \in TimerIds :
        ~m_recurring[i] => fired[i] + (IF cancelled[i] THEN 1 ELSE 0) <= 1

\* After cancel() has returned true the callback is not handed out again, by a
\* listExpiredCb that had read its time before either.
CancelledNeverFires ==
    [][\A i \in TimerIds : cancelled[i] => fired'[i] = fired[i]]_vars

\* Setting the clock back costs its timers once.  listExpiredCb hands timers out
\* before their time when it finds the clock more than an hour behind
\* m_previouseTime, however long ago that was written; each such listing is one
\* that was late itself, or there is a set-back or a late listing of another
\* thread, not used up by an earlier one, to blame for it.  In particular no
\* timer runs early while the clock only advances and no listing is late.
SetBackCostsOnce == owed >= 0

\* An idle loop that sleeps until the front it saw in getNextTimer() is told of
\* any earlier one: while m_tickled is false there is none.  (Timer::refresh
\* announces nothing; after the clock was set back it can move a timer to the
\* front, and the loop then sleeps as long as it meant to.)
EarlierFrontAnnounced == backs = 0 /\ ~m_tickled => lastSeen <= Front(m_timers)

\* A timer that is due does not stay due (a recurring timer of period 0 is due
\* all the time).
Due(i) == <<m_next[i], i>> \in m_timers /\ m_next[i] <= clock /\ m_ms[i] > 0

DueTimerFires == \A i \in TimerIds : Due(i) ~> ~Due(i)
=============================================================================
