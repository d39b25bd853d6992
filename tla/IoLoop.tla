------------------------------- MODULE IoLoop -------------------------------
(***************************************************************************)
(* The idle loop of the IOManager, src/sylar/iomanager.cc, between the     *)
(* pieces it joins: the run list of Scheduler, the timers of TimerManager, *)
(* the event registrations and the wake-up pipe.                           *)
(*                                                                         *)
(* Scheduler, Timer and FdEvents model those pieces one by one.  Here each *)
(* keeps only what the loop reads and writes: a task is a job of the       *)
(* script or the callback it leaves behind (its timer's or its event's),   *)
(* an event is registered or not, a timer is armed or due.  The question   *)
(* is what threads that look at these pieces one after another, and that   *)
(* tell each other of work by writing to a pipe only when somebody looks   *)
(* idle, can miss.                                                         *)
(*                                                                         *)
(* One thread constructs the IOManager with use_caller = false, schedules  *)
(* the jobs of a script and may call stop().  Time passes in two           *)
(* ways only: a timer becomes due, an epoll_wait runs out.                 *)
(***************************************************************************)
EXTENDS Integers, SequencesExt

CONSTANTS
    Workers,     \* the threads start() creates
    Scripts,     \* the sequences of jobs user code may schedule
    IntBits,     \* the width of int (32)
    MaxTimeout   \* MAX_TIMEOUT (3000 ms)

Job == [kind : {"plain", "event"}, delay : {0}] \cup [kind : {"timer"}, delay : Nat]

ASSUME LoopAssumption ==
    /\ Workers # {} /\ IsFiniteSet(Workers)
    /\ \A s \in Scripts : s \in Seq(Job)
    /\ IntBits \in Nat \ {0}
    /\ MaxTimeout \in 1 .. 2^(IntBits - 1) - 1

VARIABLES
    script,               \* the jobs of this execution
    m_fibers,             \* the run list: <<"job", i>> and <<"cb", i>>
    m_activeThreadCount,
    m_idleThreadCount,
    m_stopping,
    timers,               \* the armed timers, by the job that added them
    due,                  \* those whose time has come
    m_tickled,
    registered,           \* the events waited for, by the job that added them
    ready,                \* those the kernel has reported or is about to
    m_pendingEventCount,
    edge,                 \* the pipe has news that no epoll_wait has returned
    caller,               \* where the constructing thread is
    next,                 \* its next job; in stop(), the tickles it has sent
    pc,                   \* where each thread is in run() and idle()
    cur,                  \* the task each thread runs
    endless,              \* its epoll_wait has a negative timeout
    got,                  \* the events its epoll_wait returned, to be handled
    cbs,                  \* its local list of expired timers' callbacks
    idleTerm,             \* its idle fiber has ended
    ran                   \* the tasks that have run

lists  == <<m_fibers, m_activeThreadCount, m_stopping, caller, next>>
clock  == <<timers, due, m_tickled>>
events == <<registered, ready, m_pendingEventCount>>
local  == <<pc, cur, endless, got, cbs, idleTerm>>
vars   == <<script, lists, m_idleThreadCount, clock, events, edge, local, ran>>

Ids == DOMAIN script
Task == {"job", "cb"} \X Nat
NoTask == <<"none", 0>>
Forever == -1

\* The read end of the pipe, m_tickleFds[0], among the events of an epoll_wait.
Pipe == 0

\* The pcs between ++m_idleThreadCount and --m_idleThreadCount.
IdlePc == {"timer?", "pending?", "tasks?", "wait", "expire", "schedule",
           "tickleExpired", "events", "tickleEvent", "triggered", "leave"}

Exited(t) == pc[t] = "done"

Go(t, l) == pc' = [pc EXCEPT ![t] = l]

-----------------------------------------------------------------------------
\* (int) of a uint64_t.
AsInt(x) == LET r == x % 2^IntBits IN IF r < 2^(IntBits - 1) THEN r ELSE r - 2^IntBits

\* What idle() passes to epoll_wait for the next timer at a distance of t, where
\* Forever is ~0ull; a negative argument makes epoll_wait wait for ever.
EpollTimeout(t) ==
    LET ms == IF t = Forever \/ AsInt(t) > MaxTimeout THEN MaxTimeout ELSE AsInt(t)
    IN  IF ms < 0 THEN Forever ELSE ms

\* What getNextTimer returns.  How much of a delay has passed is left open
\* until the timer is due.
NextTimer ==
    IF due # {} THEN 0
    ELSE IF timers = {} THEN Forever
    ELSE Min({script[i].delay : i \in timers})

\* IOManager::tickle: one byte into the pipe if some thread looks idle.
tickle == edge' = (edge \/ m_idleThreadCount > 0)

\* Scheduler::schedule without the tickle it ends with: the tasks join the
\* list, and a tickle is needed if the list was empty.
Push(tasks) == m_fibers' = m_fibers \o tasks

NeedTickle == m_fibers = <<>>

-----------------------------------------------------------------------------
Init ==
    /\ script \in Scripts
    /\ m_fibers = <<>>
    /\ m_activeThreadCount = 0 /\ m_idleThreadCount = 0
    /\ m_stopping = FALSE
    /\ timers = {} /\ due = {} /\ m_tickled = FALSE
    /\ registered = {} /\ ready = {} /\ m_pendingEventCount = 0
    /\ edge = FALSE
    /\ caller = "user" /\ next = 0
    /\ pc = [t \in Workers |-> "scan"]
    /\ cur = [t \in Workers |-> NoTask]
    /\ endless = [t \in Workers |-> FALSE]
    /\ got = [t \in Workers |-> {}]
    /\ cbs = [t \in Workers |-> {}]
    /\ idleTerm = [t \in Workers |-> FALSE]
    /\ ran = {}

-----------------------------------------------------------------------------
(* The constructing thread. *)

\* schedule(job)
Submit ==
    /\ caller = "user" /\ next < Len(script)
    /\ Push(<< <<"job", next + 1>> >>)
    /\ caller' = IF NeedTickle THEN "tickle" ELSE "user"
    /\ next' = next + 1
    /\ UNCHANGED <<script, m_activeThreadCount, m_stopping, m_idleThreadCount, clock,
                   events, edge, local, ran>>

SubmitTickle ==
    /\ caller = "tickle"
    /\ tickle
    /\ caller' = "user"
    /\ UNCHANGED <<script, m_fibers, m_activeThreadCount, m_stopping, next,
                   m_idleThreadCount, clock, events, local, ran>>

\* stop(): m_stopping = true, one tickle per thread, then the joins.
BeginStop ==
    /\ caller = "user" /\ next = Len(script)
    /\ m_stopping' = TRUE
    /\ caller' = "stop" /\ next' = 0
    /\ UNCHANGED <<script, m_fibers, m_activeThreadCount, m_idleThreadCount, clock,
                   events, edge, local, ran>>

StopTickle ==
    /\ caller = "stop" /\ next < Cardinality(Workers)
    /\ tickle
    /\ next' = next + 1
    /\ caller' = IF next' = Cardinality(Workers) THEN "join" ELSE "stop"
    /\ UNCHANGED <<script, m_fibers, m_activeThreadCount, m_stopping, m_idleThreadCount,
                   clock, events, local, ran>>

Join ==
    /\ caller = "join" /\ \A t \in Workers : Exited(t)
    /\ caller' = "stopped"
    /\ UNCHANGED <<script, m_fibers, m_activeThreadCount, m_stopping, next,
                   m_idleThreadCount, clock, events, edge, local, ran>>

-----------------------------------------------------------------------------
(* Scheduler::run. *)

\* Under m_mutex: take the first task.
Take(t) ==
    /\ pc[t] = "scan" /\ m_fibers # <<>>
    /\ cur' = [cur EXCEPT ![t] = Head(m_fibers)]
    /\ m_fibers' = Tail(m_fibers)
    /\ m_activeThreadCount' = m_activeThreadCount + 1
    /\ Go(t, "run")
    /\ UNCHANGED <<script, m_stopping, caller, next, m_idleThreadCount, clock, events,
                   edge, endless, got, cbs, idleTerm, ran>>

\* Under m_mutex: no task.
FindNone(t) ==
    /\ pc[t] = "scan" /\ m_fibers = <<>>
    /\ Go(t, IF idleTerm[t] THEN "done" ELSE "enter")
    /\ UNCHANGED <<script, lists, m_idleThreadCount, clock, events, edge, cur, endless,
                   got, cbs, idleTerm, ran>>

\* The task runs: a callback, or a job that does nothing more.
RunPlain(t) ==
    /\ pc[t] = "run"
    /\ cur[t][1] = "cb" \/ script[cur[t][2]].kind = "plain"
    /\ ran' = ran \cup {cur[t]}
    /\ Go(t, "finish")
    /\ UNCHANGED <<script, lists, m_idleThreadCount, clock, events, edge, cur, endless,
                   got, cbs, idleTerm>>

\* Whether the timer of job i, inserted now, may come first in m_timers: not
\* behind one that is due or one that was armed earlier with no more delay.
AtFront(i) ==
    {front \in BOOLEAN :
        /\ timers = {} => front
        /\ due # {} \/ (\E j \in timers : script[j].delay <= script[i].delay) => ~front}

\* addTimer up to lock.unlock().
RunAddTimer(t) ==
    LET i == cur[t][2] IN
    /\ pc[t] = "run" /\ cur[t][1] = "job" /\ script[i].kind = "timer"
    /\ timers' = timers \cup {i}
    /\ \E front \in AtFront(i) :
        /\ m_tickled' = (m_tickled \/ front)
        /\ Go(t, IF front /\ ~m_tickled THEN "tickleFront" ELSE "finish")
    /\ ran' = ran \cup {cur[t]}
    /\ UNCHANGED <<script, lists, m_idleThreadCount, due, events, edge, cur, endless, got,
                   cbs, idleTerm>>

\* addEvent: epoll_ctl, ++m_pendingEventCount and the registration, under the
\* mutex of the FdContext.
RunAddEvent(t) ==
    LET i == cur[t][2] IN
    /\ pc[t] = "run" /\ cur[t][1] = "job" /\ script[i].kind = "event"
    /\ registered' = registered \cup {i}
    /\ m_pendingEventCount' = m_pendingEventCount + 1
    /\ ran' = ran \cup {cur[t]}
    /\ Go(t, "finish")
    /\ UNCHANGED <<script, lists, m_idleThreadCount, clock, ready, edge, cur, endless, got,
                   cbs, idleTerm>>

\* --m_activeThreadCount
Finish(t) ==
    /\ pc[t] = "finish"
    /\ m_activeThreadCount' = m_activeThreadCount - 1
    /\ cur' = [cur EXCEPT ![t] = NoTask]
    /\ Go(t, "scan")
    /\ UNCHANGED <<script, m_fibers, m_stopping, caller, next, m_idleThreadCount, clock,
                   events, edge, endless, got, cbs, idleTerm, ran>>

\* ++m_idleThreadCount and the switch to the idle fiber.
EnterIdle(t) ==
    /\ pc[t] = "enter"
    /\ m_idleThreadCount' = m_idleThreadCount + 1
    /\ Go(t, "timer?")
    /\ UNCHANGED <<script, lists, clock, events, edge, cur, endless, got, cbs, idleTerm, ran>>

-----------------------------------------------------------------------------
(* IOManager::idle.  stopping(timeout) is three looks in this order. *)

\* getNextTimer, which also resets m_tickled.
LookAtTimers(t) ==
    /\ pc[t] = "timer?"
    /\ m_tickled' = FALSE
    /\ endless' = [endless EXCEPT ![t] = EpollTimeout(NextTimer) < 0]
    /\ Go(t, IF NextTimer = Forever THEN "pending?" ELSE "wait")
    /\ UNCHANGED <<script, lists, m_idleThreadCount, timers, due, events, edge, cur, got,
                   cbs, idleTerm, ran>>

\* Mutant: a pending event does not keep the thread.
LookPastPending(t) ==
    /\ pc[t] = "pending?"
    /\ Go(t, "tasks?")
    /\ UNCHANGED <<script, lists, m_idleThreadCount, clock, events, edge, cur, endless, got,
                   cbs, idleTerm, ran>>

\* m_pendingEventCount == 0
LookAtPending(t) ==
    /\ pc[t] = "pending?"
    /\ Go(t, IF m_pendingEventCount = 0 THEN "tasks?" ELSE "wait")
    /\ UNCHANGED <<script, lists, m_idleThreadCount, clock, events, edge, cur, endless, got,
                   cbs, idleTerm, ran>>

\* Scheduler::stopping(), under m_mutex.
LookAtTasks(t) ==
    /\ pc[t] = "tasks?"
    /\ Go(t, IF m_stopping /\ m_fibers = <<>> /\ m_activeThreadCount = 0
             THEN "leave" ELSE "wait")
    /\ UNCHANGED <<script, lists, m_idleThreadCount, clock, events, edge, cur, endless, got,
                   cbs, idleTerm, ran>>

\* epoll_wait returns what is ready.  The pipe and the descriptors are edge
\* triggered: one waiting thread gets the news.
Wake(t) ==
    /\ pc[t] = "wait" /\ (edge \/ ready # {})
    /\ got' = [got EXCEPT ![t] = ready \cup {p \in {Pipe} : edge}]
    /\ edge' = FALSE /\ ready' = {}
    /\ endless' = [endless EXCEPT ![t] = FALSE]
    /\ Go(t, "expire")
    /\ UNCHANGED <<script, lists, m_idleThreadCount, clock, registered,
                   m_pendingEventCount, cur, cbs, idleTerm, ran>>

\* epoll_wait runs out: it has looked for news a last time.
WaitEnds(t) ==
    /\ pc[t] = "wait" /\ ~endless[t]
    /\ ~edge /\ ready = {}
    /\ Go(t, "expire")
    /\ UNCHANGED <<script, lists, m_idleThreadCount, clock, events, edge, cur, endless, got,
                   cbs, idleTerm, ran>>

Callbacks(ids) == LET s == SetToSeq(ids) IN [k \in DOMAIN s |-> <<"cb", s[k]>>]


\* listExpiredCb: the timers that are due leave the set for the local cbs.
ListExpired(t) ==
    /\ pc[t] = "expire"
    /\ cbs' = [cbs EXCEPT ![t] = due]
    /\ timers' = timers \ due /\ due' = {}
    /\ Go(t, IF due = {} THEN "events" ELSE "schedule")
    /\ UNCHANGED <<script, lists, m_idleThreadCount, m_tickled, events, edge, cur, endless, got,
                   idleTerm, ran>>

\* schedule(cbs.begin(), cbs.end())
ScheduleExpired(t) ==
    /\ pc[t] = "schedule"
    /\ Push(Callbacks(cbs[t]))
    /\ cbs' = [cbs EXCEPT ![t] = {}]
    /\ Go(t, IF NeedTickle THEN "tickleExpired" ELSE "events")
    /\ UNCHANGED <<script, m_activeThreadCount, m_stopping, caller, next,
                   m_idleThreadCount, clock, events, edge, cur, endless, got, idleTerm, ran>>

\* The pipe is read until it is empty.  A byte written since the epoll_wait
\* returned goes with the others, unless another thread has its news already.
Drain(t) ==
    /\ pc[t] = "events" /\ Pipe \in got[t]
    /\ got' = [got EXCEPT ![t] = @ \ {Pipe}]
    /\ edge' = FALSE
    /\ UNCHANGED <<script, lists, m_idleThreadCount, clock, events, pc, cur, endless, cbs,
                   idleTerm, ran>>

\* triggerEvent for one event that epoll_wait returned, under the mutex of its
\* FdContext: the callback is scheduled and the registration is gone.
Trigger(t) ==
    /\ pc[t] = "events"
    /\ \E i \in got[t] \ {Pipe} :
        /\ got' = [got EXCEPT ![t] = @ \ {i}]
        /\ registered' = registered \ {i}
        /\ Push(<< <<"cb", i>> >>)
    /\ Go(t, IF NeedTickle THEN "tickleEvent" ELSE "triggered")
    /\ UNCHANGED <<script, m_activeThreadCount, m_stopping, caller, next,
                   m_idleThreadCount, clock, ready, m_pendingEventCount, edge, cur, endless,
                   cbs, idleTerm, ran>>

\* Mutant: the event is counted off twice.
TriggeredTwice(t) ==
    /\ pc[t] = "triggered"
    /\ m_pendingEventCount' = IF m_pendingEventCount > 1 THEN m_pendingEventCount - 2 ELSE 0
    /\ Go(t, "events")
    /\ UNCHANGED <<script, lists, m_idleThreadCount, clock, registered, ready, edge, cur,
                   endless, got, cbs, idleTerm, ran>>

\* --m_pendingEventCount
Triggered(t) ==
    /\ pc[t] = "triggered"
    /\ m_pendingEventCount' = m_pendingEventCount - 1
    /\ Go(t, "events")
    /\ UNCHANGED <<script, lists, m_idleThreadCount, clock, registered, ready, edge, cur,
                   endless, got, cbs, idleTerm, ran>>

\* The tickle of addTimer, of schedule(cbs) and of triggerEvent's schedule.
TickleReturn ==
    [tickleFront |-> "finish", tickleExpired |-> "events", tickleEvent |-> "triggered"]

Tickle(t) ==
    /\ pc[t] \in DOMAIN TickleReturn
    /\ tickle
    /\ Go(t, TickleReturn[pc[t]])
    /\ UNCHANGED <<script, lists, m_idleThreadCount, clock, events, cur, endless, got,
                   cbs, idleTerm, ran>>


\* swapOut or the end of idle(), then --m_idleThreadCount in run().
LeaveIdle(t) ==
    /\ pc[t] = "leave" \/ (pc[t] = "events" /\ got[t] = {})
    /\ m_idleThreadCount' = m_idleThreadCount - 1
    /\ idleTerm' = [idleTerm EXCEPT ![t] = pc[t] = "leave"]
    /\ Go(t, "scan")
    /\ UNCHANGED <<script, lists, clock, events, edge, cur, endless, got, cbs, ran>>

-----------------------------------------------------------------------------
(* The environment. *)

TimerDue(i) ==
    /\ i \in timers \ due
    /\ due' = due \cup {i}
    /\ UNCHANGED <<script, lists, m_idleThreadCount, timers, m_tickled, events, edge,
                   local, ran>>

FdReady(i) ==
    /\ i \in registered /\ \A t \in Workers : i \notin got[t]
    /\ ready' = ready \cup {i}
    /\ UNCHANGED <<script, lists, m_idleThreadCount, clock, registered,
                   m_pendingEventCount, edge, local, ran>>

-----------------------------------------------------------------------------
Worker(t) ==
    \/ Take(t) \/ FindNone(t) \/ RunPlain(t) \/ RunAddTimer(t) \/ RunAddEvent(t)
    \/ Finish(t) \/ EnterIdle(t)
    \/ LookAtTimers(t) \/ LookAtPending(t) \/ LookAtTasks(t)
    \/ Wake(t) \/ WaitEnds(t) \/ ListExpired(t) \/ ScheduleExpired(t)
    \/ Drain(t) \/ Trigger(t) \/ Triggered(t) \/ Tickle(t) \/ LeaveIdle(t)

Scheduling == Submit \/ SubmitTickle

Stop == StopTickle \/ Join

Stopped == caller = "stopped" /\ UNCHANGED vars

Next ==
    \/ Scheduling \/ BeginStop \/ Stop \/ Stopped
    \/ \E t \in Workers : Worker(t)
    \/ \E i \in Ids : TimerDue(i) \/ FdReady(i)

Spec == Init /\ [][Next]_vars

\* The operating system runs every thread that can run, an epoll_wait with a
\* timeout ends, time reaches every timer.  That the peer of every descriptor
\* sends something is an assumption about the environment; the calls of
\* schedule() and the call of stop() are up to the user.
Fairness ==
    /\ \A t \in Workers : WF_vars(Worker(t))
    /\ WF_vars(SubmitTickle) /\ WF_vars(Stop)
    /\ \A i \in 1 .. Max({Len(s) : s \in Scripts}) :
        WF_vars(TimerDue(i)) /\ WF_vars(FdReady(i))

FairSpec == Spec /\ Fairness

-----------------------------------------------------------------------------
\* The two counters of Scheduler::run are exact: m_activeThreadCount is the number of threads
\* inside a task, m_idleThreadCount, on which tickle() relies, that of threads inside idle().
TypeOK ==
    /\ script \in Scripts
    /\ m_fibers \in Seq(Task)
    /\ m_activeThreadCount = Cardinality({t \in Workers : pc[t] \in {"run", "finish", "tickleFront"}})
    /\ m_idleThreadCount = Cardinality({t \in Workers : pc[t] \in IdlePc})
    /\ due \subseteq timers /\ timers \subseteq Ids
    /\ ready \subseteq registered /\ registered \subseteq Ids
    /\ m_pendingEventCount \in Nat
    /\ endless \in [Workers -> BOOLEAN]

\* The tasks that exist by now: the jobs scheduled, and for each job that has run
\* and left a timer or an event, the callback.
Created ==
    {<<"job", i>> : i \in IF m_stopping THEN Ids ELSE 1 .. next}
    \cup {<<"cb", i>> : i \in {j \in Ids : script[j].kind # "plain" /\ <<"job", j>> \in ran}}

\* m_pendingEventCount, which idle(), addEvent and the cancelling calls keep by
\* separate atomic operations, is the number of events waited for plus the
\* events just triggered that are about to be counted off: it never drops to
\* zero while a registration is left, so stopping() cannot overlook one.
PendingCountsEvents ==
    m_pendingEventCount = Cardinality(registered)
        + Cardinality({t \in Workers : pc[t] \in {"tickleEvent", "triggered"}})

\* The three counters that tickle() and stopping() read without a lock are exact.
CountersExact == TypeOK /\ PendingCountsEvents

\* Every thread decides on its own, from three looks at three pieces of state at
\* three moments, that it may end.  When the last one has gone, everything that
\* was ever scheduled, armed or registered has run: no thread relied on another
\* that had just made the same decision.
StopLosesNothing ==
    (\A t \in Workers : Exited(t)) => m_fibers = <<>> /\ ran = Created


=============================================================================
