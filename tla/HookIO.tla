------------------------------- MODULE HookIO -------------------------------
(***************************************************************************)
(* The blocking calls that src/sylar/hook.cc replaces, as one fiber makes  *)
(* them on one socket: do_io (read, write, accept, ...),                   *)
(* connect_with_timeout and sleep.                                         *)
(*                                                                         *)
(* Such a call arms a condition timer, registers the fiber with addEvent   *)
(* and yields; the idle fiber, the timer's callback or a close() on        *)
(* another thread lets it go on.  addEvent, cancelEvent and the timer set  *)
(* are atomic here: FdEvents and Timer model their insides.  A fiber that  *)
(* is scheduled while it has not yielded yet is resumed once it has        *)
(* (Scheduler models what may go wrong there).                             *)
(***************************************************************************)
EXTENDS Naturals, FiniteSets

CONSTANTS
    Pools,         \* the pools the call may be made in, see `pool'
    Calls,         \* bound on the calls the fiber makes
    Arrivals,      \* bound on how often data arrives
    MayClose       \* another fiber may close the socket

ASSUME HookAssumption ==
    /\ Pools \subseteq [concurrent : BOOLEAN, addMayFail : BOOLEAN] /\ MayClose \in BOOLEAN
    /\ Calls \in Nat /\ Arrivals \in Nat

VARIABLES
    pool,        \* several threads or one; whether epoll_ctl may fail on an open
                 \* descriptor.  Chosen once.
    pc,          \* where the fiber is
    call,        \* the number of the current, or of the last, call
    op, timed,   \* which function it is, and whether it has a timeout
    round,       \* how often the call has gone to wait
    result,
    cancelled,   \* timer_info::cancelled of each call
    timers,      \* timers that are armed, and callbacks that have been handed out
    expired,     \* the calls one of whose timers has expired
    registered,  \* the fiber is registered for the event
    woken,       \* the fiber is scheduled
    data, arrived, conn,   \* the socket: something to read; the connection
    fdState      \* "open", "closing" (cancelAll done), "closed"

fiber  == <<pc, call, op, timed, round, result>>
socket == <<data, arrived, conn, fdState>>
vars   == <<pool, fiber, cancelled, timers, expired, registered, woken, socket>>

Init ==
    /\ pool \in Pools
    /\ pc = "idle" /\ call = 0 /\ op = "io" /\ timed = FALSE /\ round = 0 /\ result = "none"
    /\ cancelled = [c \in 1..Calls |-> FALSE]
    /\ timers = {} /\ expired = {}
    /\ registered = FALSE /\ woken = FALSE
    /\ data = FALSE /\ arrived = 0 /\ conn = "none" /\ fdState = "open"

\* On one thread a task runs until it returns or yields: the fiber while it is
\* not holding, a callback or a close() from its first step to its last.
FiberOff  == pc \in {"idle", "hold"}
OthersOff == fdState # "closing" /\ \A t \in timers : t.st # "running"
FiberMay  == pool.concurrent \/ OthersOff
OthersMay == pool.concurrent \/ FiberOff

MyTimer(st) == [c |-> call, n |-> round, st |-> st]

\* timer->cancel(): without effect once the callback has been handed out.
CancelTimer == timers' = timers \ {MyTimer("armed")}

Return(r) == pc' = "idle" /\ result' = r /\ UNCHANGED <<call, op, timed, round>>

-----------------------------------------------------------------------------
(* The calling fiber. *)

\* A call that is not the hook's business goes straight to the system call.
CallDirectly ==
    /\ pc = "idle" /\ FiberMay
    /\ call < Calls
    /\ call' = call + 1
    /\ result' = "direct"
    /\ UNCHANGED <<pool, pc, op, timed, round, cancelled, timers, expired, registered, woken, socket>>

\* do_io up to its first attempt; getTimeout says whether there is a timeout.
StartIO ==
    /\ pc = "idle" /\ FiberMay
    /\ call < Calls
    /\ call' = call + 1
    /\ op' = "io" /\ timed' \in BOOLEAN
    /\ pc' = "try" /\ round' = 0 /\ result' = "none"
    /\ UNCHANGED <<pool, cancelled, timers, expired, registered, woken, socket>>

\* connect_with_timeout: connect_f succeeds or fails at once, or is in progress.
StartConnect ==
    /\ pc = "idle" /\ FiberMay
    /\ call < Calls
    /\ conn = "none"
    /\ call' = call + 1
    /\ op' = "connect" /\ timed' \in BOOLEAN /\ round' = 0
    /\ \/ fdState = "closed" /\ pc' = "idle" /\ result' = "EBADF" /\ UNCHANGED conn
       \/ fdState # "closed" /\ pc' = "idle" /\ result' = "connected" /\ conn' = "established"
       \/ fdState # "closed" /\ pc' = "idle" /\ result' = "error" /\ conn' = "refused"
       \/ fdState # "closed" /\ pc' = "arm" /\ result' = "none" /\ conn' = "pending"
    /\ UNCHANGED <<pool, cancelled, timers, expired, registered, woken, data, arrived, fdState>>

\* sleep, usleep, nanosleep: a timer and no event.
StartSleep ==
    /\ pc = "idle" /\ FiberMay
    /\ call < Calls
    /\ call' = call + 1
    /\ op' = "sleep" /\ timed' = TRUE
    /\ pc' = "arm" /\ round' = 0 /\ result' = "none"
    /\ UNCHANGED <<pool, cancelled, timers, expired, registered, woken, socket>>

\* The attempt, EINTR retried inside it.
TryIO ==
    /\ pc = "try" /\ FiberMay
    /\ \/ fdState = "closed" /\ Return("EBADF") /\ UNCHANGED data
       \/ fdState # "closed" /\ data /\ Return("ok") /\ data' = FALSE
       \/ /\ fdState # "closed" /\ ~data
          /\ pc' = "arm"
          /\ UNCHANGED <<data, call, op, timed, round, result>>
    /\ UNCHANGED <<pool, cancelled, timers, expired, registered, woken, arrived, conn, fdState>>

\* Mutant: only the first round of a call is given a timer.
ArmTimerOnce ==
    /\ pc = "arm" /\ FiberMay
    /\ round' = round + 1
    /\ timers' = IF timed /\ round = 0 THEN timers \cup {[c |-> call, n |-> 1, st |-> "armed"]}
                 ELSE timers
    /\ pc' = IF op = "sleep" THEN "hold" ELSE "add"
    /\ UNCHANGED <<pool, call, op, timed, result, cancelled, expired, registered, woken, socket>>

\* addConditionTimer (or addTimer, in sleep).
ArmTimer ==
    /\ pc = "arm" /\ FiberMay
    /\ round' = round + 1
    /\ timers' = IF timed THEN timers \cup {[c |-> call, n |-> round + 1, st |-> "armed"]}
                 ELSE timers
    /\ pc' = IF op = "sleep" THEN "hold" ELSE "add"
    /\ UNCHANGED <<pool, call, op, timed, result, cancelled, expired, registered, woken, socket>>

\* addEvent; it fails when epoll_ctl does.
AddEvent ==
    /\ pc = "add" /\ FiberMay
    /\ \/ /\ fdState # "closed"
          /\ registered' = TRUE
          /\ pc' = "hold"
          /\ UNCHANGED <<timers, call, op, timed, round, result>>
       \/ /\ fdState = "closed" \/ pool.addMayFail
          /\ CancelTimer
          /\ \/ op = "io" /\ Return("addEvent failed")
             \/ op = "connect" /\ pc' = "check" /\ UNCHANGED <<call, op, timed, round, result>>
          /\ UNCHANGED registered
    /\ UNCHANGED <<pool, cancelled, expired, woken, socket>>

\* YieldToHold returns.
Resume ==
    /\ pc = "hold" /\ FiberMay
    /\ woken
    /\ woken' = FALSE
    /\ \/ op = "sleep" /\ Return("slept")
       \/ op # "sleep" /\ pc' = "wake" /\ UNCHANGED <<call, op, timed, round, result>>
    /\ UNCHANGED <<pool, cancelled, timers, expired, registered, socket>>

\* Behind YieldToHold: cancel the timer, then look at tinfo->cancelled.
AfterHold ==
    /\ pc = "wake" /\ FiberMay
    /\ CancelTimer
    /\ \/ cancelled[call] /\ Return("ETIMEDOUT")
       \/ /\ ~cancelled[call]
          /\ pc' = IF op = "io" THEN "try" ELSE "check"
          /\ UNCHANGED <<call, op, timed, round, result>>
    /\ UNCHANGED <<pool, cancelled, expired, registered, woken, socket>>

\* Mutant: SO_ERROR is not looked at.
CheckConnectIgnoresError ==
    /\ pc = "check" /\ FiberMay
    /\ \/ fdState = "closed" /\ Return("EBADF")
       \/ fdState # "closed" /\ Return("connected")
    /\ UNCHANGED <<pool, cancelled, timers, expired, registered, woken, socket>>

\* connect's last part: getsockopt(SO_ERROR), which is 0 for a connection that
\* is established, and for one that is still in progress.
CheckConnect ==
    /\ pc = "check" /\ FiberMay
    /\ \/ fdState = "closed" /\ Return("EBADF")
       \/ fdState # "closed" /\ conn = "refused" /\ Return("error")
       \/ fdState # "closed" /\ conn # "refused" /\ Return("connected")
    /\ UNCHANGED <<pool, cancelled, timers, expired, registered, woken, socket>>

-----------------------------------------------------------------------------
(* The others. *)

\* The peer.
Arrive ==
    /\ arrived < Arrivals
    /\ data' = TRUE /\ arrived' = arrived + 1
    /\ UNCHANGED <<pool, conn, fdState, fiber, cancelled, timers, expired, registered, woken>>

\* Another reader of the socket takes the data.
Consume ==
    /\ OthersMay /\ OthersOff
    /\ data
    /\ data' = FALSE
    /\ UNCHANGED <<pool, arrived, conn, fdState, fiber, cancelled, timers, expired, registered, woken>>

Answer ==
    /\ conn = "pending"
    /\ conn' \in {"established", "refused"}
    /\ UNCHANGED <<pool, data, arrived, fdState, fiber, cancelled, timers, expired, registered, woken>>

\* Mutant: the registration is dropped and the fiber not scheduled.
TriggerEventDrops ==
    /\ OthersMay /\ OthersOff
    /\ registered
    /\ fdState # "closed"
    /\ IF op = "io" THEN data ELSE conn # "pending"
    /\ registered' = FALSE
    /\ UNCHANGED <<pool, woken, fiber, cancelled, timers, expired, socket>>

\* The idle fiber finds the event.
TriggerEvent ==
    /\ OthersMay /\ OthersOff
    /\ registered
    /\ fdState # "closed"
    /\ IF op = "io" THEN data ELSE conn # "pending"
    /\ registered' = FALSE
    /\ woken' = TRUE
    /\ UNCHANGED <<pool, fiber, cancelled, timers, expired, socket>>

\* listExpiredCb hands the callback out.
Expire(t) ==
    /\ OthersMay /\ OthersOff
    /\ t.st = "armed"
    /\ timers' = (timers \ {t}) \cup {[t EXCEPT !.st = "queued"]}
    /\ expired' = expired \cup {t.c}
    /\ UNCHANGED <<pool, fiber, cancelled, registered, woken, socket>>

Alive(c) == c = call /\ pc # "idle"

\* Mutant: the callback trusts that its call is still the current one.
RunCallbackUnguarded(t) ==
    /\ OthersMay /\ OthersOff
    /\ t.st = "queued"
    /\ cancelled' = [cancelled EXCEPT ![call] = TRUE]
    /\ timers' = (timers \ {t}) \cup {[t EXCEPT !.st = "running"]}
    /\ UNCHANGED <<pool, woken, fiber, expired, registered, socket>>

\* The callback: winfo.lock() and the flag; sleep's callback only schedules.
RunCallback(t) ==
    /\ OthersMay /\ OthersOff
    /\ t.st = "queued"
    /\ \/ /\ Alive(t.c) /\ op = "sleep"
          /\ woken' = TRUE
          /\ timers' = timers \ {t}
          /\ UNCHANGED cancelled
       \/ /\ Alive(t.c) /\ op # "sleep" /\ ~cancelled[t.c]
          /\ cancelled' = [cancelled EXCEPT ![t.c] = TRUE]
          /\ timers' = (timers \ {t}) \cup {[t EXCEPT !.st = "running"]}
          /\ UNCHANGED woken
       \/ /\ ~Alive(t.c) \/ (op # "sleep" /\ cancelled[t.c])
          /\ timers' = timers \ {t}
          /\ UNCHANGED <<cancelled, woken>>
    /\ UNCHANGED <<pool, fiber, expired, registered, socket>>

\* Mutant: the callback schedules the fiber, registered or not.
CallbackSchedules(t) ==
    /\ OthersMay
    /\ t.st = "running"
    /\ timers' = timers \ {t}
    /\ woken' = TRUE
    /\ UNCHANGED <<pool, registered, fiber, cancelled, expired, socket>>

\* The rest of it: cancelEvent(fd, event), which fails on a closed descriptor.
CallbackCancels(t) ==
    /\ OthersMay
    /\ t.st = "running"
    /\ timers' = timers \ {t}
    /\ registered' = (registered /\ fdState = "closed")
    /\ woken' = (woken \/ (registered /\ fdState # "closed"))
    /\ UNCHANGED <<pool, fiber, cancelled, expired, socket>>

\* close() by another fiber: cancelAll, then del and close_f.
CloseCancels ==
    /\ MayClose
    /\ OthersMay /\ OthersOff
    /\ fdState = "open"
    /\ fdState' = "closing"
    /\ registered' = FALSE
    /\ woken' = (woken \/ registered)
    /\ UNCHANGED <<pool, fiber, cancelled, timers, expired, data, arrived, conn>>

CloseCloses ==
    /\ OthersMay
    /\ fdState = "closing"
    /\ fdState' = "closed"
    /\ UNCHANGED <<pool, fiber, cancelled, timers, expired, registered, woken, data, arrived, conn>>

FiberStep == TryIO \/ ArmTimer \/ AddEvent \/ Resume \/ AfterHold \/ CheckConnect
StartCall == CallDirectly \/ StartIO \/ StartConnect \/ StartSleep
TimerStep(t) == Expire(t) \/ RunCallback(t) \/ CallbackCancels(t)

Next ==
    \/ StartCall
    \/ FiberStep
    \/ Arrive
    \/ Consume
    \/ Answer
    \/ TriggerEvent
    \/ \E t \in timers : TimerStep(t)
    \/ CloseCancels
    \/ CloseCloses

Spec == Init /\ [][Next]_vars

\* A fiber that can run does, the idle fiber polls, time passes and callbacks
\* run, and a close() that has begun ends.
FairSpec ==
    /\ Spec
    /\ WF_vars(FiberStep) /\ WF_vars(TriggerEvent) /\ WF_vars(CloseCloses)
    /\ WF_vars(\E t \in timers : TimerStep(t))

-----------------------------------------------------------------------------
(* Properties. *)

FiberType ==
    /\ pc \in {"idle", "try", "arm", "add", "hold", "wake", "check"}
    /\ call \in 0..Calls /\ (pc # "idle" => call \in 1..Calls)
    /\ op \in {"io", "connect", "sleep"} /\ round \in Nat
    /\ result \in {"none", "direct", "ok", "EBADF", "ETIMEDOUT", "addEvent failed",
                   "connected", "error", "slept"}

FlagType ==
    /\ timed \in BOOLEAN /\ registered \in BOOLEAN /\ woken \in BOOLEAN /\ data \in BOOLEAN
    /\ cancelled \in [1..Calls -> BOOLEAN]

TimerType ==
    /\ timers \subseteq [c : 1..Calls, n : Nat, st : {"armed", "queued", "running"}]
    /\ expired \subseteq 1..Calls

SocketType ==
    /\ arrived \in Nat
    /\ conn \in {"none", "pending", "established", "refused"}
    /\ fdState \in {"open", "closing", "closed"}

\* Types of the call's local variables, of its timers and of the socket: a
\* blocking call never returns EAGAIN, and a timer is always of a call made.
TypeOK == FiberType /\ FlagType /\ TimerType /\ SocketType

\* The fiber is scheduled at most once for each time it yields, and only while
\* it waits: no wake-up is left over for a later YieldToHold, whoever of the
\* idle fiber, the callback and close() comes first.
NoStrayWake ==
    /\ woken => pc = "hold" /\ ~registered
    /\ registered => pc = "hold"

\* A call leaves no armed timer behind, on any of its ways out.
NoTimerLeft == pc = "idle" => \A t \in timers : t.st # "armed"

\* ETIMEDOUT is the answer to a timer of this very call that has expired, never
\* to one that an earlier call has left behind.
TimeoutIsOwn == result = "ETIMEDOUT" => call \in expired

\* One thread, and addEvent never fails on an open descriptor.
Quiet == ~pool.concurrent /\ ~pool.addMayFail

\* On one thread, connect returns 0 only for a connection that is established.
ZeroMeansConnected == Quiet => (result = "connected" => conn = "established")

\* On one thread, a call that has a timeout, and every sleep, returns.
TimedCallReturns == (Quiet /\ pc # "idle" /\ timed) ~> pc = "idle"

\* The same two on every pool: neither holds.
ZeroAlwaysMeansConnected == result = "connected" => conn = "established"
TimedCallAlwaysReturns == (pc # "idle" /\ timed) ~> pc = "idle"

\* A call that waits for data which is there returns, unless the data is taken
\* by another reader or the socket is closed meanwhile.
ReadyCallReturns ==
    (pc = "hold" /\ op = "io" /\ data /\ fdState = "open")
        ~> (pc = "idle" \/ ~data \/ fdState # "open")
=============================================================================
