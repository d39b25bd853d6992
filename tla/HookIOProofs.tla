---------------------------- MODULE HookIOProofs ----------------------------
(***************************************************************************)
(* Proofs about HookIO for any number of calls and arrivals, one thread or *)
(* several, with and without close() and failing epoll_ctl.                *)
(***************************************************************************)
EXTENDS HookIO, TLAPS

\* A sleep does nothing but arm its timer and hold, and is never registered.
SleepShape == op = "sleep" => pc \in {"idle", "arm", "hold"} /\ ~registered

\* No timer is of a call yet to come, and a sleep that has not armed its timer
\* has none: so the callback that schedules a sleeper finds it holding.
TimersPast ==
    /\ \A t \in timers : t.c <= call
    /\ op = "sleep" /\ pc = "arm" => \A t \in timers : t.c # call

\* A sleep has one timer, and is scheduled by it alone.
SleepTimer ==
    op = "sleep" =>
        /\ \A t, u \in timers : t.c = call /\ u.c = call => t = u
        /\ woken => \A t \in timers : t.c # call

\* The only timer still armed is that of the round the fiber is in.
ArmedIsCurrent ==
    \A t \in timers : t.st = "armed" =>
        t.c = call /\ t.n = round /\ pc \in {"add", "hold", "wake"}

\* A callback that has been handed out, and the flag it leaves, are of a call
\* one of whose timers has expired.
ExpiredIsOwn ==
    /\ \A t \in timers : t.st # "armed" => t.c \in expired
    /\ \A c \in 1..Calls : cancelled[c] => c \in expired

\* The inductive invariant.
HInv ==
    /\ TypeOK /\ NoStrayWake /\ SleepShape /\ SleepTimer
    /\ TimersPast /\ ArmedIsCurrent /\ ExpiredIsOwn /\ TimeoutIsOwn

-----------------------------------------------------------------------------
\* The fields of a timer.
LEMMA TimerTyped ==
    ASSUME TypeOK, NEW t \in timers
    PROVE  t.c \in 1..Calls /\ t.c \in Nat /\ t.n \in Nat /\ t.st \in {"armed", "queued", "running"}
<1>1. t \in [c : 1..Calls, n : Nat, st : {"armed", "queued", "running"}]
  BY DEF TypeOK, TimerType
<1>2. t.c \in 1..Calls /\ t.n \in Nat /\ t.st \in {"armed", "queued", "running"}
  BY <1>1
<1> QED
  BY <1>2, HookAssumption

\* A record of a timer is determined by its three fields.
LEMMA TimerFields ==
    ASSUME NEW t \in [c : 1..Calls, n : Nat, st : {"armed", "queued", "running"}],
           NEW c \in 1..Calls, NEW n \in Nat,
           t.c = c, t.n = n, t.st = "armed"
    PROVE  t = [c |-> c, n |-> n, st |-> "armed"]
OBVIOUS

\* timer->cancel() leaves no timer armed while the fiber is in that round.
LEMMA CancelLeavesNone ==
    ASSUME TypeOK, ArmedIsCurrent, pc # "idle", CancelTimer
    PROVE  /\ timers' \subseteq timers
           /\ \A t \in timers' : t.st # "armed"
<1>1. timers' \subseteq timers
  BY DEF CancelTimer
<1>2. ASSUME NEW t \in timers', t.st = "armed"
      PROVE  FALSE
  <2>1. t \in timers /\ t # [c |-> call, n |-> round, st |-> "armed"]
    BY <1>2 DEF CancelTimer, MyTimer
  <2>2. t.c = call /\ t.n = round /\ call \in 1..Calls /\ round \in Nat
    BY <2>1, <1>2 DEF ArmedIsCurrent, TypeOK, FiberType
  <2>3. t \in [c : 1..Calls, n : Nat, st : {"armed", "queued", "running"}]
    BY <2>1 DEF TypeOK, TimerType
  <2> QED
    BY <2>1, <2>2, <2>3, <1>2, TimerFields
<1> QED
  BY <1>1, <1>2

\* The initial state of a fiber that has not called yet.
LEMMA HookInit == Init => HInv
<1> SUFFICES ASSUME Init PROVE HInv
  OBVIOUS
<1>1. TypeOK
  <2>1. FiberType /\ TimerType /\ SocketType
    BY HookAssumption DEF Init, FiberType, TimerType, SocketType
  <2>2. FlagType
    BY Zenon DEF Init, FlagType
  <2> QED
    BY <2>1, <2>2 DEF TypeOK
<1>2. NoStrayWake /\ SleepShape /\ SleepTimer /\ TimersPast /\ ArmedIsCurrent /\ ExpiredIsOwn /\ TimeoutIsOwn
  BY DEF Init, NoStrayWake, SleepShape, SleepTimer, TimersPast, ArmedIsCurrent, ExpiredIsOwn, TimeoutIsOwn
<1> QED
  BY <1>1, <1>2 DEF HInv

\* The beginning of a call.
LEMMA HookStart == ASSUME HInv, StartCall PROVE HInv'
<1> USE DEF HInv
<1>1. pc = "idle" /\ call \in 0..Calls /\ call < Calls /\ call' = call + 1
  BY DEF StartCall, CallDirectly, StartIO, StartConnect, StartSleep, TypeOK, FiberType
<1>2. call' \in 0..Calls /\ call' \in 1..Calls /\ call < call'
  BY <1>1, HookAssumption
<1>3. UNCHANGED <<cancelled, timers, expired, registered, woken>>
  BY DEF StartCall, CallDirectly, StartIO, StartConnect, StartSleep
<1>4. ~registered /\ ~woken /\ \A t \in timers : t.st # "armed" /\ t.c < call'
  <2>1. ~registered /\ ~woken /\ \A t \in timers : t.st # "armed" /\ t.c <= call
    BY <1>1 DEF NoStrayWake, ArmedIsCurrent, TimersPast
  <2>2. \A t \in timers : t.c \in Nat
    BY TimerTyped
  <2> QED
    BY <2>1, <2>2, <1>1
<1>5. TypeOK'
  <2>1. TimerType'
    BY <1>3 DEF TypeOK, TimerType
  <2>2. FlagType'
    BY <1>3, Zenon DEF StartCall, CallDirectly, StartIO, StartConnect, StartSleep, TypeOK, FlagType, socket
  <2>3. FiberType'
    <3>1. CASE CallDirectly
      BY <3>1, <1>2 DEF CallDirectly, TypeOK, FiberType
    <3>2. CASE StartIO
      BY <3>2, <1>2 DEF StartIO, TypeOK, FiberType
    <3>3. CASE StartConnect
      BY <3>3, <1>2 DEF StartConnect, TypeOK, FiberType
    <3>4. CASE StartSleep
      BY <3>4, <1>2 DEF StartSleep, TypeOK, FiberType
    <3> QED
      BY <3>1, <3>2, <3>3, <3>4 DEF StartCall
  <2>4. SocketType'
    BY DEF StartCall, CallDirectly, StartIO, StartConnect, StartSleep, TypeOK, SocketType, socket
  <2> QED
    BY <2>1, <2>2, <2>3, <2>4 DEF TypeOK
<1>6. result' # "ETIMEDOUT"
  BY DEF StartCall, CallDirectly, StartIO, StartConnect, StartSleep
<1>7. SleepShape'
  BY <1>1, <1>3, <1>4 DEF StartCall, CallDirectly, StartIO, StartConnect, StartSleep, SleepShape
<1>8. TimersPast'
  <2>1. \A t \in timers : t.c \in Nat
    BY TimerTyped
  <2> QED
    BY <1>3, <1>4, <1>2, <2>1, HookAssumption DEF TimersPast
<1>9. NoStrayWake' /\ ArmedIsCurrent'
  BY <1>3, <1>4 DEF NoStrayWake, ArmedIsCurrent
<1>10. ExpiredIsOwn' /\ TimeoutIsOwn'
  BY <1>3, <1>6 DEF ExpiredIsOwn, TimeoutIsOwn
<1>11. SleepTimer'
  <2>1. \A t \in timers : t.c # call'
    BY <1>4, <1>2, TimerTyped
  <2> QED
    BY <1>3, <1>4, <2>1 DEF SleepTimer
<1> QED
  BY <1>5, <1>7, <1>8, <1>9, <1>10, <1>11

\* The attempt, and the return of a call.
LEMMA HookTry == ASSUME HInv, TryIO PROVE HInv'
<1> USE DEF HInv
<1>1. pc = "try" /\ UNCHANGED <<cancelled, timers, expired, registered, woken, call, op, timed, round, arrived, conn, fdState>>
  BY DEF TryIO, Return
<1>2. pc' \in {"idle", "arm"} /\ result' \in {"EBADF", "ok", result} /\ (pc' = "arm" => op # "sleep")
  BY <1>1 DEF TryIO, Return, SleepShape
<1>3. TypeOK'
  <2>1. FiberType' /\ TimerType' /\ SocketType'
    BY <1>1, <1>2 DEF TypeOK, FiberType, TimerType, SocketType
  <2>2. FlagType'
    BY <1>1, Zenon DEF TryIO, TypeOK, FlagType
  <2> QED
    BY <2>1, <2>2 DEF TypeOK
<1>4. ~registered /\ ~woken /\ op # "sleep" /\ \A t \in timers : t.st # "armed"
  BY <1>1 DEF NoStrayWake, SleepShape, ArmedIsCurrent
<1> QED
  BY <1>1, <1>2, <1>3, <1>4
  DEF NoStrayWake, SleepShape, SleepTimer, TimersPast, ArmedIsCurrent, ExpiredIsOwn, TimeoutIsOwn

\* addConditionTimer.
LEMMA HookArm == ASSUME HInv, ArmTimer PROVE HInv'
<1> USE DEF HInv
<1> DEFINE new == [c |-> call, n |-> round + 1, st |-> "armed"]
<1>1. /\ pc = "arm" /\ UNCHANGED <<call, op, timed, result, cancelled, expired, registered, woken, socket>>
      /\ round' = round + 1 /\ pc' \in {"hold", "add"} /\ (op = "sleep" => pc' = "hold")
      /\ timers' \subseteq timers \cup {new}
  BY DEF ArmTimer
<1>2. call \in 1..Calls /\ round \in Nat /\ round + 1 \in Nat /\ call \in Nat
  <2>1. call \in 1..Calls /\ round \in Nat
    BY <1>1 DEF TypeOK, FiberType
  <2> QED
    BY <2>1, HookAssumption
<1>3. new \in [c : 1..Calls, n : Nat, st : {"armed", "queued", "running"}] /\ new.c = call /\ new.n = round' /\ new.st = "armed"
  BY <1>1, <1>2
<1> HIDE DEF new
<1>4. TypeOK'
  <2>1. FiberType'
    BY <1>1, <1>2 DEF TypeOK, FiberType
  <2>2. TimerType'
    BY <1>1, <1>3 DEF TypeOK, TimerType
  <2>3. SocketType'
    BY <1>1 DEF TypeOK, SocketType, socket
  <2>4. FlagType'
    BY <1>1, Zenon DEF TypeOK, FlagType, socket
  <2> QED
    BY <2>1, <2>2, <2>3, <2>4 DEF TypeOK
<1>5. ~registered /\ ~woken /\ \A t \in timers : t.st # "armed"
  BY <1>1 DEF NoStrayWake, ArmedIsCurrent
<1>6. TimersPast'
  BY <1>1, <1>2, <1>3 DEF TimersPast
<1>7. ArmedIsCurrent' /\ NoStrayWake' /\ SleepShape'
  BY <1>1, <1>3, <1>5 DEF ArmedIsCurrent, NoStrayWake, SleepShape
<1>8. ExpiredIsOwn' /\ TimeoutIsOwn'
  BY <1>1, <1>3 DEF ExpiredIsOwn, TimeoutIsOwn
<1>9. SleepTimer'
  BY <1>1, <1>5 DEF SleepTimer, TimersPast
<1> QED
  BY <1>4, <1>6, <1>7, <1>8, <1>9

\* addEvent, both ways.
LEMMA HookAdd == ASSUME HInv, AddEvent PROVE HInv'
<1> USE DEF HInv
<1>1. pc = "add" /\ op # "sleep" /\ ~registered /\ ~woken /\ call \in 1..Calls
  BY DEF AddEvent, NoStrayWake, SleepShape, TypeOK, FiberType
<1>2. UNCHANGED <<call, op, timed, round, cancelled, expired, woken, socket>>
  BY DEF AddEvent, Return
<1>3. CASE registered' = TRUE /\ pc' = "hold" /\ UNCHANGED <<timers, result>>
  <2>1. TypeOK'
    <3>1. FiberType' /\ TimerType' /\ SocketType'
      BY <1>1, <1>2, <1>3 DEF TypeOK, FiberType, TimerType, SocketType, socket
    <3>2. FlagType'
      BY <1>2, <1>3, Zenon DEF TypeOK, FlagType, socket
    <3> QED
      BY <3>1, <3>2 DEF TypeOK
  <2> QED
    BY <1>1, <1>2, <1>3, <2>1
    DEF NoStrayWake, SleepShape, SleepTimer, TimersPast, ArmedIsCurrent, ExpiredIsOwn, TimeoutIsOwn
<1>4. CASE /\ CancelTimer /\ UNCHANGED registered
           /\ pc' \in {"idle", "check"} /\ result' \in {"addEvent failed", result}
  <2>1. timers' \subseteq timers /\ \A t \in timers' : t.st # "armed"
    BY <1>1, <1>4, CancelLeavesNone
  <2>2. TypeOK'
    <3>1. FiberType' /\ TimerType' /\ SocketType'
      BY <1>1, <1>2, <1>4, <2>1 DEF TypeOK, FiberType, TimerType, SocketType, socket
    <3>2. FlagType'
      BY <1>2, <1>4, Zenon DEF TypeOK, FlagType, socket
    <3> QED
      BY <3>1, <3>2 DEF TypeOK
  <2> QED
    BY <1>1, <1>2, <1>4, <2>1, <2>2
    DEF NoStrayWake, SleepShape, SleepTimer, TimersPast, ArmedIsCurrent, ExpiredIsOwn, TimeoutIsOwn
<1> QED
  BY <1>3, <1>4 DEF AddEvent, Return

\* YieldToHold returns.
LEMMA HookResume == ASSUME HInv, Resume PROVE HInv'
<1> USE DEF HInv
<1>1. pc = "hold" /\ woken /\ ~registered /\ call \in 1..Calls
  BY DEF Resume, NoStrayWake, TypeOK, FiberType
<1>2. /\ woken' = FALSE
      /\ UNCHANGED <<cancelled, timers, expired, registered, socket, call, op, timed, round>>
      /\ \/ op = "sleep" /\ pc' = "idle" /\ result' = "slept"
         \/ op # "sleep" /\ pc' = "wake" /\ result' = result
  BY DEF Resume, Return
<1>3. TypeOK'
  <2>1. FiberType' /\ TimerType' /\ SocketType'
    BY <1>1, <1>2 DEF TypeOK, FiberType, TimerType, SocketType, socket
  <2>2. FlagType'
    BY <1>2, Zenon DEF TypeOK, FlagType, socket
  <2> QED
    BY <2>1, <2>2 DEF TypeOK
<1> QED
  BY <1>1, <1>2, <1>3
  DEF NoStrayWake, SleepShape, SleepTimer, TimersPast, ArmedIsCurrent, ExpiredIsOwn, TimeoutIsOwn

\* Behind YieldToHold the timer of the round is cancelled.
LEMMA HookAfter == ASSUME HInv, AfterHold PROVE HInv'
<1> USE DEF HInv
<1>1. pc = "wake" /\ op # "sleep" /\ ~registered /\ ~woken /\ call \in 1..Calls
  BY DEF AfterHold, NoStrayWake, SleepShape, TypeOK, FiberType
<1>2. /\ CancelTimer
      /\ UNCHANGED <<cancelled, expired, registered, woken, socket, call, op, timed, round>>
      /\ \/ cancelled[call] /\ pc' = "idle" /\ result' = "ETIMEDOUT"
         \/ pc' \in {"try", "check"} /\ result' = result
  BY DEF AfterHold, Return
<1>3. timers' \subseteq timers /\ \A t \in timers' : t.st # "armed"
  BY <1>1, <1>2, CancelLeavesNone
<1>4. TypeOK'
  <2>1. FiberType' /\ TimerType' /\ SocketType'
    BY <1>1, <1>2, <1>3 DEF TypeOK, FiberType, TimerType, SocketType, socket
  <2>2. FlagType'
    BY <1>2, Zenon DEF TypeOK, FlagType, socket
  <2> QED
    BY <2>1, <2>2 DEF TypeOK
<1>5. TimeoutIsOwn'
  BY <1>1, <1>2 DEF TimeoutIsOwn, ExpiredIsOwn
<1> QED
  BY <1>1, <1>2, <1>3, <1>4, <1>5
  DEF NoStrayWake, SleepShape, SleepTimer, TimersPast, ArmedIsCurrent, ExpiredIsOwn

\* connect's look at SO_ERROR.
LEMMA HookCheck == ASSUME HInv, CheckConnect PROVE HInv'
<1> USE DEF HInv
<1>1. pc = "check" /\ op # "sleep"
  BY DEF CheckConnect, SleepShape
<1>2. /\ pc' = "idle" /\ result' \in {"EBADF", "error", "connected"}
      /\ UNCHANGED <<cancelled, timers, expired, registered, woken, socket, call, op, timed, round>>
  BY DEF CheckConnect, Return
<1>3. TypeOK'
  <2>1. FiberType' /\ TimerType' /\ SocketType'
    BY <1>1, <1>2 DEF TypeOK, FiberType, TimerType, SocketType, socket
  <2>2. FlagType'
    BY <1>2, Zenon DEF TypeOK, FlagType, socket
  <2> QED
    BY <2>1, <2>2 DEF TypeOK
<1> QED
  BY <1>1, <1>2, <1>3
  DEF NoStrayWake, SleepShape, SleepTimer, TimersPast, ArmedIsCurrent, ExpiredIsOwn, TimeoutIsOwn

\* The socket's own steps: nothing of the call changes but the data it finds.
LEMMA HookSocket ==
    ASSUME HInv, Arrive \/ Consume \/ Answer \/ CloseCloses
    PROVE  HInv'
<1> USE DEF HInv
<1>1. UNCHANGED <<fiber, cancelled, timers, expired, registered, woken>>
  BY DEF Arrive, Consume, Answer, CloseCloses
<1>2. SocketType'
  BY DEF Arrive, Consume, Answer, CloseCloses, TypeOK, SocketType
<1>3. data' \in BOOLEAN
  BY Zenon DEF Arrive, Consume, Answer, CloseCloses, TypeOK, FlagType
<1>4. FlagType'
  BY <1>1, <1>3, Zenon DEF TypeOK, FlagType, fiber
<1>5. FiberType' /\ TimerType'
  BY <1>1 DEF TypeOK, FiberType, TimerType, fiber
<1> QED
  BY <1>1, <1>2, <1>4, <1>5
  DEF TypeOK, fiber, NoStrayWake, SleepShape, SleepTimer, TimersPast, ArmedIsCurrent, ExpiredIsOwn, TimeoutIsOwn

\* The idle fiber and close() turn the registration into a wake-up.
LEMMA HookWake == ASSUME HInv, TriggerEvent \/ CloseCancels PROVE HInv'
<1> USE DEF HInv
<1>1. /\ UNCHANGED <<fiber, cancelled, timers, expired, data, arrived, conn>>
      /\ registered' = FALSE /\ (woken' => woken \/ registered)
      /\ fdState' \in {fdState, "closing"}
  BY DEF TriggerEvent, CloseCancels, socket
<1>2. woken' \in BOOLEAN
  BY Zenon DEF TriggerEvent, CloseCancels, TypeOK, FlagType
<1>3. FlagType'
  BY <1>1, <1>2, Zenon DEF TypeOK, FlagType, fiber
<1>4. FiberType' /\ TimerType' /\ SocketType'
  BY <1>1 DEF TypeOK, FiberType, TimerType, SocketType, fiber
<1> QED
  BY <1>1, <1>3, <1>4
  DEF TypeOK, fiber, NoStrayWake, SleepShape, SleepTimer, TimersPast, ArmedIsCurrent, ExpiredIsOwn, TimeoutIsOwn

\* What a timer becomes when its state changes.
LEMMA TimerMoves ==
    ASSUME TypeOK, NEW t \in timers, NEW s \in {"queued", "running"}
    PROVE  LET u == [t EXCEPT !.st = s]
           IN  /\ u \in [c : 1..Calls, n : Nat, st : {"armed", "queued", "running"}]
               /\ u.c = t.c /\ u.st = s
<1>1. t \in [c : 1..Calls, n : Nat, st : {"armed", "queued", "running"}]
  BY DEF TypeOK, TimerType
<1> QED
  BY <1>1

\* listExpiredCb hands the callback out.
LEMMA HookExpire == ASSUME HInv, NEW t \in timers, Expire(t) PROVE HInv'
<1> USE DEF HInv
<1> DEFINE u == [t EXCEPT !.st = "queued"]
<1>1. /\ timers' = (timers \ {t}) \cup {u} /\ expired' = expired \cup {t.c}
      /\ UNCHANGED <<fiber, cancelled, registered, woken, socket>>
  BY DEF Expire
<1>2. /\ u \in [c : 1..Calls, n : Nat, st : {"armed", "queued", "running"}]
      /\ u.c = t.c /\ u.st = "queued" /\ t.c \in 1..Calls
  BY TimerMoves, TimerTyped
<1> HIDE DEF u
<1>3. FlagType'
  BY <1>1, Zenon DEF TypeOK, FlagType, fiber, socket
<1>4. FiberType' /\ TimerType' /\ SocketType'
  BY <1>1, <1>2 DEF TypeOK, FiberType, TimerType, SocketType, fiber, socket
<1>5. NoStrayWake' /\ SleepShape' /\ TimersPast' /\ ArmedIsCurrent' /\ ExpiredIsOwn' /\ TimeoutIsOwn'
  BY <1>1, <1>2 DEF fiber, NoStrayWake, SleepShape, TimersPast, ArmedIsCurrent, ExpiredIsOwn, TimeoutIsOwn
<1>6. SleepTimer'
  BY <1>1, <1>2 DEF fiber, SleepTimer
<1> QED
  BY <1>3, <1>4, <1>5, <1>6 DEF TypeOK

\* The first half of a callback.
LEMMA HookRun == ASSUME HInv, NEW t \in timers, RunCallback(t) PROVE HInv'
<1> USE DEF HInv
<1>1. UNCHANGED <<fiber, expired, registered, socket>> /\ t.st = "queued" /\ t.c \in 1..Calls
  BY TimerTyped DEF RunCallback
<1>2. t.c \in expired
  BY <1>1 DEF ExpiredIsOwn
<1>3. FiberType' /\ SocketType'
  BY <1>1 DEF TypeOK, FiberType, SocketType, fiber, socket
<1>4. CASE Alive(t.c) /\ op = "sleep" /\ woken' = TRUE /\ timers' = timers \ {t} /\ UNCHANGED cancelled
  <2>1. pc = "hold" /\ t.c = call
    BY <1>4 DEF Alive, SleepShape, TimersPast
  <2>2. FlagType'
    BY <1>1, <1>4, Zenon DEF TypeOK, FlagType, fiber, socket
  <2>3. TimerType'
    BY <1>1, <1>4 DEF TypeOK, TimerType
  <2> QED
    BY <1>1, <1>3, <1>4, <2>1, <2>2, <2>3
    DEF TypeOK, fiber, NoStrayWake, SleepShape, SleepTimer, TimersPast, ArmedIsCurrent, ExpiredIsOwn, TimeoutIsOwn
<1>5. CASE /\ Alive(t.c) /\ op # "sleep"
           /\ cancelled' = [cancelled EXCEPT ![t.c] = TRUE]
           /\ timers' = (timers \ {t}) \cup {[t EXCEPT !.st = "running"]}
           /\ UNCHANGED woken
  <2> DEFINE u == [t EXCEPT !.st = "running"]
  <2>1. /\ u \in [c : 1..Calls, n : Nat, st : {"armed", "queued", "running"}]
        /\ u.c = t.c /\ u.st = "running"
    BY TimerMoves
  <2>2. timers' = (timers \ {t}) \cup {u}
    BY <1>5
  <2> HIDE DEF u
  <2>3. cancelled' \in [1..Calls -> BOOLEAN] /\ \A c \in 1..Calls : cancelled'[c] => c = t.c \/ cancelled[c]
    <3>1. cancelled \in [1..Calls -> BOOLEAN]
      BY DEF TypeOK, FlagType
    <3>2. cancelled' \in [1..Calls -> BOOLEAN]
      BY <1>5, <3>1, Zenon
    <3>3. \A c \in 1..Calls : cancelled'[c] => c = t.c \/ cancelled[c]
      BY <1>5, <3>1
    <3> QED
      BY <3>2, <3>3
  <2>4. FlagType'
    BY <1>1, <1>5, <2>3, Zenon DEF TypeOK, FlagType, fiber, socket
  <2>5. TimerType'
    BY <1>1, <2>1, <2>2 DEF TypeOK, TimerType
  <2>6. ExpiredIsOwn'
    BY <1>1, <1>2, <2>1, <2>2, <2>3 DEF ExpiredIsOwn
  <2>7. NoStrayWake' /\ SleepShape' /\ SleepTimer' /\ TimersPast' /\ ArmedIsCurrent' /\ TimeoutIsOwn'
    BY <1>1, <1>5, <2>1, <2>2
    DEF fiber, NoStrayWake, SleepShape, SleepTimer, TimersPast, ArmedIsCurrent, TimeoutIsOwn
  <2> QED
    BY <1>3, <2>4, <2>5, <2>6, <2>7 DEF TypeOK
<1>6. CASE timers' = timers \ {t} /\ UNCHANGED <<cancelled, woken>>
  <2>1. FlagType'
    BY <1>1, <1>6, Zenon DEF TypeOK, FlagType, fiber, socket
  <2>2. TimerType'
    BY <1>1, <1>6 DEF TypeOK, TimerType
  <2> QED
    BY <1>1, <1>3, <1>6, <2>1, <2>2
    DEF TypeOK, fiber, NoStrayWake, SleepShape, SleepTimer, TimersPast, ArmedIsCurrent, ExpiredIsOwn, TimeoutIsOwn
<1> QED
  BY <1>4, <1>5, <1>6 DEF RunCallback

\* The second half: cancelEvent.
LEMMA HookCancel == ASSUME HInv, NEW t \in timers, CallbackCancels(t) PROVE HInv'
<1> USE DEF HInv
<1>1. /\ UNCHANGED <<fiber, cancelled, expired, socket>> /\ timers' \subseteq timers
      /\ (registered' => registered) /\ (woken' => woken \/ registered)
      /\ ~(woken' /\ registered')
  BY DEF CallbackCancels, NoStrayWake
<1>2. registered' \in BOOLEAN /\ woken' \in BOOLEAN
  BY Zenon DEF CallbackCancels, TypeOK, FlagType
<1>3. FlagType'
  BY <1>1, <1>2, Zenon DEF TypeOK, FlagType, fiber, socket
<1>4. FiberType' /\ TimerType' /\ SocketType'
  BY <1>1 DEF TypeOK, FiberType, TimerType, SocketType, fiber, socket
<1> QED
  BY <1>1, <1>3, <1>4
  DEF TypeOK, fiber, NoStrayWake, SleepShape, SleepTimer, TimersPast, ArmedIsCurrent, ExpiredIsOwn, TimeoutIsOwn

-----------------------------------------------------------------------------
\* HInv is an inductive invariant of the hooked calls.
THEOREM HookInductive == Spec => []HInv
<1>1. ASSUME HInv, [Next]_vars PROVE HInv'
  <2>1. CASE UNCHANGED vars
    <3>1. FlagType'
      BY <1>1, <2>1, Zenon DEF HInv, vars, fiber, socket, TypeOK, FlagType
    <3>2. FiberType' /\ TimerType' /\ SocketType'
      BY <1>1, <2>1 DEF HInv, vars, fiber, socket, TypeOK, FiberType, TimerType, SocketType
    <3>3. NoStrayWake' /\ SleepShape' /\ SleepTimer' /\ TimersPast' /\ ArmedIsCurrent'
          /\ ExpiredIsOwn' /\ TimeoutIsOwn'
      BY <1>1, <2>1
      DEF HInv, vars, fiber, NoStrayWake, SleepShape, SleepTimer, TimersPast, ArmedIsCurrent,
          ExpiredIsOwn, TimeoutIsOwn
    <3> QED
      BY <3>1, <3>2, <3>3 DEF HInv, TypeOK
  <2>2. CASE StartCall
    BY <1>1, <2>2, HookStart
  <2>3. CASE FiberStep
    BY <1>1, <2>3, HookTry, HookArm, HookAdd, HookResume, HookAfter, HookCheck DEF FiberStep
  <2>4. CASE Arrive \/ Consume \/ Answer \/ CloseCloses
    BY <1>1, <2>4, HookSocket
  <2>5. CASE TriggerEvent \/ CloseCancels
    BY <1>1, <2>5, HookWake
  <2>6. CASE \E t \in timers : TimerStep(t)
    BY <1>1, <2>6, HookExpire, HookRun, HookCancel DEF TimerStep
  <2> QED
    BY <1>1, <2>1, <2>2, <2>3, <2>4, <2>5, <2>6 DEF Next
<1> QED
  BY <1>1, HookInit, PTL DEF Spec

\* The types of a call's state: among the results that a caller sees there is
\* no EAGAIN, and no timer or flag is of a call that was never made.
THEOREM HookTypeCorrect == Spec => []TypeOK
<1>1. HInv => TypeOK
  BY DEF HInv
<1> QED
  BY <1>1, HookInductive, PTL

\* However the idle fiber, the timer's callback, close() and the fiber
\* interleave, the fiber is scheduled at most once per YieldToHold, and never
\* while it is not waiting.
THEOREM WakesAreExact == Spec => []NoStrayWake
<1>1. HInv => NoStrayWake
  BY DEF HInv
<1> QED
  BY <1>1, HookInductive, PTL

\* Every way out of a hooked call has cancelled its timer, or the timer has
\* expired.
THEOREM TimersAreCancelled == Spec => []NoTimerLeft
<1>1. HInv => NoTimerLeft
  BY DEF HInv, ArmedIsCurrent, NoTimerLeft
<1> QED
  BY <1>1, HookInductive, PTL

\* A call returns ETIMEDOUT only when a timer of its own has expired: the
\* weak_ptr keeps the callbacks of earlier calls away.
THEOREM TimeoutsAreOwn == Spec => []TimeoutIsOwn
<1>1. HInv => TimeoutIsOwn
  BY DEF HInv
<1> QED
  BY <1>1, HookInductive, PTL

-----------------------------------------------------------------------------
(* What connect returns on one thread. *)

\* A call that is under way has no result yet, and 0 has been returned only
\* for a connection that is established.
ResultLast ==
    /\ pc # "idle" => result = "none"
    /\ result = "connected" => conn = "established"

\* A callback that is half way through is of the call under way, whose flag it
\* has set.
HalfwayFlagged == \A t \in timers : t.st = "running" => t.c = call /\ cancelled[call]

\* Whoever scheduled a connecting fiber had a reason to: the connection is
\* decided, the timer has expired or the socket is being closed.  When SO_ERROR
\* is looked at, the connection is decided or the socket closed.
WokenForAReason ==
    /\ pc = "check" => op = "connect"
    /\ op = "connect" =>
        /\ pc # "idle" => conn # "none"
        /\ pc = "hold" /\ woken => fdState # "open" \/ conn # "pending" \/ cancelled[call]
        /\ pc = "wake" => fdState = "closed" \/ conn # "pending" \/ cancelled[call]
        /\ pc = "check" => fdState = "closed" \/ conn # "pending"

Answered == ResultLast /\ HalfwayFlagged /\ WokenForAReason

\* A fiber step on one thread finds no callback half way and no close() begun.
LEMMA AnsweredFiber ==
    ASSUME HInv, Quiet, Answered, StartCall \/ FiberStep
    PROVE  Answered'
<1> USE DEF HInv
<1>2. OthersOff
  BY DEF Quiet, StartCall, FiberStep, FiberMay, CallDirectly, StartIO, StartConnect, StartSleep,
         TryIO, ArmTimer, AddEvent, Resume, AfterHold, CheckConnect
<1>3. fdState # "closing" /\ \A t \in timers : t.st # "running"
  BY <1>2 DEF OthersOff
<1>4. CASE StartCall
  <2>1. pc = "idle" /\ UNCHANGED <<timers, registered, woken>> /\ ~woken
    BY <1>4 DEF StartCall, CallDirectly, StartIO, StartConnect, StartSleep, NoStrayWake
  <2>2. ResultLast'
    BY <1>4, <2>1 DEF StartCall, CallDirectly, StartIO, StartConnect, StartSleep, Answered, ResultLast, socket
  <2>3. WokenForAReason'
    BY <1>4, <2>1 DEF StartCall, CallDirectly, StartIO, StartConnect, StartSleep, Answered, WokenForAReason, socket
  <2> QED
    BY <2>1, <2>2, <2>3, <1>3 DEF Answered, HalfwayFlagged
<1>5. CASE TryIO
  BY <1>5, <1>3 DEF TryIO, Return, Answered, ResultLast, HalfwayFlagged, WokenForAReason
<1>6. CASE ArmTimer
  <2>1. \A t \in timers' : t.st # "running"
    BY <1>6, <1>3 DEF ArmTimer
  <2>2. pc = "arm" /\ pc' \in {"hold", "add"} /\ ~woken' /\ UNCHANGED <<call, op, result, conn>>
    BY <1>6 DEF ArmTimer, NoStrayWake, socket
  <2> QED
    BY <2>1, <2>2 DEF Answered, ResultLast, HalfwayFlagged, WokenForAReason
<1>7. CASE AddEvent
  <2>1. timers' \subseteq timers /\ pc = "add" /\ ~woken' /\ UNCHANGED <<call, op, conn, fdState>>
    BY <1>7 DEF AddEvent, Return, CancelTimer, NoStrayWake, socket
  <2>2. \/ pc' = "hold" /\ result' = result
        \/ pc' = "idle" /\ result' = "addEvent failed"
        \/ pc' = "check" /\ op = "connect" /\ result' = result /\ fdState = "closed"
    BY <1>7 DEF AddEvent, Return, Quiet
  <2> QED
    BY <2>1, <2>2, <1>3 DEF Answered, ResultLast, HalfwayFlagged, WokenForAReason
<1>8. CASE Resume
  <2>1. pc = "hold" /\ woken /\ UNCHANGED <<timers, call, op, conn, fdState, cancelled>>
    BY <1>8 DEF Resume, Return, socket
  <2>2. \/ pc' = "idle" /\ result' = "slept"
        \/ pc' = "wake" /\ result' = result
    BY <1>8 DEF Resume, Return
  <2>3. fdState = "open" \/ fdState = "closed"
    BY <1>3 DEF TypeOK, SocketType
  <2> QED
    BY <2>1, <2>2, <2>3, <1>3 DEF Answered, ResultLast, HalfwayFlagged, WokenForAReason
<1>9. CASE AfterHold
  <2>1. pc = "wake" /\ timers' \subseteq timers /\ UNCHANGED <<call, op, conn, fdState, cancelled>>
    BY <1>9 DEF AfterHold, Return, CancelTimer, socket
  <2>2. \/ pc' = "idle" /\ result' = "ETIMEDOUT"
        \/ ~cancelled[call] /\ pc' = "try" /\ result' = result
        \/ ~cancelled[call] /\ pc' = "check" /\ op = "connect" /\ result' = result
    BY <1>9, <2>1 DEF AfterHold, Return, SleepShape, TypeOK, FiberType
  <2> QED
    BY <2>1, <2>2, <1>3 DEF Answered, ResultLast, HalfwayFlagged, WokenForAReason
<1>10. CASE CheckConnect
  <2>1. pc = "check" /\ pc' = "idle" /\ UNCHANGED <<timers, call, op, conn, fdState>>
    BY <1>10 DEF CheckConnect, Return, socket
  <2>2. op = "connect"
    BY <2>1 DEF Answered, WokenForAReason
  <2>3. result' = "connected" => fdState # "closed" /\ conn # "refused"
    BY <1>10 DEF CheckConnect, Return
  <2>4. result' = "connected" => conn = "established"
    BY <2>1, <2>2, <2>3 DEF Answered, WokenForAReason, TypeOK, SocketType
  <2> QED
    BY <2>1, <2>4, <1>3 DEF Answered, ResultLast, HalfwayFlagged, WokenForAReason
<1> QED
  BY <1>4, <1>5, <1>6, <1>7, <1>8, <1>9, <1>10 DEF FiberStep

\* The peer, the idle fiber, the callbacks and close(): on one thread they run
\* while the fiber holds, or makes no call at all.
LEMMA AnsweredOthers ==
    ASSUME HInv, Quiet, Answered,
           Arrive \/ Consume \/ Answer \/ TriggerEvent \/ CloseCancels \/ CloseCloses
    PROVE  Answered'
<1> USE DEF HInv
<1>1. UNCHANGED <<fiber, timers, cancelled>>
  BY DEF Arrive, Consume, Answer, TriggerEvent, CloseCancels, CloseCloses
<1>2. HalfwayFlagged'
  BY <1>1 DEF Answered, HalfwayFlagged, fiber
<1>3. ResultLast'
  BY <1>1 DEF Answered, ResultLast, fiber, socket, Arrive, Consume, Answer, TriggerEvent, CloseCancels, CloseCloses
<1>4. CASE Arrive \/ Consume
  <2>1. UNCHANGED <<fiber, cancelled, conn, fdState, woken>>
    BY <1>4 DEF Arrive, Consume
  <2> QED
    BY <1>2, <1>3, <2>1 DEF Answered, WokenForAReason, fiber
<1>5. CASE Answer
  <2>1. UNCHANGED <<fiber, cancelled, fdState, woken>> /\ conn' \in {"established", "refused"}
    BY <1>5 DEF Answer
  <2> QED
    BY <1>2, <1>3, <2>1 DEF Answered, WokenForAReason, fiber
<1>6. CASE TriggerEvent
  <2>1. /\ UNCHANGED <<fiber, cancelled, conn, fdState>> /\ pc \in {"idle", "hold"}
        /\ op = "connect" => conn # "pending"
    BY <1>6 DEF TriggerEvent, socket, Quiet, OthersMay, FiberOff
  <2> QED
    BY <1>2, <1>3, <2>1 DEF Answered, WokenForAReason, fiber
<1>7. CASE CloseCancels
  <2>1. UNCHANGED <<fiber, cancelled, conn>> /\ fdState' = "closing" /\ pc \in {"idle", "hold"}
    BY <1>7 DEF CloseCancels, Quiet, OthersMay, FiberOff
  <2> QED
    BY <1>2, <1>3, <2>1 DEF Answered, WokenForAReason, fiber
<1>8. CASE CloseCloses
  <2>1. UNCHANGED <<fiber, cancelled, conn, woken>> /\ fdState' = "closed"
    BY <1>8 DEF CloseCloses
  <2> QED
    BY <1>2, <1>3, <2>1 DEF Answered, WokenForAReason, fiber
<1> QED
  BY <1>4, <1>5, <1>6, <1>7, <1>8

LEMMA AnsweredTimer ==
    ASSUME HInv, Quiet, Answered, NEW t \in timers, TimerStep(t)
    PROVE  Answered'
<1> USE DEF HInv
<1>1. UNCHANGED fiber /\ UNCHANGED socket /\ pc \in {"idle", "hold"}
  BY DEF TimerStep, Expire, RunCallback, CallbackCancels, Quiet, OthersMay, FiberOff
<1>2. ResultLast'
  BY <1>1 DEF Answered, ResultLast, fiber, socket
<1>3. t \in [c : 1..Calls, n : Nat, st : {"armed", "queued", "running"}]
  BY DEF TypeOK, TimerType
<1>4. CASE Expire(t)
  <2>1. [t EXCEPT !.st = "queued"].st = "queued"
    BY <1>3
  <2>2. HalfwayFlagged'
    BY <1>1, <1>4, <2>1 DEF Expire, Answered, HalfwayFlagged, fiber
  <2>3. UNCHANGED <<cancelled, woken>>
    BY <1>4 DEF Expire
  <2> QED
    BY <1>1, <1>2, <2>2, <2>3 DEF Answered, WokenForAReason, fiber, socket
<1>5. CASE RunCallback(t)
  <2>0. \A u \in timers : u.st # "running"
    BY <1>5 DEF RunCallback, OthersOff
  <2>1. CASE timers' = timers \ {t} /\ cancelled' = cancelled /\ (op # "sleep" => woken' = woken)
    BY <1>1, <1>2, <2>0, <2>1 DEF Answered, WokenForAReason, HalfwayFlagged, fiber, socket
  <2>2. CASE /\ Alive(t.c)
             /\ cancelled' = [cancelled EXCEPT ![t.c] = TRUE]
             /\ timers' = (timers \ {t}) \cup {[t EXCEPT !.st = "running"]}
             /\ woken' = woken
    <3>1. [t EXCEPT !.st = "running"].c = t.c /\ t.c = call
      BY <1>3, <2>2 DEF Alive
    <3>2. cancelled'[call] /\ call' = call
      BY <1>1, <3>1, <2>2, TimerTyped, Zenon DEF TypeOK, FlagType, fiber
    <3>3. HalfwayFlagged'
      BY <2>0, <2>2, <3>1, <3>2 DEF HalfwayFlagged
    <3>4. WokenForAReason'
      BY <1>1, <2>2, <3>2 DEF Answered, WokenForAReason, fiber, socket
    <3> QED
      BY <1>2, <3>3, <3>4 DEF Answered
  <2> QED
    BY <1>5, <2>1, <2>2 DEF RunCallback
<1>6. CASE CallbackCancels(t)
  <2>1. cancelled[call] /\ cancelled' = cancelled /\ timers' \subseteq timers
    BY <1>6 DEF CallbackCancels, Answered, HalfwayFlagged
  <2> QED
    BY <1>1, <1>2, <2>1 DEF Answered, HalfwayFlagged, WokenForAReason, fiber, socket
<1> QED
  BY <1>4, <1>5, <1>6 DEF TimerStep

\* On one thread, when addEvent fails only on a closed descriptor, connect
\* returns 0 only for a connection that is established: although SO_ERROR is 0
\* as well for one that is still in progress, the fiber is never let go on to
\* look at it before the connection is decided, the timer has expired or the
\* descriptor is closed.
THEOREM ConnectIsConnected == Spec => []ZeroMeansConnected
<1>1. Init => Answered
  BY DEF Init, Answered, ResultLast, HalfwayFlagged, WokenForAReason
<1>2. ASSUME HInv, Quiet => Answered, [Next]_vars
      PROVE  (Quiet => Answered)'
  <2>1. pool' = pool
    BY <1>2 DEF Next, vars, StartCall, FiberStep, TimerStep, CallDirectly, StartIO, StartConnect, StartSleep,
        TryIO, ArmTimer, AddEvent, Resume, AfterHold, CheckConnect, Arrive, Consume, Answer,
        TriggerEvent, Expire, RunCallback, CallbackCancels, CloseCancels, CloseCloses
  <2> SUFFICES ASSUME Quiet PROVE Answered'
    BY <2>1 DEF Quiet
  <2>2. Answered
    BY <1>2
  <2>3. CASE UNCHANGED vars
    BY <2>2, <2>3 DEF vars, fiber, socket, Answered, ResultLast, HalfwayFlagged, WokenForAReason
  <2>4. CASE StartCall \/ FiberStep
    BY <1>2, <2>2, <2>4, AnsweredFiber
  <2>5. CASE Arrive \/ Consume \/ Answer \/ TriggerEvent \/ CloseCancels \/ CloseCloses
    BY <1>2, <2>2, <2>5, AnsweredOthers
  <2>6. CASE \E t \in timers : TimerStep(t)
    BY <1>2, <2>2, <2>6, AnsweredTimer
  <2> QED
    BY <1>2, <2>3, <2>4, <2>5, <2>6 DEF Next
<1>3. (Quiet => Answered) => ZeroMeansConnected
  BY DEF Answered, ResultLast, ZeroMeansConnected
<1> QED
  BY <1>1, <1>2, <1>3, HookInductive, PTL DEF Spec
=============================================================================
