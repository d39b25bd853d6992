------------------------------ MODULE Scheduler ------------------------------
(***************************************************************************)
(* The coroutine scheduler: src/sylar/scheduler.{h,cc} and the fiber state *)
(* machine of src/sylar/fiber.cc that it drives.                           *)
(*                                                                         *)
(* A pool of threads runs Scheduler::run.  Each iteration takes a task out *)
(* of the shared list m_fibers under m_mutex, switches to it, and looks at *)
(* the state the task left behind when it switched back.  The pool winds   *)
(* down when every thread's idle fiber has seen stopping().                *)
(*                                                                         *)
(* One step of a thread is what happens between two points at which other  *)
(* threads can interfere: a critical section of m_mutex, an atomic         *)
(* increment, a plain write of Fiber::m_state, a swapcontext.  m_state is  *)
(* neither atomic nor guarded by m_mutex, so each access is a step.        *)
(*                                                                         *)
(* A task is named by the fiber it runs on.  A task given as a callback    *)
(* (scheduler.cc:238-268) gets a name of its own for each time it is       *)
(* scheduled.  run() resets its cb_fiber to INIT when the callback ends    *)
(* there; no one else points to that fiber then, so that the next callback *)
(* starting on it is, as here, one starting on a fiber of its own.         *)
(***************************************************************************)
EXTENDS Naturals, Sequences, SequencesExt, FiniteSets

CONSTANTS
    Workers,     \* the threads start() creates (m_threadCount of them)
    Root,        \* the thread that constructed the scheduler
    UseCaller,   \* the constructor's use_caller: Root is a scheduling thread too
    Fibers,      \* the tasks
    Callbacks,   \* the tasks given to schedule() as a function, not as a Fiber::ptr
    AnyThread,   \* FiberAndThread::thread = -1: any thread may run the task
    NoFiber,     \* a null Fiber::ptr
    Pin,         \* the thread argument each task is scheduled with
    SubmitLimit, \* how often user code passes each task to schedule() at most
    YieldLimit,  \* how often each task calls YieldToReady at most
    HoldLimit,   \* how often each task registers a wake-up and calls YieldToHold
    StartLimit,  \* bound on the calls of start()
    StopLimit    \* bound on the calls of stop()

Threads == Workers \cup (IF UseCaller THEN {Root} ELSE {})

ASSUME ThreadsAssumption ==
    /\ UseCaller \in BOOLEAN
    /\ IsFiniteSet(Workers)
    /\ Root \notin Workers
    /\ Threads # {}                        \* SYLAR_ASSERT(threads > 0)
    /\ AnyThread \notin Threads

ASSUME TasksAssumption ==
    /\ NoFiber \notin Fibers
    /\ Callbacks \subseteq Fibers
    /\ Pin \in [Fibers -> Threads \cup {AnyThread}]
    /\ SubmitLimit \in [Fibers -> Nat]
    /\ YieldLimit \in [Fibers -> Nat]
    /\ HoldLimit \in [Fibers -> Nat]
    /\ StartLimit \in Nat
    /\ StopLimit \in Nat
    /\ \A f \in Callbacks : SubmitLimit[f] <= 1

VARIABLES
    m_fibers,             \* the run list, a sequence of [fiber, thread]
    m_state,              \* Fiber::m_state of each task
    m_activeThreadCount,
    m_idleThreadCount,
    m_autoStop,
    m_stopping,
    rootState,            \* Fiber::m_state of m_rootFiber
    pc,                   \* where each thread is in run()
    cur,                  \* ft.fiber / cb_fiber of each thread
    idleTerm,             \* whether each thread's idle fiber is TERM
    caller,               \* where the constructing thread is
    armed,                \* tasks whose Fiber::ptr some waker holds
    done,                 \* tasks whose function has returned or thrown
    submits,              \* how often user code has scheduled each task
    yields, holds,        \* calls of YieldToReady / YieldToHold so far
    starts, stops,        \* calls of start() / stop() so far
    abort                 \* the assertion that stopped the process, or "none"

pool  == <<m_activeThreadCount, m_idleThreadCount, idleTerm>>
flags == <<m_autoStop, m_stopping, rootState, caller, starts, stops>>
tasks == <<armed, done, submits, yields, holds>>
vars  == <<m_fibers, m_state, pc, cur, abort, pool, flags, tasks>>

Entry == [fiber : Fibers, thread : Threads \cup {AnyThread}]

FiberState == {"INIT", "HOLD", "EXEC", "TERM", "READY", "EXCEPT"}

Finished == {"TERM", "EXCEPT"}

\* A thread is on the stack of its task from swapIn's swapcontext until
\* swapOut's swapcontext has saved the task's context.
OnStackPc == {"exec", "handed", "swapout"}

\* Between ++m_activeThreadCount and --m_activeThreadCount.
ActivePc == {"took", "back"} \cup OnStackPc

\* Between ++m_idleThreadCount and --m_idleThreadCount.
IdlePc == {"idle", "idleout"}

\* Where cur holds a task.
TaskPc == ActivePc \cup {"post", "sethold"}

OnStack(t, f) == pc[t] \in OnStackPc /\ cur[t] = f

\* A failed SYLAR_ASSERT ends the process: no step is taken after it.
At(t, l) == abort = "none" /\ pc[t] = l

CallerAt(l) == abort = "none" /\ caller = l

Exited(t) == pc[t] \in {"off", "done"}

\* Scheduler::stopping(): one critical section of m_mutex.
Stopping ==
    /\ m_autoStop
    /\ m_stopping
    /\ m_fibers = <<>>
    /\ m_activeThreadCount = 0

\* FiberAndThread(fc, thread)
FiberAndThread(f, thr) == [fiber |-> f, thread |-> thr]

\* Scheduler::schedule / scheduleNoLock.  tickle() only logs in this class.
scheduleNoLock(f, thr) == m_fibers' = Append(m_fibers, FiberAndThread(f, thr))

-----------------------------------------------------------------------------
Init ==
    /\ m_fibers = <<>>
    /\ m_state = [f \in Fibers |-> "INIT"]
    /\ m_activeThreadCount = 0
    /\ m_idleThreadCount = 0
    /\ m_autoStop = FALSE
    /\ m_stopping = TRUE
    /\ rootState = "INIT"
    /\ pc = [t \in Threads |-> "off"]
    /\ cur = [t \in Threads |-> NoFiber]
    /\ idleTerm = [t \in Threads |-> FALSE]
    /\ caller = "user"
    /\ armed = {}
    /\ done = {}
    /\ submits = [f \in Fibers |-> 0]
    /\ yields = [f \in Fibers |-> 0]
    /\ holds = [f \in Fibers |-> 0]
    /\ starts = 0
    /\ stops = 0
    /\ abort = "none"

-----------------------------------------------------------------------------
(* The thread that constructed the scheduler. *)

\* User code hands a task to schedule().  The id of a worker, to pin a task to,
\* is there to be used only after start() has created the worker.
Submit(f) ==
    /\ Pin[f] \in Workers => starts > 0
    /\ submits[f] < SubmitLimit[f]
    /\ submits' = [submits EXCEPT ![f] = @ + 1]
    /\ scheduleNoLock(f, Pin[f])

CallerSchedules(f) ==
    /\ CallerAt("user")
    /\ Submit(f)
    /\ UNCHANGED <<m_state, pc, cur, abort, pool, flags, armed, done, yields, holds>>

\* Scheduler::start.  A start() while the pool runs returns at once.
start ==
    /\ CallerAt("user")
    /\ starts < StartLimit
    /\ starts' = starts + 1
    /\ m_stopping' = FALSE
    /\ IF m_stopping
         THEN /\ pc' = [t \in Threads |-> IF t \in Workers THEN "top" ELSE pc[t]]
              /\ idleTerm' = [t \in Threads |-> IF t \in Workers THEN FALSE ELSE idleTerm[t]]
         ELSE UNCHANGED <<pc, idleTerm>>
    /\ UNCHANGED <<m_fibers, m_state, cur, abort, m_activeThreadCount, m_idleThreadCount,
                   m_autoStop, rootState, caller, stops, tasks>>

\* Scheduler::stop up to the evaluation of stopping().  The early return for a
\* pool without workers is a stop() that finds stopping() true and then has no
\* thread to join.
stop ==
    /\ CallerAt("user")
    /\ stops < StopLimit
    /\ stops' = stops + 1
    /\ m_autoStop' = TRUE
    /\ m_stopping' = TRUE
    /\ caller' = IF UseCaller THEN "call" ELSE "join"
    /\ UNCHANGED <<m_fibers, m_state, pc, cur, abort, pool, rootState, starts, tasks>>

\* if (!stopping()) m_rootFiber->call().  A root fiber that has finished resumes
\* behind back(), at the "never reach" assertion of CallerMainFunc.
StopCallsRoot ==
    /\ CallerAt("call")
    /\ IF Stopping
         THEN /\ caller' = "join"
              /\ UNCHANGED <<pc, idleTerm, rootState, abort>>
         ELSE /\ rootState' = "EXEC"
              /\ caller' = "inroot"
              /\ pc' = [pc EXCEPT ![Root] = IF rootState = "INIT" THEN "top" ELSE @]
              /\ idleTerm' = [idleTerm EXCEPT ![Root] = FALSE]
              /\ abort' = IF rootState = "INIT" THEN "none" ELSE "never reach"
    /\ UNCHANGED <<m_fibers, m_state, cur, m_activeThreadCount, m_idleThreadCount,
                   m_autoStop, m_stopping, starts, stops, tasks>>

\* run() has returned on the root fiber: CallerMainFunc marks it TERM and goes
\* back() to stop().
RootReturns ==
    /\ CallerAt("inroot")
    /\ pc[Root] = "done"
    /\ rootState' = "TERM"
    /\ caller' = "join"
    /\ UNCHANGED <<m_fibers, m_state, pc, cur, abort, pool, m_autoStop, m_stopping,
                   starts, stops, tasks>>

\* The joins of the swapped-out m_threads, and the return of stop().
StopReturns ==
    /\ CallerAt("join")
    /\ \A t \in Workers : Exited(t)
    /\ caller' = "user"
    /\ pc' = [t \in Threads |-> "off"]
    /\ UNCHANGED <<m_fibers, m_state, cur, abort, pool, m_autoStop, m_stopping,
                   rootState, starts, stops, tasks>>

-----------------------------------------------------------------------------
(* Scheduler::run, one thread. *)

Goto(t, l) == pc' = [pc EXCEPT ![t] = l]

\* The entries of m_fibers this thread does not pass over.
Takeable(t) ==
    {i \in DOMAIN m_fibers :
        /\ m_fibers[i].thread \in {AnyThread, t}
        /\ m_state[m_fibers[i].fiber] # "EXEC"}

\* The locked scan finds a task.
Take(t) ==
    /\ At(t, "top")
    /\ \E i \in Takeable(t) :
        /\ \A j \in Takeable(t) : i <= j
        /\ cur' = [cur EXCEPT ![t] = m_fibers[i].fiber]
        /\ m_fibers' = RemoveAt(m_fibers, i)
    /\ m_activeThreadCount' = m_activeThreadCount + 1
    /\ Goto(t, "took")
    /\ UNCHANGED <<m_state, abort, m_idleThreadCount, idleTerm, flags, tasks>>

\* The taken fiber has finished in the meantime: run() drops it.
DropFinished(t) ==
    /\ At(t, "took")
    /\ m_state[cur[t]] \in Finished
    /\ m_activeThreadCount' = m_activeThreadCount - 1
    /\ cur' = [cur EXCEPT ![t] = NoFiber]
    /\ Goto(t, "top")
    /\ UNCHANGED <<m_fibers, m_state, abort, m_idleThreadCount, idleTerm, flags, tasks>>

\* Fiber::swapIn.  SYLAR_ASSERT(m_state != EXEC), then the switch.  Switching
\* to a context no one has saved yet puts two threads on one stack: what
\* follows is undefined and the model stops there.  A task that has ended and
\* whose m_state no longer says so resumes at MainFunc's "never reach".
swapIn(t) ==
    /\ At(t, "took")
    /\ m_state[cur[t]] \notin Finished
    /\ IF m_state[cur[t]] = "EXEC"
         THEN /\ abort' = "swapIn of EXEC"
              /\ UNCHANGED <<m_state, pc>>
         ELSE /\ abort' = IF \E u \in Threads : OnStack(u, cur[t])
                            THEN "stack in use"
                            ELSE IF cur[t] \in done THEN "never reach" ELSE "none"
              /\ m_state' = [m_state EXCEPT ![cur[t]] = "EXEC"]
              /\ Goto(t, "exec")
    /\ UNCHANGED <<m_fibers, cur, pool, flags, tasks>>

\* The task schedules another task.
TaskSchedules(t, f) ==
    /\ At(t, "exec")
    /\ Submit(f)
    /\ UNCHANGED <<m_state, pc, cur, abort, pool, flags, armed, done, yields, holds>>

\* The task gives its Fiber::ptr to whoever will wake it (a timer, an fd
\* event, another task) and is about to call YieldToHold.
HandOut(t) ==
    /\ At(t, "exec")
    /\ holds[cur[t]] < HoldLimit[cur[t]]
    /\ holds' = [holds EXCEPT ![cur[t]] = @ + 1]
    /\ armed' = armed \cup {cur[t]}
    /\ Goto(t, "handed")
    /\ UNCHANGED <<m_fibers, m_state, cur, abort, pool, flags, done, submits, yields>>

\* Fiber::YieldToHold up to the swapcontext in swapOut.
YieldToHold(t) ==
    /\ At(t, "handed")
    /\ m_state' = [m_state EXCEPT ![cur[t]] = "HOLD"]
    /\ Goto(t, "swapout")
    /\ UNCHANGED <<m_fibers, cur, abort, pool, flags, tasks>>

\* Fiber::YieldToReady up to the swapcontext in swapOut.
YieldToReady(t) ==
    /\ At(t, "exec")
    /\ yields[cur[t]] < YieldLimit[cur[t]]
    /\ yields' = [yields EXCEPT ![cur[t]] = @ + 1]
    /\ m_state' = [m_state EXCEPT ![cur[t]] = "READY"]
    /\ Goto(t, "swapout")
    /\ UNCHANGED <<m_fibers, cur, abort, pool, flags, armed, done, submits, holds>>

\* Fiber::MainFunc: the task's function returned or threw.
MainFunc(t) ==
    /\ At(t, "exec")
    /\ \E s \in Finished : m_state' = [m_state EXCEPT ![cur[t]] = s]
    /\ done' = done \cup {cur[t]}
    /\ Goto(t, "swapout")
    /\ UNCHANGED <<m_fibers, cur, abort, pool, flags, armed, submits, yields, holds>>

\* swapcontext back to run().
swapOut(t) ==
    /\ At(t, "swapout")
    /\ Goto(t, "back")
    /\ UNCHANGED <<m_fibers, m_state, cur, abort, pool, flags, tasks>>

\* Mutant: no --m_activeThreadCount behind swapIn().
DeactivateKeepsCount(t) ==
    /\ At(t, "back")
    /\ Goto(t, "post")
    /\ UNCHANGED <<m_fibers, m_state, cur, abort, pool, flags, tasks>>

\* --m_activeThreadCount behind swapIn().
Deactivate(t) ==
    /\ At(t, "back")
    /\ m_activeThreadCount' = m_activeThreadCount - 1
    /\ Goto(t, "post")
    /\ UNCHANGED <<m_fibers, m_state, cur, abort, m_idleThreadCount, idleTerm, flags, tasks>>

\* Mutant: run() forgets to schedule a READY task again.
RequeueForgets(t) ==
    /\ At(t, "post")
    /\ m_state[cur[t]] = "READY"
    /\ cur' = [cur EXCEPT ![t] = NoFiber]
    /\ Goto(t, "top")
    /\ UNCHANGED <<m_fibers, m_state, abort, pool, flags, tasks>>

\* The read of m_state behind swapIn(): a READY task goes back into the list
\* (for any thread: the pin is not kept), a finished one is dropped, any other
\* is about to be marked HOLD.
Requeue(t) ==
    /\ At(t, "post")
    /\ m_state[cur[t]] = "READY"
    /\ scheduleNoLock(cur[t], AnyThread)
    /\ cur' = [cur EXCEPT ![t] = NoFiber]
    /\ Goto(t, "top")
    /\ UNCHANGED <<m_state, abort, pool, flags, tasks>>

\* A callback runs on the thread's cb_fiber until it first switches out; then
\* it comes back through the list as a fiber like any other.
OnCbFiber(f) == f \in Callbacks /\ yields[f] = 0 /\ holds[f] = 0

\* A finished task is dropped, and a cb_fiber reset to INIT for the next
\* callback.
Discard(t) ==
    /\ At(t, "post")
    /\ m_state[cur[t]] \in Finished
    /\ m_state' = [m_state EXCEPT ![cur[t]] = IF OnCbFiber(cur[t]) THEN "INIT" ELSE @]
    /\ cur' = [cur EXCEPT ![t] = NoFiber]
    /\ Goto(t, "top")
    /\ UNCHANGED <<m_fibers, abort, pool, flags, tasks>>

SeesHold(t) ==
    /\ At(t, "post")
    /\ m_state[cur[t]] \notin Finished \cup {"READY"}
    /\ Goto(t, "sethold")
    /\ UNCHANGED <<m_fibers, m_state, cur, abort, pool, flags, tasks>>

SetHold(t) ==
    /\ At(t, "sethold")
    /\ m_state' = [m_state EXCEPT ![cur[t]] = "HOLD"]
    /\ cur' = [cur EXCEPT ![t] = NoFiber]
    /\ Goto(t, "top")
    /\ UNCHANGED <<m_fibers, abort, pool, flags, tasks>>

\* The locked scan finds nothing: switch to the idle fiber, unless it is TERM.
EnterIdle(t) ==
    /\ At(t, "top")
    /\ Takeable(t) = {}
    /\ ~idleTerm[t]
    /\ m_idleThreadCount' = m_idleThreadCount + 1
    /\ Goto(t, "idle")
    /\ UNCHANGED <<m_fibers, m_state, cur, abort, m_activeThreadCount, idleTerm, flags, tasks>>

\* Scheduler::idle: one evaluation of while (!stopping()).
idle(t) ==
    /\ At(t, "idle")
    /\ idleTerm' = [idleTerm EXCEPT ![t] = Stopping]
    /\ Goto(t, "idleout")
    /\ UNCHANGED <<m_fibers, m_state, cur, abort, m_activeThreadCount, m_idleThreadCount,
                   flags, tasks>>

LeaveIdle(t) ==
    /\ At(t, "idleout")
    /\ m_idleThreadCount' = m_idleThreadCount - 1
    /\ Goto(t, "top")
    /\ UNCHANGED <<m_fibers, m_state, cur, abort, m_activeThreadCount, idleTerm, flags, tasks>>

\* Mutant: run() breaks out of its loop without a last look at the list.
ExitWithoutScan(t) ==
    /\ At(t, "top")
    /\ idleTerm[t]
    /\ Goto(t, "done")
    /\ UNCHANGED <<m_fibers, m_state, cur, abort, pool, flags, tasks>>

\* run() returns.
Exit(t) ==
    /\ At(t, "top")
    /\ Takeable(t) = {}
    /\ idleTerm[t]
    /\ Goto(t, "done")
    /\ UNCHANGED <<m_fibers, m_state, cur, abort, pool, flags, tasks>>

-----------------------------------------------------------------------------
\* Whoever was handed the task's Fiber::ptr calls schedule(fiber).
Wake(f) ==
    /\ abort = "none"
    /\ f \in armed
    /\ armed' = armed \ {f}
    /\ scheduleNoLock(f, AnyThread)
    /\ UNCHANGED <<m_state, pc, cur, abort, pool, flags, done, submits, yields, holds>>

\* Nothing is left to do: stop() has returned for the last time, or a failed
\* assertion has ended the process.
Quiet ==
    /\ \/ CallerAt("user") /\ starts = StartLimit /\ stops = StopLimit
       \/ abort # "none"
    /\ UNCHANGED vars

CallerStep == StopCallsRoot \/ RootReturns \/ StopReturns

UserStep == start \/ stop \/ \E f \in Fibers : CallerSchedules(f)

ThreadStep(t) ==
    \/ Take(t)
    \/ DropFinished(t)
    \/ swapIn(t)
    \/ \E f \in Fibers : TaskSchedules(t, f)
    \/ HandOut(t)
    \/ YieldToHold(t)
    \/ YieldToReady(t)
    \/ MainFunc(t)
    \/ swapOut(t)
    \/ Deactivate(t)
    \/ Requeue(t)
    \/ Discard(t)
    \/ SeesHold(t)
    \/ SetHold(t)
    \/ EnterIdle(t)
    \/ idle(t)
    \/ LeaveIdle(t)
    \/ Exit(t)

Next ==
    \/ UserStep
    \/ CallerStep
    \/ \E t \in Threads : ThreadStep(t)
    \/ \E f \in Fibers : Wake(f)
    \/ Quiet

Spec == Init /\ [][Next]_vars

\* The operating system runs every thread, the one inside stop() included, and
\* the function of every task takes finitely many steps.  Nothing forces the
\* user to call start() or stop(), or a waker to wake.
Fairness ==
    /\ WF_vars(CallerStep)
    /\ \A t \in Threads : WF_vars(ThreadStep(t))

FairSpec == Spec /\ Fairness

-----------------------------------------------------------------------------
(* Properties. *)

\* Types of the scheduler's members and of the threads' locals: the unsigned
\* counters never wrap, and a thread has a task exactly where run() uses one.
TypeOK ==
    /\ m_fibers \in Seq(Entry)
    /\ m_state \in [Fibers -> FiberState]
    /\ m_activeThreadCount \in Nat
    /\ m_idleThreadCount \in Nat
    /\ m_autoStop \in BOOLEAN
    /\ m_stopping \in BOOLEAN
    /\ rootState \in {"INIT", "EXEC", "TERM"}
    /\ pc \in [Threads -> {"off", "top", "done"} \cup TaskPc \cup IdlePc]
    /\ cur \in [Threads -> Fibers \cup {NoFiber}]
    /\ \A t \in Threads : pc[t] \in TaskPc <=> cur[t] \in Fibers
    /\ idleTerm \in [Threads -> BOOLEAN]
    /\ caller \in {"user", "call", "inroot", "join"}
    /\ armed \subseteq Fibers
    /\ done \subseteq Fibers
    /\ submits \in [Fibers -> Nat]
    /\ yields \in [Fibers -> Nat]
    /\ holds \in [Fibers -> Nat]
    /\ starts \in Nat
    /\ stops \in Nat
    /\ abort \in {"none", "never reach", "swapIn of EXEC", "stack in use"}

\* No two threads ever run on the stack of one fiber, and the assertions of
\* fiber.cc that speak of it hold: swapIn is never given a fiber in state EXEC
\* and control never comes back to a fiber that has returned ("never reach").
\* run()'s scan, "the task is being executed, skip it" (scheduler.cc:203), and
\* the assertion in swapIn are all that keeps a second thread off a stack.
StacksAreSafe ==
    /\ abort = "none"
    /\ \A t, u \in Threads : \A f \in Fibers :
          OnStack(t, f) /\ OnStack(u, f) => t = u

\* stopping() answers true only when every thread is between tasks: a thread
\* that has taken a task is visible in m_activeThreadCount until the task has
\* given control back, however takes, switches and returns interleave.
StoppingMeansNoTaskRuns ==
    Stopping => \A t \in Threads : pc[t] \notin ActivePc

\* A task has been executed until it ended or parked itself.
Ran(f) == f \in done \/ m_state[f] = "HOLD"

\* When stop() has only exited threads left to join, no task that any thread
\* may run has been lost: each one that was ever scheduled has run until it
\* finished or parked itself with YieldToHold.
NoTaskLost ==
    /\ caller = "join"
    /\ \A t \in Threads : Exited(t)
    /\ \E t \in Threads : pc[t] = "done"
    => \A f \in Fibers :
          submits[f] > 0 /\ Pin[f] = AnyThread
              => Ran(f)

\* A call of stop() returns, tasks that are still parked or woken meanwhile
\* notwithstanding, unless a fiber's assertion ends the process.
StopTerminates == caller # "user" ~> caller = "user" \/ abort # "none"

\* Once a thread of the pool runs, every task in the list gets executed until
\* it finishes or parks itself, unless a fiber's assertion ends the process.
QueuedTaskRuns ==
    \A f \in Fibers :
        /\ \E i \in DOMAIN m_fibers : m_fibers[i].fiber = f
        /\ \E t \in Threads : ~Exited(t)
        ~> Ran(f) \/ abort # "none"
=============================================================================
