------------------------------ MODULE FdEvents ------------------------------
(***************************************************************************)
(* The IOManager's registry of I/O events: src/sylar/iomanager.{h,cc}.     *)
(*                                                                         *)
(* m_fdContexts maps a descriptor to its FdContext, which holds, for READ  *)
(* and for WRITE, the fiber or callback to schedule.  Fibers register with *)
(* addEvent, other fibers take registrations back with delEvent,           *)
(* cancelEvent and cancelAll, and the idle fibers turn what epoll_wait     *)
(* reported into scheduled waiters.  Every operation first finds the       *)
(* FdContext under m_mutex, then locks the context: these are two steps,   *)
(* and so are epoll_wait and the handling of each event it returned.       *)
(*                                                                         *)
(* epoll is external: one interest per open descriptor, edge-triggered,    *)
(* looked at anew by EPOLL_CTL_ADD and EPOLL_CTL_MOD.                      *)
(***************************************************************************)
EXTENDS Integers, FiniteSets

CONSTANTS
    Fds,              \* descriptors, as the numbers they are
    InitSize,         \* the size of m_fdContexts after the constructor (32)
    MaxGen,           \* bound: how often a descriptor's FdContext is created
    Waiters,          \* what is registered: a fiber, or a callback's owner
    Use,              \* the descriptor and the event each waiter registers for
    Cancellers,       \* threads that call delEvent, cancelEvent, cancelAll, close
    Requests,         \* the requests they make
    Idlers,           \* threads inside IOManager::idle
    FreshSchedulers,  \* what a new EventContext's scheduler may contain
    AddLimit,         \* bound on the addEvent calls of a waiter
    CancelLimit,      \* bound on the requests of a canceller
    NoOne

Events == {"READ", "WRITE"}
Ctxs == Fds \X (1..MaxGen)
RequestOps ==
    [op : {"delEvent", "cancelEvent"}, fd : Fds, ev : Events]
        \cup [op : {"cancelAll", "close"}, fd : Fds, ev : {NoOne}]

ASSUME FdEventsAssumption ==
    /\ Fds \subseteq Nat /\ IsFiniteSet(Fds)
    /\ InitSize \in Nat \ {0, 1} /\ MaxGen \in Nat \ {0}
    /\ Use \in [Waiters -> Fds \X Events]
    /\ Requests \subseteq RequestOps
    /\ FreshSchedulers \subseteq {"null", "garbage"} /\ FreshSchedulers # {}
    /\ AddLimit \in Nat /\ CancelLimit \in Nat
    /\ NoOne \notin Waiters \cup Events

VARIABLES
    size,            \* m_fdContexts.size()
    gen,             \* the FdContext of fd is <<fd, gen[fd]>>; 0 beyond the size
    made,            \* how many contexts fd has had
    events,          \* FdContext::events
    scheduler,       \* EventContext::scheduler: "null", "set" or "garbage"
    waiter,          \* EventContext::fiber or ::cb
    m_pendingEventCount,
    pc, hold,        \* where a waiter is in addEvent, and the context it found
    req,             \* where a canceller is
    reports,         \* the events an idle fiber has from epoll_wait
    isOpen, ready, mask, ptr, edge,   \* the kernel's side
    adds, cancels,   \* bounds
    abort,           \* the assertion that failed
    orphan           \* waiters whose descriptor was closed under them

table   == <<size, gen, made>>
context == <<events, scheduler, waiter, m_pendingEventCount>>
kernel  == <<isOpen, ready, mask, ptr, edge>>
threads == <<pc, hold, req, reports, adds, cancels>>
vars    == <<table, context, kernel, threads, abort, orphan>>

NoReq == [at |-> "none"]
Running == abort = "none"

Init ==
    /\ size = InitSize
    /\ gen = [fd \in Fds |-> IF fd < InitSize THEN 1 ELSE 0]
    /\ made = gen
    /\ events = [c \in Ctxs |-> {}]
    /\ scheduler \in [Ctxs -> [Events -> FreshSchedulers]]
    /\ waiter = [c \in Ctxs |-> [e \in Events |-> NoOne]]
    /\ m_pendingEventCount = 0
    /\ pc = [w \in Waiters |-> "run"]
    /\ hold = [w \in Waiters |-> <<Use[w][1], 1>>]
    /\ req = [k \in Cancellers |-> NoReq]
    /\ reports = [i \in Idlers |-> {}]
    /\ isOpen = [fd \in Fds |-> TRUE]
    /\ ready = [fd \in Fds |-> {}]
    /\ mask = [fd \in Fds |-> {}]
    /\ ptr = [fd \in Fds |-> <<fd, 1>>]
    /\ edge = [fd \in Fds |-> FALSE]
    /\ adds = [w \in Waiters |-> 0]
    /\ cancels = [k \in Cancellers |-> 0]
    /\ abort = "none"
    /\ orphan = {}

-----------------------------------------------------------------------------
(* epoll. *)

Reported(fd, m) == ready[fd] \cap (m \cup {"ERR"})

\* EPOLL_CTL_ADD, or EPOLL_CTL_MOD: the interest becomes m, with data.ptr = c.
CtlSet(fd, m, c) ==
    /\ mask' = [mask EXCEPT ![fd] = m]
    /\ ptr' = [ptr EXCEPT ![fd] = c]
    /\ edge' = [edge EXCEPT ![fd] = Reported(fd, m) # {}]
    /\ UNCHANGED <<isOpen, ready>>

\* Mutant: EPOLL_CTL_DEL also when an event is left.
CtlLeaveNothing(fd, m, c) ==
    /\ mask' = [mask EXCEPT ![fd] = {}]
    /\ edge' = [edge EXCEPT ![fd] = FALSE]
    /\ UNCHANGED <<isOpen, ready, ptr>>

\* What is left of an interest: EPOLL_CTL_MOD, or EPOLL_CTL_DEL when nothing is.
CtlLeave(fd, m, c) ==
    IF m # {} THEN CtlSet(fd, m, c)
    ELSE /\ mask' = [mask EXCEPT ![fd] = {}]
         /\ edge' = [edge EXCEPT ![fd] = FALSE]
         /\ UNCHANGED <<isOpen, ready, ptr>>

\* EPOLL_CTL_ADD finds no interest (EEXIST); EPOLL_CTL_MOD and EPOLL_CTL_DEL
\* find one (ENOENT); both need an open descriptor (EBADF).
CanAdd(fd) == isOpen[fd] /\ mask[fd] = {}
CanChange(fd) == isOpen[fd] /\ mask[fd] # {}

\* Data, space or an error arrives; or what was there has been consumed.
Arrive(fd, e) ==
    /\ Running
    /\ isOpen[fd]
    /\ ready' = [ready EXCEPT ![fd] = @ \cup {e}]
    /\ edge' = [edge EXCEPT ![fd] = @ \/ (mask[fd] # {} /\ e \in mask[fd] \cup {"ERR"})]
    /\ UNCHANGED <<isOpen, mask, ptr, table, context, threads, abort, orphan>>

Consume(fd, e) ==
    /\ Running
    /\ e \in ready[fd]
    /\ ready' = [ready EXCEPT ![fd] = @ \ {e}]
    /\ UNCHANGED <<isOpen, mask, ptr, edge, table, context, threads, abort, orphan>>

\* The number of a closed descriptor is given to a new socket.
Reopen(fd) ==
    /\ Running
    /\ ~isOpen[fd]
    /\ isOpen' = [isOpen EXCEPT ![fd] = TRUE]
    /\ UNCHANGED <<ready, mask, ptr, edge, table, context, threads, abort, orphan>>

-----------------------------------------------------------------------------
(* addEvent. *)

\* The lookup under the read lock.
AddLookup(w) ==
    LET fd == Use[w][1]
    IN  /\ Running
        /\ pc[w] = "run"
        /\ adds[w] < AddLimit
        /\ adds' = [adds EXCEPT ![w] = @ + 1]
        /\ IF size > fd
           THEN pc' = [pc EXCEPT ![w] = "lock"] /\ hold' = [hold EXCEPT ![w] = <<fd, gen[fd]>>]
           ELSE pc' = [pc EXCEPT ![w] = "grow"] /\ hold' = hold
        /\ UNCHANGED <<table, context, kernel, req, reports, cancels, abort, orphan>>

\* contextResize: std::vector::resize cuts the vector when n is smaller, and
\* new contexts fill the places that have none.
contextResize(n) ==
    /\ size' = n
    /\ gen' = [fd \in Fds |-> IF fd >= n THEN 0
                              ELSE IF gen[fd] = 0 THEN made[fd] + 1 ELSE gen[fd]]
    /\ made' = [fd \in Fds |-> IF fd < n /\ gen[fd] = 0 THEN made[fd] + 1 ELSE made[fd]]

\* The part under the write lock, entered on what the lookup saw.
AddGrow(w) ==
    LET fd == Use[w][1]
    IN  /\ Running
        /\ pc[w] = "grow"
        /\ \A f \in Fds : f < (fd * 3) \div 2 /\ gen[f] = 0 => made[f] < MaxGen
        /\ contextResize((fd * 3) \div 2)
        /\ hold' = [hold EXCEPT ![w] = <<fd, gen'[fd]>>]
        /\ pc' = [pc EXCEPT ![w] = "lock"]
        /\ UNCHANGED <<context, kernel, req, reports, adds, cancels, abort, orphan>>

\* The part under the context's lock, from the assertion to the return.  The lock
\* hides the moment between the counter and the events from everyone but a reader
\* of the counter, which IoLoop has.
AddLocked(w) ==
    LET c  == hold[w]
        fd == c[1]
        e  == Use[w][2]
        ok == IF events[c] = {} THEN CanAdd(fd) ELSE CanChange(fd)
        clean == scheduler[c][e] = "null" /\ waiter[c][e] = NoOne
    IN  /\ Running
        /\ pc[w] = "lock"
        /\ \/ /\ e \in events[c]
              /\ abort' = "addEvent: already registered"
              /\ UNCHANGED <<context, kernel, pc>>
           \/ /\ e \notin events[c] /\ ~ok
              /\ pc' = [pc EXCEPT ![w] = "run"]
              /\ UNCHANGED <<context, kernel, abort>>
           \/ /\ e \notin events[c] /\ ok /\ ~clean
              /\ abort' = "addEvent: context in use"
              /\ UNCHANGED <<context, kernel, pc>>
           \/ /\ e \notin events[c] /\ ok /\ clean
              /\ CtlSet(fd, events[c] \cup {e}, c)
              /\ m_pendingEventCount' = m_pendingEventCount + 1
              /\ events' = [events EXCEPT ![c] = @ \cup {e}]
              /\ scheduler' = [scheduler EXCEPT ![c][e] = "set"]
              /\ waiter' = [waiter EXCEPT ![c][e] = w]
              /\ pc' = [pc EXCEPT ![w] = "waiting"]
              /\ UNCHANGED abort
        /\ UNCHANGED <<table, hold, req, reports, adds, cancels, orphan>>

-----------------------------------------------------------------------------
(* Taking registrations back. *)

\* Mutants: the counter is not decremented; the owners are not scheduled.
EndUncounted(c, S) ==
    /\ events' = [events EXCEPT ![c] = @ \ S]
    /\ scheduler' = [scheduler EXCEPT ![c] = [e \in Events |-> IF e \in S THEN "null" ELSE @[e]]]
    /\ waiter' = [waiter EXCEPT ![c] = [e \in Events |-> IF e \in S THEN NoOne ELSE @[e]]]
    /\ m_pendingEventCount' = m_pendingEventCount
    /\ pc' = [w \in Waiters |-> IF \E e \in S : waiter[c][e] = w THEN "run" ELSE pc[w]]
EndUnscheduled(c, S) ==
    /\ events' = [events EXCEPT ![c] = @ \ S]
    /\ scheduler' = [scheduler EXCEPT ![c] = [e \in Events |-> IF e \in S THEN "null" ELSE @[e]]]
    /\ waiter' = [waiter EXCEPT ![c] = [e \in Events |-> IF e \in S THEN NoOne ELSE @[e]]]
    /\ m_pendingEventCount' = m_pendingEventCount - Cardinality(S)
    /\ pc' = pc

\* The registrations S of context c end: their EventContexts are empty again,
\* and their owners go on, because triggerEvent has scheduled them or because
\* whoever called delEvent knows.
EndRegistrations(c, S) ==
    /\ events' = [events EXCEPT ![c] = @ \ S]
    /\ scheduler' = [scheduler EXCEPT ![c] = [e \in Events |-> IF e \in S THEN "null" ELSE @[e]]]
    /\ waiter' = [waiter EXCEPT ![c] = [e \in Events |-> IF e \in S THEN NoOne ELSE @[e]]]
    /\ m_pendingEventCount' = m_pendingEventCount - Cardinality(S)
    /\ pc' = [w \in Waiters |-> IF \E e \in S : waiter[c][e] = w THEN "run" ELSE pc[w]]

\* The lookup under the read lock, the same in all of them.
BeginRequest(k, r) ==
    /\ Running
    /\ req[k].at = "none"
    /\ cancels[k] < CancelLimit
    /\ cancels' = [cancels EXCEPT ![k] = @ + 1]
    /\ \/ /\ size > r.fd
          /\ req' = [req EXCEPT ![k] = [at |-> "lock", r |-> r, c |-> <<r.fd, gen[r.fd]>>]]
       \/ /\ size <= r.fd /\ r.op = "close"
          /\ req' = [req EXCEPT ![k] = [at |-> "shut", r |-> r, c |-> <<r.fd, 1>>]]
    /\ UNCHANGED <<table, context, kernel, pc, hold, reports, adds, abort, orphan>>

AfterLock(k) == IF req[k].r.op = "close" THEN [req[k] EXCEPT !.at = "shut"] ELSE NoReq

\* delEvent and cancelEvent, of one event; cancelAll, of all of them; close (the
\* hook) is cancelAll and then the system call.
EndLocked(k) ==
    /\ Running
    /\ req[k].at = "lock"
    /\ LET c    == req[k].c
           r    == req[k].r
           gone == events[c] \cap (IF r.op \in {"cancelAll", "close"} THEN Events ELSE {r.ev})
       IN  IF gone # {} /\ CanChange(r.fd)
           THEN /\ CtlLeave(r.fd, events[c] \ gone, c)
                /\ EndRegistrations(c, gone)
           ELSE UNCHANGED <<context, kernel, pc>>
    /\ req' = [req EXCEPT ![k] = AfterLock(k)]
    /\ UNCHANGED <<table, hold, reports, adds, cancels, abort, orphan>>

\* close_f: the kernel forgets the interest.
Shut(k) ==
    /\ Running
    /\ req[k].at = "shut"
    /\ LET fd == req[k].r.fd
       IN  /\ isOpen' = [isOpen EXCEPT ![fd] = FALSE]
           /\ ready' = [ready EXCEPT ![fd] = {}]
           /\ mask' = [mask EXCEPT ![fd] = {}]
           /\ edge' = [edge EXCEPT ![fd] = FALSE]
           /\ orphan' = orphan \cup {w \in Waiters : pc[w] = "waiting" /\ Use[w][1] = fd}
    /\ req' = [req EXCEPT ![k] = NoReq]
    /\ UNCHANGED <<ptr, table, context, pc, hold, reports, adds, cancels, abort>>

-----------------------------------------------------------------------------
(* The event part of idle. *)

\* epoll_wait returns some of the descriptors that have something to report.
EpollWait(i) ==
    /\ Running
    /\ reports[i] = {}
    /\ \E S \in SUBSET {fd \in Fds : edge[fd]} \ {{}} :
          /\ reports' = [reports EXCEPT ![i] =
                {[c |-> ptr[fd], got |-> Reported(fd, mask[fd])] :
                    fd \in {f \in S : Reported(f, mask[f]) # {}}}]
          /\ edge' = [fd \in Fds |-> edge[fd] /\ fd \notin S]
    /\ UNCHANGED <<isOpen, ready, mask, ptr, table, context, pc, hold, req, adds, cancels, abort, orphan>>

\* One round of the loop over the events, under the context's lock.
HandleReport(i, r) ==
    LET c    == r.c
        fd   == c[1]
        real == (r.got \cap Events) \cup (IF "ERR" \in r.got THEN events[c] ELSE {})
    IN  /\ Running
        /\ r \in reports[i]
        /\ reports' = [reports EXCEPT ![i] = @ \ {r}]
        /\ \/ /\ events[c] \cap real = {} \/ ~CanChange(fd)
              /\ UNCHANGED <<context, kernel, pc, abort>>
           \/ /\ events[c] \cap real # {} /\ CanChange(fd)
              /\ ~(real \subseteq events[c])
              /\ abort' = "triggerEvent: not registered"
              /\ UNCHANGED <<context, kernel, pc>>
           \/ /\ events[c] \cap real # {} /\ CanChange(fd)
              /\ real \subseteq events[c]
              /\ CtlLeave(fd, events[c] \ real, c)
              /\ EndRegistrations(c, real)
              /\ UNCHANGED abort
        /\ UNCHANGED <<table, hold, req, adds, cancels, orphan>>

WaiterStep(w) == AddLookup(w) \/ AddGrow(w) \/ AddLocked(w)
CancellerStep(k) == (\E r \in Requests : BeginRequest(k, r)) \/ EndLocked(k) \/ Shut(k)
IdlerStep(i) == EpollWait(i) \/ \E r \in reports[i] : HandleReport(i, r)
KernelStep(fd) ==
    \/ \E e \in Events \cup {"ERR"} : Arrive(fd, e)
    \/ \E e \in Events : Consume(fd, e)
    \/ Reopen(fd)

Next ==
    \/ \E w \in Waiters : WaiterStep(w)
    \/ \E k \in Cancellers : CancellerStep(k)
    \/ \E i \in Idlers : IdlerStep(i)
    \/ \E fd \in Fds : KernelStep(fd)

Spec == Init /\ [][Next]_vars

\* Idle fibers return to epoll_wait, and threads get the locks they wait for.
FairSpec == Spec /\ \A i \in Idlers : WF_vars(IdlerStep(i))

-----------------------------------------------------------------------------
(* Properties. *)

\* Types of the FdContexts, of the counter and of the threads' local pointers.
TypeOK ==
    /\ size \in Nat
    /\ gen \in [Fds -> 0..MaxGen] /\ made \in [Fds -> 0..MaxGen]
    /\ events \in [Ctxs -> SUBSET Events]
    /\ scheduler \in [Ctxs -> [Events -> {"null", "set", "garbage"}]]
    /\ waiter \in [Ctxs -> [Events -> Waiters \cup {NoOne}]]
    /\ m_pendingEventCount \in Nat
    /\ pc \in [Waiters -> {"run", "grow", "lock", "waiting"}]
    /\ hold \in [Waiters -> Ctxs]
    /\ req \in [Cancellers -> {NoReq} \cup [at : {"lock", "shut"}, r : RequestOps, c : Ctxs]]
    /\ reports \in [Idlers -> SUBSET [c : Ctxs, got : SUBSET (Events \cup {"ERR"})]]
    /\ isOpen \in [Fds -> BOOLEAN] /\ edge \in [Fds -> BOOLEAN]
    /\ ready \in [Fds -> SUBSET (Events \cup {"ERR"})]
    /\ mask \in [Fds -> SUBSET Events]
    /\ ptr \in [Fds -> Ctxs]
    /\ orphan \subseteq Waiters

Registered == {p \in Ctxs \X Events : p[2] \in events[p[1]]}

\* m_pendingEventCount, which idle fibers read without any lock to decide that
\* they may stop, counts the registrations of all contexts exactly: under any
\* race of addEvent, cancellation, close and the idle fibers.
PendingExact == m_pendingEventCount = Cardinality(Registered)

\* A waiter is held by exactly one EventContext while it waits, and by none
\* otherwise: nobody can be scheduled twice for one addEvent, nobody who waits
\* is forgotten, and a free EventContext holds nothing back.
WaiterHeldOnce ==
    /\ \A w \in Waiters :
          pc[w] = "waiting" => /\ Use[w][2] \in events[hold[w]]
                               /\ waiter[hold[w]][Use[w][2]] = w
    /\ \A c \in Ctxs, e \in Events :
          IF e \in events[c]
          THEN \E w \in Waiters : /\ waiter[c][e] = w
                                  /\ pc[w] = "waiting"
                                  /\ hold[w] = c /\ Use[w][2] = e
          ELSE waiter[c][e] = NoOne

\* A waiter can be found by cancelEvent and cancelAll: the context that holds it
\* is the one m_fdContexts has for the descriptor.
RegisteredIsReachable ==
    \A w \in Waiters : pc[w] = "waiting" => hold[w] = <<Use[w][1], gen[Use[w][1]]>>

\* When close() has closed the descriptor, none of its events is registered.
ClosedHasNoEvents ==
    \A fd \in Fds : ~isOpen[fd] /\ gen[fd] # 0 => events[<<fd, gen[fd]>>] = {}

\* None of the assertions of addEvent and triggerEvent fails.
AssertionsHold == abort = "none"

\* A waiter whose event is ready is scheduled, unless the readiness goes away or
\* an assertion of addEvent or triggerEvent ends the program: whatever delEvent,
\* cancelEvent, cancelAll, close, other idle fibers and the other waiter of the
\* descriptor do meanwhile.  The exception is a waiter that registered between
\* the cancelAll and the close_f of close(), whose interest the kernel forgets.
ReadyWaiterWakes ==
    \A w \in Waiters :
        LET fd    == Use[w][1]
            e     == Use[w][2]
            waits == pc[w] = "waiting" /\ e \in ready[fd] /\ w \notin orphan
        IN  waits ~> ~waits \/ abort # "none"
=============================================================================
