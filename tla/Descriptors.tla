---------------------------- MODULE Descriptors ----------------------------
(***************************************************************************)
(* Descriptor numbers and what the library knows of them: FdManager and    *)
(* FdCtx of src/sylar/fd_manager.cc, and the hooked calls of               *)
(* src/sylar/hook.cc that keep the two in step with the kernel: socket,    *)
(* accept, close, fcntl, ioctl and setsockopt.                             *)
(*                                                                         *)
(* A number is free again as soon as close_f has returned, and the kernel  *)
(* gives out the lowest free one, so what FdManager says of a number must  *)
(* always be about the descriptor that has the number now.                 *)
(*                                                                         *)
(* Each actor works on descriptors of its own.  An actor in Hooked runs on *)
(* a thread with t_hook_enable.  A call is taken apart where another       *)
(* thread can come between: after the kernel's part, and at each lock of   *)
(* FdManager.  The vector's size and its growth are left out: a number     *)
(* beyond it and an empty slot are both "no context".                      *)
(***************************************************************************)
EXTENDS Naturals, FiniteSets, FiniteSetsExt

CONSTANTS
    Fds,       \* the descriptor numbers
    Actors,    \* the fibers and threads that make calls
    Users,     \* the actors that make any call they like
    Hooked,    \* the actors whose thread has t_hook_enable
    UserKinds, \* what the sockets users open beside a server are: "sock", "other"
    OpenLimit, \* how many descriptors all users together open
    Waits      \* the timeouts a user may set

NoFd == 0      \* a Socket without a descriptor (-1)

ASSUME ActorsAssumption ==
    /\ IsFiniteSet(Fds) /\ Fds \subseteq Nat \ {NoFd}
    /\ Users \subseteq Actors /\ Hooked \subseteq Actors
    /\ UserKinds \subseteq {"sock", "other"}
    /\ OpenLimit \in Nat

None == "none"

VARIABLES
    os,        \* the kernel's descriptor of each number
    m_datas,   \* FdManager::m_datas: the FdCtx of each number
    waiter,    \* FdContext::read of each number: the fiber to be scheduled
    epoll,     \* the numbers whose current descriptor epoll watches
    woken,     \* the fibers that have been scheduled
    call,      \* where each actor is in the call it makes, and on which number
    owned,     \* the numbers each actor has opened or been given
    want,      \* what the owner has asked of each number (history)
    disturbed, \* numbers for which a call went past FdManager (history)
    opens      \* how many descriptors the users have opened

calls == <<os, m_datas, waiter, epoll, woken, call, owned, want, disturbed, opens>>

\* "listen" is the server's listening socket, "other" anybody else's.
Kinds == {"file", "sock", "listen", "other"}
Closed == [kind |-> "closed", nonblock |-> FALSE]
NoCtx == [isSocket |-> FALSE, userNonblock |-> FALSE, timeout |-> "no context"]

\* What is asked of a descriptor when it is opened: to be managed, or not.
Fresh(managed) == [managed |-> managed, nonblock |-> FALSE, timeout |-> None]

IsOpen(fd) == os[fd].kind # "closed"
Managed(fd) == m_datas[fd] # NoCtx
Lowest == Min({fd \in Fds : ~IsOpen(fd)})
Room == \E fd \in Fds : ~IsOpen(fd)

At(a, l) == call[a].pc = l
Goto(a, l) == call' = [call EXCEPT ![a].pc = l]

DescInit ==
    /\ os = [fd \in Fds |-> Closed]
    /\ m_datas = [fd \in Fds |-> NoCtx]
    /\ waiter = [fd \in Fds |-> None]
    /\ epoll = {} /\ woken = {}
    /\ call = [a \in Actors |-> [pc |-> "ret", fd |-> NoFd]]
    /\ owned = [a \in Actors |-> {}]
    /\ want = [fd \in Fds |-> Fresh(FALSE)]
    /\ disturbed = {}
    /\ opens = 0

-----------------------------------------------------------------------------
(* The steps of a call, for every actor. *)

\* The kernel's part of opening: the lowest free number.  socket() then goes to
\* FdManager if the thread is hooked, accept() in every thread, open() never.
Opened(a, kind, how) ==
    LET fd == Lowest
        managed == how = "accept" \/ (how = "socket" /\ a \in Hooked)
    IN
    /\ At(a, "ret") /\ Room
    /\ os' = [os EXCEPT ![fd] = [kind |-> kind, nonblock |-> FALSE]]
    /\ call' = [call EXCEPT ![a] = [pc |-> IF managed THEN "look" ELSE "ret", fd |-> fd]]
    /\ owned' = [owned EXCEPT ![a] = @ \cup {fd}]
    /\ want' = [want EXCEPT ![fd] = Fresh(managed)]
    /\ UNCHANGED <<m_datas, waiter, epoll, woken, disturbed>>

\* FdManager::get(fd, true) under the read lock: is there a context?
Look(a) ==
    /\ At(a, "look")
    /\ Goto(a, IF Managed(call[a].fd) THEN "ret" ELSE "create")
    /\ UNCHANGED <<os, m_datas, waiter, epoll, woken, owned, want, disturbed, opens>>

\* FdCtx::init: a socket is made non-blocking, whatever its user will be told.
FdCtx(fd) == [isSocket |-> os[fd].kind # "file", userNonblock |-> FALSE, timeout |-> None]

\* FdManager::get(fd, true) under the write lock.
Create(a) ==
    LET fd == call[a].fd IN
    /\ At(a, "create")
    /\ m_datas' = [m_datas EXCEPT ![fd] = FdCtx(fd)]
    /\ os' = [os EXCEPT ![fd].nonblock = @ \/ os[fd].kind # "file"]
    /\ Goto(a, "ret")
    /\ UNCHANGED <<waiter, epoll, woken, owned, want, disturbed, opens>>

\* The start of close(fd): does FdManager know the number?
BeginClose(a, fd) ==
    /\ At(a, "ret")
    /\ call' = [call EXCEPT ![a] =
                  [pc |-> IF a \in Hooked /\ Managed(fd) THEN "cancel" ELSE "closef",
                   fd |-> fd]]
    /\ owned' = [b \in Actors |-> owned[b] \ {fd}]
    /\ UNCHANGED <<os, m_datas, waiter, epoll, woken, want, disturbed, opens>>

\* Mutant: the registration ends and nobody is scheduled.
CancelSilently(fd) ==
    /\ waiter' = [waiter EXCEPT ![fd] = None]
    /\ epoll' = epoll \ {fd}
    /\ UNCHANGED woken

\* IOManager::cancelAll(fd): who waits for it is scheduled.
CancelAll(fd) ==
    /\ woken' = woken \cup ({waiter[fd]} \ {None})
    /\ waiter' = [waiter EXCEPT ![fd] = None]
    /\ epoll' = epoll \ {fd}

\* Mutant: close() frees the number before FdManager forgets it.
CancelFrees(a) ==
    /\ At(a, "cancel")
    /\ CancelAll(call[a].fd)
    /\ os' = [os EXCEPT ![call[a].fd] = Closed]
    /\ Goto(a, "del")
    /\ UNCHANGED <<m_datas, owned, want, disturbed, opens>>

\* iom->cancelAll(fd), while the number and its context are still there.
Cancel(a) ==
    /\ At(a, "cancel")
    /\ CancelAll(call[a].fd)
    /\ Goto(a, "del")
    /\ UNCHANGED <<os, m_datas, owned, want, disturbed, opens>>

\* FdManager::del
Del(a) ==
    LET fd == call[a].fd IN
    /\ At(a, "del")
    /\ m_datas' = [m_datas EXCEPT ![fd] = NoCtx]
    /\ disturbed' = disturbed \ {fd}
    /\ Goto(a, "closef")
    /\ UNCHANGED <<os, waiter, epoll, woken, owned, want, opens>>

\* close_f: the number is free.  epoll forgets the descriptor; the registration
\* in IOManager, if there is one, stays.
CloseF(a) ==
    LET fd == call[a].fd IN
    /\ At(a, "closef")
    /\ os' = [os EXCEPT ![fd] = Closed]
    /\ epoll' = epoll \ {fd}
    /\ disturbed' = IF a \notin Hooked /\ Managed(fd) THEN disturbed \cup {fd} ELSE disturbed
    /\ call' = [call EXCEPT ![a] = [pc |-> "ret", fd |-> NoFd]]
    /\ want' = [want EXCEPT ![fd] = Fresh(FALSE)]
    /\ UNCHANGED <<m_datas, waiter, woken, owned, opens>>

CallStep(a) == Look(a) \/ Create(a) \/ Cancel(a) \/ Del(a) \/ CloseF(a)

-----------------------------------------------------------------------------
(* What users do. *)

UserOpens(a) ==
    /\ opens < OpenLimit
    /\ \/ Opened(a, "sock", "socket")
       \/ Opened(a, "sock", "accept")
       \/ Opened(a, "file", "open")
    /\ opens' = opens + 1

UserOpensSocket(a) ==
    /\ opens < OpenLimit
    /\ \E kind \in UserKinds : Opened(a, kind, "socket")
    /\ opens' = opens + 1

UserCloses(a) == \E fd \in owned[a] : BeginClose(a, fd)

\* A Socket is handed to another thread, whose Socket::~Socket may close it.
UserHandsOver(a, b) ==
    /\ At(a, "ret") /\ a # b
    /\ \E fd \in owned[a] :
        owned' = [owned EXCEPT ![a] = @ \ {fd}, ![b] = @ \cup {fd}]
    /\ UNCHANGED <<os, m_datas, waiter, epoll, woken, call, want, disturbed, opens>>

\* fcntl(fd, F_SETFL, flags), hooked or not: of a socket with a context the
\* wish is recorded and the descriptor stays non-blocking.
SetFl(fd, nonblock) ==
    IF m_datas[fd].isSocket
    THEN /\ m_datas' = [m_datas EXCEPT ![fd].userNonblock = nonblock]
         /\ os' = [os EXCEPT ![fd].nonblock = TRUE]
    ELSE /\ os' = [os EXCEPT ![fd].nonblock = nonblock]
         /\ UNCHANGED m_datas

UserFcntl(a) ==
    /\ At(a, "ret")
    /\ \E fd \in owned[a], nonblock \in BOOLEAN :
        /\ SetFl(fd, nonblock)
        /\ want' = [want EXCEPT ![fd].nonblock = nonblock]
    /\ UNCHANGED <<waiter, epoll, woken, call, owned, disturbed, opens>>

\* ioctl(fd, FIONBIO, &flag): the wish is recorded and also applied.
UserIoctl(a) ==
    /\ At(a, "ret")
    /\ \E fd \in owned[a], nonblock \in BOOLEAN :
        /\ m_datas' = [m_datas EXCEPT ![fd].userNonblock =
                         IF m_datas[fd].isSocket THEN nonblock ELSE @]
        /\ os' = [os EXCEPT ![fd].nonblock = nonblock]
        /\ want' = [want EXCEPT ![fd].nonblock = nonblock]
        /\ disturbed' = IF m_datas[fd].isSocket /\ ~nonblock
                        THEN disturbed \cup {fd} ELSE disturbed
    /\ UNCHANGED <<waiter, epoll, woken, call, owned, opens>>

\* setsockopt(fd, SOL_SOCKET, SO_RCVTIMEO, ...): Socket::setRecvTimeout.  In a thread
\* without hooks only the kernel learns of it.
SetTimeout(a, fd, ms) ==
    m_datas' = [m_datas EXCEPT ![fd].timeout =
                  IF a \in Hooked /\ Managed(fd) THEN ms ELSE @]

UserSetsTimeout(a) ==
    /\ At(a, "ret")
    /\ \E fd \in owned[a], ms \in Waits :
        /\ os[fd].kind # "file"
        /\ SetTimeout(a, fd, ms)
        /\ want' = [want EXCEPT ![fd].timeout = ms]
        /\ disturbed' = IF a \notin Hooked /\ Managed(fd) THEN disturbed \cup {fd} ELSE disturbed
    /\ UNCHANGED <<os, waiter, epoll, woken, call, owned, opens>>

UserSettings(a) ==
    \/ UserFcntl(a) \/ UserIoctl(a) \/ UserSetsTimeout(a)
    \/ \E b \in Users : UserHandsOver(a, b)

-----------------------------------------------------------------------------
\* A descriptor whose owner is not in the middle of a call on it.
Settled(a, fd) == fd \in owned[a] /\ ~(call[a].fd = fd /\ call[a].pc # "ret")

\* What a number's owner asked for is what FdManager and the kernel hold, however
\* often the number has been closed and given out again meanwhile, and whatever
\* threads did so at the same moment: a socket that was opened in a hooked thread
\* or accepted has a context of its own, with its own wishes and its own timeout,
\* and is non-blocking; any other descriptor is as its user left it.  Three calls
\* break it, and the numbers they touch are in `disturbed' and excepted until a
\* hooked close() forgets them: close() and setsockopt(SO_RCVTIMEO) of a managed
\* descriptor in a thread without hooks, and ioctl(FIONBIO) with 0 in any thread.
ManagedAsAsked ==
    \A a \in Actors : \A fd \in owned[a] \ disturbed :
        Settled(a, fd) =>
            IF want[fd].managed
            THEN /\ m_datas[fd] = [isSocket |-> TRUE, userNonblock |-> want[fd].nonblock,
                                   timeout |-> want[fd].timeout]
                 /\ os[fd].nonblock
            ELSE ~Managed(fd) /\ os[fd].nonblock = want[fd].nonblock

\* Contexts do not pile up: a number that is closed has none, unless a thread
\* without hooks closed it.
ClosedHasNoContext ==
    \A fd \in Fds \ disturbed : Managed(fd) => IsOpen(fd)
=============================================================================
