----------------------------- MODULE TcpServer -----------------------------
(***************************************************************************)
(* TcpServer (src/sylar/tcp_server.cc) on Socket (src/sylar/socket.cc),    *)
(* with the handler of src/sylar/http/http_server.cc, over the descriptors *)
(* of module Descriptors.                                                  *)
(*                                                                         *)
(* The server binds one address, start() schedules the fiber startAccept   *)
(* on the accept worker, stop() schedules another one there that cancels   *)
(* and closes the listening socket.  Each accepted connection gets a       *)
(* handler fiber on the worker.  Users (of Descriptors) open and close     *)
(* descriptors meanwhile, so that numbers are reused.                      *)
(*                                                                         *)
(* The loop of do_io (module HookIO) is here only what an accept or a recv *)
(* needs: try, register, hold, try again with the same number.             *)
(***************************************************************************)
EXTENDS Descriptors

CONSTANTS
    Main,          \* the fiber that calls bind, start and stop
    Acceptor,      \* startAccept
    Stopper,       \* the callback stop() schedules
    Clients,       \* the handler fibers, one for each connection
    AcceptThreads, \* the threads of the accept worker
    ReuseFails,    \* bind is retried with the same `fails' (test_tcp_server.cc)
    RecvTimeout,   \* m_recvTimeout
    Turns          \* bound: the reads a request takes, and the writes a response

ASSUME ServerAssumption ==
    /\ Users \cup {Main, Acceptor, Stopper} \cup Clients = Actors
    /\ AcceptThreads \in Nat \ {0}
    /\ ReuseFails \in BOOLEAN
    /\ Turns \in Nat \ {0}

\* The fibers of the server are their own and nobody else's; they run on threads of
\* an IOManager, where Scheduler::run has enabled the hooks.
ASSUME FibersAssumption ==
    /\ Main # Acceptor /\ Main # Stopper /\ Acceptor # Stopper
    /\ {Main, Acceptor, Stopper} \cap (Users \cup Clients) = {} /\ Users \cap Clients = {}
    /\ IsFiniteSet(Clients)
    /\ {Main, Acceptor, Stopper} \cup Clients \subseteq Hooked
    /\ None \notin Actors

VARIABLES
    m_isStop,
    m_sock,     \* Socket::m_sock of the listening socket
    app,        \* where Main is; "absent" in a process without a server
    fails,      \* the vector `fails' is not empty
    busy,       \* the address is in use elsewhere
    backlog,    \* connections the kernel has ready on the listening socket
    apc, afd,   \* where startAccept is; the number its accept works on
    spc,        \* where the callback of stop() is
    cpu,        \* which of the two is running
    hpc,        \* where each handler is
    inbox,      \* the connections with something to read
    timed,      \* the handlers whose recv has a timer
    turns,      \* how often each handler has read of its request, or written of its response
    full,       \* the connections whose client has to read before more can be sent
    late,       \* startAccept has registered on a number nobody will cancel for it (history)
    abort       \* an assertion has failed

server == <<m_isStop, m_sock, app, fails, busy>>
accept == <<backlog, apc, afd, spc, cpu>>
handle == <<hpc, inbox, timed, turns, full>>
vars == <<calls, server, accept, handle, late, abort>>

Init ==
    /\ DescInit
    /\ m_isStop = TRUE /\ m_sock = NoFd
    /\ app \in {"bind", "absent"} /\ fails = FALSE /\ busy \in BOOLEAN
    /\ backlog = 0
    /\ apc = "off" /\ afd = NoFd /\ spc = "off" /\ cpu = {}
    /\ hpc = [h \in Clients |-> "off"]
    /\ inbox = {} /\ timed = {} /\ turns = [h \in Clients |-> 0] /\ full = {}
    /\ late = FALSE /\ abort = FALSE

-----------------------------------------------------------------------------
(* The fiber that sets the server up. *)

\* bind: Socket::CreateTCP and newSock.
BindOpens ==
    /\ app = "bind" /\ Opened(Main, "sock", "socket")
    /\ app' = "bind_f"
    /\ UNCHANGED <<opens, m_isStop, m_sock, fails, busy, accept, handle, late, abort>>

\* bind_f or listen_f fails: the address joins `fails', the socket goes.
BindFails ==
    /\ app = "bind_f" /\ busy
    /\ BeginClose(Main, call[Main].fd)
    /\ fails' = ReuseFails /\ app' = "retry"
    /\ UNCHANGED <<m_isStop, m_sock, busy, accept, handle, late, abort>>

\* bind_f and listen_f succeed; with a non-empty `fails' the sockets are
\* dropped all the same and bind returns false.
BindSucceeds ==
    LET fd == call[Main].fd IN
    /\ app = "bind_f" /\ ~busy
    /\ IF fails
       THEN /\ BeginClose(Main, fd)
            /\ app' = "retry" /\ UNCHANGED m_sock
       ELSE /\ At(Main, "ret")
            /\ os' = [os EXCEPT ![fd].kind = "listen"]
            /\ m_sock' = fd /\ app' = "bound"
            /\ UNCHANGED <<m_datas, waiter, epoll, woken, call, owned, want, disturbed, opens>>
    /\ UNCHANGED <<m_isStop, fails, busy, accept, handle, late, abort>>

\* while (!server->bind(...)) sleep(2);
BindAgain ==
    /\ app = "retry" /\ At(Main, "ret")
    /\ app' = "bind"
    /\ UNCHANGED <<calls, m_isStop, m_sock, fails, busy, accept, handle, late, abort>>

\* start(): startAccept is scheduled on the accept worker.
start ==
    /\ app = "bound"
    /\ m_isStop' = FALSE
    /\ apc' = "loop" /\ woken' = woken \cup {Acceptor}
    /\ app' = "started"
    /\ UNCHANGED <<os, m_datas, waiter, epoll, call, owned, want, disturbed, opens, m_sock,
                   fails, busy, backlog, afd, spc, cpu, handle, late, abort>>

\* stop()
stop ==
    /\ app = "started"
    /\ m_isStop' = TRUE
    /\ spc' = "cancel" /\ woken' = woken \cup {Stopper}
    /\ app' = "stopped"
    /\ UNCHANGED <<os, m_datas, waiter, epoll, call, owned, want, disturbed, opens, m_sock,
                   fails, busy, backlog, apc, afd, cpu, handle, late, abort>>

-----------------------------------------------------------------------------
(* The accept worker. *)

\* A thread of the accept worker takes a fiber that is scheduled.
Dispatch(f) ==
    /\ f \in woken /\ Cardinality(cpu) < AcceptThreads
    /\ cpu' = cpu \cup {f} /\ woken' = woken \ {f}
    /\ UNCHANGED <<os, m_datas, waiter, epoll, call, owned, want, disturbed, opens, server,
                   backlog, apc, afd, spc, handle, late, abort>>

\* while (!m_isStop) sock->accept()
AcceptLoop ==
    /\ Acceptor \in cpu /\ apc = "loop"
    /\ \/ /\ m_isStop
          /\ apc' = "done" /\ cpu' = cpu \ {Acceptor}
       \/ /\ ~m_isStop
          /\ apc' = "enter" /\ UNCHANGED cpu
    /\ UNCHANGED <<calls, server, backlog, afd, spc, handle, late, abort>>

\* accept(m_sock) up to FdManager::get: without a context accept_f is called once.
Enter ==
    /\ Acceptor \in cpu /\ apc = "enter"
    /\ afd' = m_sock
    /\ apc' = IF m_sock # NoFd /\ Managed(m_sock) THEN "try" ELSE "direct"
    /\ UNCHANGED <<calls, server, backlog, spc, cpu, handle, late, abort>>

Trying == Acceptor \in cpu /\ apc \in {"try", "direct"}

\* accept_f(afd) has no connection.  Bound: nobody connects to the sockets on which users
\* listen.
Empty(fd) == os[fd].kind = "other" \/ (os[fd].kind = "listen" /\ backlog = 0)

\* accept_f(afd) fails and accept returns: EBADF, EINVAL or EMFILE, or EAGAIN without a
\* context.
TryFails ==
    /\ Trying
    /\ \/ afd = NoFd
       \/ /\ afd # NoFd
          /\ \/ os[afd].kind \notin {"listen", "other"}
             \/ os[afd].kind = "listen" /\ backlog > 0 /\ ~Room
             \/ Empty(afd) /\ apc = "direct"
    /\ apc' = "loop" /\ afd' = NoFd
    /\ UNCHANGED <<calls, server, backlog, spc, cpu, handle, late, abort>>

\* accept_f(afd) returns a connection; FdManager learns its number.
TryAccepts ==
    /\ Trying /\ afd # NoFd
    /\ os[afd].kind = "listen" /\ backlog > 0
    /\ Opened(Acceptor, "sock", "accept")
    /\ backlog' = backlog - 1
    /\ apc' = "init" /\ afd' = NoFd
    /\ UNCHANGED <<opens, server, spc, cpu, handle, late, abort>>

\* EAGAIN
TryAgain ==
    /\ Trying /\ apc = "try" /\ afd # NoFd
    /\ Empty(afd)
    /\ apc' = "add"
    /\ UNCHANGED <<calls, server, backlog, afd, spc, cpu, handle, late, abort>>

\* The listening socket, until close() has called cancelAll for it.
Serving(fd) == fd \in owned[Main] \/ (At(Stopper, "cancel") /\ call[Stopper].fd = fd)

\* addEvent(afd, READ): epoll_ctl fails for a closed number; a second waiter for the
\* same event fails SYLAR_ASSERT, and on somebody else's listening socket there may be
\* one.  Then YieldToHold.
AddEvent ==
    /\ Acceptor \in cpu /\ apc = "add"
    /\ IF IsOpen(afd)
       THEN /\ \E theirs \in BOOLEAN :
                 /\ theirs => os[afd].kind = "other"
                 /\ abort' = (abort \/ waiter[afd] # None \/ theirs)
            /\ late' = (late \/ ~Serving(afd) \/ os[afd].kind = "other")
            /\ waiter' = [waiter EXCEPT ![afd] = Acceptor]
            /\ epoll' = epoll \cup {afd}
            /\ apc' = "held" /\ cpu' = cpu \ {Acceptor}
       ELSE /\ apc' = "loop" /\ UNCHANGED <<waiter, epoll, cpu, late, abort>>
    /\ UNCHANGED <<os, m_datas, woken, call, owned, want, disturbed, opens, server, backlog,
                   afd, spc, handle>>

\* The fiber goes on behind YieldToHold: retry with the same number.
Retry ==
    /\ Acceptor \in cpu /\ apc = "held"
    /\ apc' = "try"
    /\ UNCHANGED <<calls, server, backlog, afd, spc, cpu, handle, late, abort>>

\* Mutant: the connection is handed over without a timeout.
NoRecvTimeout(fd) == UNCHANGED m_datas /\ UNCHANGED want

\* client->setRecvTimeout(m_recvTimeout)
SetRecvTimeout(fd) ==
    /\ SetTimeout(Acceptor, fd, RecvTimeout)
    /\ want' = [want EXCEPT ![fd].timeout = RecvTimeout]

\* Socket::init, setRecvTimeout and m_worker->schedule(handleClient).  The
\* descriptor is the handler's from here on.
HandOver ==
    LET fd == call[Acceptor].fd IN
    /\ Acceptor \in cpu /\ apc = "init" /\ At(Acceptor, "ret")
    /\ m_datas[fd].isSocket
    /\ SetRecvTimeout(fd)
    /\ \E h \in Clients :
        /\ hpc[h] = "off"
        /\ hpc' = [hpc EXCEPT ![h] = "recv"]
        /\ call' = [call EXCEPT ![h].fd = fd]
        /\ owned' = [owned EXCEPT ![h] = {fd}, ![Acceptor] = @ \ {fd}]
    /\ apc' = "loop"
    /\ UNCHANGED <<os, waiter, epoll, woken, disturbed, opens, server, backlog, afd, spc, cpu,
                   inbox, timed, turns, full, late, abort>>

\* stop()'s callback: sock->cancelAll()
StopCancels ==
    /\ Stopper \in cpu /\ spc = "cancel"
    /\ CancelAll(m_sock)
    /\ spc' = "close"
    /\ UNCHANGED <<os, m_datas, call, owned, want, disturbed, opens, server, backlog, apc, afd,
                   cpu, handle, late, abort>>

\* sock->close()
StopCloses ==
    /\ Stopper \in cpu /\ spc = "close"
    /\ BeginClose(Stopper, m_sock)
    /\ spc' = "closing"
    /\ UNCHANGED <<server, backlog, apc, afd, cpu, handle, late, abort>>

\* m_sock = -1, m_socks.clear()
StopEnds ==
    /\ Stopper \in cpu /\ spc = "closing" /\ At(Stopper, "ret")
    /\ m_sock' = NoFd
    /\ spc' = "done" /\ cpu' = cpu \ {Stopper}
    /\ backlog' = 0
    /\ UNCHANGED <<calls, m_isStop, app, fails, busy, apc, afd, handle, late, abort>>

-----------------------------------------------------------------------------
(* HttpServer::handleClient, one request: every request is answered with    *)
(* `close', so the loop ends after the first response.                      *)

\* One recv of recvRequest that reads something or fails: the request is whole, and the
\* servlet has run (m_dispatch->handle); it is not worth answering or the client has hung
\* up; or more of it is to come.
Recv(h) ==
    /\ hpc[h] = "recv" /\ h \in inbox
    /\ inbox' = inbox \ {h}
    /\ \/ hpc' = [hpc EXCEPT ![h] = "send"] /\ turns' = [turns EXCEPT ![h] = 0]
       \/ hpc' = [hpc EXCEPT ![h] = "close"] /\ UNCHANGED turns
       \/ turns[h] + 1 < Turns /\ turns' = [turns EXCEPT ![h] = @ + 1] /\ UNCHANGED hpc
    /\ UNCHANGED <<calls, server, accept, timed, full, late, abort>>

\* EAGAIN: a timer if the context has a timeout, addEvent, YieldToHold.
RecvWaits(h) ==
    LET fd == call[h].fd IN
    /\ hpc[h] = "recv" /\ h \notin inbox
    /\ abort' = (abort \/ waiter[fd] # None)
    /\ waiter' = [waiter EXCEPT ![fd] = h]
    /\ epoll' = epoll \cup {fd}
    /\ timed' = IF m_datas[fd].timeout = None THEN timed \ {h} ELSE timed \cup {h}
    /\ hpc' = [hpc EXCEPT ![h] = "held"]
    /\ UNCHANGED <<os, m_datas, woken, call, owned, want, disturbed, opens, server, accept,
                   inbox, turns, full, late>>

\* The handler is scheduled again by its event.
RecvRetries(h) ==
    /\ hpc[h] = "held" /\ h \in woken
    /\ woken' = woken \ {h}
    /\ hpc' = [hpc EXCEPT ![h] = "recv"]
    /\ UNCHANGED <<os, m_datas, waiter, epoll, call, owned, want, disturbed, opens, server,
                   accept, inbox, timed, turns, full, late, abort>>

\* The timer expires: the registration ends and recvRequest returns nothing.
RecvTimesOut(h) ==
    LET fd == call[h].fd IN
    /\ hpc[h] = "held" /\ h \in timed /\ waiter[fd] = h
    /\ waiter' = [waiter EXCEPT ![fd] = None]
    /\ epoll' = epoll \ {fd}
    /\ hpc' = [hpc EXCEPT ![h] = "close"]
    /\ UNCHANGED <<os, m_datas, woken, call, owned, want, disturbed, opens, server, accept,
                   inbox, timed, turns, full, late, abort>>

\* One send of writeFixSize: the rest of the response is taken, or the client has gone;
\* or the kernel takes a part of it and has no room for more.
Send(h) ==
    /\ hpc[h] = "send" /\ h \notin full
    /\ \/ hpc' = [hpc EXCEPT ![h] = "close"] /\ UNCHANGED <<turns, full>>
       \/ /\ turns[h] + 1 < Turns /\ turns' = [turns EXCEPT ![h] = @ + 1]
          /\ full' = full \cup {h} /\ UNCHANGED hpc
    /\ UNCHANGED <<calls, server, accept, inbox, timed, late, abort>>

\* EAGAIN: addEvent(WRITE) and YieldToHold.  There is no timer, since nobody has set
\* SO_SNDTIMEO.
SendWaits(h) ==
    /\ hpc[h] = "send" /\ h \in full
    /\ hpc' = [hpc EXCEPT ![h] = "blocked"]
    /\ UNCHANGED <<calls, server, accept, inbox, timed, turns, full, late, abort>>

\* The event is reported, and the handler sends again.
SendRetries(h) ==
    /\ hpc[h] = "blocked" /\ h \notin full
    /\ hpc' = [hpc EXCEPT ![h] = "send"]
    /\ UNCHANGED <<calls, server, accept, inbox, timed, turns, full, late, abort>>

\* Mutant: the session is left open after the last response.
LeavesOpen(h) ==
    /\ hpc[h] = "close"
    /\ hpc' = [hpc EXCEPT ![h] = "closing"]
    /\ UNCHANGED <<calls, server, accept, inbox, timed, turns, full, late, abort>>

\* session->close()
Closes(h) ==
    /\ hpc[h] = "close"
    /\ BeginClose(h, call[h].fd)
    /\ hpc' = [hpc EXCEPT ![h] = "closing"]
    /\ UNCHANGED <<server, accept, inbox, timed, turns, full, late, abort>>

Ends(h) ==
    /\ hpc[h] = "closing" /\ At(h, "ret")
    /\ hpc' = [hpc EXCEPT ![h] = "done"]
    /\ UNCHANGED <<calls, server, accept, inbox, timed, turns, full, late, abort>>

-----------------------------------------------------------------------------
(* The environment. *)

\* Mutant: the registration outlives its event.
ReportKeepsWaiter(fd) ==
    /\ woken' = woken \cup ({waiter[fd]} \ {None})
    /\ UNCHANGED <<waiter, epoll>>

\* The kernel reports a descriptor: idle() schedules its waiter and removes the
\* registration (triggerEvent).
Report(fd) ==
    /\ woken' = woken \cup ({waiter[fd]} \ {None})
    /\ waiter' = [waiter EXCEPT ![fd] = None]
    /\ epoll' = epoll \ {fd}

\* Somebody connects while the listening socket is open.
Connects ==
    /\ m_sock # NoFd /\ os[m_sock].kind = "listen"
    /\ backlog + Cardinality({h \in Clients : hpc[h] # "off"})
         + (IF apc = "init" THEN 1 ELSE 0) < Cardinality(Clients)
    /\ backlog' = backlog + 1
    /\ IF m_sock \in epoll THEN Report(m_sock) ELSE UNCHANGED <<woken, waiter, epoll>>
    /\ UNCHANGED <<os, m_datas, call, owned, want, disturbed, opens, server, apc, afd, spc,
                   cpu, handle, late, abort>>

\* A client reads what has been sent, or is gone; it may as well never be either.
Takes(h) ==
    /\ h \in full /\ full' = full \ {h}
    /\ UNCHANGED <<calls, server, accept, hpc, inbox, timed, turns, late, abort>>

\* A client sends or hangs up; it may as well never do either.
Sends(h) ==
    /\ hpc[h] \in {"recv", "held"} /\ h \notin inbox
    /\ inbox' = inbox \cup {h}
    /\ IF call[h].fd \in epoll THEN Report(call[h].fd) ELSE UNCHANGED <<woken, waiter, epoll>>
    /\ UNCHANGED <<os, m_datas, call, owned, want, disturbed, opens, server, accept, hpc,
                   timed, turns, full, late, abort>>

AddressFreed ==
    /\ busy /\ busy' = FALSE
    /\ UNCHANGED <<calls, m_isStop, m_sock, app, fails, accept, handle, late, abort>>

-----------------------------------------------------------------------------
Setup == BindOpens \/ BindFails \/ BindSucceeds \/ BindAgain \/ start

Accepting == AcceptLoop \/ Enter \/ TryFails \/ TryAccepts \/ TryAgain \/ AddEvent \/ Retry \/ HandOver

Stopping == StopCancels \/ StopCloses \/ StopEnds

Handling(h) ==
    \/ Recv(h) \/ RecvWaits(h) \/ RecvRetries(h) \/ RecvTimesOut(h)
    \/ Send(h) \/ SendWaits(h) \/ SendRetries(h)
    \/ Closes(h) \/ Ends(h)

\* The threads of the accept worker run the calls of the fiber they run.
Calling(a) ==
    /\ a \in {Acceptor, Stopper} => a \in cpu
    /\ CallStep(a) /\ UNCHANGED <<server, accept, handle, late, abort>>

\* In a process without a server users make every call; beside a server they
\* open and close sockets.
OthersAct == \E a \in Users :
    /\ \/ app = "absent" /\ (UserOpens(a) \/ UserSettings(a))
       \/ app # "absent" /\ UserOpensSocket(a)
       \/ UserCloses(a)
    /\ UNCHANGED <<server, accept, handle, late, abort>>

Next ==
    \/ Setup \/ stop \/ Accepting \/ Stopping
    \/ \E f \in {Acceptor, Stopper} : Dispatch(f)
    \/ \E h \in Clients : Handling(h) \/ Sends(h) \/ Takes(h)
    \/ \E a \in Actors : Calling(a)
    \/ Connects \/ AddressFreed \/ OthersAct

Spec == Init /\ [][Next]_vars

\* Fibers that can run do run, a timer expires, and the scheduler's list is
\* first in first out, so no scheduled fiber is passed over for ever.  What the
\* clients do, what users do and when stop() is called is left open.
Fairness ==
    /\ WF_vars(Setup)
    /\ WF_vars(Accepting) /\ WF_vars(Stopping)
    /\ \A f \in {Acceptor, Stopper} : SF_vars(Dispatch(f))
    /\ \A h \in Clients : WF_vars(Handling(h))
    /\ \A a \in Actors : WF_vars(Calling(a))

FairSpec == Spec /\ Fairness

-----------------------------------------------------------------------------
\* The state has its shape, and the accept worker never runs more fibers than it has threads
\* (Scheduler::run of m_acceptWorker).
TypeOK ==
    /\ os \in [Fds -> [kind : Kinds \cup {"closed"}, nonblock : BOOLEAN]]
    /\ \A fd \in Fds : waiter[fd] \in Actors \cup {None}
    /\ woken \subseteq Actors /\ epoll \subseteq Fds
    /\ m_sock \in Fds \cup {NoFd} /\ afd \in Fds \cup {NoFd}
    /\ cpu \subseteq {Acceptor, Stopper} /\ Cardinality(cpu) <= AcceptThreads
    /\ apc \in {"off", "loop", "enter", "try", "direct", "add", "held", "init", "done"}
    /\ backlog \in 0 .. Cardinality(Clients)

\* A fiber that is registered with IOManager waits for the descriptor it means, the
\* listening socket or its own connection, and not for a number that is closed or
\* somebody else's by now, and no number is registered twice.  Only startAccept, when it
\* registers behind the cancelAll of close() (hook.cc:567) or tries again on a number that
\* is another listening socket's by then (hook.cc:310), is beyond anybody's reach.
NoStaleWaiter ==
    /\ abort => late
    /\ \A fd \in Fds : waiter[fd] # None =>
          IF waiter[fd] = Acceptor THEN late \/ Serving(fd) ELSE fd \in owned[waiter[fd]]

\* What is left of a closed descriptor does not reach the next one with its number: no
\* context in FdManager outlives it, and no waiter in IOManager but a late one.
NothingOutlivesClose == TypeOK /\ ClosedHasNoContext /\ NoStaleWaiter

\* When stop() has run its course and the handlers are through, nothing the
\* server opened is open: neither the listening socket nor a connection that was
\* accepted while stop() was under way.
NothingLeftOpen ==
    spc = "done" /\ apc = "done" /\ (\A h \in Clients : hpc[h] \in {"off", "done"})
        => \A a \in Actors \ Users : owned[a] = {}

\* stop() ends startAccept: the fiber that is on hold in accept is woken by
\* cancelAll, tries again on a number that is closed or somebody else's by then,
\* and sees m_isStop.  The one exception: it has registered late, and is on hold for
\* good on a number that is closed or another listening socket's.
StopEndsAccepting == app = "stopped" ~> (apc = "done" \/ [](apc = "held" /\ late))

\* A connection is closed whether or not its client sends anything: the receive timeout
\* that startAccept sets ends the wait for one that stays silent.  There is no such
\* timeout for the response, so a client that does not read it keeps its handler on hold
\* in send, and its connection open, for good.
EveryClientIsClosed ==
    \A h \in Clients :
        hpc[h] # "off" ~> (hpc[h] = "done" \/ [](hpc[h] = "blocked" /\ h \in full))

\* The loop around bind() ends once the address is free.
BindComesThrough == ~busy ~> app \notin {"bind", "bind_f", "retry"}
=============================================================================
