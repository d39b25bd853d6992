--------------------------- MODULE TcpServerProofs ---------------------------
(***************************************************************************)
(* Proofs about TcpServer over Descriptors, for every set of descriptor    *)
(* numbers, every number of users, hooked and not, of connections and of   *)
(* threads of the accept worker.                                           *)
(***************************************************************************)
EXTENDS TcpServer, TLAPS, FiniteSetTheorems, WellFoundedInduction

-----------------------------------------------------------------------------
(* The descriptors. *)

Timeout == Waits \cup {None, "no context", RecvTimeout}
OpeningPc == {"look", "create"}
ClosingPc == {"cancel", "del", "closef"}
HandlerPc == {"off", "recv", "held", "send", "blocked", "close", "closing", "done"}

\* The types of the variables of Descriptors.
DescTypes ==
    /\ os \in [Fds -> [kind : Kinds \cup {"closed"}, nonblock : BOOLEAN]]
    /\ m_datas \in [Fds -> [isSocket : BOOLEAN, userNonblock : BOOLEAN, timeout : Timeout]]
    /\ call \in [Actors -> [pc : {"ret"} \cup OpeningPc \cup ClosingPc, fd : Fds \cup {NoFd}]]
    /\ owned \in [Actors -> SUBSET Fds]
    /\ want \in [Fds -> [managed : BOOLEAN, nonblock : BOOLEAN, timeout : Timeout]]
    /\ disturbed \subseteq Fds

\* A number that is open is at most one actor's, or in at most one close().
Exclusive ==
    /\ \A a, b \in Actors : a # b => owned[a] \cap owned[b] = {}
    /\ \A a \in Actors : \A fd \in owned[a] : IsOpen(fd)
    /\ \A a \in Actors : call[a].pc \in OpeningPc => call[a].fd \in owned[a]
    /\ \A a \in Actors : call[a].pc \in ClosingPc =>
          /\ call[a].fd \in Fds /\ IsOpen(call[a].fd)
          /\ \A b \in Actors : call[a].fd \notin owned[b]
          /\ \A b \in Actors : b # a /\ call[b].pc \in ClosingPc => call[b].fd # call[a].fd

\* What FdManager holds of a number, through the steps of opening and closing it.
ContextSteps ==
    /\ \A fd \in Fds : Managed(fd) => m_datas[fd].isSocket
    /\ \A fd \in disturbed : Managed(fd)
    /\ \A fd \in Fds : want[fd].managed => os[fd].kind # "file"
    /\ \A a \in Actors : call[a].pc = "look" /\ call[a].fd \notin disturbed => ~Managed(call[a].fd)
    /\ \A a \in Actors : call[a].pc = "create" => ~Managed(call[a].fd)
    /\ \A a \in Actors : call[a].pc \in OpeningPc => want[call[a].fd] = Fresh(TRUE)
    /\ \A a \in Actors : call[a].pc = "closef" /\ a \in Hooked => ~Managed(call[a].fd)
    /\ \A fd \in owned[Main] : want[fd].managed

DescInv ==
    /\ DescTypes /\ Exclusive /\ ContextSteps
    /\ ManagedAsAsked /\ ClosedHasNoContext

-----------------------------------------------------------------------------
(* The server. *)

\* The types of the variables of TcpServer.
ServerTypes ==
    /\ waiter \in [Fds -> Clients \cup {Acceptor, None}]
    /\ epoll \subseteq Fds
    /\ woken \subseteq Clients \cup {Acceptor, Stopper}
    /\ m_isStop \in BOOLEAN
    /\ m_sock \in Fds \cup {NoFd} /\ afd \in Fds \cup {NoFd}
    /\ app \in {"absent", "bind", "bind_f", "retry", "bound", "started", "stopped"}
    /\ apc \in {"off", "loop", "enter", "try", "direct", "add", "held", "init", "done"}
    /\ spc \in {"off", "cancel", "close", "closing", "done"}
    /\ hpc \in [Clients -> HandlerPc]
    /\ cpu \subseteq {Acceptor, Stopper} /\ Cardinality(cpu) <= AcceptThreads
    /\ backlog \in 0 .. Cardinality(Clients)

\* How far bind, start and stop have come.
Phases ==
    /\ m_isStop <=> app # "started"
    /\ spc = "off" <=> app # "stopped"
    /\ apc = "off" <=> app \in {"absent", "bind", "bind_f", "retry", "bound"}
    /\ apc = "off" => Acceptor \notin cpu \cup woken

\* What Main owns, and the listening socket it leaves to the callback of stop().
MainOwns ==
    /\ app \in {"absent", "bind", "retry"} => owned[Main] = {}
    /\ app \in {"absent", "bind"} => call[Main].pc = "ret"
    /\ app = "bind_f" =>
          owned[Main] = {call[Main].fd} /\ call[Main].pc \in {"ret"} \cup OpeningPc
    /\ app \in {"bound", "started", "stopped"} => call[Main].pc = "ret"
    /\ app \in {"bound", "started"} \/ spc \in {"cancel", "close"} => owned[Main] = {m_sock}
    /\ spc \in {"closing", "done"} => owned[Main] = {}

\* What the two fibers of the accept worker own.
WorkerOwns ==
    /\ owned[Stopper] = {}
    /\ call[Stopper].pc # "ret" => spc = "closing" /\ call[Stopper].pc \in ClosingPc
    /\ apc = "init" => owned[Acceptor] = {call[Acceptor].fd}
    /\ apc # "init" => owned[Acceptor] = {} /\ call[Acceptor].pc = "ret"

\* What the handlers own.
HandlersOwn ==
    \A h \in Clients :
       /\ hpc[h] \in {"off", "closing", "done"} => owned[h] = {}
       /\ hpc[h] \in {"recv", "held", "send", "blocked", "close"} => owned[h] = {call[h].fd}
       /\ hpc[h] # "closing" => call[h].pc = "ret"

\* Who waits is on hold, on the number it works on, and has not been scheduled.
Waiters ==
    /\ \A fd \in Fds : waiter[fd] = Acceptor =>
          apc = "held" /\ afd = fd /\ Acceptor \notin cpu \cup woken
    /\ \A fd \in Fds : \A h \in Clients : waiter[fd] = h =>
          hpc[h] = "held" /\ call[h].fd = fd /\ h \notin woken
    /\ \A h \in Clients : h \in woken => hpc[h] = "held"
    /\ Acceptor \in cpu => Acceptor \notin woken
    /\ apc \in {"add", "held"} => afd # NoFd
    /\ apc = "enter" => \A h \in Clients : m_sock \notin owned[h]
    /\ apc \in {"try", "direct", "add", "held"} => \A h \in Clients : afd \notin owned[h]

\* What NothingOutlivesClose says of startAccept.
Abandoned ==
    /\ abort => late
    /\ \A fd \in Fds : waiter[fd] = Acceptor => late \/ Serving(fd)

ServerInv ==
    /\ DescInv
    /\ ServerTypes /\ Phases /\ MainOwns /\ WorkerOwns /\ HandlersOwn
    /\ Waiters /\ Abandoned

-----------------------------------------------------------------------------
(* The calls on descriptors, one by one. *)

\* Who is who.
LEMMA Distinct ==
    /\ Main \in Actors /\ Acceptor \in Actors /\ Stopper \in Actors
    /\ Clients \subseteq Actors /\ Users \subseteq Actors
    /\ Main # Acceptor /\ Main # Stopper /\ Acceptor # Stopper
    /\ \A h \in Clients : h # Main /\ h # Acceptor /\ h # Stopper /\ h # None /\ h \notin Users
    /\ Main \notin Users /\ Acceptor \notin Users /\ Stopper \notin Users
    /\ Main # None /\ Acceptor # None /\ Stopper # None
BY ServerAssumption, FibersAssumption

\* The kernel's lowest free number is a free number.
LEMMA LowestIsFree ==
    ASSUME Room
    PROVE  Lowest \in Fds /\ ~IsOpen(Lowest)
<1> DEFINE T == {fd \in Fds : ~IsOpen(fd)}
           R == OpToRel(<, Nat)
<1>1. T \subseteq Nat /\ T # {}
  BY ActorsAssumption DEF Room
<1>2. \E x \in T : \A y \in T : ~(<<y, x>> \in R)
  <2>1. IsWellFoundedOn(R, Nat)
    BY NatLessThanWellFounded DEF R
  <2> HIDE DEF T
  <2> QED BY <1>1, <2>1, WFMin
<1>3. \A x, y \in Nat : ~(<<y, x>> \in R) => x <= y
  BY DEF OpToRel
<1>4. \E x \in T : \A y \in T : x <= y
  <2> HIDE DEF T, R
  <2> QED BY <1>1, <1>2, <1>3
<1>5. Min(T) \in T
  <2> HIDE DEF T
  <2> QED BY <1>4 DEF Min
<1> QED BY <1>5 DEF Lowest

\* A step that leaves the descriptors alone.
desc == <<os, m_datas, call, owned, want, disturbed>>

LEMMA DescStutter == ASSUME DescInv, UNCHANGED desc PROVE DescInv'
<1> USE DEF desc
<1>1. DescTypes' /\ Exclusive'
  BY DEF DescInv, DescTypes, Exclusive, IsOpen
<1>2. ContextSteps'
  BY DEF DescInv, ContextSteps, Managed
<1>3. ManagedAsAsked' /\ ClosedHasNoContext'
  BY DEF DescInv, ManagedAsAsked, ClosedHasNoContext, Settled, Managed, IsOpen
<1> QED BY <1>1, <1>2, <1>3 DEF DescInv

\* The two sides of ManagedAsAsked for one number.
AsAsked(fd) ==
    IF want[fd].managed
    THEN /\ m_datas[fd] = [isSocket |-> TRUE, userNonblock |-> want[fd].nonblock,
                           timeout |-> want[fd].timeout]
         /\ os[fd].nonblock
    ELSE ~Managed(fd) /\ os[fd].nonblock = want[fd].nonblock

\* What DescInv says of one number that actor a alone has to do with.
LocalOK(a, fd) ==
    /\ Managed(fd) => m_datas[fd].isSocket
    /\ fd \in disturbed => Managed(fd)
    /\ want[fd].managed => os[fd].kind # "file"
    /\ call[a].pc = "look" /\ fd \notin disturbed => ~Managed(fd)
    /\ call[a].pc = "create" => ~Managed(fd)
    /\ call[a].pc \in OpeningPc => want[fd] = Fresh(TRUE)
    /\ call[a].pc = "closef" /\ a \in Hooked => ~Managed(fd)
    /\ fd \in owned[a] /\ fd \notin disturbed /\ Settled(a, fd) => AsAsked(fd)
    /\ Managed(fd) /\ fd \notin disturbed => IsOpen(fd)
    /\ a = Main /\ fd \in owned[a] => want[fd].managed

\* A step of one actor on one number that is nobody else's.
LEMMA LocalStep ==
    ASSUME DescInv, DescTypes', Exclusive', NEW a \in Actors, NEW fd \in Fds,
           \A g \in Fds : g # fd => /\ os'[g] = os[g] /\ m_datas'[g] = m_datas[g]
                                    /\ want'[g] = want[g] /\ (g \in disturbed' <=> g \in disturbed),
           \A b \in Actors : b # a => /\ call'[b] = call[b] /\ fd \notin owned'[b]
                                      /\ call[b].pc # "ret" => call[b].fd # fd,
           \A b \in Actors : \A g \in owned'[b] : g # fd => g \in owned[b],
           call[a].pc # "ret" => call[a].fd = fd,
           call'[a].pc # "ret" => call'[a].fd = fd,
           LocalOK(a, fd)'
    PROVE  DescInv'
<1>t. DescTypes /\ Exclusive /\ ContextSteps /\ ManagedAsAsked /\ ClosedHasNoContext
  BY DEF DescInv
<1>m. \A g \in Fds : g # fd => (Managed(g)' <=> Managed(g)) /\ (IsOpen(g)' <=> IsOpen(g))
  BY DEF Managed, IsOpen
<1>f. \A b \in Actors : call[b].pc # "ret" => call[b].fd \in Fds
  BY <1>t DEF DescTypes, Exclusive
<1>1. ContextSteps'
  <2>1. \A g \in Fds : Managed(g)' => m_datas'[g].isSocket
    <3>1. Managed(fd)' => m_datas'[fd].isSocket
      BY DEF LocalOK
    <3>2. \A g \in Fds : Managed(g) => m_datas[g].isSocket
      BY <1>t DEF ContextSteps
    <3> QED BY <3>1, <3>2, <1>m
  <2>2. \A g \in disturbed' : Managed(g)'
    <3>1. fd \in disturbed' => Managed(fd)'
      BY DEF LocalOK
    <3>2. \A g \in disturbed : Managed(g)
      BY <1>t DEF ContextSteps
    <3>3. disturbed' \subseteq Fds
      BY DEF DescTypes
    <3> QED BY <3>1, <3>2, <3>3, <1>m
  <2>3. \A g \in Fds : want'[g].managed => os'[g].kind # "file"
    <3>1. want'[fd].managed => os'[fd].kind # "file"
      BY DEF LocalOK
    <3> QED BY <3>1, <1>t DEF ContextSteps
  <2>4. ASSUME NEW b \in Actors
        PROVE  /\ call'[b].pc = "look" /\ call'[b].fd \notin disturbed' => ~Managed(call[b].fd)'
               /\ call'[b].pc = "create" => ~Managed(call[b].fd)'
               /\ call'[b].pc \in OpeningPc => want'[call'[b].fd] = Fresh(TRUE)
               /\ call'[b].pc = "closef" /\ b \in Hooked => ~Managed(call[b].fd)'
    <3>1. CASE b = a
      <4>1. call'[b].pc # "ret" => call'[b].fd = fd /\ (Managed(call[b].fd)' <=> Managed(fd)')
        BY <3>1 DEF Managed
      <4>2. /\ call'[a].pc = "look" /\ fd \notin disturbed' => ~Managed(fd)'
            /\ call'[a].pc = "create" => ~Managed(fd)'
            /\ call'[a].pc \in OpeningPc => want'[fd] = Fresh(TRUE)
            /\ call'[a].pc = "closef" /\ a \in Hooked => ~Managed(fd)'
        BY DEF LocalOK
      <4> QED BY <3>1, <4>1, <4>2 DEF OpeningPc
    <3>2. CASE b # a
      <4>1. call'[b].pc = call[b].pc /\ call'[b].fd = call[b].fd
        BY <3>2
      <4>2. CASE call[b].pc = "ret"
        BY <4>1, <4>2 DEF OpeningPc
      <4>3. CASE call[b].pc # "ret"
        <5>1. call[b].fd \in Fds /\ call[b].fd # fd
          BY <3>2, <4>3, <1>f
        <5>2. /\ Managed(call[b].fd)' <=> Managed(call[b].fd)
              /\ want'[call[b].fd] = want[call[b].fd]
              /\ call[b].fd \in disturbed' <=> call[b].fd \in disturbed
          BY <5>1, <4>1 DEF Managed
        <5>3. /\ call[b].pc = "look" /\ call[b].fd \notin disturbed => ~Managed(call[b].fd)
              /\ call[b].pc = "create" => ~Managed(call[b].fd)
              /\ call[b].pc \in OpeningPc => want[call[b].fd] = Fresh(TRUE)
              /\ call[b].pc = "closef" /\ b \in Hooked => ~Managed(call[b].fd)
          BY <1>t DEF ContextSteps
        <5> QED BY <4>1, <5>2, <5>3
      <4> QED BY <4>2, <4>3
    <3> QED BY <3>1, <3>2
  <2>5. \A g \in owned'[Main] : want'[g].managed
    <3> SUFFICES ASSUME NEW g \in owned'[Main] PROVE want'[g].managed
      OBVIOUS
    <3>1. CASE g = fd
      BY <3>1, Distinct DEF LocalOK
    <3>2. CASE g # fd
      <4>1. g \in owned[Main] /\ g \in Fds
        BY <3>2, Distinct DEF DescTypes
      <4> QED BY <3>2, <4>1, <1>t DEF ContextSteps
    <3> QED BY <3>1, <3>2
  <2> QED BY <2>1, <2>2, <2>3, <2>4, <2>5 DEF ContextSteps
<1>2. ManagedAsAsked'
  <2> SUFFICES ASSUME NEW b \in Actors, NEW g \in owned'[b], g \notin disturbed', Settled(b, g)'
               PROVE  AsAsked(g)'
    BY DEF ManagedAsAsked, AsAsked
  <2>1. CASE g = fd
    <3>1. b = a
      BY <2>1
    <3> QED BY <2>1, <3>1 DEF LocalOK
  <2>2. CASE g # fd
    <3>1. g \in owned[b] /\ g \in Fds
      BY <2>2 DEF DescTypes
    <3>2. ~(call[b].fd = g /\ call[b].pc # "ret")
      BY <2>2, <3>1 DEF Settled
    <3>3. AsAsked(g)
      BY <1>t, <2>2, <3>1, <3>2 DEF ManagedAsAsked, AsAsked, Settled
    <3> QED BY <2>2, <3>1, <3>3 DEF AsAsked, Managed
  <2> QED BY <2>1, <2>2
<1>3. ClosedHasNoContext'
  <2>1. Managed(fd)' /\ fd \notin disturbed' => IsOpen(fd)'
    BY DEF LocalOK
  <2> QED BY <1>t, <1>m, <2>1 DEF ClosedHasNoContext
<1> QED BY <1>1, <1>2, <1>3 DEF DescInv

\* socket, accept and open: nobody has to do with a number that is free.
LEMMA OpenedDesc ==
    ASSUME DescInv, NEW a \in Actors, NEW kind \in Kinds, NEW how, Opened(a, kind, how),
           how \in {"socket", "accept"} => kind # "file", a = Main => how = "socket"
    PROVE  DescInv'
<1> DEFINE managed == how = "accept" \/ (how = "socket" /\ a \in Hooked)
<1>a. PICK fd \in Fds : fd = Lowest /\ ~IsOpen(fd)
  BY LowestIsFree DEF Opened
<1>b. /\ call[a].pc = "ret"
      /\ os' = [os EXCEPT ![fd] = [kind |-> kind, nonblock |-> FALSE]]
      /\ call' = [call EXCEPT ![a] = [pc |-> IF managed THEN "look" ELSE "ret", fd |-> fd]]
      /\ owned' = [owned EXCEPT ![a] = @ \cup {fd}]
      /\ want' = [want EXCEPT ![fd] = Fresh(managed)]
      /\ UNCHANGED <<m_datas, disturbed>>
  BY <1>a DEF Opened, At
<1>t. DescTypes
  BY DEF DescInv
<1>n. managed \in BOOLEAN
  OBVIOUS
<1>m. (managed => kind # "file") /\ (a = Main => managed)
  BY FibersAssumption
<1> HIDE DEF managed
<1>c. /\ os'[fd] = [kind |-> kind, nonblock |-> FALSE]
      /\ \A g \in Fds : g # fd => os'[g] = os[g] /\ want'[g] = want[g]
      /\ want'[fd] = Fresh(managed)
      /\ call'[a] = [pc |-> IF managed THEN "look" ELSE "ret", fd |-> fd]
      /\ \A b \in Actors : b # a => call'[b] = call[b] /\ owned'[b] = owned[b]
      /\ owned'[a] = owned[a] \cup {fd}
  BY <1>b, <1>t DEF DescTypes
<1>d. /\ \A b \in Actors : fd \notin owned[b]
      /\ \A b \in Actors : call[b].pc # "ret" => call[b].fd # fd
      /\ fd \notin disturbed => ~Managed(fd)
      /\ IsOpen(fd)' /\ \A g \in Fds : g # fd => (IsOpen(g)' <=> IsOpen(g))
      /\ \A g \in Fds : Managed(g)' <=> Managed(g)
  <2>1. \A b \in Actors : fd \notin owned[b]
    BY <1>a DEF DescInv, Exclusive
  <2>2. ASSUME NEW b \in Actors, call[b].pc # "ret" PROVE call[b].fd # fd
    <3>1. call[b].pc \in OpeningPc \/ call[b].pc \in ClosingPc
      BY <2>2, <1>t DEF DescTypes
    <3> QED BY <3>1, <2>1, <1>a DEF DescInv, Exclusive
  <2>3. fd \notin disturbed => ~Managed(fd)
    BY <1>a DEF DescInv, ClosedHasNoContext
  <2>4. IsOpen(fd)' /\ \A g \in Fds : g # fd => (IsOpen(g)' <=> IsOpen(g))
    BY <1>c DEF IsOpen, Kinds
  <2>5. \A g \in Fds : Managed(g)' <=> Managed(g)
    BY <1>b DEF Managed
  <2> QED BY <2>1, <2>2, <2>3, <2>4, <2>5
<1>1. DescTypes'
  <2>1. Fresh(managed) \in [managed : BOOLEAN, nonblock : BOOLEAN, timeout : Timeout]
    BY <1>n DEF Fresh, Timeout
  <2>2. /\ os' \in [Fds -> [kind : Kinds \cup {"closed"}, nonblock : BOOLEAN]]
        /\ want' \in [Fds -> [managed : BOOLEAN, nonblock : BOOLEAN, timeout : Timeout]]
    BY <1>b, <1>t, <2>1 DEF DescTypes
  <2>3. call' \in [Actors -> [pc : {"ret"} \cup OpeningPc \cup ClosingPc, fd : Fds \cup {NoFd}]]
    BY <1>b, <1>t DEF DescTypes, OpeningPc
  <2> QED BY <1>b, <1>t, <2>2, <2>3 DEF DescTypes
<1>p. /\ call'[a].pc \in {"look", "ret"} /\ call'[a].fd = fd
      /\ call'[a].pc = "look" => managed
  BY <1>c
<1>2. Exclusive'
  <2>1. Exclusive
    BY DEF DescInv
  <2>2. \A b, c \in Actors : b # c => owned'[b] \cap owned'[c] = {}
    BY <2>1, <1>c, <1>d DEF Exclusive
  <2>3. \A b \in Actors : \A g \in owned'[b] : IsOpen(g)'
    BY <2>1, <1>c, <1>d, <1>t DEF Exclusive, DescTypes
  <2>4. \A b \in Actors : call'[b].pc \in OpeningPc => call'[b].fd \in owned'[b]
    BY <2>1, <1>c, <1>p DEF Exclusive
  <2>5. ASSUME NEW b \in Actors, call'[b].pc \in ClosingPc
        PROVE  /\ call'[b].fd \in Fds /\ IsOpen(call[b].fd)'
               /\ \A c \in Actors : call'[b].fd \notin owned'[c]
               /\ \A c \in Actors : c # b /\ call'[c].pc \in ClosingPc => call'[c].fd # call'[b].fd
    <3>1. b # a /\ call'[b] = call[b] /\ call[b].fd # fd
      BY <2>5, <1>c, <1>d, <1>p DEF ClosingPc
    <3>2. \A c \in Actors : call'[c].pc \in ClosingPc => c # a
      BY <1>p DEF ClosingPc
    <3>3. IsOpen(call[b].fd)'
      BY <2>1, <2>5, <3>1, <1>c DEF Exclusive, IsOpen
    <3> QED BY <2>1, <2>5, <3>1, <3>2, <3>3, <1>c, <1>d DEF Exclusive
  <2> QED BY <2>2, <2>3, <2>4, <2>5 DEF Exclusive
<1>3. LocalOK(a, fd)'
  <2>1. m_datas'[fd] = m_datas[fd] /\ (fd \in disturbed' <=> fd \in disturbed)
    BY <1>b
  <2>2. /\ Managed(fd)' => m_datas'[fd].isSocket
        /\ fd \in disturbed' => Managed(fd)'
        /\ fd \notin disturbed' => ~Managed(fd)'
    BY <2>1, <1>d DEF DescInv, ContextSteps
  <2>3. want'[fd].managed => os'[fd].kind # "file"
    BY <1>c, <1>m DEF Fresh
  <2>4. call'[a].pc \in OpeningPc => want'[fd] = Fresh(TRUE)
    BY <1>c, <1>p DEF OpeningPc
  <2>5. Settled(a, fd)' /\ fd \notin disturbed' => AsAsked(fd)'
    <3> SUFFICES ASSUME Settled(a, fd)', fd \notin disturbed' PROVE AsAsked(fd)'
      OBVIOUS
    <3>1. ~managed
      BY <1>c, <1>n DEF Settled
    <3> QED BY <3>1, <2>2, <1>c DEF Fresh, AsAsked
  <2>6. a = Main => want'[fd].managed
    BY <1>c, <1>m DEF Fresh
  <2> QED BY <1>p, <2>2, <2>3, <2>4, <2>5, <2>6, <1>d DEF LocalOK
<1> QED BY <1>1, <1>2, <1>3, <1>b, <1>c, <1>d, <1>p, LocalStep

\* The number of a call is its caller's alone.
LEMMA CallIsAlone ==
    ASSUME DescInv, NEW a \in Actors, call[a].pc # "ret"
    PROVE  /\ call[a].fd \in Fds /\ IsOpen(call[a].fd)
           /\ \A b \in Actors : b # a => call[a].fd \notin owned[b]
           /\ \A b \in Actors : b # a /\ call[b].pc # "ret" => call[b].fd # call[a].fd
<1>1. DescTypes /\ Exclusive
  BY DEF DescInv
<1>2. \A b \in Actors : call[b].pc = "ret" \/ call[b].pc \in OpeningPc \/ call[b].pc \in ClosingPc
  BY <1>1 DEF DescTypes
<1>3. CASE call[a].pc \in OpeningPc
  <2>1. call[a].fd \in owned[a] /\ call[a].fd \in Fds /\ IsOpen(call[a].fd)
    BY <1>1, <1>3 DEF DescTypes, Exclusive
  <2> QED BY <1>1, <1>2, <2>1 DEF Exclusive
<1>4. CASE call[a].pc \in ClosingPc
  BY <1>1, <1>2, <1>4 DEF Exclusive
<1> QED BY <1>2, <1>3, <1>4

\* The owner of a number is alone with it.
LEMMA OwnerIsAlone ==
    ASSUME DescInv, NEW a \in Actors, NEW fd \in owned[a]
    PROVE  /\ fd \in Fds /\ IsOpen(fd)
           /\ \A b \in Actors : b # a => fd \notin owned[b]
           /\ \A b \in Actors : b # a /\ call[b].pc # "ret" => call[b].fd # fd
<1>1. DescTypes /\ Exclusive
  BY DEF DescInv
<1>2. \A b \in Actors : call[b].pc = "ret" \/ call[b].pc \in OpeningPc \/ call[b].pc \in ClosingPc
  BY <1>1 DEF DescTypes
<1> QED BY <1>1, <1>2 DEF Exclusive, DescTypes

\* Exclusive when nothing changes hands and nothing opens or closes.
LEMMA SameHands ==
    ASSUME DescInv, UNCHANGED owned,
           \A g \in Fds : IsOpen(g)' <=> IsOpen(g),
           \A b \in Actors : /\ call'[b].fd = call[b].fd
                             /\ call'[b].pc \in OpeningPc => call[b].pc \in OpeningPc
                             /\ call'[b].pc \in ClosingPc => call[b].pc \in ClosingPc
    PROVE  Exclusive'
<1>1. DescTypes /\ Exclusive
  BY DEF DescInv
<1>2. \A b, c \in Actors : b # c => owned'[b] \cap owned'[c] = {}
  BY <1>1 DEF Exclusive
<1>3. \A b \in Actors : \A g \in owned'[b] : IsOpen(g)'
  BY <1>1 DEF Exclusive, DescTypes
<1>4. \A b \in Actors : call'[b].pc \in OpeningPc => call'[b].fd \in owned'[b]
  BY <1>1 DEF Exclusive
<1>5. ASSUME NEW b \in Actors, call'[b].pc \in ClosingPc
      PROVE  /\ call'[b].fd \in Fds /\ IsOpen(call[b].fd)'
             /\ \A c \in Actors : call'[b].fd \notin owned'[c]
             /\ \A c \in Actors : c # b /\ call'[c].pc \in ClosingPc => call'[c].fd # call'[b].fd
  <2>1. call[b].pc \in ClosingPc /\ call'[b].fd = call[b].fd
    BY <1>5
  <2>2. call[b].fd \in Fds /\ IsOpen(call[b].fd)
    BY <1>1, <2>1 DEF Exclusive
  <2>3. IsOpen(call[b].fd)'
    BY <2>1, <2>2 DEF IsOpen
  <2> QED BY <1>1, <2>1, <2>2, <2>3 DEF Exclusive
<1> QED BY <1>2, <1>3, <1>4, <1>5 DEF Exclusive

\* FdManager::get(fd, true): the look, and the context made for a new socket.
LEMMA LookDesc == ASSUME DescInv, NEW a \in Actors, Look(a) PROVE DescInv'
<1>t. DescTypes /\ Exclusive /\ ContextSteps /\ ManagedAsAsked /\ ClosedHasNoContext
  BY DEF DescInv
<1>0. PICK fd \in Fds : fd = call[a].fd
  BY CallIsAlone DEF Look, At
<1>1. /\ call[a].pc = "look" /\ UNCHANGED <<os, m_datas, owned, want, disturbed>>
      /\ call' = [call EXCEPT ![a].pc = IF Managed(fd) THEN "ret" ELSE "create"]
  BY <1>0 DEF Look, At, Goto
<1>2. /\ call'[a].pc = (IF Managed(fd) THEN "ret" ELSE "create") /\ call'[a].fd = fd
      /\ \A b \in Actors : b # a => call'[b] = call[b]
  BY <1>0, <1>1, <1>t DEF DescTypes
<1>3. DescTypes'
  BY <1>1, <1>t DEF DescTypes, OpeningPc
<1>4. Exclusive'
  BY <1>0, <1>1, <1>2, SameHands DEF IsOpen, OpeningPc, ClosingPc
<1>5. /\ \A b \in Actors : b # a => fd \notin owned[b]
      /\ \A b \in Actors : b # a /\ call[b].pc # "ret" => call[b].fd # fd
  BY <1>0, <1>1, CallIsAlone
<1>6. LocalOK(a, fd)'
  <2>1. (Managed(fd)' <=> Managed(fd)) /\ (IsOpen(fd)' <=> IsOpen(fd))
    BY <1>1 DEF Managed, IsOpen
  <2>2. /\ Managed(fd) => m_datas[fd].isSocket
        /\ fd \in disturbed => Managed(fd)
        /\ want[fd].managed => os[fd].kind # "file"
        /\ want[fd] = Fresh(TRUE)
        /\ fd \notin disturbed => ~Managed(fd)
    BY <1>0, <1>1, <1>t DEF ContextSteps, OpeningPc
  <2>3. call'[a].pc = "ret" => fd \in disturbed'
    BY <1>1, <1>2, <2>2
  <2>4. call'[a].pc \in {"ret", "create"} /\ (call'[a].pc = "create" => ~Managed(fd))
    BY <1>2
  <2>5. fd \notin disturbed' => ~Settled(a, fd)'
    BY <1>2, <2>3 DEF Settled
  <2>6. want'[fd].managed
    BY <1>1, <2>2 DEF Fresh
  <2> QED BY <1>1, <2>1, <2>2, <2>4, <2>5, <2>6 DEF LocalOK
<1> QED BY <1>0, <1>1, <1>2, <1>3, <1>4, <1>5, <1>6, LocalStep

LEMMA CreateDesc == ASSUME DescInv, NEW a \in Actors, Create(a) PROVE DescInv'
<1>t. DescTypes /\ Exclusive /\ ContextSteps /\ ManagedAsAsked /\ ClosedHasNoContext
  BY DEF DescInv
<1>0. PICK fd \in Fds : fd = call[a].fd /\ IsOpen(fd)
  BY CallIsAlone DEF Create, At
<1>w. want[fd] = Fresh(TRUE) /\ fd \notin disturbed /\ os[fd].kind # "file"
  <2>1. call[a].pc = "create"
    BY DEF Create, At
  <2>2. want[fd] = Fresh(TRUE) /\ ~Managed(fd)
    BY <1>0, <1>t, <2>1 DEF ContextSteps, OpeningPc
  <2>3. fd \notin disturbed
    BY <2>2, <1>t DEF ContextSteps
  <2>4. os[fd].kind # "file"
    BY <2>2, <1>t DEF ContextSteps, Fresh
  <2> QED BY <2>2, <2>3, <2>4
<1>1. /\ call[a].pc = "create" /\ UNCHANGED <<owned, want, disturbed>>
      /\ m_datas' = [m_datas EXCEPT ![fd] =
                       [isSocket |-> TRUE, userNonblock |-> FALSE, timeout |-> None]]
      /\ os' = [os EXCEPT ![fd].nonblock = TRUE]
      /\ call' = [call EXCEPT ![a].pc = "ret"]
  <2>1. FdCtx(fd) = [isSocket |-> TRUE, userNonblock |-> FALSE, timeout |-> None]
    BY <1>w DEF FdCtx
  <2>2. os' = [os EXCEPT ![fd].nonblock = @ \/ os[fd].kind # "file"]
    BY <1>0 DEF Create
  <2>3. os' = [os EXCEPT ![fd].nonblock = TRUE]
    BY <2>2, <1>w
  <2> QED BY <1>0, <2>1, <2>3 DEF Create, At, Goto
<1>2. /\ call'[a].pc = "ret" /\ call'[a].fd = fd
      /\ \A b \in Actors : b # a => call'[b] = call[b]
      /\ m_datas'[fd] = [isSocket |-> TRUE, userNonblock |-> FALSE, timeout |-> None]
      /\ os'[fd].nonblock = TRUE /\ os'[fd].kind = os[fd].kind
      /\ \A g \in Fds : g # fd => os'[g] = os[g] /\ m_datas'[g] = m_datas[g]
  BY <1>0, <1>1, <1>t DEF DescTypes
<1>3. DescTypes'
  <2>1. m_datas' \in [Fds -> [isSocket : BOOLEAN, userNonblock : BOOLEAN, timeout : Timeout]]
    BY <1>1, <1>t DEF DescTypes, Timeout
  <2>2. os' \in [Fds -> [kind : Kinds \cup {"closed"}, nonblock : BOOLEAN]]
    BY <1>1, <1>t DEF DescTypes
  <2>3. call' \in [Actors -> [pc : {"ret"} \cup OpeningPc \cup ClosingPc, fd : Fds \cup {NoFd}]]
    BY <1>1, <1>t DEF DescTypes
  <2> QED BY <1>1, <1>t, <2>1, <2>2, <2>3 DEF DescTypes
<1>o. \A g \in Fds : IsOpen(g)' <=> IsOpen(g)
  BY <1>2 DEF IsOpen
<1>4. Exclusive'
  BY <1>0, <1>1, <1>2, <1>o, SameHands DEF OpeningPc, ClosingPc
<1>5. /\ \A b \in Actors : b # a => fd \notin owned[b]
      /\ \A b \in Actors : b # a /\ call[b].pc # "ret" => call[b].fd # fd
  BY <1>0, <1>1, CallIsAlone
<1>6. LocalOK(a, fd)'
  <2>o. IsOpen(fd)'
    BY <1>0, <1>o
  <2>s. m_datas'[fd].isSocket /\ ~NoCtx.isSocket
    BY <1>2 DEF NoCtx
  <2>1. Managed(fd)' /\ m_datas'[fd].isSocket
    BY <2>s DEF Managed
  <2>2. AsAsked(fd)'
    BY <1>1, <1>2, <1>w DEF AsAsked, Fresh
  <2>3. want'[fd].managed
    BY <1>1, <1>w DEF Fresh
  <2> QED BY <1>1, <1>2, <1>w, <2>o, <2>1, <2>2, <2>3 DEF LocalOK, OpeningPc
<1> QED BY <1>0, <1>1, <1>2, <1>3, <1>4, <1>5, <1>6, LocalStep


\* close(), step by step.
LEMMA CancelDesc == ASSUME DescInv, NEW a \in Actors, Cancel(a) PROVE DescInv'
<1>t. DescTypes /\ Exclusive /\ ContextSteps /\ ManagedAsAsked /\ ClosedHasNoContext
  BY DEF DescInv
<1>0. PICK fd \in Fds : fd = call[a].fd /\ IsOpen(fd)
  BY CallIsAlone DEF Cancel, At
<1>1. /\ call[a].pc = "cancel" /\ UNCHANGED <<os, m_datas, owned, want, disturbed>>
      /\ call' = [call EXCEPT ![a].pc = "del"]
  BY DEF Cancel, At, Goto
<1>2. /\ call'[a].pc = "del" /\ call'[a].fd = fd
      /\ \A b \in Actors : b # a => call'[b] = call[b]
  BY <1>0, <1>1, <1>t DEF DescTypes
<1>3. DescTypes'
  BY <1>1, <1>t DEF DescTypes, ClosingPc
<1>o. \A g \in Fds : IsOpen(g)' <=> IsOpen(g)
  BY <1>1 DEF IsOpen
<1>4. Exclusive'
  BY <1>0, <1>1, <1>2, <1>o, SameHands DEF OpeningPc, ClosingPc
<1>5. /\ \A b \in Actors : b # a => fd \notin owned[b]
      /\ \A b \in Actors : b # a /\ call[b].pc # "ret" => call[b].fd # fd
      /\ fd \notin owned[a]
  BY <1>0, <1>1, <1>t, CallIsAlone DEF Exclusive, ClosingPc
<1>6. LocalOK(a, fd)'
  <2>1. Managed(fd)' <=> Managed(fd)
    BY <1>1 DEF Managed
  <2>2. /\ Managed(fd) => m_datas[fd].isSocket
        /\ fd \in disturbed => Managed(fd)
        /\ want[fd].managed => os[fd].kind # "file"
    BY <1>t DEF ContextSteps
  <2>3. IsOpen(fd)' /\ fd \notin owned'[a]
    BY <1>0, <1>1, <1>5, <1>o
  <2> QED BY <1>1, <1>2, <2>1, <2>2, <2>3 DEF LocalOK, OpeningPc
<1> QED BY <1>0, <1>1, <1>2, <1>3, <1>4, <1>5, <1>6, LocalStep

LEMMA DelDesc == ASSUME DescInv, NEW a \in Actors, Del(a) PROVE DescInv'
<1>t. DescTypes /\ Exclusive /\ ContextSteps /\ ManagedAsAsked /\ ClosedHasNoContext
  BY DEF DescInv
<1>0. PICK fd \in Fds : fd = call[a].fd /\ IsOpen(fd)
  BY CallIsAlone DEF Del, At
<1>1. /\ call[a].pc = "del" /\ UNCHANGED <<os, owned, want>>
      /\ m_datas' = [m_datas EXCEPT ![fd] = NoCtx]
      /\ disturbed' = disturbed \ {fd}
      /\ call' = [call EXCEPT ![a].pc = "closef"]
  BY <1>0 DEF Del, At, Goto
<1>2. /\ call'[a].pc = "closef" /\ call'[a].fd = fd
      /\ \A b \in Actors : b # a => call'[b] = call[b]
      /\ m_datas'[fd] = NoCtx
      /\ \A g \in Fds : g # fd => m_datas'[g] = m_datas[g]
  BY <1>0, <1>1, <1>t DEF DescTypes
<1>3. DescTypes'
  <2>1. NoCtx \in [isSocket : BOOLEAN, userNonblock : BOOLEAN, timeout : Timeout]
    BY DEF NoCtx, Timeout
  <2>2. m_datas' \in [Fds -> [isSocket : BOOLEAN, userNonblock : BOOLEAN, timeout : Timeout]]
    BY <1>1, <1>t, <2>1 DEF DescTypes
  <2>3. call' \in [Actors -> [pc : {"ret"} \cup OpeningPc \cup ClosingPc, fd : Fds \cup {NoFd}]]
    BY <1>1, <1>t DEF DescTypes, ClosingPc
  <2> QED BY <1>1, <1>t, <2>2, <2>3 DEF DescTypes
<1>o. \A g \in Fds : IsOpen(g)' <=> IsOpen(g)
  BY <1>1 DEF IsOpen
<1>4. Exclusive'
  BY <1>0, <1>1, <1>2, <1>o, SameHands DEF OpeningPc, ClosingPc
<1>5. /\ \A b \in Actors : b # a => fd \notin owned[b]
      /\ \A b \in Actors : b # a /\ call[b].pc # "ret" => call[b].fd # fd
      /\ fd \notin owned[a]
  BY <1>0, <1>1, <1>t, CallIsAlone DEF Exclusive, ClosingPc
<1>6. LocalOK(a, fd)'
  <2>1. ~Managed(fd)' /\ fd \notin disturbed' /\ fd \notin owned'[a]
    BY <1>1, <1>2, <1>5 DEF Managed
  <2>2. want'[fd].managed => os'[fd].kind # "file"
    BY <1>1, <1>t DEF ContextSteps
  <2> QED BY <1>2, <2>1, <2>2 DEF LocalOK, OpeningPc
<1> QED BY <1>0, <1>1, <1>2, <1>3, <1>4, <1>5, <1>6, LocalStep

LEMMA CloseFDesc == ASSUME DescInv, NEW a \in Actors, CloseF(a) PROVE DescInv'
<1>t. DescTypes /\ Exclusive /\ ContextSteps /\ ManagedAsAsked /\ ClosedHasNoContext
  BY DEF DescInv
<1>0. PICK fd \in Fds : fd = call[a].fd /\ IsOpen(fd)
  BY CallIsAlone DEF CloseF, At
<1>1. /\ call[a].pc = "closef" /\ UNCHANGED <<m_datas, owned>>
      /\ os' = [os EXCEPT ![fd] = Closed]
      /\ disturbed' = IF a \notin Hooked /\ Managed(fd) THEN disturbed \cup {fd} ELSE disturbed
      /\ call' = [call EXCEPT ![a] = [pc |-> "ret", fd |-> NoFd]]
      /\ want' = [want EXCEPT ![fd] = Fresh(FALSE)]
  BY <1>0 DEF CloseF, At
<1>2. /\ call'[a].pc = "ret" /\ call'[a].fd = NoFd
      /\ \A b \in Actors : b # a => call'[b] = call[b]
      /\ os'[fd] = Closed /\ want'[fd] = Fresh(FALSE)
      /\ \A g \in Fds : g # fd => os'[g] = os[g] /\ want'[g] = want[g]
  BY <1>0, <1>1, <1>t DEF DescTypes
<1>3. DescTypes'
  <2>1. /\ Fresh(FALSE) \in [managed : BOOLEAN, nonblock : BOOLEAN, timeout : Timeout]
        /\ Closed \in [kind : Kinds \cup {"closed"}, nonblock : BOOLEAN]
    BY DEF Fresh, Timeout, Closed
  <2>2. /\ os' \in [Fds -> [kind : Kinds \cup {"closed"}, nonblock : BOOLEAN]]
        /\ want' \in [Fds -> [managed : BOOLEAN, nonblock : BOOLEAN, timeout : Timeout]]
    BY <1>1, <1>t, <2>1 DEF DescTypes
  <2>3. call' \in [Actors -> [pc : {"ret"} \cup OpeningPc \cup ClosingPc, fd : Fds \cup {NoFd}]]
    BY <1>1, <1>t DEF DescTypes
  <2>4. disturbed' \subseteq Fds
    BY <1>1, <1>t DEF DescTypes
  <2> QED BY <1>1, <1>t, <2>2, <2>3, <2>4 DEF DescTypes
<1>5. /\ \A b \in Actors : fd \notin owned[b]
      /\ \A b \in Actors : b # a /\ call[b].pc # "ret" => call[b].fd # fd
  BY <1>0, <1>1, <1>t, CallIsAlone DEF Exclusive, ClosingPc
<1>o. \A g \in Fds : g # fd => (IsOpen(g)' <=> IsOpen(g))
  BY <1>2 DEF IsOpen
<1>4. Exclusive'
  <2>2. \A b, c \in Actors : b # c => owned'[b] \cap owned'[c] = {}
    BY <1>1, <1>t DEF Exclusive
  <2>3. \A b \in Actors : \A g \in owned'[b] : IsOpen(g)'
    BY <1>1, <1>5, <1>o, <1>t DEF Exclusive, DescTypes
  <2>4. \A b \in Actors : call'[b].pc \in OpeningPc => call'[b].fd \in owned'[b]
    BY <1>1, <1>2, <1>t DEF Exclusive, OpeningPc
  <2>5. ASSUME NEW b \in Actors, call'[b].pc \in ClosingPc
        PROVE  /\ call'[b].fd \in Fds /\ IsOpen(call[b].fd)'
               /\ \A c \in Actors : call'[b].fd \notin owned'[c]
               /\ \A c \in Actors : c # b /\ call'[c].pc \in ClosingPc => call'[c].fd # call'[b].fd
    <3>1. b # a /\ call'[b] = call[b] /\ call[b].fd # fd
      BY <2>5, <1>2, <1>5 DEF ClosingPc
    <3>2. \A c \in Actors : call'[c].pc \in ClosingPc => c # a
      BY <1>2 DEF ClosingPc
    <3>3. call[b].fd \in Fds /\ IsOpen(call[b].fd)
      BY <2>5, <3>1, <1>t DEF Exclusive
    <3>4. IsOpen(call[b].fd)'
      BY <3>1, <3>3, <1>2 DEF IsOpen
    <3> QED BY <2>5, <3>1, <3>2, <3>3, <3>4, <1>1, <1>2, <1>t DEF Exclusive
  <2> QED BY <2>2, <2>3, <2>4, <2>5 DEF Exclusive
<1>6. LocalOK(a, fd)'
  <2>1. Managed(fd)' <=> Managed(fd)
    BY <1>1 DEF Managed
  <2>2. Managed(fd) => m_datas[fd].isSocket /\ a \notin Hooked
    BY <1>0, <1>1, <1>t DEF ContextSteps
  <2>3. fd \in disturbed' <=> Managed(fd)
    BY <1>1, <2>2, <1>t DEF ContextSteps
  <2>4. ~want'[fd].managed
    BY <1>2 DEF Fresh
  <2>5. fd \notin owned'[a] /\ m_datas' = m_datas
    BY <1>1, <1>5
  <2> QED BY <1>2, <2>1, <2>2, <2>3, <2>4, <2>5 DEF LocalOK, OpeningPc
<1> QED BY <1>0, <1>1, <1>2, <1>3, <1>4, <1>5, <1>6, LocalStep

\* The start of close() by the owner, or by another fiber in its place: the
\* number leaves everybody's hands.
LEMMA BeginCloseDesc ==
    ASSUME DescInv, NEW a \in Actors, NEW o \in Actors, NEW fd \in owned[o],
           call[o].pc # "ret" => call[o].fd # fd, BeginClose(a, fd)
    PROVE  DescInv'
<1>t. DescTypes /\ Exclusive /\ ContextSteps /\ ManagedAsAsked /\ ClosedHasNoContext
  BY DEF DescInv
<1>0. /\ fd \in Fds /\ IsOpen(fd)
      /\ \A b \in Actors : call[b].pc # "ret" => call[b].fd # fd
  BY OwnerIsAlone
<1> DEFINE pc == IF a \in Hooked /\ Managed(fd) THEN "cancel" ELSE "closef"
<1>1. /\ call[a].pc = "ret" /\ UNCHANGED <<os, m_datas, want, disturbed>>
      /\ call' = [call EXCEPT ![a] = [pc |-> pc, fd |-> fd]]
      /\ owned' = [b \in Actors |-> owned[b] \ {fd}]
  BY DEF BeginClose, At
<1>p. pc \in ClosingPc /\ (pc = "closef" /\ a \in Hooked => ~Managed(fd))
  BY DEF ClosingPc
<1> HIDE DEF pc
<1>2. /\ call'[a] = [pc |-> pc, fd |-> fd]
      /\ \A b \in Actors : b # a => call'[b] = call[b]
      /\ \A b \in Actors : owned'[b] = owned[b] \ {fd}
  BY <1>1, <1>t DEF DescTypes
<1>3. DescTypes'
  <2>1. call' \in [Actors -> [pc : {"ret"} \cup OpeningPc \cup ClosingPc, fd : Fds \cup {NoFd}]]
    BY <1>0, <1>1, <1>p, <1>t DEF DescTypes
  <2>2. owned' \in [Actors -> SUBSET Fds]
    BY <1>1, <1>t DEF DescTypes
  <2> QED BY <1>1, <1>t, <2>1, <2>2 DEF DescTypes
<1>o. \A g \in Fds : IsOpen(g)' <=> IsOpen(g)
  BY <1>1 DEF IsOpen
<1>q. call'[a].pc = pc /\ call'[a].fd = fd
  BY <1>2
<1>4. Exclusive'
  <2>2. \A b, c \in Actors : b # c => owned'[b] \cap owned'[c] = {}
    BY <1>2, <1>t DEF Exclusive
  <2>3. \A b \in Actors : \A g \in owned'[b] : IsOpen(g)'
    BY <1>2, <1>o, <1>t DEF Exclusive, DescTypes
  <2>4. \A b \in Actors : call'[b].pc \in OpeningPc => call'[b].fd \in owned'[b]
    <3> SUFFICES ASSUME NEW b \in Actors, call'[b].pc \in OpeningPc PROVE call'[b].fd \in owned'[b]
      OBVIOUS
    <3>1. b # a
      BY <1>q, <1>p DEF OpeningPc, ClosingPc
    <3>2. call[b].fd \in owned[b] /\ call[b].fd # fd
      BY <3>1, <1>2, <1>t, <1>0 DEF Exclusive, OpeningPc
    <3> QED BY <3>1, <3>2, <1>2
  <2>5. ASSUME NEW b \in Actors, call'[b].pc \in ClosingPc
        PROVE  /\ call'[b].fd \in Fds /\ IsOpen(call[b].fd)'
               /\ \A c \in Actors : call'[b].fd \notin owned'[c]
               /\ \A c \in Actors : c # b /\ call'[c].pc \in ClosingPc => call'[c].fd # call'[b].fd
    <3>1. CASE b = a
      <4>1. \A c \in Actors : c # a /\ call'[c].pc \in ClosingPc => call'[c].fd # fd
        BY <1>2, <1>0 DEF ClosingPc
      <4>2. IsOpen(call[b].fd)'
        BY <3>1, <1>q, <1>0, <1>1 DEF IsOpen
      <4> QED BY <3>1, <4>1, <4>2, <1>q, <1>0, <1>2
    <3>2. CASE b # a
      <4>1. call'[b] = call[b] /\ call[b].pc \in ClosingPc /\ call[b].fd # fd
        BY <2>5, <3>2, <1>2, <1>0 DEF ClosingPc
      <4>2. call[b].fd \in Fds /\ IsOpen(call[b].fd)
        BY <4>1, <1>t DEF Exclusive
      <4>3. IsOpen(call[b].fd)'
        BY <4>1, <4>2, <1>1 DEF IsOpen
      <4>4. \A c \in Actors : call[b].fd \notin owned'[c]
        BY <4>1, <1>t, <1>2 DEF Exclusive
      <4>5. \A c \in Actors : c # b /\ call'[c].pc \in ClosingPc => call'[c].fd # call[b].fd
        BY <4>1, <1>t, <1>2, <1>q DEF Exclusive
      <4> QED BY <4>1, <4>2, <4>3, <4>4, <4>5
    <3> QED BY <3>1, <3>2
  <2> QED BY <2>2, <2>3, <2>4, <2>5 DEF Exclusive
<1>6. LocalOK(a, fd)'
  <2>1. (Managed(fd)' <=> Managed(fd)) /\ IsOpen(fd)'
    BY <1>0, <1>1 DEF Managed, IsOpen
  <2>2. /\ Managed(fd) => m_datas[fd].isSocket
        /\ fd \in disturbed => Managed(fd)
        /\ want[fd].managed => os[fd].kind # "file"
    BY <1>0, <1>t DEF ContextSteps
  <2>3. fd \notin owned'[a] /\ pc \notin OpeningPc
    BY <1>2, <1>p DEF OpeningPc, ClosingPc
  <2>4. pc # "look" /\ pc # "create"
    BY <2>3 DEF OpeningPc
  <2> QED BY <1>1, <1>q, <1>p, <2>1, <2>2, <2>3, <2>4 DEF LocalOK
<1>7. /\ \A b \in Actors : fd \notin owned'[b]
      /\ \A b \in Actors : \A g \in owned'[b] : g \in owned[b]
  BY <1>2
<1> QED BY <1>0, <1>1, <1>2, <1>3, <1>4, <1>6, <1>7, <1>q, LocalStep

\* What the owner of a number does to it outside a call: fcntl, ioctl, setsockopt
\* and listen.
LEMMA SettingDesc ==
    ASSUME DescInv, DescTypes', NEW a \in Actors, NEW fd \in owned[a], call[a].pc = "ret",
           UNCHANGED <<call, owned>>, IsOpen(fd)',
           \A g \in Fds : g # fd => /\ os'[g] = os[g] /\ m_datas'[g] = m_datas[g]
                                    /\ want'[g] = want[g] /\ (g \in disturbed' <=> g \in disturbed),
           Managed(fd)' => m_datas'[fd].isSocket,
           fd \in disturbed' => Managed(fd)',
           want'[fd].managed => os'[fd].kind # "file", want'[fd].managed = want[fd].managed,
           fd \notin disturbed' => AsAsked(fd)'
    PROVE  DescInv'
<1>0. /\ fd \in Fds /\ IsOpen(fd)
      /\ \A b \in Actors : b # a => fd \notin owned[b]
      /\ \A b \in Actors : b # a /\ call[b].pc # "ret" => call[b].fd # fd
  BY OwnerIsAlone
<1>1. \A g \in Fds : IsOpen(g)' <=> IsOpen(g)
  BY <1>0 DEF IsOpen
<1>2. Exclusive'
  BY <1>1, SameHands
<1>m. a = Main => want[fd].managed
  BY DEF DescInv, ContextSteps
<1>3. LocalOK(a, fd)'
  BY <1>0, <1>1, <1>m DEF LocalOK, OpeningPc
<1> QED BY <1>0, <1>2, <1>3, LocalStep

\* A settled number is as its owner asked.
LEMMA SettledAsAsked ==
    ASSUME DescInv, NEW a \in Actors, NEW fd \in owned[a], call[a].pc = "ret" \/ call[a].fd # fd,
           fd \notin disturbed
    PROVE  AsAsked(fd)
BY DEF DescInv, ManagedAsAsked, AsAsked, Settled

LEMMA UserFcntlDesc == ASSUME DescInv, NEW a \in Actors, UserFcntl(a) PROVE DescInv'
<1>t. DescTypes /\ ContextSteps
  BY DEF DescInv
<1>0. PICK fd \in owned[a], nb \in BOOLEAN :
         SetFl(fd, nb) /\ want' = [want EXCEPT ![fd].nonblock = nb]
  BY DEF UserFcntl
<1>1. call[a].pc = "ret" /\ UNCHANGED <<call, owned, disturbed>>
  BY DEF UserFcntl, At
<1>2. fd \in Fds /\ IsOpen(fd) /\ m_datas[fd].isSocket \in BOOLEAN
  BY OwnerIsAlone, <1>t DEF DescTypes
<1>n. ~NoCtx.isSocket
  BY DEF NoCtx
<1>3. CASE m_datas[fd].isSocket
  <2>1. /\ m_datas' = [m_datas EXCEPT ![fd].userNonblock = nb]
        /\ os' = [os EXCEPT ![fd].nonblock = TRUE]
    BY <1>0, <1>3 DEF SetFl
  <2>2. DescTypes'
    <3>1. m_datas' \in [Fds -> [isSocket : BOOLEAN, userNonblock : BOOLEAN, timeout : Timeout]]
      BY <2>1, <1>t DEF DescTypes
    <3>2. os' \in [Fds -> [kind : Kinds \cup {"closed"}, nonblock : BOOLEAN]]
      BY <2>1, <1>t DEF DescTypes
    <3>3. want' \in [Fds -> [managed : BOOLEAN, nonblock : BOOLEAN, timeout : Timeout]]
      BY <1>0, <1>t DEF DescTypes
    <3> QED BY <1>1, <1>t, <3>1, <3>2, <3>3 DEF DescTypes
  <2>3. /\ m_datas'[fd].isSocket = m_datas[fd].isSocket /\ m_datas'[fd].userNonblock = nb
        /\ m_datas'[fd].timeout = m_datas[fd].timeout
        /\ os'[fd].kind = os[fd].kind /\ os'[fd].nonblock = TRUE
        /\ want'[fd].managed = want[fd].managed /\ want'[fd].nonblock = nb
        /\ want'[fd].timeout = want[fd].timeout
        /\ \A g \in Fds : g # fd => os'[g] = os[g] /\ m_datas'[g] = m_datas[g] /\ want'[g] = want[g]
    BY <1>0, <1>2, <2>1, <1>t DEF DescTypes
  <2>4. Managed(fd) /\ Managed(fd)' /\ IsOpen(fd)'
    BY <1>2, <1>3, <1>n, <2>3 DEF Managed, IsOpen
  <2>5. fd \notin disturbed' => AsAsked(fd)'
    <3> SUFFICES ASSUME fd \notin disturbed' PROVE AsAsked(fd)'
      OBVIOUS
    <3>1. AsAsked(fd)
      BY <1>1, SettledAsAsked
    <3>2. want[fd].managed /\ m_datas[fd].timeout = want[fd].timeout
      BY <3>1, <2>4 DEF AsAsked
    <3>3. m_datas'[fd] \in [isSocket : BOOLEAN, userNonblock : BOOLEAN, timeout : Timeout]
      BY <1>2, <2>2 DEF DescTypes
    <3>4. m_datas'[fd] = [isSocket |-> TRUE, userNonblock |-> nb, timeout |-> want[fd].timeout]
      BY <3>2, <3>3, <1>3, <2>3
    <3> QED BY <3>2, <3>4, <2>3 DEF AsAsked
  <2>6. want'[fd].managed => os'[fd].kind # "file"
    BY <1>2, <2>3, <1>t DEF ContextSteps
  <2> QED BY <1>1, <1>3, <2>2, <2>3, <2>4, <2>5, <2>6, SettingDesc
<1>4. CASE ~m_datas[fd].isSocket
  <2>1. /\ UNCHANGED m_datas
        /\ os' = [os EXCEPT ![fd].nonblock = nb]
    BY <1>0, <1>4 DEF SetFl
  <2>2. DescTypes'
    <3>2. os' \in [Fds -> [kind : Kinds \cup {"closed"}, nonblock : BOOLEAN]]
      BY <2>1, <1>t DEF DescTypes
    <3>3. want' \in [Fds -> [managed : BOOLEAN, nonblock : BOOLEAN, timeout : Timeout]]
      BY <1>0, <1>t DEF DescTypes
    <3> QED BY <1>1, <1>t, <2>1, <3>2, <3>3 DEF DescTypes
  <2>3. /\ os'[fd].kind = os[fd].kind /\ os'[fd].nonblock = nb
        /\ want'[fd].managed = want[fd].managed /\ want'[fd].nonblock = nb
        /\ \A g \in Fds : g # fd => os'[g] = os[g] /\ want'[g] = want[g]
    BY <1>0, <1>2, <2>1, <1>t DEF DescTypes
  <2>4. ~Managed(fd) /\ ~Managed(fd)' /\ IsOpen(fd)' /\ fd \notin disturbed
    <3>1. ~Managed(fd)
      BY <1>2, <1>4, <1>t DEF ContextSteps
    <3>2. fd \notin disturbed
      BY <3>1, <1>t DEF ContextSteps
    <3> QED BY <3>1, <3>2, <1>2, <2>1, <2>3 DEF Managed, IsOpen
  <2>5. fd \notin disturbed' => AsAsked(fd)'
    <3>1. AsAsked(fd)
      BY <1>1, <2>4, SettledAsAsked
    <3>2. ~want[fd].managed
      BY <3>1, <1>4 DEF AsAsked
    <3> QED BY <3>2, <2>3, <2>4 DEF AsAsked
  <2>6. want'[fd].managed => os'[fd].kind # "file"
    BY <1>2, <2>3, <1>t DEF ContextSteps
  <2> QED BY <1>1, <2>1, <2>2, <2>3, <2>4, <2>5, <2>6, SettingDesc
<1> QED BY <1>2, <1>3, <1>4

LEMMA UserIoctlDesc == ASSUME DescInv, NEW a \in Actors, UserIoctl(a) PROVE DescInv'
<1>t. DescTypes /\ ContextSteps
  BY DEF DescInv
<1>0. PICK fd \in owned[a], nb \in BOOLEAN :
        /\ m_datas' = [m_datas EXCEPT ![fd].userNonblock =
                         IF m_datas[fd].isSocket THEN nb ELSE @]
        /\ os' = [os EXCEPT ![fd].nonblock = nb]
        /\ want' = [want EXCEPT ![fd].nonblock = nb]
        /\ disturbed' = IF m_datas[fd].isSocket /\ ~nb
                        THEN disturbed \cup {fd} ELSE disturbed
  BY DEF UserIoctl
<1>1. call[a].pc = "ret" /\ UNCHANGED <<call, owned>>
  BY DEF UserIoctl, At
<1>2. fd \in Fds /\ IsOpen(fd) /\ m_datas[fd].isSocket \in BOOLEAN
  BY OwnerIsAlone, <1>t DEF DescTypes
<1>n. ~NoCtx.isSocket
  BY DEF NoCtx
<1>3. DescTypes'
  <2>1. m_datas' \in [Fds -> [isSocket : BOOLEAN, userNonblock : BOOLEAN, timeout : Timeout]]
    BY <1>0, <1>t DEF DescTypes
  <2>2. os' \in [Fds -> [kind : Kinds \cup {"closed"}, nonblock : BOOLEAN]]
    BY <1>0, <1>t DEF DescTypes
  <2>3. want' \in [Fds -> [managed : BOOLEAN, nonblock : BOOLEAN, timeout : Timeout]]
    BY <1>0, <1>t DEF DescTypes
  <2>4. disturbed' \subseteq Fds
    BY <1>0, <1>2, <1>t DEF DescTypes
  <2> QED BY <1>1, <1>t, <2>1, <2>2, <2>3, <2>4 DEF DescTypes
<1>4. /\ m_datas'[fd].isSocket = m_datas[fd].isSocket
      /\ m_datas'[fd].userNonblock = IF m_datas[fd].isSocket THEN nb ELSE m_datas[fd].userNonblock
      /\ m_datas'[fd].timeout = m_datas[fd].timeout
      /\ os'[fd].kind = os[fd].kind /\ os'[fd].nonblock = nb
      /\ want'[fd].managed = want[fd].managed /\ want'[fd].nonblock = nb
      /\ want'[fd].timeout = want[fd].timeout
      /\ \A g \in Fds : g # fd => os'[g] = os[g] /\ m_datas'[g] = m_datas[g] /\ want'[g] = want[g]
      /\ \A g \in Fds : g # fd => (g \in disturbed' <=> g \in disturbed)
  BY <1>0, <1>2, <1>t DEF DescTypes
<1>5. IsOpen(fd)' /\ (want'[fd].managed => os'[fd].kind # "file")
  BY <1>2, <1>4, <1>t DEF ContextSteps, IsOpen
<1>6. CASE m_datas[fd].isSocket
  <2>1. Managed(fd) /\ Managed(fd)'
    BY <1>6, <1>n, <1>4 DEF Managed
  <2>2. fd \notin disturbed' => AsAsked(fd)'
    <3> SUFFICES ASSUME fd \notin disturbed' PROVE AsAsked(fd)'
      OBVIOUS
    <3>1. nb = TRUE /\ fd \notin disturbed
      BY <1>0, <1>6
    <3>2. AsAsked(fd)
      BY <1>1, <3>1, SettledAsAsked
    <3>3. want[fd].managed /\ m_datas[fd].timeout = want[fd].timeout
      BY <3>2, <2>1 DEF AsAsked
    <3>4. m_datas'[fd] \in [isSocket : BOOLEAN, userNonblock : BOOLEAN, timeout : Timeout]
      BY <1>2, <1>3 DEF DescTypes
    <3>5. m_datas'[fd] = [isSocket |-> TRUE, userNonblock |-> nb, timeout |-> want[fd].timeout]
      BY <3>3, <3>4, <1>6, <1>4
    <3> QED BY <3>1, <3>3, <3>5, <1>4 DEF AsAsked
  <2> QED BY <1>1, <1>3, <1>4, <1>5, <1>6, <2>1, <2>2, SettingDesc
<1>7. CASE ~m_datas[fd].isSocket
  <2>1. m_datas'[fd] = m_datas[fd]
    <3>1. /\ m_datas[fd] \in [isSocket : BOOLEAN, userNonblock : BOOLEAN, timeout : Timeout]
          /\ m_datas'[fd] \in [isSocket : BOOLEAN, userNonblock : BOOLEAN, timeout : Timeout]
      BY <1>2, <1>3, <1>t DEF DescTypes
    <3> QED BY <3>1, <1>4, <1>7
  <2>2. ~Managed(fd) /\ ~Managed(fd)' /\ fd \notin disturbed /\ fd \notin disturbed'
    <3>1. ~Managed(fd)
      BY <1>2, <1>7, <1>t DEF ContextSteps
    <3>2. fd \notin disturbed
      BY <3>1, <1>t DEF ContextSteps
    <3> QED BY <3>1, <3>2, <1>0, <1>7, <2>1 DEF Managed
  <2>3. AsAsked(fd)'
    <3>1. AsAsked(fd)
      BY <1>1, <2>2, SettledAsAsked
    <3>2. ~want[fd].managed
      BY <3>1, <1>7 DEF AsAsked
    <3> QED BY <3>2, <1>4, <2>2 DEF AsAsked
  <2> QED BY <1>1, <1>3, <1>4, <1>5, <2>2, <2>3, SettingDesc
<1> QED BY <1>2, <1>6, <1>7

LEMMA UserSetsTimeoutDesc == ASSUME DescInv, NEW a \in Actors, UserSetsTimeout(a) PROVE DescInv'
<1>t. DescTypes /\ ContextSteps
  BY DEF DescInv
<1>0. PICK fd \in owned[a], ms \in Waits :
        /\ m_datas' = [m_datas EXCEPT ![fd].timeout = IF a \in Hooked /\ Managed(fd) THEN ms ELSE @]
        /\ want' = [want EXCEPT ![fd].timeout = ms]
        /\ disturbed' = IF a \notin Hooked /\ Managed(fd) THEN disturbed \cup {fd} ELSE disturbed
  BY DEF UserSetsTimeout, SetTimeout
<1>1. call[a].pc = "ret" /\ UNCHANGED <<os, call, owned>>
  BY DEF UserSetsTimeout, At
<1>2. fd \in Fds /\ IsOpen(fd)
  BY OwnerIsAlone
<1>3. DescTypes'
  <2>0. ms \in Timeout
    BY DEF Timeout
  <2>1. m_datas' \in [Fds -> [isSocket : BOOLEAN, userNonblock : BOOLEAN, timeout : Timeout]]
    BY <1>0, <1>t, <2>0 DEF DescTypes
  <2>3. want' \in [Fds -> [managed : BOOLEAN, nonblock : BOOLEAN, timeout : Timeout]]
    BY <1>0, <1>t, <2>0 DEF DescTypes
  <2>4. disturbed' \subseteq Fds
    BY <1>0, <1>2, <1>t DEF DescTypes
  <2> QED BY <1>1, <1>t, <2>1, <2>3, <2>4 DEF DescTypes
<1>4. /\ m_datas'[fd].isSocket = m_datas[fd].isSocket
      /\ m_datas'[fd].userNonblock = m_datas[fd].userNonblock
      /\ m_datas'[fd].timeout = IF a \in Hooked /\ Managed(fd) THEN ms ELSE m_datas[fd].timeout
      /\ want'[fd].managed = want[fd].managed /\ want'[fd].nonblock = want[fd].nonblock
      /\ want'[fd].timeout = ms
      /\ \A g \in Fds : g # fd => m_datas'[g] = m_datas[g] /\ want'[g] = want[g]
      /\ \A g \in Fds : g # fd => (g \in disturbed' <=> g \in disturbed)
  BY <1>0, <1>2, <1>t DEF DescTypes
<1>5. IsOpen(fd)' /\ (want'[fd].managed => os'[fd].kind # "file")
  BY <1>1, <1>2, <1>4, <1>t DEF ContextSteps, IsOpen
<1>n. ~NoCtx.isSocket
  BY DEF NoCtx
<1>m. /\ m_datas[fd] \in [isSocket : BOOLEAN, userNonblock : BOOLEAN, timeout : Timeout]
      /\ m_datas'[fd] \in [isSocket : BOOLEAN, userNonblock : BOOLEAN, timeout : Timeout]
  BY <1>2, <1>3, <1>t DEF DescTypes
<1>6. CASE Managed(fd)
  <2>1. m_datas'[fd].isSocket /\ Managed(fd)'
    BY <1>6, <1>2, <1>n, <1>4, <1>t DEF Managed, ContextSteps
  <2>2. fd \notin disturbed' => AsAsked(fd)'
    <3> SUFFICES ASSUME fd \notin disturbed' PROVE AsAsked(fd)'
      OBVIOUS
    <3>0. a \in Hooked /\ fd \notin disturbed
      BY <1>0, <1>6
    <3>1. AsAsked(fd)
      BY <1>1, <3>0, SettledAsAsked
    <3>2. /\ want[fd].managed /\ os[fd].nonblock
          /\ m_datas[fd].timeout = want[fd].timeout /\ m_datas[fd].userNonblock = want[fd].nonblock
      BY <3>1, <1>6 DEF AsAsked
    <3>3. m_datas'[fd] = [isSocket |-> TRUE, userNonblock |-> want'[fd].nonblock,
                          timeout |-> want'[fd].timeout]
      BY <3>0, <3>2, <2>1, <1>m, <1>4, <1>6
    <3> QED BY <3>2, <3>3, <1>1, <1>4 DEF AsAsked
  <2> QED BY <1>1, <1>3, <1>4, <1>5, <2>1, <2>2, SettingDesc
<1>7. CASE ~Managed(fd)
  <2>1. m_datas'[fd] = m_datas[fd]
    BY <1>m, <1>4, <1>7
  <2>2. ~Managed(fd)' /\ fd \notin disturbed /\ fd \notin disturbed'
    BY <1>0, <1>1, <1>7, <2>1, <1>t DEF Managed, ContextSteps
  <2>3. AsAsked(fd)'
    <3>1. AsAsked(fd)
      BY <1>1, <2>2, SettledAsAsked
    <3>2. ~want[fd].managed /\ os[fd].nonblock = want[fd].nonblock
      BY <3>1, <1>7, <1>n DEF AsAsked, Managed
    <3> QED BY <3>2, <1>1, <1>4, <2>2 DEF AsAsked
  <2> QED BY <1>1, <1>3, <1>4, <1>5, <2>2, <2>3, SettingDesc
<1> QED BY <1>6, <1>7

\* A number goes from one owner to another.
LEMMA TransferDesc ==
    ASSUME DescInv, DescTypes', NEW a \in Actors, NEW b \in Actors, a # b, b # Main,
           NEW fd \in owned[a],
           call[a].pc = "ret", UNCHANGED <<os, disturbed>>,
           owned'[a] = owned[a] \ {fd}, owned'[b] = owned[b] \cup {fd},
           \A c \in Actors : c # a /\ c # b => owned'[c] = owned[c],
           \A c \in Actors : call'[c].pc = call[c].pc,
           \A c \in Actors : call[c].pc # "ret" => call'[c].fd = call[c].fd,
           \A g \in Fds : g # fd => m_datas'[g] = m_datas[g] /\ want'[g] = want[g],
           Managed(fd)' => m_datas'[fd].isSocket,
           fd \in disturbed' => Managed(fd)',
           want'[fd].managed => os'[fd].kind # "file",
           fd \notin disturbed' => AsAsked(fd)'
    PROVE  DescInv'
<1>t. DescTypes /\ Exclusive /\ ContextSteps /\ ManagedAsAsked /\ ClosedHasNoContext
  BY DEF DescInv
<1>0. /\ fd \in Fds /\ IsOpen(fd)
      /\ \A c \in Actors : c # a => fd \notin owned[c]
      /\ \A c \in Actors : call[c].pc # "ret" => call[c].fd # fd
  BY OwnerIsAlone
<1>m. \A g \in Fds : g # fd => (Managed(g)' <=> Managed(g))
  BY DEF Managed
<1>o. \A g \in Fds : IsOpen(g)' <=> IsOpen(g)
  BY DEF IsOpen
<1>c. \A c \in Actors : call[c].pc # "ret" => call[c].fd \in Fds
  BY CallIsAlone
<1>1. Exclusive'
  <2>2. \A c, d \in Actors : c # d => owned'[c] \cap owned'[d] = {}
    BY <1>0, <1>t DEF Exclusive
  <2>3. \A c \in Actors : \A g \in owned'[c] : IsOpen(g)'
    <3>1. ASSUME NEW c \in Actors, NEW g \in owned'[c] PROVE g = fd \/ g \in owned[c]
      OBVIOUS
    <3>2. \A c \in Actors : \A g \in owned[c] : g \in Fds /\ IsOpen(g)
      BY <1>t DEF Exclusive, DescTypes
    <3> QED BY <3>1, <3>2, <1>0, <1>o
  <2>4. \A c \in Actors : call'[c].pc \in OpeningPc => call'[c].fd \in owned'[c]
    BY <1>0, <1>t DEF Exclusive, OpeningPc
  <2>5. ASSUME NEW c \in Actors, call'[c].pc \in ClosingPc
        PROVE  /\ call'[c].fd \in Fds /\ IsOpen(call[c].fd)'
               /\ \A d \in Actors : call'[c].fd \notin owned'[d]
               /\ \A d \in Actors : d # c /\ call'[d].pc \in ClosingPc => call'[d].fd # call'[c].fd
    <3>0. \A d \in Actors : call'[d].pc \in ClosingPc => call[d].pc \in ClosingPc /\ call'[d].fd = call[d].fd
      BY DEF ClosingPc
    <3>1. call[c].pc \in ClosingPc /\ call'[c].fd = call[c].fd /\ call[c].fd # fd
      BY <2>5, <3>0, <1>0 DEF ClosingPc
    <3>2. call[c].fd \in Fds /\ IsOpen(call[c].fd) /\ \A d \in Actors : call[c].fd \notin owned[d]
      BY <3>1, <1>t DEF Exclusive
    <3>3. IsOpen(call[c].fd)'
      BY <3>1, <3>2 DEF IsOpen
    <3>4. \A d \in Actors : call[c].fd \notin owned'[d]
      BY <3>1, <3>2
    <3>5. \A d \in Actors : d # c /\ call'[d].pc \in ClosingPc => call'[d].fd # call[c].fd
      BY <3>0, <3>1, <1>t DEF Exclusive
    <3> QED BY <3>1, <3>2, <3>3, <3>4, <3>5
  <2> QED BY <2>2, <2>3, <2>4, <2>5 DEF Exclusive
<1>2. ContextSteps'
  <2>1. \A g \in Fds : Managed(g)' => m_datas'[g].isSocket
    BY <1>m, <1>t DEF ContextSteps
  <2>2. \A g \in disturbed' : Managed(g)'
    BY <1>m, <1>t DEF ContextSteps, DescTypes
  <2>3. \A g \in Fds : want'[g].managed => os'[g].kind # "file"
    BY <1>t DEF ContextSteps
  <2>4. ASSUME NEW c \in Actors
        PROVE  /\ call'[c].pc = "look" /\ call'[c].fd \notin disturbed' => ~Managed(call[c].fd)'
               /\ call'[c].pc = "create" => ~Managed(call[c].fd)'
               /\ call'[c].pc \in OpeningPc => want'[call'[c].fd] = Fresh(TRUE)
               /\ call'[c].pc = "closef" /\ c \in Hooked => ~Managed(call[c].fd)'
    <3>1. CASE call[c].pc = "ret"
      BY <3>1 DEF OpeningPc
    <3>2. CASE call[c].pc # "ret"
      <4>1. call[c].fd \in Fds /\ call[c].fd # fd /\ call'[c].fd = call[c].fd
        BY <3>2, <1>0, <1>c
      <4>2. /\ Managed(call[c].fd)' <=> Managed(call[c].fd)
            /\ want'[call[c].fd] = want[call[c].fd]
        BY <4>1 DEF Managed
      <4>3. /\ call[c].pc = "look" /\ call[c].fd \notin disturbed => ~Managed(call[c].fd)
            /\ call[c].pc = "create" => ~Managed(call[c].fd)
            /\ call[c].pc \in OpeningPc => want[call[c].fd] = Fresh(TRUE)
            /\ call[c].pc = "closef" /\ c \in Hooked => ~Managed(call[c].fd)
        BY <1>t DEF ContextSteps
      <4> QED BY <4>1, <4>2, <4>3
    <3> QED BY <3>1, <3>2
  <2>5. \A g \in owned'[Main] : want'[g].managed
    <3> SUFFICES ASSUME NEW g \in owned'[Main] PROVE want'[g].managed
      OBVIOUS
    <3>0. owned'[Main] = owned[Main] \/ (Main = a /\ owned'[Main] = owned[Main] \ {fd})
      BY Distinct
    <3>2. Main # a => fd \notin owned[Main]
      BY <1>0, Distinct
    <3>3. Main = a => owned'[Main] = owned[Main] \ {fd}
      OBVIOUS
    <3>1. g \in owned[Main] /\ g # fd /\ g \in Fds
      BY <3>0, <3>2, <3>3, <1>t, Distinct DEF DescTypes
    <3> QED BY <3>1, <1>t DEF ContextSteps
  <2> QED BY <2>1, <2>2, <2>3, <2>4, <2>5 DEF ContextSteps
<1>3. ManagedAsAsked'
  <2> SUFFICES ASSUME NEW c \in Actors, NEW g \in owned'[c], g \notin disturbed', Settled(c, g)'
               PROVE  AsAsked(g)'
    BY DEF ManagedAsAsked, AsAsked
  <2>1. CASE g = fd
    BY <2>1
  <2>2. CASE g # fd
    <3>1. g \in owned[c] /\ g \in Fds
      BY <2>2, <1>t DEF DescTypes
    <3>2. ~(call[c].fd = g /\ call[c].pc # "ret")
      BY <2>2, <3>1 DEF Settled
    <3>3. AsAsked(g)
      BY <1>t, <3>1, <3>2 DEF ManagedAsAsked, AsAsked, Settled
    <3> QED BY <2>2, <3>1, <3>3 DEF AsAsked, Managed
  <2> QED BY <2>1, <2>2
<1>4. ClosedHasNoContext'
  BY <1>0, <1>m, <1>o, <1>t DEF ClosedHasNoContext
<1> QED BY <1>1, <1>2, <1>3, <1>4 DEF DescInv

LEMMA UserHandsOverDesc ==
    ASSUME DescInv, NEW a \in Actors, NEW b \in Actors, b # Main, UserHandsOver(a, b) PROVE DescInv'
<1>t. DescTypes /\ ContextSteps
  BY DEF DescInv
<1>1. /\ call[a].pc = "ret" /\ a # b
      /\ UNCHANGED <<os, m_datas, call, want, disturbed>>
  BY DEF UserHandsOver, At
<1>2. PICK fd \in owned[a] : owned' = [owned EXCEPT ![a] = @ \ {fd}, ![b] = @ \cup {fd}]
  BY DEF UserHandsOver
<1>3. fd \in Fds
  BY OwnerIsAlone
<1>4. DescTypes'
  BY <1>1, <1>2, <1>3, <1>t DEF DescTypes
<1>5. /\ owned'[a] = owned[a] \ {fd} /\ owned'[b] = owned[b] \cup {fd}
      /\ \A c \in Actors : c # a /\ c # b => owned'[c] = owned[c]
  BY <1>1, <1>2, <1>t DEF DescTypes
<1>6. /\ Managed(fd)' => m_datas'[fd].isSocket
      /\ fd \in disturbed' => Managed(fd)'
      /\ want'[fd].managed => os'[fd].kind # "file"
  BY <1>1, <1>3, <1>t DEF ContextSteps, Managed
<1>7. fd \notin disturbed' => AsAsked(fd)'
  BY <1>1, SettledAsAsked DEF AsAsked, Managed
<1> QED BY <1>1, <1>4, <1>5, <1>6, <1>7, TransferDesc

-----------------------------------------------------------------------------
(* The server. *)

\* startAccept sets the timeout and hands the connection to its handler.
LEMMA HandOverDesc == ASSUME ServerInv, HandOver PROVE DescInv'
<1>i. DescInv /\ WorkerOwns /\ HandlersOwn
  BY DEF ServerInv
<1>t. DescTypes /\ ContextSteps
  BY <1>i DEF DescInv
<1>0. PICK fd : fd = call[Acceptor].fd
  OBVIOUS
<1>1. /\ apc = "init" /\ call[Acceptor].pc = "ret" /\ m_datas[fd].isSocket
      /\ UNCHANGED <<os, disturbed>>
      /\ m_datas' = [m_datas EXCEPT ![fd].timeout =
                       IF Acceptor \in Hooked /\ Managed(fd) THEN RecvTimeout ELSE @]
      /\ want' = [want EXCEPT ![fd].timeout = RecvTimeout]
  BY <1>0 DEF HandOver, At, SetRecvTimeout, SetTimeout
<1>2. PICK h \in Clients :
        /\ hpc[h] = "off"
        /\ call' = [call EXCEPT ![h].fd = fd]
        /\ owned' = [owned EXCEPT ![h] = {fd}, ![Acceptor] = @ \ {fd}]
  BY <1>0 DEF HandOver
<1>3. /\ owned[Acceptor] = {fd} /\ owned[h] = {} /\ call[h].pc = "ret"
      /\ h \in Actors /\ Acceptor \in Actors /\ h # Acceptor /\ h # Main
  BY <1>0, <1>1, <1>2, <1>i, Distinct DEF WorkerOwns, HandlersOwn
<1>4. fd \in Fds /\ fd \in owned[Acceptor]
  BY <1>3, <1>t DEF DescTypes
<1>m. Managed(fd)
  <2>1. ~NoCtx.isSocket
    BY DEF NoCtx
  <2> QED BY <1>1, <2>1 DEF Managed
<1>5. m_datas' = [m_datas EXCEPT ![fd].timeout = RecvTimeout]
  BY <1>1, <1>m, FibersAssumption
<1>w. want' = [want EXCEPT ![fd].timeout = RecvTimeout]
  BY <1>1
<1>6. DescTypes'
  <2>0. RecvTimeout \in Timeout
    BY DEF Timeout
  <2>1. m_datas' \in [Fds -> [isSocket : BOOLEAN, userNonblock : BOOLEAN, timeout : Timeout]]
    BY <1>5, <1>t, <2>0 DEF DescTypes
  <2>2. want' \in [Fds -> [managed : BOOLEAN, nonblock : BOOLEAN, timeout : Timeout]]
    BY <1>1, <1>t, <2>0 DEF DescTypes
  <2>3. call' \in [Actors -> [pc : {"ret"} \cup OpeningPc \cup ClosingPc, fd : Fds \cup {NoFd}]]
    BY <1>2, <1>4, <1>t DEF DescTypes
  <2>4. owned' \in [Actors -> SUBSET Fds]
    BY <1>2, <1>4, <1>t DEF DescTypes
  <2> QED BY <1>1, <1>t, <2>1, <2>2, <2>3, <2>4 DEF DescTypes
<1>7. /\ m_datas'[fd].isSocket = m_datas[fd].isSocket
      /\ m_datas'[fd].userNonblock = m_datas[fd].userNonblock
      /\ m_datas'[fd].timeout = RecvTimeout
      /\ want'[fd].managed = want[fd].managed /\ want'[fd].nonblock = want[fd].nonblock
      /\ want'[fd].timeout = RecvTimeout
      /\ \A g \in Fds : g # fd => m_datas'[g] = m_datas[g] /\ want'[g] = want[g]
  BY <1>w, <1>4, <1>5, <1>t DEF DescTypes
<1>8. /\ owned'[Acceptor] = owned[Acceptor] \ {fd} /\ owned'[h] = owned[h] \cup {fd}
      /\ \A c \in Actors : c # Acceptor /\ c # h => owned'[c] = owned[c]
      /\ \A c \in Actors : call'[c].pc = call[c].pc
      /\ \A c \in Actors : call[c].pc # "ret" => call'[c].fd = call[c].fd
  BY <1>2, <1>3, <1>t DEF DescTypes
<1>9. Managed(fd)' /\ m_datas'[fd].isSocket
  <2>1. ~NoCtx.isSocket
    BY DEF NoCtx
  <2> QED BY <1>1, <1>7, <2>1 DEF Managed
<1>10. want'[fd].managed => os'[fd].kind # "file"
  BY <1>1, <1>4, <1>7, <1>t DEF ContextSteps
<1>11. fd \notin disturbed' => AsAsked(fd)'
  <2> SUFFICES ASSUME fd \notin disturbed' PROVE AsAsked(fd)'
    OBVIOUS
  <2>1. AsAsked(fd)
    BY <1>1, <1>3, <1>4, <1>i, SettledAsAsked
  <2>2. want[fd].managed /\ os[fd].nonblock /\ m_datas[fd].userNonblock = want[fd].nonblock
    BY <2>1, <1>m DEF AsAsked
  <2>3. m_datas'[fd] \in [isSocket : BOOLEAN, userNonblock : BOOLEAN, timeout : Timeout]
    BY <1>4, <1>6 DEF DescTypes
  <2>4. m_datas'[fd] = [isSocket |-> TRUE, userNonblock |-> want'[fd].nonblock,
                        timeout |-> want'[fd].timeout]
    BY <2>2, <2>3, <1>1, <1>7
  <2> QED BY <2>2, <2>4, <1>1, <1>7 DEF AsAsked
<1> QED BY <1>i, <1>1, <1>3, <1>4, <1>6, <1>7, <1>8, <1>9, <1>10, <1>11, TransferDesc

\* listen_f makes Main's socket the listening one.
LEMMA ListenDesc ==
    ASSUME ServerInv, app = "bind_f", call[Main].pc = "ret", NEW fd, fd = call[Main].fd,
           os' = [os EXCEPT ![fd].kind = "listen"],
           UNCHANGED <<m_datas, call, owned, want, disturbed>>
    PROVE  DescInv'
<1>i. DescInv /\ MainOwns /\ DescTypes /\ ContextSteps
  BY DEF ServerInv, DescInv
<1>1. Main \in Actors /\ fd \in owned[Main]
  BY <1>i, Distinct DEF MainOwns
<1>2. fd \in Fds /\ IsOpen(fd)
  BY <1>i, <1>1, OwnerIsAlone
<1>3. /\ os'[fd].kind = "listen" /\ os'[fd].nonblock = os[fd].nonblock
      /\ \A g \in Fds : g # fd => os'[g] = os[g]
  BY <1>i, <1>2 DEF DescTypes
<1>4. DescTypes'
  <2>1. os' \in [Fds -> [kind : Kinds \cup {"closed"}, nonblock : BOOLEAN]]
    <3>1. "listen" \in Kinds
      BY DEF Kinds
    <3>2. os \in [Fds -> [kind : Kinds \cup {"closed"}, nonblock : BOOLEAN]]
      BY <1>i DEF DescTypes
    <3>3. [os[fd] EXCEPT !.kind = "listen"] \in [kind : Kinds \cup {"closed"}, nonblock : BOOLEAN]
      BY <3>1, <3>2, <1>2
    <3>4. os' = [os EXCEPT ![fd] = [os[fd] EXCEPT !.kind = "listen"]]
      BY <3>2, <1>2
    <3> QED BY <3>2, <3>3, <3>4
  <2> QED BY <1>i, <2>1 DEF DescTypes
<1>5. /\ Managed(fd)' => m_datas'[fd].isSocket
      /\ fd \in disturbed' => Managed(fd)'
  BY <1>i, <1>2 DEF ContextSteps, Managed
<1>6. fd \notin disturbed' => AsAsked(fd)'
  BY <1>i, <1>1, <1>3, SettledAsAsked DEF AsAsked, Managed
<1>7. IsOpen(fd)' /\ os'[fd].kind # "file"
  BY <1>3 DEF IsOpen
<1> QED BY <1>i, <1>1, <1>3, <1>4, <1>5, <1>6, <1>7, SettingDesc

\* Whoever steps, the descriptors stay in order.
LEMMA CallStepDesc == ASSUME DescInv, NEW a \in Actors, CallStep(a) PROVE DescInv'
BY LookDesc, CreateDesc, CancelDesc, DelDesc, CloseFDesc DEF CallStep

LEMMA OthersDesc == ASSUME DescInv, OthersAct PROVE DescInv'
<1>1. PICK a \in Users : UserOpens(a) \/ UserSettings(a) \/ UserOpensSocket(a) \/ UserCloses(a)
  BY DEF OthersAct
<1>2. a \in Actors /\ a # Main /\ Users \subseteq Actors /\ Main \notin Users
  BY Distinct
<1>3. CASE UserOpens(a)
  <2>1. {"sock", "file"} \subseteq Kinds
    BY DEF Kinds
  <2> QED BY <1>2, <1>3, <2>1, OpenedDesc DEF UserOpens
<1>4. CASE UserOpensSocket(a)
  <2>1. UserKinds \subseteq {"sock", "other"} /\ {"sock", "other"} \subseteq Kinds
    BY ActorsAssumption DEF Kinds
  <2>2. PICK kind \in UserKinds : Opened(a, kind, "socket")
    BY <1>4 DEF UserOpensSocket
  <2>3. kind \in Kinds /\ kind # "file"
    BY <2>1, <2>2
  <2> QED BY <1>2, <2>2, <2>3, OpenedDesc
<1>5. CASE UserCloses(a)
  <2>1. PICK fd \in owned[a] : BeginClose(a, fd)
    BY <1>5 DEF UserCloses
  <2>2. call[a].pc = "ret"
    BY <2>1 DEF BeginClose, At
  <2> QED BY <1>2, <2>1, <2>2, BeginCloseDesc
<1>6. CASE UserSettings(a)
  BY <1>2, <1>6, UserFcntlDesc, UserIoctlDesc, UserSetsTimeoutDesc, UserHandsOverDesc DEF UserSettings
<1> QED BY <1>1, <1>3, <1>4, <1>5, <1>6

LEMMA DescNext == ASSUME ServerInv, [Next]_vars PROVE DescInv'
<1>i. DescInv /\ MainOwns /\ HandlersOwn /\ Phases
  BY DEF ServerInv
<1>k. "sock" \in Kinds
  BY DEF Kinds
<1>1. CASE BindOpens
  BY <1>1, <1>i, <1>k, Distinct, OpenedDesc DEF BindOpens
<1>c. ASSUME app = "bind_f", BeginClose(Main, call[Main].fd) PROVE DescInv'
  <2>1. call[Main].fd \in owned[Main] /\ Main \in Actors /\ call[Main].pc = "ret"
    BY <1>c, <1>i, Distinct DEF MainOwns, BeginClose, At
  <2> QED BY <1>c, <1>i, <2>1, BeginCloseDesc
<1>2. CASE BindFails
  BY <1>2, <1>c DEF BindFails
<1>3. CASE BindSucceeds
  <2>1. CASE fails
    BY <1>3, <2>1, <1>c DEF BindSucceeds
  <2>2. CASE ~fails
    <3>1. PICK fd : fd = call[Main].fd
      OBVIOUS
    <3>2. /\ app = "bind_f" /\ call[Main].pc = "ret"
          /\ os' = [os EXCEPT ![fd].kind = "listen"]
          /\ UNCHANGED <<m_datas, call, owned, want, disturbed>>
      BY <1>3, <2>2, <3>1 DEF BindSucceeds, At
    <3> QED BY <3>1, <3>2, ListenDesc
  <2> QED BY <2>1, <2>2
<1>4. CASE TryAccepts
  BY <1>4, <1>i, <1>k, Distinct, OpenedDesc DEF TryAccepts
<1>5. CASE HandOver
  BY <1>5, HandOverDesc
<1>6. CASE StopCloses
  <2>1. spc = "close" /\ BeginClose(Stopper, m_sock)
    BY <1>6 DEF StopCloses
  <2>2. app = "stopped"
    BY <2>1, <1>i DEF Phases
  <2>3. m_sock \in owned[Main] /\ call[Main].pc = "ret"
    BY <2>1, <2>2, <1>i DEF MainOwns
  <2> QED BY <2>1, <2>3, <1>i, Distinct, BeginCloseDesc
<1>7. ASSUME NEW h \in Clients, Closes(h) PROVE DescInv'
  <2>1. hpc[h] = "close" /\ BeginClose(h, call[h].fd)
    BY <1>7 DEF Closes
  <2>2. call[h].fd \in owned[h] /\ call[h].pc = "ret" /\ h \in Actors
    BY <2>1, <1>i, Distinct DEF HandlersOwn
  <2> QED BY <2>1, <2>2, <1>i, BeginCloseDesc
<1>8. ASSUME NEW a \in Actors, Calling(a) PROVE DescInv'
  BY <1>8, <1>i, CallStepDesc DEF Calling
<1>9. CASE OthersAct
  BY <1>9, <1>i, OthersDesc
<1>10. CASE UNCHANGED desc
  BY <1>10, <1>i, DescStutter
<1>11. /\ BindAgain \/ start \/ stop => UNCHANGED desc
       /\ AcceptLoop \/ Enter \/ TryFails \/ TryAgain \/ AddEvent \/ Retry => UNCHANGED desc
       /\ StopCancels \/ StopEnds => UNCHANGED desc
       /\ \A f : Dispatch(f) => UNCHANGED desc
       /\ Connects \/ AddressFreed => UNCHANGED desc
  <2> USE DEF desc, calls
  <2>1. BindAgain \/ start \/ stop => UNCHANGED desc
    BY DEF BindAgain, start, stop
  <2>2. AcceptLoop \/ Enter \/ TryFails \/ TryAgain \/ Retry \/ StopEnds => UNCHANGED desc
    BY DEF AcceptLoop, Enter, TryFails, TryAgain, Retry, StopEnds
  <2>3. AddEvent \/ StopCancels => UNCHANGED desc
    BY DEF AddEvent, StopCancels
  <2>4. \A f : Dispatch(f) => UNCHANGED desc
    BY DEF Dispatch
  <2>5. Connects \/ AddressFreed => UNCHANGED desc
    BY DEF Connects, AddressFreed
  <2> QED BY <2>1, <2>2, <2>3, <2>4, <2>5
<1>12. ASSUME NEW h \in Clients,
              \/ Recv(h) \/ RecvWaits(h) \/ RecvRetries(h) \/ RecvTimesOut(h)
              \/ Send(h) \/ SendWaits(h) \/ SendRetries(h) \/ Ends(h) \/ Sends(h) \/ Takes(h)
       PROVE  UNCHANGED desc
  <2> USE DEF desc, calls
  <2>1. Recv(h) \/ Ends(h) => UNCHANGED desc
    BY DEF Recv, Ends
  <2>2. RecvWaits(h) \/ RecvRetries(h) => UNCHANGED desc
    BY DEF RecvWaits, RecvRetries
  <2>3. RecvTimesOut(h) \/ Sends(h) => UNCHANGED desc
    BY DEF RecvTimesOut, Sends
  <2>4. Send(h) \/ SendWaits(h) \/ SendRetries(h) \/ Takes(h) => UNCHANGED desc
    BY DEF Send, SendWaits, SendRetries, Takes
  <2> QED BY <1>12, <2>1, <2>2, <2>3, <2>4
<1>13. UNCHANGED vars => UNCHANGED desc
  BY DEF vars, calls, desc
<1>s. Setup \/ stop \/ Accepting \/ Stopping => DescInv'
  BY <1>1, <1>2, <1>3, <1>4, <1>5, <1>6, <1>10, <1>11 DEF Setup, Accepting, Stopping
<1>h. ASSUME NEW h \in Clients, Handling(h) \/ Sends(h) \/ Takes(h) PROVE DescInv'
  BY <1>h, <1>7, <1>10, <1>12 DEF Handling
<1> QED BY <1>s, <1>h, <1>8, <1>9, <1>10, <1>11, <1>13 DEF Next

\* The part of the invariant that is about the server.
ServerPart ==
    /\ ServerTypes /\ Phases /\ MainOwns /\ WorkerOwns /\ HandlersOwn /\ Waiters

\* What cancelAll and a report of the kernel do to the waiters.
LEMMA WakeOne ==
    ASSUME ServerInv, NEW fd \in Fds, CancelAll(fd), UNCHANGED <<apc, afd, cpu, hpc, owned, m_sock>>,
           \A h \in Clients : hpc[h] = "held" => call'[h].fd = call[h].fd
    PROVE  /\ Waiters'
           /\ waiter' \in [Fds -> Clients \cup {Acceptor, None}]
           /\ epoll' \subseteq Fds
           /\ woken' \subseteq Clients \cup {Acceptor, Stopper}
           /\ apc = "off" /\ Acceptor \notin cpu \cup woken => Acceptor \notin (cpu \cup woken)'
<1>i. ServerTypes /\ Waiters
  BY DEF ServerInv
<1>1. /\ woken' = woken \cup ({waiter[fd]} \ {None})
      /\ waiter' = [waiter EXCEPT ![fd] = None]
      /\ epoll' = epoll \ {fd}
  BY DEF CancelAll
<1>2. /\ waiter \in [Fds -> Clients \cup {Acceptor, None}]
      /\ woken \subseteq Clients \cup {Acceptor, Stopper}
  BY <1>i DEF ServerTypes
<1>3. waiter'[fd] = None /\ \A g \in Fds : g # fd => waiter'[g] = waiter[g]
  BY <1>1, <1>2
<1>4. waiter' \in [Fds -> Clients \cup {Acceptor, None}]
  BY <1>1, <1>2
<1>5. epoll' \subseteq Fds /\ woken' \subseteq Clients \cup {Acceptor, Stopper}
  BY <1>1, <1>2, <1>i DEF ServerTypes
<1>6. \A g \in Fds : waiter'[g] = Acceptor =>
          apc' = "held" /\ afd' = g /\ Acceptor \notin cpu' \cup woken'
  BY <1>i, <1>1, <1>3, Distinct DEF Waiters
<1>7. \A g \in Fds : \A h \in Clients : waiter'[g] = h =>
          hpc'[h] = "held" /\ call'[h].fd = g /\ h \notin woken'
  <2> SUFFICES ASSUME NEW g \in Fds, NEW h \in Clients, waiter'[g] = h
               PROVE  hpc'[h] = "held" /\ call'[h].fd = g /\ h \notin woken'
    OBVIOUS
  <2>1. g # fd /\ waiter[g] = h
    BY <1>3, Distinct
  <2>2. hpc[h] = "held" /\ call[h].fd = g /\ h \notin woken
    BY <2>1, <1>i DEF Waiters
  <2>3. waiter[fd] # h
    BY <2>1, <2>2, <1>i DEF Waiters
  <2> QED BY <2>2, <2>3, <1>1
<1>8. \A h \in Clients : h \in woken' => hpc'[h] = "held"
  BY <1>i, <1>1 DEF Waiters
<1>9. Acceptor \in cpu' => Acceptor \notin woken'
  BY <1>i, <1>1 DEF Waiters
<1>10. /\ apc' \in {"add", "held"} => afd' # NoFd
       /\ apc' = "enter" => \A h \in Clients : m_sock' \notin owned'[h]
       /\ apc' \in {"try", "direct", "add", "held"} => \A h \in Clients : afd' \notin owned'[h]
  BY <1>i DEF Waiters
<1>11. apc = "off" /\ Acceptor \notin cpu \cup woken => Acceptor \notin (cpu \cup woken)'
  BY <1>i, <1>1 DEF Waiters
<1>12. Waiters'
  BY <1>6, <1>7, <1>8, <1>9, <1>10 DEF Waiters
<1> QED BY <1>4, <1>5, <1>11, <1>12

\* A step of somebody outside the server.
LEMMA Outside ==
    ASSUME ServerInv, UNCHANGED <<waiter, epoll, woken, m_isStop, m_sock, app, accept, hpc, abort>>,
           \A f \in Clients \cup {Main, Acceptor, Stopper} :
              owned'[f] = owned[f] /\ call'[f] = call[f]
    PROVE  ServerPart'
<1> USE DEF accept
<1>1. ServerTypes' /\ Phases'
  BY DEF ServerInv, ServerTypes, Phases
<1>2. MainOwns' /\ WorkerOwns'
  BY DEF ServerInv, MainOwns, WorkerOwns
<1>3. HandlersOwn'
  BY DEF ServerInv, HandlersOwn
<1>4. Waiters'
  BY DEF ServerInv, Waiters
<1> QED BY <1>1, <1>2, <1>3, <1>4 DEF ServerPart

\* What a user opens, sets, hands over or closes is no number of the server's.
LEMMA OthersOutside == ASSUME ServerInv, OthersAct PROVE ServerPart'
<1>i. DescInv /\ DescTypes /\ Exclusive
  BY DEF ServerInv, DescInv
<1>1. PICK a \in Users : UserOpens(a) \/ UserSettings(a) \/ UserOpensSocket(a) \/ UserCloses(a)
  BY DEF OthersAct
<1>2. UNCHANGED <<server, accept, handle, abort>>
  BY DEF OthersAct
<1>3. a \in Actors /\ Users \subseteq Actors
  BY Distinct
<1> DEFINE F == Clients \cup {Main, Acceptor, Stopper}
<1>f. F \subseteq Actors /\ F \cap Users = {}
  BY Distinct
<1>o. ASSUME NEW kind, NEW how, Opened(a, kind, how)
      PROVE  UNCHANGED <<waiter, epoll, woken>> /\ \A f \in F : owned'[f] = owned[f] /\ call'[f] = call[f]
  <2>1. /\ call' = [call EXCEPT ![a] = [pc |-> IF how = "accept" \/ (how = "socket" /\ a \in Hooked)
                                               THEN "look" ELSE "ret", fd |-> Lowest]]
        /\ owned' = [owned EXCEPT ![a] = @ \cup {Lowest}]
        /\ UNCHANGED <<waiter, epoll, woken>>
    BY <1>o DEF Opened
  <2> QED BY <2>1, <1>f, <1>i DEF DescTypes
<1>4. CASE UserOpens(a) \/ UserOpensSocket(a)
  <2>1. /\ UNCHANGED <<waiter, epoll, woken>>
        /\ \A f \in F : owned'[f] = owned[f] /\ call'[f] = call[f]
    <3> HIDE DEF F
    <3> QED BY <1>4, <1>o DEF UserOpens, UserOpensSocket
  <2> QED BY <2>1, <1>2, Outside DEF server, handle
<1>5. CASE UserCloses(a)
  <2>1. PICK fd \in owned[a] : BeginClose(a, fd)
    BY <1>5 DEF UserCloses
  <2>2. /\ UNCHANGED <<waiter, epoll, woken>>
        /\ \A f \in Actors : f # a => call'[f] = call[f]
        /\ \A f \in Actors : owned'[f] = owned[f] \ {fd}
    BY <2>1, <1>i DEF BeginClose, DescTypes
  <2>3. \A f \in Actors : f # a => fd \notin owned[f]
    BY <1>3, <1>i, OwnerIsAlone
  <2>4. \A f \in F : owned'[f] = owned[f] /\ call'[f] = call[f]
    <3> SUFFICES ASSUME NEW f \in F PROVE owned'[f] = owned[f] /\ call'[f] = call[f]
      OBVIOUS
    <3>1. f \in Actors /\ f # a
      BY <1>f
    <3>2. owned[f] \ {fd} = owned[f]
      BY <3>1, <2>3
    <3> QED BY <3>1, <3>2, <2>2
  <2> QED BY <2>2, <2>4, <1>2, Outside DEF server, handle
<1>6. CASE UserFcntl(a) \/ UserIoctl(a) \/ UserSetsTimeout(a)
  <2>1. UNCHANGED <<waiter, epoll, woken, call, owned>>
    BY <1>6 DEF UserFcntl, UserIoctl, UserSetsTimeout
  <2> QED BY <2>1, <1>2, Outside DEF server, handle
<1>7. ASSUME NEW b \in Users, UserHandsOver(a, b) PROVE ServerPart'
  <2>1. PICK fd \in owned[a] : owned' = [owned EXCEPT ![a] = @ \ {fd}, ![b] = @ \cup {fd}]
    BY <1>7 DEF UserHandsOver
  <2>2. UNCHANGED <<waiter, epoll, woken, call>>
    BY <1>7 DEF UserHandsOver
  <2>3. \A f \in F : owned'[f] = owned[f]
    BY <2>1, <1>f, <1>3, <1>i DEF DescTypes
  <2> QED BY <2>2, <2>3, <1>2, Outside DEF server, handle
<1>8. CASE UserSettings(a)
  BY <1>8, <1>6, <1>7 DEF UserSettings
<1> QED BY <1>1, <1>4, <1>5, <1>8

\* A step inside a call, of the server's own fibers or of anybody.
LEMMA CallingServer == ASSUME ServerInv, NEW a \in Actors, Calling(a) PROVE ServerPart'
<1>i. /\ DescInv /\ DescTypes /\ Exclusive /\ ServerTypes /\ Phases
      /\ MainOwns /\ WorkerOwns /\ HandlersOwn /\ Waiters
  BY DEF ServerInv, DescInv
<1>1. CallStep(a) /\ UNCHANGED <<m_isStop, m_sock, app, backlog, apc, afd, spc, cpu, hpc, abort>>
  BY DEF Calling, server, accept, handle
<1>2. /\ call[a].pc # "ret" /\ UNCHANGED owned
      /\ \A b \in Actors : b # a => call'[b] = call[b]
      /\ call[a].pc \in OpeningPc => call'[a].fd = call[a].fd /\ call'[a].pc \in {"ret"} \cup OpeningPc
      /\ call[a].pc \in ClosingPc => call'[a].pc \in {"ret"} \cup ClosingPc
  <2> USE <1>i DEF DescTypes, OpeningPc, ClosingPc, At, Goto
  <2>1. CASE Look(a)
    BY <2>1 DEF Look
  <2>2. CASE Create(a)
    BY <2>2 DEF Create
  <2>3. CASE Cancel(a)
    BY <2>3 DEF Cancel
  <2>4. CASE Del(a)
    BY <2>4 DEF Del
  <2>5. CASE CloseF(a)
    BY <2>5 DEF CloseF
  <2> QED BY <1>1, <2>1, <2>2, <2>3, <2>4, <2>5 DEF CallStep
<1>p. call[a].pc \in OpeningPc \/ call[a].pc \in ClosingPc
  BY <1>2, <1>i DEF DescTypes
<1>q. call[a].pc \in ClosingPc => call[a].fd \notin owned[a]
  BY <1>i DEF Exclusive
<1>3. MainOwns'
  <2>1. CASE a # Main
    BY <2>1, <1>1, <1>2, <1>i, Distinct DEF MainOwns
  <2>2. CASE a = Main
    <3>1. app \in {"bind_f", "retry"}
      BY <2>2, <1>2, <1>i DEF MainOwns, ServerTypes
    <3>2. app = "bind_f" => call[Main].pc \in OpeningPc
      BY <2>2, <1>2, <1>i DEF MainOwns
    <3>3. spc = "off"
      BY <3>1, <1>i DEF Phases
    <3> QED BY <2>2, <3>1, <3>2, <3>3, <1>1, <1>2, <1>i DEF MainOwns
  <2> QED BY <2>1, <2>2
<1>4. WorkerOwns'
  <2>1. owned'[Stopper] = {} /\ (call'[Stopper].pc # "ret" => spc' = "closing" /\ call'[Stopper].pc \in ClosingPc)
    <3>1. CASE a = Stopper
      BY <3>1, <1>1, <1>2, <1>i DEF WorkerOwns
    <3>2. CASE a # Stopper
      BY <3>2, <1>1, <1>2, <1>i, Distinct DEF WorkerOwns
    <3> QED BY <3>1, <3>2
  <2>2. /\ apc' = "init" => owned'[Acceptor] = {call'[Acceptor].fd}
        /\ apc' # "init" => owned'[Acceptor] = {} /\ call'[Acceptor].pc = "ret"
    <3>1. CASE a = Acceptor
      <4>1. apc = "init" /\ owned[a] = {call[a].fd}
        BY <3>1, <1>2, <1>i DEF WorkerOwns
      <4>2. call[a].pc \in OpeningPc
        BY <4>1, <1>p, <1>q
      <4> QED BY <3>1, <4>1, <4>2, <1>1, <1>2
    <3>2. CASE a # Acceptor
      BY <3>2, <1>1, <1>2, <1>i, Distinct DEF WorkerOwns
    <3> QED BY <3>1, <3>2
  <2> QED BY <2>1, <2>2 DEF WorkerOwns
<1>5. HandlersOwn' /\ \A h \in Clients : hpc[h] = "held" => call'[h].fd = call[h].fd
  <2>1. ASSUME NEW h \in Clients, h = a PROVE hpc[h] = "closing"
    BY <2>1, <1>2, <1>i DEF HandlersOwn
  <2>2. \A h \in Clients : h # a => call'[h] = call[h]
    BY <1>2, Distinct
  <2>3. \A h \in Clients : hpc[h] = "held" => call'[h].fd = call[h].fd
    BY <2>1, <2>2
  <2>4. HandlersOwn'
    BY <2>1, <2>2, <1>1, <1>2, <1>i DEF HandlersOwn
  <2> QED BY <2>3, <2>4
<1>6. CASE UNCHANGED <<waiter, woken>> /\ epoll' \subseteq epoll
  <2>1. ServerTypes' /\ Phases'
    BY <1>6, <1>1, <1>i DEF ServerTypes, Phases
  <2>2. Waiters'
    BY <1>6, <1>1, <1>2, <1>5, <1>i DEF Waiters
  <2> QED BY <2>1, <2>2, <1>3, <1>4, <1>5 DEF ServerPart
<1>7. CASE Cancel(a)
  <2>1. PICK fd \in Fds : fd = call[a].fd
    BY <1>2, <1>i, CallIsAlone
  <2>2. CancelAll(fd)
    BY <2>1, <1>7 DEF Cancel
  <2>3. /\ Waiters'
        /\ waiter' \in [Fds -> Clients \cup {Acceptor, None}]
        /\ epoll' \subseteq Fds
        /\ woken' \subseteq Clients \cup {Acceptor, Stopper}
        /\ apc = "off" /\ Acceptor \notin cpu \cup woken => Acceptor \notin (cpu \cup woken)'
    BY <2>2, <1>1, <1>2, <1>5, WakeOne
  <2>4. ServerTypes'
    BY <2>3, <1>1, <1>i DEF ServerTypes
  <2>5. Phases'
    BY <2>3, <1>1, <1>i DEF Phases
  <2> QED BY <2>3, <2>4, <2>5, <1>3, <1>4, <1>5 DEF ServerPart
<1>8. Look(a) \/ Create(a) \/ Del(a) \/ CloseF(a) => UNCHANGED <<waiter, woken>> /\ epoll' \subseteq epoll
  BY DEF Look, Create, Del, CloseF
<1> QED BY <1>1, <1>6, <1>7, <1>8 DEF CallStep

\* The fiber that sets the server up and calls stop().
LEMMA SetupServer == ASSUME ServerInv, Setup \/ stop PROVE ServerPart'
<1>i. /\ DescInv /\ DescTypes /\ Exclusive /\ ServerTypes /\ Phases
      /\ MainOwns /\ WorkerOwns /\ HandlersOwn /\ Waiters
  BY DEF ServerInv, DescInv
<1> DEFINE F == Clients \cup {Acceptor, Stopper}
<1>f. F \subseteq Actors /\ Main \notin F /\ Main \in Actors
  BY Distinct
<1>l. ASSUME \A f \in F : owned'[f] = owned[f] /\ call'[f] = call[f],
             UNCHANGED <<apc, afd, spc, hpc, waiter, woken, cpu>>, UNCHANGED m_sock \/ apc # "enter"
      PROVE  WorkerOwns' /\ HandlersOwn' /\ Waiters'
  <2>1. WorkerOwns'
    BY <1>l, <1>i DEF WorkerOwns
  <2>2. HandlersOwn'
    BY <1>l, <1>i DEF HandlersOwn
  <2>3. Waiters'
    BY <1>l, <1>i DEF Waiters
  <2> QED BY <2>1, <2>2, <2>3
<1>1. CASE BindOpens
  <2>1. /\ app = "bind" /\ app' = "bind_f"
        /\ UNCHANGED <<m_isStop, m_sock, backlog, apc, afd, spc, cpu, hpc, abort>>
        /\ Opened(Main, "sock", "socket")
    BY <1>1 DEF BindOpens, accept, handle
  <2>2. PICK fd : fd = Lowest
    OBVIOUS
  <2>3. PICK pc \in {"look", "ret"} :
          /\ call' = [call EXCEPT ![Main] = [pc |-> pc, fd |-> fd]]
          /\ owned' = [owned EXCEPT ![Main] = @ \cup {fd}]
          /\ UNCHANGED <<waiter, epoll, woken>>
    BY <2>1, <2>2 DEF Opened
  <2>4. /\ \A f \in F : owned'[f] = owned[f] /\ call'[f] = call[f]
        /\ owned'[Main] = owned[Main] \cup {fd} /\ call'[Main] = [pc |-> pc, fd |-> fd]
    BY <2>3, <1>f, <1>i DEF DescTypes
  <2>5. MainOwns'
    <3>1. owned'[Main] = {call'[Main].fd} /\ call'[Main].pc \in {"ret"} \cup OpeningPc
      BY <2>1, <2>4, <1>i DEF MainOwns, OpeningPc
    <3>2. spc' = "off"
      BY <2>1, <1>i DEF Phases
    <3> QED BY <2>1, <3>1, <3>2 DEF MainOwns
  <2>6. ServerTypes' /\ Phases'
    BY <2>1, <2>3, <1>i DEF ServerTypes, Phases
  <2>7. WorkerOwns' /\ HandlersOwn' /\ Waiters'
    <3> HIDE DEF F
    <3> QED BY <2>1, <2>3, <2>4, <1>l
  <2> QED BY <2>5, <2>6, <2>7 DEF ServerPart
<1>c. ASSUME app = "bind_f", BeginClose(Main, call[Main].fd), app' = "retry",
             UNCHANGED <<m_isStop, m_sock, backlog, apc, afd, spc, cpu, hpc, abort>>
      PROVE  ServerPart'
  <2>1. PICK fd : fd = call[Main].fd
    OBVIOUS
  <2>2. /\ UNCHANGED <<waiter, epoll, woken>>
        /\ \A f \in Actors : f # Main => call'[f] = call[f]
        /\ \A f \in Actors : owned'[f] = owned[f] \ {fd}
    BY <2>1, <1>c, <1>i DEF BeginClose, DescTypes
  <2>3. owned[Main] = {fd} /\ \A f \in Actors : f # Main => fd \notin owned[f]
    BY <2>1, <1>c, <1>f, <1>i, OwnerIsAlone DEF MainOwns
  <2>4. \A f \in F : owned'[f] = owned[f] /\ call'[f] = call[f]
    <3> SUFFICES ASSUME NEW f \in F PROVE owned'[f] = owned[f] /\ call'[f] = call[f]
      OBVIOUS
    <3>1. f \in Actors /\ f # Main
      BY <1>f
    <3>2. owned[f] \ {fd} = owned[f]
      BY <3>1, <2>3
    <3> QED BY <3>1, <3>2, <2>2
  <2>5. MainOwns'
    <3>1. owned'[Main] = {}
      BY <2>2, <2>3, <1>f
    <3>2. spc' = "off"
      BY <1>c, <1>i DEF Phases
    <3> QED BY <1>c, <3>1, <3>2 DEF MainOwns
  <2>6. ServerTypes' /\ Phases'
    BY <1>c, <2>2, <1>i DEF ServerTypes, Phases
  <2>7. WorkerOwns' /\ HandlersOwn' /\ Waiters'
    <3> HIDE DEF F
    <3> QED BY <1>c, <2>2, <2>4, <1>l
  <2> QED BY <2>5, <2>6, <2>7 DEF ServerPart
<1>2. CASE BindFails
  BY <1>2, <1>c DEF BindFails, accept, handle
<1>3. CASE BindSucceeds
  <2>1. CASE fails
    BY <1>3, <2>1, <1>c DEF BindSucceeds, accept, handle
  <2>2. CASE ~fails
    <3>1. /\ app = "bind_f" /\ app' = "bound" /\ m_sock' = call[Main].fd /\ call[Main].pc = "ret"
          /\ UNCHANGED <<m_isStop, backlog, apc, afd, spc, cpu, hpc, abort>>
          /\ UNCHANGED <<waiter, epoll, woken, call, owned>>
      BY <1>3, <2>2 DEF BindSucceeds, accept, handle, At
    <3>2. MainOwns'
      <4>1. spc' = "off"
        BY <3>1, <1>i DEF Phases
      <4> QED BY <3>1, <4>1, <1>i DEF MainOwns
    <3>3. ServerTypes' /\ Phases'
      <4>1. m_sock' \in Fds
        BY <3>1, <1>f, <1>i DEF MainOwns, DescTypes
      <4> QED BY <3>1, <4>1, <1>i DEF ServerTypes, Phases
    <3>4. WorkerOwns' /\ HandlersOwn' /\ Waiters'
      <4>1. \A f \in F : owned'[f] = owned[f] /\ call'[f] = call[f]
        BY <3>1
      <4>2. apc # "enter"
        BY <3>1, <1>i DEF Phases
      <4> HIDE DEF F
      <4> QED BY <3>1, <4>1, <4>2, <1>l
    <3> QED BY <3>2, <3>3, <3>4 DEF ServerPart
  <2> QED BY <2>1, <2>2
<1>4. CASE BindAgain
  <2>1. /\ app = "retry" /\ app' = "bind" /\ call[Main].pc = "ret"
        /\ UNCHANGED <<m_isStop, m_sock, backlog, apc, afd, spc, cpu, hpc, abort>>
        /\ UNCHANGED <<waiter, epoll, woken, call, owned>>
    BY <1>4 DEF BindAgain, accept, handle, calls, At
  <2>2. MainOwns'
    <3>1. spc' = "off"
      BY <2>1, <1>i DEF Phases
    <3> QED BY <2>1, <3>1, <1>i DEF MainOwns
  <2>3. ServerTypes' /\ Phases'
    BY <2>1, <1>i DEF ServerTypes, Phases
  <2>4. WorkerOwns' /\ HandlersOwn' /\ Waiters'
    <3>1. \A f \in F : owned'[f] = owned[f] /\ call'[f] = call[f]
      BY <2>1
    <3> HIDE DEF F
    <3> QED BY <2>1, <3>1, <1>l
  <2> QED BY <2>2, <2>3, <2>4 DEF ServerPart
<1>5. CASE start
  <2>1. /\ app = "bound" /\ app' = "started" /\ m_isStop' = FALSE
        /\ apc' = "loop" /\ woken' = woken \cup {Acceptor}
        /\ UNCHANGED <<m_sock, backlog, afd, spc, cpu, hpc, abort, waiter, epoll, call, owned>>
    BY <1>5 DEF start, handle
  <2>2. apc = "off" /\ Acceptor \notin cpu
    BY <2>1, <1>i DEF Phases
  <2>3. MainOwns' /\ WorkerOwns' /\ HandlersOwn'
    <3>1. MainOwns'
      BY <2>1, <1>i DEF MainOwns
    <3>2. WorkerOwns' /\ HandlersOwn'
      BY <2>1, <2>2, <1>i DEF WorkerOwns, HandlersOwn
    <3> QED BY <3>1, <3>2
  <2>4. ServerTypes' /\ Phases'
    BY <2>1, <2>2, <1>i DEF ServerTypes, Phases
  <2>5. Waiters'
    BY <2>1, <2>2, <1>i, Distinct DEF Waiters
  <2> QED BY <2>3, <2>4, <2>5 DEF ServerPart
<1>6. CASE stop
  <2>1. /\ app = "started" /\ app' = "stopped" /\ m_isStop' = TRUE
        /\ spc' = "cancel" /\ woken' = woken \cup {Stopper}
        /\ UNCHANGED <<m_sock, backlog, apc, afd, cpu, hpc, abort, waiter, epoll, call, owned>>
    BY <1>6 DEF stop, handle
  <2>2. spc = "off"
    BY <2>1, <1>i DEF Phases
  <2>3. MainOwns' /\ WorkerOwns' /\ HandlersOwn'
    <3>1. MainOwns'
      BY <2>1, <1>i DEF MainOwns
    <3>2. WorkerOwns' /\ HandlersOwn'
      BY <2>1, <2>2, <1>i DEF WorkerOwns, HandlersOwn
    <3> QED BY <3>1, <3>2
  <2>4. ServerTypes' /\ Phases'
    BY <2>1, <2>2, <1>i, Distinct DEF ServerTypes, Phases
  <2>5. Waiters'
    BY <2>1, <1>i, Distinct DEF Waiters
  <2> QED BY <2>3, <2>4, <2>5 DEF ServerPart
<1> QED BY <1>1, <1>2, <1>3, <1>4, <1>5, <1>6 DEF Setup

\* The accept worker has two fibers to run.
LEMMA WorkerIsFinite == IsFiniteSet({Acceptor, Stopper})
<1>1. IsFiniteSet({Acceptor}) /\ IsFiniteSet({Stopper})
  BY FS_Singleton
<1>2. {Acceptor} \cup {Stopper} = {Acceptor, Stopper}
  OBVIOUS
<1>3. IsFiniteSet({Acceptor} \cup {Stopper})
  BY <1>1, FS_Union
<1> QED BY <1>2, <1>3

\* A thread of the accept worker takes one of the two fibers.
LEMMA DispatchServer == ASSUME ServerInv, NEW f \in {Acceptor, Stopper}, Dispatch(f) PROVE ServerPart'
<1>i. /\ ServerTypes /\ Phases /\ MainOwns /\ WorkerOwns /\ HandlersOwn /\ Waiters
  BY DEF ServerInv
<1>1. /\ f \in woken /\ Cardinality(cpu) < AcceptThreads
      /\ cpu' = cpu \cup {f} /\ woken' = woken \ {f}
      /\ UNCHANGED <<waiter, epoll, call, owned, m_isStop, m_sock, app, backlog, apc, afd, spc, hpc, abort>>
  BY DEF Dispatch, server, handle
<1>2. Cardinality(cpu') <= AcceptThreads
  <2>1. IsFiniteSet({Acceptor, Stopper})
    BY WorkerIsFinite
  <2>2. IsFiniteSet(cpu)
    BY <2>1, <1>i, FS_Subset DEF ServerTypes
  <2>3. Cardinality(cpu) \in Nat
    BY <2>2, FS_CardinalityType
  <2>4. Cardinality(cpu') = Cardinality(cpu) \/ Cardinality(cpu') = Cardinality(cpu) + 1
    BY <1>1, <2>2, FS_AddElement
  <2> QED BY <1>1, <2>3, <2>4, ServerAssumption
<1>3. ServerTypes'
  BY <1>1, <1>2, <1>i DEF ServerTypes
<1>4. Phases'
  BY <1>1, <1>i, Distinct DEF Phases
<1>5. MainOwns' /\ WorkerOwns' /\ HandlersOwn'
  BY <1>1, <1>i DEF MainOwns, WorkerOwns, HandlersOwn
<1>6. Waiters'
  <2>1. \A g \in Fds : waiter[g] = Acceptor => f # Acceptor
    BY <1>1, <1>i DEF Waiters
  <2>2. \A g \in Fds : waiter'[g] = Acceptor =>
          apc' = "held" /\ afd' = g /\ Acceptor \notin cpu' \cup woken'
    BY <2>1, <1>1, <1>i DEF Waiters
  <2>3. \A g \in Fds : \A h \in Clients : waiter'[g] = h =>
          hpc'[h] = "held" /\ call'[h].fd = g /\ h \notin woken'
    BY <1>1, <1>i DEF Waiters
  <2>4. \A h \in Clients : h \in woken' => hpc'[h] = "held"
    BY <1>1, <1>i DEF Waiters
  <2>5. Acceptor \in cpu' => Acceptor \notin woken'
    BY <1>1, <1>i DEF Waiters
  <2>6. /\ apc' \in {"add", "held"} => afd' # NoFd
        /\ apc' = "enter" => \A h \in Clients : m_sock' \notin owned'[h]
        /\ apc' \in {"try", "direct", "add", "held"} => \A h \in Clients : afd' \notin owned'[h]
    BY <1>1, <1>i DEF Waiters
  <2> QED BY <2>2, <2>3, <2>4, <2>5, <2>6 DEF Waiters
<1> QED BY <1>3, <1>4, <1>5, <1>6 DEF ServerPart

\* A fiber of the accept worker leaves its thread.
LEMMA LeavesThread ==
    ASSUME ServerTypes, NEW f, cpu' = cpu \ {f}
    PROVE  cpu' \subseteq {Acceptor, Stopper} /\ Cardinality(cpu') <= AcceptThreads
<1>1. IsFiniteSet({Acceptor, Stopper})
  BY WorkerIsFinite
<1>2. IsFiniteSet(cpu)
  BY <1>1, FS_Subset DEF ServerTypes
<1>3. Cardinality(cpu) \in Nat /\ Cardinality(cpu) <= AcceptThreads
  BY <1>2, FS_CardinalityType DEF ServerTypes
<1>4. cpu' \subseteq cpu
  OBVIOUS
<1>5. Cardinality(cpu') <= Cardinality(cpu) /\ Cardinality(cpu') \in Nat
  BY <1>2, <1>4, FS_Subset, FS_CardinalityType
<1> QED BY <1>3, <1>4, <1>5, ServerAssumption DEF ServerTypes

\* A number startAccept waits on is no handler's, so nobody waits there.
LEMMA AcceptAlone ==
    ASSUME ServerInv, Acceptor \in cpu, apc = "add"
    PROVE  afd \in Fds /\ waiter[afd] = None
<1>i. ServerTypes /\ HandlersOwn /\ Waiters
  BY DEF ServerInv
<1>1. afd \in Fds /\ \A h \in Clients : afd \notin owned[h]
  BY <1>i DEF ServerTypes, Waiters
<1>2. waiter[afd] \in Clients \cup {Acceptor, None} /\ waiter[afd] # Acceptor
  BY <1>1, <1>i DEF ServerTypes, Waiters
<1>3. ASSUME NEW h \in Clients, waiter[afd] = h PROVE FALSE
  <2>1. hpc[h] = "held" /\ call[h].fd = afd
    BY <1>1, <1>3, <1>i DEF Waiters
  <2>2. afd \in owned[h]
    BY <2>1, <1>i DEF HandlersOwn
  <2> QED BY <1>1, <2>2
<1> QED BY <1>1, <1>2, <1>3

\* A handler's connection is its own, so nobody waits there.
LEMMA RecvAlone ==
    ASSUME ServerInv, NEW h \in Clients, hpc[h] = "recv"
    PROVE  owned[h] = {call[h].fd} /\ call[h].fd \in Fds /\ waiter[call[h].fd] = None
<1>i. DescTypes /\ Exclusive /\ ServerTypes /\ HandlersOwn /\ Waiters
  BY DEF ServerInv, DescInv
<1>h. h \in Actors
  BY Distinct
<1>0. PICK fd : fd = call[h].fd
  OBVIOUS
<1>1. owned[h] = {fd} /\ fd \in Fds
  BY <1>0, <1>h, <1>i DEF HandlersOwn, DescTypes
<1>2. waiter[fd] \in Clients \cup {Acceptor, None}
  BY <1>1, <1>i DEF ServerTypes
<1>3. waiter[fd] # Acceptor
  BY <1>1, <1>i DEF Waiters
<1>4. ASSUME NEW k \in Clients, waiter[fd] = k PROVE FALSE
  <2>1. hpc[k] = "held" /\ call[k].fd = fd
    BY <1>1, <1>4, <1>i DEF Waiters
  <2>2. k # h /\ k \in Actors /\ fd \in owned[k]
    BY <2>1, <1>i, Distinct DEF HandlersOwn
  <2> QED BY <2>2, <1>1, <1>h, <1>i DEF Exclusive
<1> QED BY <1>0, <1>1, <1>2, <1>3, <1>4

\* startAccept.
LEMMA AcceptingServer == ASSUME ServerInv, Accepting PROVE ServerPart'
<1>i. /\ DescInv /\ DescTypes /\ Exclusive /\ ServerTypes /\ Phases
      /\ MainOwns /\ WorkerOwns /\ HandlersOwn /\ Waiters
  BY DEF ServerInv, DescInv
<1>a. apc # "off" /\ Acceptor \in cpu
  <2>1. Acceptor \in cpu
    BY DEF Accepting, AcceptLoop, Enter, Trying, TryFails, TryAccepts, TryAgain, AddEvent, Retry, HandOver
  <2> QED BY <2>1, <1>i DEF Phases
<1>w. Acceptor \notin woken /\ \A g \in Fds : waiter[g] # Acceptor
  BY <1>a, <1>i DEF Waiters
\* Steps that touch neither a descriptor nor a waiter.
<1>l. ASSUME UNCHANGED <<waiter, epoll, woken, call, owned, m_isStop, m_sock, app, backlog, spc, hpc, abort>>,
             apc # "init", apc' \in {"loop", "enter", "try", "direct", "add", "held", "done"},
             cpu' \subseteq cpu, Cardinality(cpu') <= AcceptThreads,
             afd' \in Fds \cup {NoFd}, apc' \in {"add", "held"} => afd' # NoFd,
             apc' = "enter" => \A h \in Clients : m_sock \notin owned[h],
             apc' \in {"try", "direct", "add", "held"} => \A h \in Clients : afd' \notin owned[h]
      PROVE  ServerPart'
  <2>1. ServerTypes'
    BY <1>l, <1>i DEF ServerTypes
  <2>2. Phases'
    BY <1>l, <1>a, <1>i DEF Phases
  <2>3. MainOwns'
    BY <1>l, <1>i DEF MainOwns
  <2>4. WorkerOwns' /\ HandlersOwn'
    BY <1>l, <1>i DEF WorkerOwns, HandlersOwn
  <2>5. Waiters'
    BY <1>l, <1>w, <1>i DEF Waiters
  <2> QED BY <2>1, <2>2, <2>3, <2>4, <2>5 DEF ServerPart
<1>c. Cardinality(cpu) <= AcceptThreads
  BY <1>i DEF ServerTypes
<1>d. afd \in Fds \cup {NoFd} /\ m_sock \in Fds \cup {NoFd}
  BY <1>i DEF ServerTypes
<1>1. CASE AcceptLoop
  <2>1. /\ apc = "loop"
        /\ UNCHANGED <<waiter, epoll, woken, call, owned, m_isStop, m_sock, app, backlog, afd, spc, hpc, abort>>
    BY <1>1 DEF AcceptLoop, calls, server, handle
  <2>2. CASE apc' = "done" /\ cpu' = cpu \ {Acceptor}
    <3>1. Cardinality(cpu') <= AcceptThreads
      BY <2>2, <1>i, LeavesThread
    <3>2. /\ apc' = "done" /\ afd' \in Fds \cup {NoFd} /\ cpu' \subseteq cpu
      BY <2>1, <2>2, <1>d
    <3> QED BY <2>1, <3>1, <3>2, <1>l
  <2>3. CASE ~m_isStop /\ apc' = "enter" /\ UNCHANGED cpu
    <3>1. owned[Main] = {m_sock}
      BY <2>3, <1>i DEF Phases, MainOwns
    <3>2. \A h \in Clients : m_sock \notin owned[h]
      BY <3>1, <1>i, Distinct DEF Exclusive
    <3> QED BY <2>1, <2>3, <3>2, <1>c, <1>d, <1>l
  <2> QED BY <1>1, <2>2, <2>3 DEF AcceptLoop
<1>8. CASE Enter
  <2>1. /\ apc = "enter" /\ afd' = m_sock /\ apc' \in {"try", "direct"}
        /\ UNCHANGED <<waiter, epoll, woken, call, owned, m_isStop, m_sock, app, backlog, spc, hpc, abort>>
        /\ UNCHANGED cpu
    BY <1>8 DEF Enter, calls, server, handle
  <2>2. \A h \in Clients : m_sock \notin owned[h]
    BY <2>1, <1>i DEF Waiters
  <2> QED BY <2>1, <2>2, <1>c, <1>d, <1>l
<1>2. CASE TryFails
  BY <1>2, <1>c, <1>l DEF TryFails, Trying, calls, server, handle
<1>3. CASE TryAgain
  <2>1. /\ apc = "try" /\ apc' = "add" /\ afd # NoFd
        /\ UNCHANGED <<waiter, epoll, woken, call, owned, m_isStop, m_sock, app, backlog, spc, hpc, abort>>
        /\ UNCHANGED <<afd, cpu>>
    BY <1>3 DEF TryAgain, Trying, calls, server, handle
  <2>2. afd \in Fds \cup {NoFd} /\ \A h \in Clients : afd \notin owned[h]
    BY <2>1, <1>i DEF ServerTypes, Waiters
  <2> QED BY <2>1, <2>2, <1>c, <1>l
<1>4. CASE Retry
  <2>1. /\ apc = "held" /\ apc' = "try"
        /\ UNCHANGED <<waiter, epoll, woken, call, owned, m_isStop, m_sock, app, backlog, spc, hpc, abort>>
        /\ UNCHANGED <<afd, cpu>>
    BY <1>4 DEF Retry, calls, server, handle
  <2>2. afd \in Fds \cup {NoFd} /\ \A h \in Clients : afd \notin owned[h]
    BY <2>1, <1>i DEF ServerTypes, Waiters
  <2> QED BY <2>1, <2>2, <1>c, <1>l
<1>5. CASE AddEvent
  <2>1. /\ apc = "add"
        /\ UNCHANGED <<woken, call, owned, m_isStop, m_sock, app, backlog, afd, spc, hpc>>
    BY <1>5 DEF AddEvent, server, handle
  <2>2. afd \in Fds /\ \A h \in Clients : afd \notin owned[h]
    BY <2>1, <1>i DEF ServerTypes, Waiters
  <2>3. CASE ~IsOpen(afd)
    <3>1. apc' = "loop" /\ UNCHANGED <<waiter, epoll, cpu, abort>>
      BY <1>5, <2>3 DEF AddEvent
    <3> QED BY <2>1, <2>2, <3>1, <1>c, <1>l
  <2>4. CASE IsOpen(afd)
    <3>1. /\ waiter' = [waiter EXCEPT ![afd] = Acceptor]
          /\ epoll' = epoll \cup {afd}
          /\ apc' = "held" /\ cpu' = cpu \ {Acceptor}
      BY <1>5, <2>4 DEF AddEvent
    <3>3. cpu' \subseteq {Acceptor, Stopper} /\ Cardinality(cpu') <= AcceptThreads
      BY <3>1, <1>i, LeavesThread
    <3>4. waiter' \in [Fds -> Clients \cup {Acceptor, None}] /\ epoll' \subseteq Fds
      BY <3>1, <2>2, <1>i DEF ServerTypes
    <3>5. ServerTypes'
      BY <2>1, <3>1, <3>3, <3>4, <1>i DEF ServerTypes
    <3>6. Phases'
      BY <2>1, <3>1, <1>a, <1>i DEF Phases
    <3>7. MainOwns'
      BY <2>1, <1>i DEF MainOwns
    <3>8. WorkerOwns' /\ HandlersOwn'
      BY <2>1, <3>1, <1>i DEF WorkerOwns, HandlersOwn
    <3>9. Waiters'
      <4>1. waiter'[afd] = Acceptor /\ \A g \in Fds : g # afd => waiter'[g] = waiter[g]
        BY <3>1, <2>2, <1>i DEF ServerTypes
      <4>2. \A g \in Fds : waiter'[g] = Acceptor =>
              apc' = "held" /\ afd' = g /\ Acceptor \notin cpu' \cup woken'
        BY <4>1, <2>1, <3>1, <1>w
      <4>3. \A g \in Fds : \A h \in Clients : waiter'[g] = h =>
              hpc'[h] = "held" /\ call'[h].fd = g /\ h \notin woken'
        BY <4>1, <2>1, <1>i, Distinct DEF Waiters
      <4>4. \A h \in Clients : h \in woken' => hpc'[h] = "held"
        BY <2>1, <1>i DEF Waiters
      <4>5. Acceptor \notin cpu' /\ afd' # NoFd /\ \A h \in Clients : afd' \notin owned'[h]
        BY <2>1, <2>2, <3>1, ActorsAssumption
      <4> QED BY <3>1, <4>2, <4>3, <4>4, <4>5 DEF Waiters
    <3> QED BY <3>5, <3>6, <3>7, <3>8, <3>9 DEF ServerPart
  <2> QED BY <2>3, <2>4
<1>6. CASE TryAccepts
  <2>1. /\ apc \in {"try", "direct"} /\ apc' = "init" /\ afd' = NoFd
        /\ backlog > 0 /\ backlog' = backlog - 1
        /\ UNCHANGED <<m_isStop, m_sock, app, spc, cpu, hpc, abort>>
        /\ Opened(Acceptor, "sock", "accept")
    BY <1>6 DEF TryAccepts, Trying, server, handle
  <2>2. PICK fd : fd = Lowest
    OBVIOUS
  <2>3. /\ call' = [call EXCEPT ![Acceptor] = [pc |-> "look", fd |-> fd]]
        /\ owned' = [owned EXCEPT ![Acceptor] = @ \cup {fd}]
        /\ UNCHANGED <<waiter, epoll, woken>>
    BY <2>1, <2>2 DEF Opened
  <2>4. /\ \A f \in Actors : f # Acceptor => owned'[f] = owned[f] /\ call'[f] = call[f]
        /\ owned'[Acceptor] = owned[Acceptor] \cup {fd} /\ call'[Acceptor] = [pc |-> "look", fd |-> fd]
    BY <2>3, <1>i, Distinct DEF DescTypes
  <2>5. ServerTypes'
    <3>1. backlog' \in 0 .. Cardinality(Clients)
      <4>1. Cardinality(Clients) \in Nat
        BY FibersAssumption, FS_CardinalityType
      <4> QED BY <2>1, <4>1, <1>i DEF ServerTypes
    <3> QED BY <2>1, <2>3, <3>1, <1>i DEF ServerTypes
  <2>6. Phases'
    BY <2>1, <2>3, <1>a, <1>i DEF Phases
  <2>7. MainOwns'
    BY <2>1, <2>4, <1>i, Distinct DEF MainOwns
  <2>8. WorkerOwns'
    BY <2>1, <2>4, <1>i, Distinct DEF WorkerOwns
  <2>9. HandlersOwn'
    BY <2>1, <2>4, <1>i, Distinct DEF HandlersOwn
  <2>10. Waiters'
    BY <2>1, <2>3, <2>4, <1>w, <1>i, Distinct DEF Waiters
  <2> QED BY <2>5, <2>6, <2>7, <2>8, <2>9, <2>10 DEF ServerPart
<1>7. CASE HandOver
  <2>0. PICK fd : fd = call[Acceptor].fd
    OBVIOUS
  <2>1. /\ apc = "init" /\ apc' = "loop" /\ call[Acceptor].pc = "ret"
        /\ UNCHANGED <<waiter, epoll, woken, m_isStop, m_sock, app, backlog, afd, spc, cpu, abort>>
    BY <1>7 DEF HandOver, server, At
  <2>2. PICK h \in Clients :
          /\ hpc[h] = "off"
          /\ hpc' = [hpc EXCEPT ![h] = "recv"]
          /\ call' = [call EXCEPT ![h].fd = fd]
          /\ owned' = [owned EXCEPT ![h] = {fd}, ![Acceptor] = @ \ {fd}]
    BY <2>0, <1>7 DEF HandOver
  <2>3. h \in Actors /\ h # Main /\ h # Acceptor /\ h # Stopper /\ Acceptor \in Actors
    BY Distinct
  <2>4. /\ \A f \in Actors : f # Acceptor /\ f # h => owned'[f] = owned[f] /\ call'[f] = call[f]
        /\ owned'[Acceptor] = owned[Acceptor] \ {fd} /\ call'[Acceptor] = call[Acceptor]
        /\ owned'[h] = {fd} /\ call'[h].fd = fd /\ call'[h].pc = call[h].pc
    BY <2>2, <2>3, <1>i DEF DescTypes
  <2>5. /\ hpc'[h] = "recv" /\ \A k \in Clients : k # h => hpc'[k] = hpc[k]
        /\ hpc' \in [Clients -> HandlerPc]
    BY <2>2, <1>i DEF ServerTypes, HandlerPc
  <2>6. ServerTypes'
    BY <2>1, <2>5, <1>i DEF ServerTypes
  <2>7. Phases'
    BY <2>1, <1>a, <1>i DEF Phases
  <2>8. MainOwns'
    BY <2>1, <2>3, <2>4, <1>i, Distinct DEF MainOwns
  <2>9. WorkerOwns'
    BY <2>0, <2>1, <2>3, <2>4, <1>i, Distinct DEF WorkerOwns
  <2>10. HandlersOwn'
    <3>1. call'[h].pc = "ret"
      BY <2>2, <2>4, <1>i DEF HandlersOwn
    <3>2. \A k \in Clients : k # h => owned'[k] = owned[k] /\ call'[k] = call[k] /\ hpc'[k] = hpc[k]
      BY <2>4, <2>5, Distinct
    <3> QED BY <2>4, <2>5, <3>1, <3>2, <1>i DEF HandlersOwn
  <2>11. Waiters'
    <3>1. h \notin woken /\ \A g \in Fds : waiter[g] # h
      BY <2>2, <1>i DEF Waiters
    <3>2. \A k \in Clients : k # h => call'[k] = call[k] /\ hpc'[k] = hpc[k]
      BY <2>4, <2>5, Distinct
    <3> QED BY <2>1, <3>1, <3>2, <1>w, <1>i DEF Waiters
  <2> QED BY <2>6, <2>7, <2>8, <2>9, <2>10, <2>11 DEF ServerPart
<1> QED BY <1>1, <1>2, <1>3, <1>4, <1>5, <1>6, <1>7, <1>8 DEF Accepting

\* The callback of stop().
LEMMA StoppingServer == ASSUME ServerInv, Stopping PROVE ServerPart'
<1>i. /\ DescInv /\ DescTypes /\ Exclusive /\ ServerTypes /\ Phases
      /\ MainOwns /\ WorkerOwns /\ HandlersOwn /\ Waiters
  BY DEF ServerInv, DescInv
<1>1. CASE StopCancels
  <2>1. /\ spc = "cancel" /\ spc' = "close" /\ CancelAll(m_sock)
        /\ UNCHANGED <<call, owned, m_isStop, m_sock, app, backlog, apc, afd, cpu, hpc, abort>>
    BY <1>1 DEF StopCancels, server, handle
  <2>2. m_sock \in Fds
    BY <2>1, <1>i, Distinct DEF MainOwns, DescTypes
  <2>3. /\ Waiters'
        /\ waiter' \in [Fds -> Clients \cup {Acceptor, None}]
        /\ epoll' \subseteq Fds
        /\ woken' \subseteq Clients \cup {Acceptor, Stopper}
        /\ apc = "off" /\ Acceptor \notin cpu \cup woken => Acceptor \notin (cpu \cup woken)'
    BY <2>1, <2>2, WakeOne
  <2>4. ServerTypes'
    BY <2>1, <2>3, <1>i DEF ServerTypes
  <2>5. Phases'
    BY <2>1, <2>3, <1>i DEF Phases
  <2>6. MainOwns' /\ WorkerOwns' /\ HandlersOwn'
    BY <2>1, <1>i DEF MainOwns, WorkerOwns, HandlersOwn
  <2> QED BY <2>3, <2>4, <2>5, <2>6 DEF ServerPart
<1>2. CASE StopCloses
  <2>0. PICK fd : fd = m_sock
    OBVIOUS
  <2>1. /\ spc = "close" /\ spc' = "closing" /\ BeginClose(Stopper, fd)
        /\ UNCHANGED <<m_isStop, m_sock, app, backlog, apc, afd, cpu, hpc, abort>>
    BY <2>0, <1>2 DEF StopCloses, server, handle
  <2>2. app = "stopped" /\ owned[Main] = {fd}
    BY <2>0, <2>1, <1>i DEF Phases, MainOwns
  <2>3. PICK pc \in {"cancel", "closef"} : call' = [call EXCEPT ![Stopper] = [pc |-> pc, fd |-> fd]]
    BY <2>1 DEF BeginClose
  <2>4. /\ UNCHANGED <<waiter, epoll, woken>>
        /\ call'[Stopper].pc = pc
        /\ \A f \in Actors : f # Stopper => call'[f] = call[f]
        /\ \A f \in Actors : owned'[f] = owned[f] \ {fd}
    BY <2>1, <2>3, <1>i, Distinct DEF BeginClose, DescTypes
  <2>5. \A f \in Actors : f # Main => fd \notin owned[f]
    BY <2>2, <1>i, Distinct DEF Exclusive
  <2>6. owned'[Main] = {} /\ \A f \in Actors : f # Main => owned'[f] = owned[f]
    <3>1. ASSUME NEW f \in Actors, f # Main PROVE owned'[f] = owned[f]
      <4>1. owned[f] \ {fd} = owned[f]
        BY <3>1, <2>5
      <4> QED BY <4>1, <2>4
    <3>2. owned'[Main] = {}
      BY <2>2, <2>4, Distinct
    <3> QED BY <3>1, <3>2
  <2>7. ServerTypes' /\ Phases'
    BY <2>1, <2>4, <1>i DEF ServerTypes, Phases
  <2>8. MainOwns'
    BY <2>1, <2>2, <2>4, <2>6, <1>i, Distinct DEF MainOwns
  <2>9. WorkerOwns'
    BY <2>1, <2>4, <2>6, <1>i, Distinct DEF WorkerOwns, ClosingPc
  <2>10. HandlersOwn'
    BY <2>1, <2>4, <2>6, <1>i, Distinct DEF HandlersOwn
  <2>11. Waiters'
    BY <2>1, <2>4, <2>6, <1>i, Distinct DEF Waiters
  <2> QED BY <2>7, <2>8, <2>9, <2>10, <2>11 DEF ServerPart
<1>3. CASE StopEnds
  <2>1. /\ spc = "closing" /\ spc' = "done" /\ call[Stopper].pc = "ret"
        /\ m_sock' = NoFd /\ cpu' = cpu \ {Stopper} /\ backlog' = 0
        /\ UNCHANGED <<waiter, epoll, woken, call, owned, m_isStop, app, apc, afd, hpc, abort>>
    BY <1>3 DEF StopEnds, calls, handle, At
  <2>2. cpu' \subseteq {Acceptor, Stopper} /\ Cardinality(cpu') <= AcceptThreads
    BY <2>1, <1>i, LeavesThread
  <2>3. 0 \in 0 .. Cardinality(Clients)
    BY FibersAssumption, FS_CardinalityType
  <2>4. ServerTypes'
    BY <2>1, <2>2, <2>3, <1>i DEF ServerTypes
  <2>5. Phases'
    BY <2>1, <1>i DEF Phases
  <2>6. MainOwns'
    BY <2>1, <1>i DEF MainOwns, Phases
  <2>7. WorkerOwns' /\ HandlersOwn'
    BY <2>1, <1>i DEF WorkerOwns, HandlersOwn
  <2>8. Waiters'
    <3>1. \A h \in Clients : NoFd \notin owned[h]
      BY <1>i, Distinct, ActorsAssumption DEF DescTypes
    <3> QED BY <2>1, <3>1, <1>i DEF Waiters
  <2> QED BY <2>4, <2>5, <2>6, <2>7, <2>8 DEF ServerPart
<1> QED BY <1>1, <1>2, <1>3 DEF Stopping

\* A handler, from its first recv to the close of its session.
LEMMA HandlingServer == ASSUME ServerInv, NEW h \in Clients, Handling(h) PROVE ServerPart'
<1>i. /\ DescInv /\ DescTypes /\ Exclusive /\ ServerTypes /\ Phases
      /\ MainOwns /\ WorkerOwns /\ HandlersOwn /\ Waiters
  BY DEF ServerInv, DescInv
<1>h. h \in Actors /\ h # Main /\ h # Acceptor /\ h # Stopper /\ h # None
  BY Distinct
<1>t. hpc \in [Clients -> HandlerPc]
  BY <1>i DEF ServerTypes
\* Steps that touch neither a descriptor nor a waiter.
<1>l. ASSUME NEW pc \in {"recv", "send", "blocked", "close"}, hpc' = [hpc EXCEPT ![h] = pc],
             hpc[h] \in {"recv", "send", "blocked"},
             UNCHANGED <<waiter, epoll, woken, call, owned, m_isStop, m_sock, app, backlog, apc, afd,
                         spc, cpu>>
      PROVE  ServerPart'
  <2>2. /\ hpc'[h] = pc /\ \A k \in Clients : k # h => hpc'[k] = hpc[k]
        /\ hpc' \in [Clients -> HandlerPc]
    BY <1>l, <1>t DEF HandlerPc
  <2>3. ServerTypes' /\ Phases'
    BY <1>l, <2>2, <1>i DEF ServerTypes, Phases
  <2>4. MainOwns' /\ WorkerOwns'
    BY <1>l, <1>i DEF MainOwns, WorkerOwns
  <2>5. HandlersOwn'
    BY <1>l, <2>2, <1>i DEF HandlersOwn
  <2>6. Waiters'
    BY <1>l, <2>2, <1>i DEF Waiters
  <2> QED BY <2>3, <2>4, <2>5, <2>6 DEF ServerPart
<1>1. CASE Recv(h) \/ Send(h) \/ SendWaits(h) \/ SendRetries(h)
  <2>1. UNCHANGED <<waiter, epoll, woken, call, owned, m_isStop, m_sock, app, backlog, apc, afd, spc, cpu>>
    BY <1>1 DEF Recv, Send, SendWaits, SendRetries, calls, server, accept
  <2>2. hpc[h] \in {"recv", "send", "blocked"}
    BY <1>1 DEF Recv, Send, SendWaits, SendRetries
  <2>3. UNCHANGED hpc \/ \E pc \in {"send", "blocked", "close"} : hpc' = [hpc EXCEPT ![h] = pc]
    BY <1>1 DEF Recv, Send, SendWaits, SendRetries
  <2>4. UNCHANGED hpc => hpc' = [hpc EXCEPT ![h] = hpc[h]]
    BY <1>t
  <2>5. PICK pc \in {"recv", "send", "blocked", "close"} : hpc' = [hpc EXCEPT ![h] = pc]
    BY <2>2, <2>3, <2>4
  <2> QED BY <2>1, <2>2, <2>5, <1>l
<1>2. CASE RecvWaits(h)
  <2>0. PICK fd : fd = call[h].fd
    OBVIOUS
  <2>1. /\ hpc[h] = "recv" /\ hpc' = [hpc EXCEPT ![h] = "held"]
        /\ waiter' = [waiter EXCEPT ![fd] = h]
        /\ epoll' = epoll \cup {fd}
        /\ UNCHANGED <<woken, call, owned, m_isStop, m_sock, app, backlog, apc, afd, spc, cpu>>
    BY <2>0, <1>2 DEF RecvWaits, server, accept
  <2>2. /\ hpc'[h] = "held" /\ \A k \in Clients : k # h => hpc'[k] = hpc[k]
        /\ hpc' \in [Clients -> HandlerPc]
    BY <2>1, <1>t DEF HandlerPc
  <2>3. owned[h] = {fd} /\ fd \in Fds
    BY <2>0, <2>1, <1>h, <1>i DEF HandlersOwn, DescTypes
  <2>4. waiter[fd] = None
    BY <2>0, <2>1, RecvAlone
  <2>5. /\ waiter'[fd] = h /\ \A g \in Fds : g # fd => waiter'[g] = waiter[g]
        /\ waiter' \in [Fds -> Clients \cup {Acceptor, None}] /\ epoll' \subseteq Fds
    BY <2>1, <2>3, <1>i DEF ServerTypes
  <2>6. ServerTypes'
    BY <2>1, <2>2, <2>5, <1>i DEF ServerTypes
  <2>7. Phases'
    BY <2>1, <1>i DEF Phases
  <2>8. MainOwns' /\ WorkerOwns'
    BY <2>1, <1>i DEF MainOwns, WorkerOwns
  <2>9. HandlersOwn'
    BY <2>1, <2>2, <1>i DEF HandlersOwn
  <2>10. Waiters'
    <3>1. h \notin woken
      BY <2>1, <1>i DEF Waiters
    <3>2. \A g \in Fds : waiter'[g] = Acceptor =>
            apc' = "held" /\ afd' = g /\ Acceptor \notin cpu' \cup woken'
      BY <2>1, <2>5, <1>h, <1>i DEF Waiters
    <3>3. ASSUME NEW g \in Fds, NEW k \in Clients, waiter'[g] = k
          PROVE  hpc'[k] = "held" /\ call'[k].fd = g /\ k \notin woken'
      <4>1. CASE g = fd
        BY <4>1, <3>1, <3>3, <2>0, <2>1, <2>2, <2>5
      <4>2. CASE g # fd
        <5>1. waiter[g] = k
          BY <4>2, <3>3, <2>5
        <5>2. hpc[k] = "held" /\ call[k].fd = g /\ k \notin woken
          BY <5>1, <1>i DEF Waiters
        <5> QED BY <5>2, <2>1, <2>2
      <4> QED BY <4>1, <4>2
    <3>4. \A k \in Clients : k \in woken' => hpc'[k] = "held"
      BY <2>1, <2>2, <1>i DEF Waiters
    <3>5. /\ Acceptor \in cpu' => Acceptor \notin woken'
          /\ apc' \in {"add", "held"} => afd' # NoFd
          /\ apc' = "enter" => \A k \in Clients : m_sock' \notin owned'[k]
          /\ apc' \in {"try", "direct", "add", "held"} => \A k \in Clients : afd' \notin owned'[k]
      BY <2>1, <1>i DEF Waiters
    <3> QED BY <3>2, <3>3, <3>4, <3>5 DEF Waiters
  <2> QED BY <2>6, <2>7, <2>8, <2>9, <2>10 DEF ServerPart
<1>3. CASE RecvRetries(h)
  <2>1. /\ hpc[h] = "held" /\ h \in woken /\ woken' = woken \ {h}
        /\ hpc' = [hpc EXCEPT ![h] = "recv"]
        /\ UNCHANGED <<waiter, epoll, call, owned, m_isStop, m_sock, app, backlog, apc, afd,
                       spc, cpu, abort>>
    BY <1>3 DEF RecvRetries, server, accept
  <2>2. /\ hpc'[h] = "recv" /\ \A k \in Clients : k # h => hpc'[k] = hpc[k]
        /\ hpc' \in [Clients -> HandlerPc]
    BY <2>1, <1>t DEF HandlerPc
  <2>3. ServerTypes' /\ Phases'
    BY <2>1, <2>2, <1>i DEF ServerTypes, Phases
  <2>4. MainOwns' /\ WorkerOwns'
    BY <2>1, <1>i DEF MainOwns, WorkerOwns
  <2>5. HandlersOwn'
    BY <2>1, <2>2, <1>i DEF HandlersOwn
  <2>6. Waiters'
    <3>1. \A g \in Fds : waiter[g] # h
      BY <2>1, <1>i DEF Waiters
    <3> QED BY <2>1, <2>2, <3>1, <1>h, <1>i DEF Waiters
  <2> QED BY <2>3, <2>4, <2>5, <2>6 DEF ServerPart
<1>4. CASE RecvTimesOut(h)
  <2>0. PICK fd : fd = call[h].fd
    OBVIOUS
  <2>1. /\ hpc[h] = "held" /\ waiter[fd] = h /\ hpc' = [hpc EXCEPT ![h] = "close"]
        /\ waiter' = [waiter EXCEPT ![fd] = None]
        /\ epoll' = epoll \ {fd}
        /\ UNCHANGED <<woken, call, owned, m_isStop, m_sock, app, backlog, apc, afd, spc, cpu, abort>>
    BY <2>0, <1>4 DEF RecvTimesOut, server, accept
  <2>2. /\ hpc'[h] = "close" /\ \A k \in Clients : k # h => hpc'[k] = hpc[k]
        /\ hpc' \in [Clients -> HandlerPc]
    BY <2>1, <1>t DEF HandlerPc
  <2>3. owned[h] = {fd} /\ fd \in Fds
    BY <2>0, <2>1, <1>h, <1>i DEF HandlersOwn, DescTypes
  <2>5. /\ waiter'[fd] = None /\ \A g \in Fds : g # fd => waiter'[g] = waiter[g]
        /\ waiter' \in [Fds -> Clients \cup {Acceptor, None}] /\ epoll' \subseteq Fds
    BY <2>1, <2>3, <1>i DEF ServerTypes
  <2>6. ServerTypes'
    BY <2>1, <2>2, <2>5, <1>i DEF ServerTypes
  <2>7. Phases'
    BY <2>1, <1>i DEF Phases
  <2>8. MainOwns' /\ WorkerOwns'
    BY <2>1, <1>i DEF MainOwns, WorkerOwns
  <2>9. HandlersOwn'
    BY <2>1, <2>2, <1>i DEF HandlersOwn
  <2>10. Waiters'
    <3>1. h \notin woken /\ \A g \in Fds : waiter[g] = h => g = fd
      BY <2>0, <2>1, <2>3, <1>i DEF Waiters
    <3>2. \A g \in Fds : waiter'[g] = Acceptor => waiter[g] = Acceptor
      BY <2>5, Distinct
    <3>3. \A g \in Fds : \A k \in Clients : waiter'[g] = k => waiter[g] = k /\ k # h
      BY <2>5, <3>1, Distinct
    <3> QED BY <2>1, <2>2, <3>1, <3>2, <3>3, <1>i DEF Waiters
  <2> QED BY <2>6, <2>7, <2>8, <2>9, <2>10 DEF ServerPart
<1>5. CASE Closes(h)
  <2>0. PICK fd : fd = call[h].fd
    OBVIOUS
  <2>1. /\ hpc[h] = "close" /\ hpc' = [hpc EXCEPT ![h] = "closing"] /\ BeginClose(h, fd)
        /\ UNCHANGED <<m_isStop, m_sock, app, backlog, apc, afd, spc, cpu, abort>>
    BY <2>0, <1>5 DEF Closes, server, accept
  <2>2. /\ hpc'[h] = "closing" /\ \A k \in Clients : k # h => hpc'[k] = hpc[k]
        /\ hpc' \in [Clients -> HandlerPc]
    BY <2>1, <1>t DEF HandlerPc
  <2>3. owned[h] = {fd}
    BY <2>0, <2>1, <1>i DEF HandlersOwn
  <2>4. /\ UNCHANGED <<waiter, epoll, woken>>
        /\ \A f \in Actors : f # h => call'[f] = call[f]
        /\ \A f \in Actors : owned'[f] = owned[f] \ {fd}
    BY <2>1, <1>i DEF BeginClose, DescTypes
  <2>5. owned'[h] = {} /\ \A f \in Actors : f # h => owned'[f] = owned[f]
    <3>1. ASSUME NEW f \in Actors, f # h PROVE owned'[f] = owned[f]
      <4>1. fd \notin owned[f]
        BY <3>1, <2>3, <1>h, <1>i DEF Exclusive
      <4>2. owned[f] \ {fd} = owned[f]
        BY <4>1
      <4> QED BY <4>2, <2>4
    <3>2. owned'[h] = {}
      BY <2>3, <2>4, <1>h
    <3> QED BY <3>1, <3>2
  <2>6. ServerTypes' /\ Phases'
    BY <2>1, <2>2, <2>4, <1>i DEF ServerTypes, Phases
  <2>7. MainOwns' /\ WorkerOwns'
    <3>1. MainOwns'
      BY <2>1, <2>4, <2>5, <1>h, <1>i, Distinct DEF MainOwns
    <3>2. WorkerOwns'
      BY <2>1, <2>4, <2>5, <1>h, <1>i, Distinct DEF WorkerOwns
    <3> QED BY <3>1, <3>2
  <2>8. HandlersOwn'
    BY <2>2, <2>4, <2>5, <1>h, <1>i, Distinct DEF HandlersOwn
  <2>9. Waiters'
    <3>1. h \notin woken /\ \A g \in Fds : waiter[g] # h
      BY <2>1, <1>i DEF Waiters
    <3>2. \A k \in Clients : k # h => call'[k] = call[k] /\ hpc'[k] = hpc[k] /\ owned'[k] = owned[k]
      BY <2>2, <2>4, <2>5, Distinct
    <3> QED BY <2>1, <2>4, <2>5, <3>1, <3>2, <1>i DEF Waiters
  <2> QED BY <2>6, <2>7, <2>8, <2>9 DEF ServerPart
<1>6. CASE Ends(h)
  <2>1. /\ hpc[h] = "closing" /\ call[h].pc = "ret" /\ hpc' = [hpc EXCEPT ![h] = "done"]
        /\ UNCHANGED <<waiter, epoll, woken, call, owned, m_isStop, m_sock, app, backlog, apc, afd,
                       spc, cpu, abort>>
    BY <1>6 DEF Ends, calls, server, accept, At
  <2>2. /\ hpc'[h] = "done" /\ \A k \in Clients : k # h => hpc'[k] = hpc[k]
        /\ hpc' \in [Clients -> HandlerPc]
    BY <2>1, <1>t DEF HandlerPc
  <2>3. ServerTypes' /\ Phases'
    BY <2>1, <2>2, <1>i DEF ServerTypes, Phases
  <2>4. MainOwns' /\ WorkerOwns'
    BY <2>1, <1>i DEF MainOwns, WorkerOwns
  <2>5. HandlersOwn'
    BY <2>1, <2>2, <1>i DEF HandlersOwn
  <2>6. Waiters'
    BY <2>1, <2>2, <1>i DEF Waiters
  <2> QED BY <2>3, <2>4, <2>5, <2>6 DEF ServerPart
<1> QED BY <1>1, <1>2, <1>3, <1>4, <1>5, <1>6 DEF Handling

\* Clients and the kernel.
LEMMA EnvironmentServer ==
    ASSUME ServerInv, Connects \/ AddressFreed \/ \E h \in Clients : Sends(h) \/ Takes(h)
    PROVE  ServerPart'
<1>i. /\ DescInv /\ DescTypes /\ ServerTypes /\ Phases
      /\ MainOwns /\ WorkerOwns /\ HandlersOwn /\ Waiters
  BY DEF ServerInv, DescInv
<1>l. ASSUME NEW fd \in Fds, CancelAll(fd) \/ UNCHANGED <<woken, waiter, epoll>>,
             UNCHANGED <<call, owned, m_isStop, m_sock, app, apc, afd, spc, cpu, hpc, abort>>,
             backlog' \in 0 .. Cardinality(Clients)
      PROVE  ServerPart'
  <2>1. MainOwns' /\ WorkerOwns' /\ HandlersOwn'
    BY <1>l, <1>i DEF MainOwns, WorkerOwns, HandlersOwn
  <2>2. CASE CancelAll(fd)
    <3>1. /\ Waiters'
          /\ waiter' \in [Fds -> Clients \cup {Acceptor, None}]
          /\ epoll' \subseteq Fds
          /\ woken' \subseteq Clients \cup {Acceptor, Stopper}
          /\ apc = "off" /\ Acceptor \notin cpu \cup woken => Acceptor \notin (cpu \cup woken)'
      BY <2>2, <1>l, WakeOne
    <3>2. ServerTypes'
      BY <3>1, <1>l, <1>i DEF ServerTypes
    <3>3. Phases'
      BY <3>1, <1>l, <1>i DEF Phases
    <3> QED BY <2>1, <3>1, <3>2, <3>3 DEF ServerPart
  <2>3. CASE UNCHANGED <<woken, waiter, epoll>>
    <3>1. ServerTypes' /\ Phases'
      BY <2>3, <1>l, <1>i DEF ServerTypes, Phases
    <3>2. Waiters'
      BY <2>3, <1>l, <1>i DEF Waiters
    <3> QED BY <2>1, <3>1, <3>2 DEF ServerPart
  <2> QED BY <1>l, <2>2, <2>3
<1>b. backlog \in 0 .. Cardinality(Clients)
  BY <1>i DEF ServerTypes
<1>1. CASE Connects
  <2>1. PICK n \in Nat : n = Cardinality({h \in Clients : hpc[h] # "off"})
    BY FibersAssumption, FS_Subset, FS_CardinalityType
  <2>2. Cardinality(Clients) \in Nat
    BY FibersAssumption, FS_CardinalityType
  <2>3. PICK m \in {0, 1} : m = IF apc = "init" THEN 1 ELSE 0
    OBVIOUS
  <2>4. backlog' = backlog + 1 /\ backlog + n + m < Cardinality(Clients)
    BY <1>1, <2>1, <2>3 DEF Connects
  <2>5. backlog' \in 0 .. Cardinality(Clients)
    BY <1>b, <2>2, <2>4
  <2>6. m_sock \in Fds
    BY <1>1, <1>i DEF Connects, ServerTypes
  <2>7. CancelAll(m_sock) \/ UNCHANGED <<woken, waiter, epoll>>
    BY <1>1 DEF Connects, Report, CancelAll
  <2>8. UNCHANGED <<call, owned, m_isStop, m_sock, app, apc, afd, spc, cpu, hpc, abort>>
    BY <1>1 DEF Connects, server, handle
  <2> QED BY <2>5, <2>6, <2>7, <2>8, <1>l
<1>2. ASSUME NEW h \in Clients, Sends(h) PROVE ServerPart'
  <2>1. PICK fd : fd = call[h].fd
    OBVIOUS
  <2>2. hpc[h] \in {"recv", "held"}
    BY <1>2 DEF Sends
  <2>3. fd \in Fds
    BY <2>1, <2>2, <1>i, Distinct DEF HandlersOwn, DescTypes
  <2>4. CancelAll(fd) \/ UNCHANGED <<woken, waiter, epoll>>
    BY <2>1, <1>2 DEF Sends, Report, CancelAll
  <2>5. /\ UNCHANGED <<call, owned, m_isStop, m_sock, app, apc, afd, spc, cpu, hpc, abort>>
        /\ UNCHANGED backlog
    BY <1>2 DEF Sends, server, accept
  <2> QED BY <2>3, <2>4, <2>5, <1>b, <1>l
<1>3. CASE AddressFreed
  BY <1>3, Outside DEF AddressFreed, calls, handle
<1>4. ASSUME NEW h \in Clients, Takes(h) PROVE ServerPart'
  BY <1>4, Outside DEF Takes, calls, server
<1> QED BY <1>1, <1>2, <1>3, <1>4

\* The server's part of the invariant, whoever steps.
LEMMA ServerNext == ASSUME ServerInv, [Next]_vars PROVE ServerPart'
<1>1. CASE Next
  BY <1>1, SetupServer, AcceptingServer, StoppingServer, DispatchServer, HandlingServer,
     CallingServer, EnvironmentServer, OthersOutside DEF Next
<1>2. CASE UNCHANGED vars
  BY <1>2, Outside DEF vars, calls, server, handle
<1> QED BY <1>1, <1>2

-----------------------------------------------------------------------------
(* The waiter startAccept leaves behind. *)

\* Steps that add no waiter for startAccept and take none of its numbers away.
LEMMA NotAbandoned ==
    ASSUME ServerInv, late => late', abort' => abort \/ late',
           \A fd \in Fds : waiter'[fd] = Acceptor =>
               waiter[fd] = Acceptor /\ (Serving(fd) => Serving(fd)')
    PROVE  Abandoned'
BY DEF ServerInv, Abandoned

\* Steps that leave what Main owns and the call of stop()'s callback alone.
LEMMA ServingKept ==
    ASSUME ServerInv, UNCHANGED late, abort' => abort,
           \A fd \in Fds : waiter'[fd] = Acceptor => waiter[fd] = Acceptor,
           owned'[Main] = owned[Main], call'[Stopper] = call[Stopper]
    PROVE  Abandoned'
<1>1. \A fd \in Fds : Serving(fd) => Serving(fd)'
  BY DEF Serving, At
<1> QED BY <1>1, NotAbandoned

\* The listening socket has a context, so close() calls cancelAll for it.
LEMMA ListenerManaged ==
    ASSUME ServerInv, spc = "close"
    PROVE  m_sock \in Fds /\ owned[Main] = {m_sock} /\ Managed(m_sock)
<1>i. DescInv /\ DescTypes /\ ContextSteps /\ Phases /\ MainOwns
  BY DEF ServerInv, DescInv
<1>1. app = "stopped"
  BY <1>i DEF Phases
<1>2. owned[Main] = {m_sock} /\ call[Main].pc = "ret" /\ m_sock \in Fds
  BY <1>1, <1>i, Distinct DEF MainOwns, DescTypes
<1>3. want[m_sock].managed
  BY <1>2, <1>i DEF ContextSteps
<1>4. CASE m_sock \in disturbed
  BY <1>2, <1>4, <1>i DEF ContextSteps
<1>5. CASE m_sock \notin disturbed
  <2>1. AsAsked(m_sock)
    BY <1>2, <1>5, <1>i, Distinct, SettledAsAsked
  <2>2. m_datas[m_sock].isSocket /\ ~NoCtx.isSocket
    BY <2>1, <1>3 DEF AsAsked, NoCtx
  <2> QED BY <1>2, <2>2 DEF Managed
<1> QED BY <1>2, <1>4, <1>5

\* cancelAll and reports end registrations and begin none.
LEMMA CancelTakes ==
    ASSUME ServerInv, NEW fd \in Fds, CancelAll(fd)
    PROVE  waiter'[fd] = None /\ \A g \in Fds : waiter'[g] = Acceptor => waiter[g] = Acceptor
<1>1. waiter \in [Fds -> Clients \cup {Acceptor, None}] /\ waiter' = [waiter EXCEPT ![fd] = None]
  BY DEF ServerInv, ServerTypes, CancelAll
<1> QED BY <1>1, Distinct

LEMMA SetupAbandons == ASSUME ServerInv, Setup \/ stop PROVE Abandoned'
<1>i. DescTypes /\ Phases /\ Waiters /\ ServerTypes
  BY DEF ServerInv, DescInv
<1>1. CASE BindOpens \/ BindFails \/ BindSucceeds
  <2>1. app \in {"bind", "bind_f"} /\ UNCHANGED <<waiter, late, abort>>
    BY <1>1 DEF BindOpens, BindFails, BindSucceeds, Opened, BeginClose
  <2>2. \A fd \in Fds : waiter[fd] # Acceptor
    BY <2>1, <1>i DEF Phases, Waiters
  <2> QED BY <2>1, <2>2, NotAbandoned
<1>2. CASE BindAgain \/ start \/ stop
  <2>1. UNCHANGED <<waiter, late, abort, owned, call>>
    BY <1>2 DEF BindAgain, start, stop, calls
  <2> QED BY <2>1, ServingKept
<1> QED BY <1>1, <1>2 DEF Setup

LEMMA AcceptingAbandons == ASSUME ServerInv, Accepting PROVE Abandoned'
<1>i. DescTypes /\ Phases /\ Waiters /\ ServerTypes
  BY DEF ServerInv, DescInv
<1>a. Acceptor \in cpu
  BY DEF Accepting, AcceptLoop, Enter, Trying, TryFails, TryAccepts, TryAgain, AddEvent, Retry, HandOver
<1>w. \A fd \in Fds : waiter[fd] # Acceptor
  BY <1>a, <1>i DEF Waiters
<1>1. CASE AddEvent
  <2>1. apc = "add" /\ UNCHANGED <<afd, call, owned>>
    BY <1>1 DEF AddEvent
  <2>2. afd \in Fds /\ waiter[afd] = None
    BY <1>a, <2>1, AcceptAlone
  <2>3. CASE ~IsOpen(afd)
    <3>1. UNCHANGED <<waiter, late, abort>>
      BY <1>1, <2>3 DEF AddEvent
    <3> QED BY <2>1, <3>1, ServingKept
  <2>4. CASE IsOpen(afd)
    <3>1. /\ abort' => abort \/ os[afd].kind = "other"
          /\ late' = (late \/ ~Serving(afd) \/ os[afd].kind = "other")
          /\ waiter' = [waiter EXCEPT ![afd] = Acceptor]
      BY <1>1, <2>2, <2>4 DEF AddEvent
    <3>2. \A g \in Fds : g # afd => waiter'[g] # Acceptor
      BY <3>1, <2>2, <1>w, <1>i DEF ServerTypes
    <3>3. Serving(afd) => Serving(afd)'
      BY <2>1 DEF Serving, At
    <3>4. abort => late
      BY DEF ServerInv, Abandoned
    <3>5. \A g \in Fds : waiter'[g] = Acceptor => late' \/ Serving(g)'
      <4>1. Serving(afd)' => \A g \in Fds : g = afd => Serving(g)'
        BY <2>1 DEF Serving, At
      <4> QED BY <3>1, <3>2, <3>3, <4>1
    <3>6. abort' => late'
      BY <3>1, <3>4
    <3> QED BY <3>5, <3>6 DEF Abandoned
  <2> QED BY <2>3, <2>4
<1>2. CASE AcceptLoop \/ Enter \/ TryFails \/ TryAccepts \/ TryAgain \/ Retry \/ HandOver
  <2>1. UNCHANGED <<waiter, late, abort>>
    BY <1>2 DEF AcceptLoop, Enter, TryFails, TryAccepts, TryAgain, Retry, HandOver, Opened, calls
  <2> QED BY <2>1, <1>w, NotAbandoned
<1> QED BY <1>1, <1>2 DEF Accepting

LEMMA StoppingAbandons == ASSUME ServerInv, Stopping PROVE Abandoned'
<1>i. DescTypes /\ MainOwns
  BY DEF ServerInv, DescInv
<1>1. CASE StopCancels
  <2>1. spc = "cancel" /\ CancelAll(m_sock) /\ UNCHANGED <<call, owned, late, abort>>
    BY <1>1 DEF StopCancels
  <2>2. m_sock \in Fds
    BY <2>1, <1>i, Distinct DEF MainOwns, DescTypes
  <2> QED BY <2>1, <2>2, CancelTakes, ServingKept
<1>2. CASE StopCloses
  <2>1. spc = "close" /\ BeginClose(Stopper, m_sock) /\ UNCHANGED <<late, abort>>
    BY <1>2 DEF StopCloses
  <2>2. m_sock \in Fds /\ owned[Main] = {m_sock} /\ Managed(m_sock)
    BY <2>1, ListenerManaged
  <2>3. Stopper \in Hooked /\ Stopper \in Actors
    BY FibersAssumption, Distinct
  <2>4. /\ call[Stopper].pc = "ret" /\ UNCHANGED waiter
        /\ call' = [call EXCEPT ![Stopper] = [pc |-> "cancel", fd |-> m_sock]]
    BY <2>1, <2>2, <2>3 DEF BeginClose, At
  <2>5. call'[Stopper].pc = "cancel" /\ call'[Stopper].fd = m_sock
    BY <2>3, <2>4, <1>i DEF DescTypes
  <2>6. \A fd \in Fds : Serving(fd) => fd = m_sock
    BY <2>2, <2>4 DEF Serving, At
  <2>7. \A fd \in Fds : Serving(fd) => Serving(fd)'
    BY <2>5, <2>6 DEF Serving, At
  <2> QED BY <2>1, <2>4, <2>7, NotAbandoned
<1>3. CASE StopEnds
  <2>1. UNCHANGED <<waiter, late, abort, owned, call>>
    BY <1>3 DEF StopEnds, calls
  <2> QED BY <2>1, ServingKept
<1> QED BY <1>1, <1>2, <1>3 DEF Stopping

LEMMA HandlingAbandons == ASSUME ServerInv, NEW h \in Clients, Handling(h) PROVE Abandoned'
<1>i. DescTypes /\ Exclusive /\ HandlersOwn /\ ServerTypes
  BY DEF ServerInv, DescInv
<1>h. h \in Actors /\ h # Main /\ h # Stopper /\ h # Acceptor /\ Main \in Actors /\ Stopper \in Actors
  BY Distinct
<1>1. CASE RecvWaits(h)
  <2>1. hpc[h] = "recv"
    BY <1>1 DEF RecvWaits
  <2>2. call[h].fd \in Fds /\ waiter[call[h].fd] = None
    BY <2>1, RecvAlone
  <2>3. /\ UNCHANGED <<call, owned, late>> /\ (abort' => abort)
        /\ waiter' = [waiter EXCEPT ![call[h].fd] = h]
    BY <1>1, <2>2 DEF RecvWaits
  <2>4. \A fd \in Fds : waiter'[fd] = Acceptor => waiter[fd] = Acceptor
    BY <2>2, <2>3, <1>h, <1>i DEF ServerTypes
  <2> QED BY <2>3, <2>4, ServingKept
<1>2. CASE RecvTimesOut(h)
  <2>1. UNCHANGED <<call, owned, late, abort>> /\ waiter' = [waiter EXCEPT ![call[h].fd] = None]
    BY <1>2 DEF RecvTimesOut
  <2>2. \A fd \in Fds : waiter'[fd] = Acceptor => waiter[fd] = Acceptor
    BY <2>1, <1>i, Distinct DEF ServerTypes
  <2> QED BY <2>1, <2>2, ServingKept
<1>3. CASE Closes(h)
  <2>1. hpc[h] = "close" /\ BeginClose(h, call[h].fd) /\ UNCHANGED <<late, abort>>
    BY <1>3 DEF Closes
  <2>2. owned[h] = {call[h].fd}
    BY <2>1, <1>i DEF HandlersOwn
  <2>3. UNCHANGED waiter /\ call'[Stopper] = call[Stopper] /\ owned'[Main] = owned[Main] \ {call[h].fd}
    BY <2>1, <1>h, <1>i DEF BeginClose, DescTypes
  <2>4. call[h].fd \notin owned[Main]
    BY <2>2, <1>h, <1>i DEF Exclusive
  <2>5. owned'[Main] = owned[Main]
    BY <2>3, <2>4
  <2> QED BY <2>1, <2>3, <2>5, ServingKept
<1>4. CASE Recv(h) \/ RecvRetries(h) \/ Send(h) \/ SendWaits(h) \/ SendRetries(h) \/ Ends(h)
  <2>1. UNCHANGED <<waiter, late, abort, owned, call>>
    BY <1>4 DEF Recv, RecvRetries, Send, SendWaits, SendRetries, Ends, calls
  <2> QED BY <2>1, ServingKept
<1> QED BY <1>1, <1>2, <1>3, <1>4 DEF Handling

LEMMA CallingAbandons == ASSUME ServerInv, NEW a \in Actors, Calling(a) PROVE Abandoned'
<1>i. DescInv /\ DescTypes
  BY DEF ServerInv, DescInv
<1>1. CallStep(a) /\ UNCHANGED <<late, abort>>
  BY DEF Calling
<1>2. CASE Cancel(a)
  <2>1. PICK fd \in Fds : fd = call[a].fd
    BY <1>2, <1>i, CallIsAlone DEF Cancel, At
  <2>2. /\ CancelAll(fd) /\ UNCHANGED owned /\ call[a].pc = "cancel"
        /\ call' = [call EXCEPT ![a].pc = "del"]
    BY <1>2, <2>1 DEF Cancel, At, Goto
  <2>3. waiter'[fd] = None /\ \A g \in Fds : waiter'[g] = Acceptor => waiter[g] = Acceptor
    BY <2>2, CancelTakes
  <2>4. CASE a # Stopper
    <3>1. call'[Stopper] = call[Stopper]
      BY <2>2, <2>4, <1>i, Distinct DEF DescTypes
    <3> QED BY <1>1, <2>2, <2>3, <3>1, ServingKept
  <2>5. CASE a = Stopper
    <3>1. \A g \in Fds : g # fd => (Serving(g) => Serving(g)')
      BY <2>1, <2>2, <2>5 DEF Serving, At
    <3>2. \A g \in Fds : waiter'[g] = Acceptor => g # fd
      BY <2>3, Distinct
    <3> QED BY <1>1, <2>3, <3>1, <3>2, NotAbandoned
  <2> QED BY <2>4, <2>5
<1>3. CASE Look(a) \/ Create(a) \/ Del(a) \/ CloseF(a)
  <2>1. UNCHANGED <<waiter, owned>> /\ call[a].pc # "cancel"
    BY <1>3 DEF Look, Create, Del, CloseF, At
  <2>2. \A b \in Actors : b # a => call'[b] = call[b]
    BY <1>3, <1>i DEF Look, Create, Del, CloseF, Goto, DescTypes
  <2>3. \A fd \in Fds : Serving(fd) => Serving(fd)'
    <3>1. CASE a = Stopper
      BY <2>1, <3>1 DEF Serving, At
    <3>2. CASE a # Stopper
      BY <2>1, <2>2, <3>2, Distinct DEF Serving, At
    <3> QED BY <3>1, <3>2
  <2> QED BY <1>1, <2>1, <2>3, NotAbandoned
<1> QED BY <1>1, <1>2, <1>3 DEF CallStep

LEMMA OthersAbandon == ASSUME ServerInv, OthersAct PROVE Abandoned'
<1>i. DescInv /\ DescTypes
  BY DEF ServerInv, DescInv
<1>1. PICK a \in Users : UserOpens(a) \/ UserSettings(a) \/ UserOpensSocket(a) \/ UserCloses(a)
  BY DEF OthersAct
<1>2. UNCHANGED <<late, abort>>
  BY DEF OthersAct
<1>3. a \in Actors /\ a # Main /\ a # Stopper /\ Main \in Actors /\ Stopper \in Actors
  BY Distinct
<1>o. ASSUME NEW kind, NEW how, Opened(a, kind, how)
      PROVE  UNCHANGED waiter /\ owned'[Main] = owned[Main] /\ call'[Stopper] = call[Stopper]
  <2>1. /\ call' = [call EXCEPT ![a] = [pc |-> IF how = "accept" \/ (how = "socket" /\ a \in Hooked)
                                               THEN "look" ELSE "ret", fd |-> Lowest]]
        /\ owned' = [owned EXCEPT ![a] = @ \cup {Lowest}]
        /\ UNCHANGED waiter
    BY <1>o DEF Opened
  <2> QED BY <2>1, <1>3, <1>i DEF DescTypes
<1>4. CASE UserOpens(a) \/ UserOpensSocket(a)
  BY <1>2, <1>4, <1>o, ServingKept DEF UserOpens, UserOpensSocket
<1>5. CASE UserCloses(a)
  <2>1. PICK fd \in owned[a] : BeginClose(a, fd)
    BY <1>5 DEF UserCloses
  <2>2. UNCHANGED waiter /\ call'[Stopper] = call[Stopper] /\ owned'[Main] = owned[Main] \ {fd}
    BY <2>1, <1>3, <1>i DEF BeginClose, DescTypes
  <2>3. fd \notin owned[Main]
    BY <1>3, <1>i, OwnerIsAlone
  <2>4. owned'[Main] = owned[Main]
    BY <2>2, <2>3
  <2> QED BY <1>2, <2>2, <2>4, ServingKept
<1>6. CASE UserFcntl(a) \/ UserIoctl(a) \/ UserSetsTimeout(a)
  <2>1. UNCHANGED <<waiter, call, owned>>
    BY <1>6 DEF UserFcntl, UserIoctl, UserSetsTimeout
  <2> QED BY <1>2, <2>1, ServingKept
<1>7. ASSUME NEW b \in Users, UserHandsOver(a, b) PROVE Abandoned'
  <2>1. PICK fd \in owned[a] : owned' = [owned EXCEPT ![a] = @ \ {fd}, ![b] = @ \cup {fd}]
    BY <1>7 DEF UserHandsOver
  <2>2. UNCHANGED <<waiter, call>> /\ b # Main
    BY <1>7, Distinct DEF UserHandsOver
  <2>3. owned'[Main] = owned[Main]
    BY <2>1, <2>2, <1>3, <1>i DEF DescTypes
  <2> QED BY <1>2, <2>2, <2>3, ServingKept
<1>8. CASE UserSettings(a)
  BY <1>8, <1>6, <1>7 DEF UserSettings
<1> QED BY <1>1, <1>4, <1>5, <1>8

\* Whoever steps.
LEMMA AbandonedNext == ASSUME ServerInv, [Next]_vars PROVE Abandoned'
<1>i. DescTypes /\ HandlersOwn /\ ServerTypes
  BY DEF ServerInv, DescInv
<1>1. ASSUME NEW f, Dispatch(f) PROVE Abandoned'
  <2>1. UNCHANGED <<waiter, late, abort, owned, call>>
    BY <1>1 DEF Dispatch
  <2> QED BY <2>1, ServingKept
<1>2. CASE Connects
  <2>1. UNCHANGED <<late, abort, owned, call>> /\ m_sock \in Fds
    BY <1>2, <1>i DEF Connects, ServerTypes
  <2>2. CancelAll(m_sock) \/ UNCHANGED waiter
    BY <1>2 DEF Connects, Report, CancelAll
  <2> QED BY <2>1, <2>2, CancelTakes, ServingKept
<1>3. ASSUME NEW h \in Clients, Sends(h) PROVE Abandoned'
  <2>1. UNCHANGED <<late, abort, owned, call>> /\ hpc[h] \in {"recv", "held"}
    BY <1>3 DEF Sends
  <2>2. call[h].fd \in Fds
    BY <2>1, <1>i, Distinct DEF HandlersOwn, DescTypes
  <2>3. CancelAll(call[h].fd) \/ UNCHANGED waiter
    BY <1>3 DEF Sends, Report, CancelAll
  <2> QED BY <2>1, <2>2, <2>3, CancelTakes, ServingKept
<1>4. ASSUME NEW h \in Clients, Takes(h) PROVE Abandoned'
  <2>1. UNCHANGED <<waiter, late, abort, owned, call>>
    BY <1>4 DEF Takes, calls
  <2> QED BY <2>1, ServingKept
<1>5. CASE AddressFreed \/ UNCHANGED vars
  <2>1. UNCHANGED <<waiter, late, abort, owned, call>>
    BY <1>5 DEF AddressFreed, vars, calls
  <2> QED BY <2>1, ServingKept
<1>6. CASE Next
  BY <1>6, <1>1, <1>2, <1>3, <1>4, <1>5, SetupAbandons, AcceptingAbandons, StoppingAbandons,
     HandlingAbandons, CallingAbandons, OthersAbandon DEF Next
<1> QED BY <1>5, <1>6

LEMMA ServerInit == Init => ServerInv
<1> SUFFICES ASSUME Init PROVE ServerInv
  OBVIOUS
<1>0. /\ os = [fd \in Fds |-> Closed]
      /\ m_datas = [fd \in Fds |-> NoCtx]
      /\ waiter = [fd \in Fds |-> None]
      /\ epoll = {} /\ woken = {}
      /\ call = [a \in Actors |-> [pc |-> "ret", fd |-> NoFd]]
      /\ owned = [a \in Actors |-> {}]
      /\ want = [fd \in Fds |-> Fresh(FALSE)]
      /\ disturbed = {}
  BY DEF Init, DescInit
<1>1. \A a \in Actors : call[a].pc = "ret" /\ owned[a] = {}
  BY <1>0
<1>2. \A fd \in Fds : ~Managed(fd) /\ os[fd] = Closed /\ want[fd] = Fresh(FALSE) /\ waiter[fd] = None
  BY <1>0 DEF Managed
<1>3. DescTypes
  <2>1. /\ Fresh(FALSE) \in [managed : BOOLEAN, nonblock : BOOLEAN, timeout : Timeout]
        /\ Closed \in [kind : Kinds \cup {"closed"}, nonblock : BOOLEAN]
        /\ NoCtx \in [isSocket : BOOLEAN, userNonblock : BOOLEAN, timeout : Timeout]
    BY DEF Fresh, Closed, NoCtx, Timeout
  <2> QED BY <1>0, <2>1 DEF DescTypes
<1>4. Exclusive
  BY <1>1 DEF Exclusive, OpeningPc, ClosingPc
<1>5. ContextSteps
  <2>1. \A fd \in Fds : ~want[fd].managed
    BY <1>2 DEF Fresh
  <2> QED BY <1>0, <1>1, <1>2, <2>1, Distinct DEF ContextSteps, OpeningPc
<1>6. ManagedAsAsked /\ ClosedHasNoContext
  BY <1>1, <1>2 DEF ManagedAsAsked, ClosedHasNoContext
<1>7. ServerTypes
  <2>1. Cardinality(cpu) = 0 /\ cpu = {}
    BY FS_EmptySet DEF Init
  <2>2. 0 \in 0 .. Cardinality(Clients)
    BY FibersAssumption, FS_CardinalityType
  <2>3. /\ waiter \in [Fds -> Clients \cup {Acceptor, None}]
        /\ hpc \in [Clients -> HandlerPc]
    BY <1>0 DEF Init, HandlerPc
  <2> QED BY <1>0, <2>1, <2>2, <2>3, ServerAssumption DEF Init, ServerTypes
<1>8. Phases /\ Abandoned
  BY <1>0, Distinct DEF Init, Phases, Abandoned
<1>9. MainOwns /\ WorkerOwns
  <2>1. app \in {"bind", "absent"} /\ spc = "off" /\ apc = "off"
    BY DEF Init
  <2> QED BY <1>1, <2>1, Distinct DEF MainOwns, WorkerOwns
<1>10. HandlersOwn
  <2>1. \A h \in Clients : hpc[h] = "off"
    BY DEF Init
  <2> QED BY <1>1, <2>1, Distinct DEF HandlersOwn
<1>11. Waiters
  BY <1>0, <1>2, Distinct DEF Waiters, Init
<1> QED BY <1>3, <1>4, <1>5, <1>6, <1>7, <1>8, <1>9, <1>10, <1>11 DEF ServerInv, DescInv

-----------------------------------------------------------------------------
(* What follows from it. *)

LEMMA ServerInvariant == Spec => []ServerInv
<1>1. Init => ServerInv
  BY ServerInit
<1>2. ServerInv /\ [Next]_vars => ServerInv'
  BY DescNext, ServerNext, AbandonedNext DEF ServerInv, ServerPart
<1> QED BY <1>1, <1>2, PTL DEF Spec

\* Whatever threads open, close, configure and hand over descriptors at the same
\* time, hooked or not, and however numbers are reused, FdManager::get and the
\* hooked calls keep a context for exactly the descriptors that should have one,
\* with its owner's own flags and timeout -- but for the numbers that three calls
\* have touched (`disturbed'), until a hooked close() forgets them: close() and
\* setsockopt of a managed descriptor in a thread without hooks, after which the
\* next descriptor may inherit the context, and ioctl(FIONBIO) with 0.
THEOREM ContextsAreTheOwners == Spec => []ManagedAsAsked
<1>1. ServerInv => ManagedAsAsked
  BY DEF ServerInv, DescInv
<1> QED BY <1>1, ServerInvariant, PTL

\* Whoever is registered with IOManager waits for the descriptor it means, its own
\* connection or the listening socket that close() has not cancelled yet, and
\* SYLAR_ASSERT in addEvent does not fail; the one exception is startAccept after it
\* has registered late (`late'), behind the cancelAll of close() or on another
\* listening socket's number.  No context of FdManager outlives close_f.  For any
\* number of connections and of threads of the accept worker.
THEOREM CloseLeavesNothing == Spec => []NothingOutlivesClose
<1>1. ServerInv => TypeOK
  <2> SUFFICES ASSUME ServerInv PROVE TypeOK
    OBVIOUS
  <2>1. DescTypes /\ ServerTypes
    BY DEF ServerInv, DescInv
  <2>2. \A fd \in Fds : waiter[fd] \in Actors \cup {None}
    BY <2>1, Distinct DEF ServerTypes
  <2>3. woken \subseteq Actors
    BY <2>1, Distinct DEF ServerTypes
  <2> QED BY <2>1, <2>2, <2>3 DEF TypeOK, DescTypes, ServerTypes
<1>3. ServerInv => NoStaleWaiter
  <2> SUFFICES ASSUME ServerInv PROVE NoStaleWaiter
    OBVIOUS
  <2>i. ServerTypes /\ HandlersOwn /\ Waiters /\ Abandoned
    BY DEF ServerInv
  <2>1. ASSUME NEW fd \in Fds, waiter[fd] # None, waiter[fd] # Acceptor PROVE fd \in owned[waiter[fd]]
    <3>1. waiter[fd] \in Clients
      BY <2>1, <2>i DEF ServerTypes
    <3>2. hpc[waiter[fd]] = "held" /\ call[waiter[fd]].fd = fd
      BY <3>1, <2>i DEF Waiters
    <3> QED BY <3>1, <3>2, <2>i DEF HandlersOwn
  <2> QED BY <2>i, <2>1 DEF Abandoned, NoStaleWaiter
<1>2. ServerInv => NothingOutlivesClose
  BY <1>1, <1>3 DEF ServerInv, DescInv, NothingOutlivesClose
<1> QED BY <1>2, ServerInvariant, PTL

\* When the callback of TcpServer::stop, startAccept and every handler are through,
\* all they opened is closed, a connection accepted while stop() ran included.
THEOREM StopClosesEverything == Spec => []NothingLeftOpen
<1>1. ServerInv => NothingLeftOpen
  <2> SUFFICES ASSUME ServerInv, spc = "done", apc = "done",
                      \A h \in Clients : hpc[h] \in {"off", "done"},
                      NEW a \in Actors \ Users
               PROVE  owned[a] = {}
    BY DEF NothingLeftOpen
  <2>1. MainOwns /\ WorkerOwns /\ HandlersOwn
    BY DEF ServerInv
  <2>2. a \in Clients \cup {Main, Acceptor, Stopper}
    BY ServerAssumption
  <2> QED BY <2>1, <2>2 DEF MainOwns, WorkerOwns, HandlersOwn
<1> QED BY <1>1, ServerInvariant, PTL

=============================================================================
