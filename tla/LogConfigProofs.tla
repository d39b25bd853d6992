-------------------------- MODULE LogConfigProofs ---------------------------
(***************************************************************************)
(* Proofs about LogConfig for any loggers, values of "logs", threads that  *)
(* set it and threads that log.                                            *)
(***************************************************************************)
EXTENDS LogConfig, TLAPS, SequenceTheorems

\* The formatters that may be in use, and the objects made of them.
Correct == Patterns \ Erroneous
Appenders == [type : {"file", "stdout"}, own : BOOLEAN, formatter : Correct]
Loggers == [level : Nat, formatter : Correct, appenders : Seq(Appenders)]
Definitions == [type : {"file", "stdout"}, formatter : Patterns]

\* The calls a listener can make.
ListenerCalls ==
    [op : {"setLevel"}, name : Names, arg : {<<l>> : l \in Nat}]
    \cup [op : {"setFormatter"}, name : Names, arg : Patterns]
    \cup [op : {"clearAppenders"}, name : Names, arg : {<<>>}]
    \cup [op : {"addAppender"}, name : Names, arg : {<<a>> : a \in Definitions}]

\* The types, more closely than TypeOK has them.
Shapes ==
    /\ m_val \in Values \cup {<<>>}
    /\ logger \in [Names -> Loggers]
    /\ pc \in [Setters -> {"out", "listen", "assign"}]
    /\ new \in [Setters -> Values \cup {<<>>}]
    /\ turn \in [Setters -> 0 .. Turns]
    /\ calls \in [Setters -> Seq(ListenerCalls)]
    /\ known \subseteq Names /\ disputed \subseteq Names /\ overlooked \subseteq Names
    /\ crashed \in BOOLEAN

\* AppendersFollowLogger for one logger.
Follows(lg) ==
    \A k \in DOMAIN lg.appenders : ~ lg.appenders[k].own => lg.appenders[k].formatter = lg.formatter

-----------------------------------------------------------------------------
\* There is at least one turn, and each is about a logger.
LEMMA TurnsTyped ==
    /\ Turns \in Nat /\ Len(NameOrder) \in Nat
    /\ \A k \in 1 .. Len(NameOrder) : NameOrder[k] \in Names
    /\ \A n \in Names : \E k \in 1 .. Len(NameOrder) : NameOrder[k] = n
<1>1. NameOrder \in Seq(Names) /\ Len(NameOrder) \in Nat /\ DOMAIN NameOrder = 1 .. Len(NameOrder)
  BY NamesAreOrdered
<1>2. \A n \in Names : \E k \in DOMAIN NameOrder : NameOrder[k] = n
  BY NamesAreOrdered DEF ToSet
<1> QED
  BY <1>1, <1>2 DEF Turns

\* The fields of a call, by its kind.
LEMMA CallFields ==
    ASSUME NEW c \in ListenerCalls
    PROVE  /\ c.name \in Names
           /\ \/ c.op = "setLevel" /\ c.arg[1] \in Nat
              \/ c.op = "setFormatter" /\ c.arg \in Patterns
              \/ c.op = "clearAppenders"
              \/ c.op = "addAppender" /\ c.arg[1] \in Definitions
<1>1. CASE c \in [op : {"setLevel"}, name : Names, arg : {<<l>> : l \in Nat}]
  BY <1>1
<1>2. CASE c \in [op : {"setFormatter"}, name : Names, arg : Patterns]
  BY <1>2
<1>3. CASE c \in [op : {"clearAppenders"}, name : Names, arg : {<<>>}]
  BY <1>3
<1>4. CASE c \in [op : {"addAppender"}, name : Names, arg : {<<a>> : a \in Definitions}]
  <2>1. c.op = "addAppender" /\ c.name \in Names /\ c.arg \in {<<a>> : a \in Definitions}
    BY <1>4
  <2>2. PICK a \in Definitions : c.arg = <<a>>
    BY <2>1
  <2> QED
    BY <2>1, <2>2
<1> QED
  BY <1>1, <1>2, <1>3, <1>4 DEF ListenerCalls

\* Logger::setFormatter keeps the appenders, and keeps those without a formatter
\* of their own in step.
LEMMA FormattedLogger ==
    ASSUME NEW lg \in Loggers, Follows(lg), NEW p \in Patterns
    PROVE  /\ Formatted(lg, p) \in Loggers /\ Follows(Formatted(lg, p))
           /\ Formatted(lg, p).level = lg.level
           /\ Formatted(lg, p).formatter = (IF p \in Erroneous THEN lg.formatter ELSE p)
           /\ lg.appenders = <<>> => Formatted(lg, p).appenders = <<>>
<1>0. /\ lg.level \in Nat /\ lg.formatter \in Correct /\ lg.appenders \in Seq(Appenders)
      /\ lg = [level |-> lg.level, formatter |-> lg.formatter, appenders |-> lg.appenders]
  BY DEF Loggers
<1>1. CASE p \in Erroneous
  BY <1>1 DEF Formatted
<1>2. CASE p \notin Erroneous
  <2> DEFINE as == lg.appenders
             bs == [k \in DOMAIN as |-> IF as[k].own THEN as[k] ELSE [as[k] EXCEPT !.formatter = p]]
  <2>1. p \in Correct
    BY <1>2 DEF Correct
  <2>2. Formatted(lg, p) = [lg EXCEPT !.formatter = p, !.appenders = bs]
    BY <1>2 DEF Formatted
  <2>3. Formatted(lg, p) = [level |-> lg.level, formatter |-> p, appenders |-> bs]
    BY <1>0, <2>2
  <2>4. \A k \in DOMAIN as : as[k] \in Appenders
    BY <1>0
  <2>5. \A k \in DOMAIN as : bs[k] \in Appenders /\ (~ bs[k].own => bs[k].formatter = p)
    BY <2>1, <2>4 DEF Appenders
  <2>6. bs \in Seq(Appenders) /\ DOMAIN bs = DOMAIN as
    <3>1. as \in Seq(Appenders) /\ Len(as) \in Nat /\ DOMAIN as = 1 .. Len(as)
      BY <1>0
    <3>2. bs \in [1 .. Len(as) -> Appenders]
      BY <2>5, <3>1
    <3> QED
      BY <3>1, <3>2
  <2>7. as = <<>> => bs = <<>>
    BY <2>6, EmptySeq
  <2> HIDE DEF bs
  <2> QED
    BY <1>0, <1>2, <2>1, <2>3, <2>5, <2>6, <2>7 DEF Loggers, Follows
<1> QED
  BY <1>1, <1>2

\* An appender that the listener adds is in step as well.
LEMMA AppendedLogger ==
    ASSUME NEW lg \in Loggers, Follows(lg), NEW a \in Definitions
    PROVE  /\ Appended(lg, a) \in Loggers /\ Follows(Appended(lg, a))
           /\ Appended(lg, a).level = lg.level
           /\ Appended(lg, a).formatter = lg.formatter
<1> DEFINE own == OwnFormatter(a)
           ap == [type |-> a.type, own |-> own, formatter |-> IF own THEN a.formatter ELSE lg.formatter]
           as == lg.appenders
<1>0. /\ lg.level \in Nat /\ lg.formatter \in Correct /\ as \in Seq(Appenders)
      /\ lg = [level |-> lg.level, formatter |-> lg.formatter, appenders |-> as]
  BY DEF Loggers
<1>1. Appended(lg, a) = [lg EXCEPT !.appenders = Append(as, ap)]
  BY DEF Appended
<1>2. a.type \in {"file", "stdout"} /\ a.formatter \in Patterns
  BY DEF Definitions
<1>3. (IF own THEN a.formatter ELSE lg.formatter) \in Correct
  BY <1>0, <1>2 DEF Correct, OwnFormatter
<1>4. own \in BOOLEAN
  BY DEF OwnFormatter
<1>5. ap \in Appenders /\ (~ ap.own => ap.formatter = lg.formatter)
  <2> HIDE DEF own
  <2> QED
    BY <1>2, <1>3, <1>4 DEF Appenders
<1> HIDE DEF ap
<1>6. Appended(lg, a) = [level |-> lg.level, formatter |-> lg.formatter, appenders |-> Append(as, ap)]
  BY <1>0, <1>1
<1>7. /\ Append(as, ap) \in Seq(Appenders)
      /\ \A k \in DOMAIN Append(as, ap) : Append(as, ap)[k] = ap \/ (k \in DOMAIN as /\ Append(as, ap)[k] = as[k])
  BY <1>0, <1>5
<1> QED
  BY <1>0, <1>5, <1>6, <1>7 DEF Loggers, Follows

\* One call of the listener on its logger.
LEMMA AppliedLogger ==
    ASSUME NEW lg \in Loggers, Follows(lg), NEW c \in ListenerCalls
    PROVE  /\ Applied(lg, c) \in Loggers /\ Follows(Applied(lg, c))
           /\ Applied(lg, c).level = (IF c.op = "setLevel" THEN c.arg[1] ELSE lg.level)
           /\ Applied(lg, c).formatter =
                 (IF c.op = "setFormatter" /\ c.arg \notin Erroneous THEN c.arg ELSE lg.formatter)
           /\ c.op = "clearAppenders" => Applied(lg, c).appenders = <<>>
           /\ c.op # "addAppender" /\ lg.appenders = <<>> => Applied(lg, c).appenders = <<>>
<1>0. /\ lg.level \in Nat /\ lg.formatter \in Correct /\ lg.appenders \in Seq(Appenders)
      /\ lg = [level |-> lg.level, formatter |-> lg.formatter, appenders |-> lg.appenders]
  BY DEF Loggers
<1>1. CASE c.op = "setLevel" /\ c.arg[1] \in Nat
  <2>1. Applied(lg, c) = [lg EXCEPT !.level = c.arg[1]]
    BY <1>1 DEF Applied
  <2>2. Applied(lg, c) = [level |-> c.arg[1], formatter |-> lg.formatter, appenders |-> lg.appenders]
    BY <2>1, <1>0
  <2> QED
    BY <1>0, <1>1, <2>2 DEF Loggers, Follows
<1>2. CASE c.op = "setFormatter" /\ c.arg \in Patterns
  <2>1. Applied(lg, c) = Formatted(lg, c.arg)
    BY <1>2 DEF Applied
  <2> QED
    BY <1>2, <2>1, FormattedLogger
<1>3. CASE c.op = "clearAppenders"
  <2>1. Applied(lg, c) = [lg EXCEPT !.appenders = <<>>]
    BY <1>3 DEF Applied
  <2>2. Applied(lg, c) = [level |-> lg.level, formatter |-> lg.formatter, appenders |-> <<>>]
    BY <2>1, <1>0
  <2>3. <<>> \in Seq(Appenders) /\ DOMAIN <<>> = {}
    OBVIOUS
  <2> QED
    BY <1>0, <1>3, <2>2, <2>3 DEF Loggers, Follows
<1>4. CASE c.op = "addAppender" /\ c.arg[1] \in Definitions
  <2>1. Applied(lg, c) = Appended(lg, c.arg[1])
    BY <1>4 DEF Applied
  <2> QED
    BY <1>4, <2>1, AppendedLogger
<1> QED
  BY <1>1, <1>2, <1>3, <1>4, CallFields

\* What a call of a listener says about its logger, when v is the new value.
Says(c, v) ==
    /\ c.op = "setLevel" =>
          c.arg = <<IF c.name \in DOMAIN v THEN v[c.name].level ELSE 0>>
    /\ c.op = "setFormatter" => c.name \in DOMAIN v /\ c.arg = v[c.name].formatter
    /\ c.op = "addAppender" => c.name \in DOMAIN v

\* The calls for a logger that is new or changed.
LEMMA ConfigureCalls ==
    ASSUME NEW v \in Values, NEW n \in DOMAIN v
    PROVE  LET q == Configure(n, v[n]) IN
           /\ q \in Seq(ListenerCalls)
           /\ \A k \in DOMAIN q : q[k].name = n /\ Says(q[k], v)
           /\ \E k \in DOMAIN q : q[k].op = "setLevel"
           /\ v[n].formatter # <<>> => \E k \in DOMAIN q : q[k].op = "setFormatter"
<1> DEFINE d == v[n]
           a == <<Call("setLevel", n, <<d.level>>)>>
           b == IF d.formatter = <<>> THEN <<>> ELSE <<Call("setFormatter", n, d.formatter)>>
           e == <<Call("clearAppenders", n, <<>>)>>
           f == [k \in DOMAIN d.appenders |-> Call("addAppender", n, <<d.appenders[k]>>)]
           q == Configure(n, d)
           Fine == {c \in ListenerCalls : c.name = n /\ Says(c, v)}
<1>1. n \in Names /\ d.level \in Nat /\ d.appenders \in Seq(Definitions) /\ d.formatter \in Patterns
  <2>1. n \in Names /\ d.level \in Nat /\ d.appenders \in Seq(Definitions)
    BY ValuesAssumption DEF Definitions
  <2>2. d.formatter \in Patterns
    BY DEF Patterns
  <2> QED
    BY <2>1, <2>2
<1>2. Call("setLevel", n, <<d.level>>) \in Fine
  BY <1>1 DEF Call, ListenerCalls, Says
<1>3. Call("setFormatter", n, d.formatter) \in Fine
  BY <1>1 DEF Call, ListenerCalls, Says
<1>4. Call("clearAppenders", n, <<>>) \in Fine
  BY <1>1 DEF Call, ListenerCalls, Says
<1>5. \A k \in DOMAIN d.appenders : Call("addAppender", n, <<d.appenders[k]>>) \in Fine
  BY <1>1 DEF Call, ListenerCalls, Says
<1>6. Call("setLevel", n, <<d.level>>).op = "setLevel" /\ Call("setFormatter", n, d.formatter).op = "setFormatter"
  BY DEF Call
<1>7. a \in Seq(Fine) /\ e \in Seq(Fine) /\ Len(a) = 1 /\ a[1].op = "setLevel"
  BY <1>2, <1>4, <1>6
<1>8. b \in Seq(Fine) /\ (d.formatter # <<>> => Len(b) = 1 /\ b[1].op = "setFormatter")
  <2>1. CASE d.formatter = <<>>
    <3>1. b = <<>>
      BY <2>1
    <3> QED
      BY <2>1, <3>1
  <2>2. CASE d.formatter # <<>>
    <3>1. b = <<Call("setFormatter", n, d.formatter)>>
      BY <2>2
    <3> HIDE DEF b, Fine
    <3> QED
      BY <1>3, <1>6, <3>1
  <2> QED
    BY <2>1, <2>2
<1>9. f \in Seq(Fine)
  <2>1. DOMAIN d.appenders = 1 .. Len(d.appenders) /\ Len(d.appenders) \in Nat
    BY <1>1
  <2>2. f \in [1 .. Len(d.appenders) -> Fine]
    BY <1>5, <2>1
  <2> QED
    BY <2>1, <2>2
<1>10. q = ((a \o b) \o e) \o f
  BY DEF Configure
<1> HIDE DEF a, b, e, f, Fine
<1>11. a \o b \in Seq(Fine) /\ (a \o b)[1] = a[1] /\ (d.formatter # <<>> => (a \o b)[2] = b[1])
       /\ Len(a \o b) >= 1 /\ (d.formatter # <<>> => Len(a \o b) >= 2)
  <2>1. a \in Seq(Fine) /\ b \in Seq(Fine) /\ Len(a) = 1 /\ Len(b) \in Nat
    BY <1>7, <1>8
  <2>2. /\ a \o b \in Seq(Fine) /\ Len(a \o b) = Len(a) + Len(b)
        /\ \A i \in 1 .. Len(a) + Len(b) :
              (a \o b)[i] = IF i <= Len(a) THEN a[i] ELSE b[i - Len(a)]
    BY <2>1, ConcatProperties
  <2>3. (a \o b)[1] = a[1] /\ (Len(b) = 1 => (a \o b)[2] = b[1])
    BY <2>1, <2>2
  <2> QED
    BY <1>8, <2>1, <2>2, <2>3
<1>12. (a \o b) \o e \in Seq(Fine) /\ \A k \in 1 .. Len(a \o b) : ((a \o b) \o e)[k] = (a \o b)[k]
       /\ Len((a \o b) \o e) >= Len(a \o b)
  BY <1>7, <1>11
<1>13. q \in Seq(Fine) /\ \A k \in 1 .. Len(a \o b) : q[k] = (a \o b)[k] /\ k \in DOMAIN q
  BY <1>9, <1>10, <1>11, <1>12
<1>14. q \in Seq(ListenerCalls) /\ \A k \in DOMAIN q : q[k].name = n /\ Says(q[k], v)
  <2>1. \A k \in DOMAIN q : q[k] \in Fine
    BY <1>13
  <2>2. Fine \subseteq ListenerCalls
    BY DEF Fine
  <2> QED
    BY <1>13, <2>1, <2>2 DEF Fine
<1>15. q[1].op = "setLevel" /\ 1 \in DOMAIN q
  BY <1>7, <1>11, <1>13
<1>16. d.formatter # <<>> => q[2].op = "setFormatter" /\ 2 \in DOMAIN q
  BY <1>8, <1>11, <1>13
<1> QED
  BY <1>14, <1>15, <1>16

\* The calls for a logger that is gone.
LEMMA RetireCalls ==
    ASSUME NEW v, NEW n \in Names, n \notin DOMAIN v
    PROVE  LET q == Retire(n) IN
           /\ q \in Seq(ListenerCalls)
           /\ \A k \in DOMAIN q : q[k].name = n /\ Says(q[k], v)
           /\ \E k \in DOMAIN q : q[k].op = "setLevel"
           /\ \E k \in DOMAIN q : q[k].op = "clearAppenders"
<1>1. Call("setLevel", n, <<0>>) \in ListenerCalls /\ Call("clearAppenders", n, <<>>) \in ListenerCalls
  BY DEF Call, ListenerCalls
<1>2. /\ Call("setLevel", n, <<0>>).name = n /\ Call("setLevel", n, <<0>>).op = "setLevel"
      /\ Call("clearAppenders", n, <<>>).name = n /\ Call("clearAppenders", n, <<>>).op = "clearAppenders"
      /\ Says(Call("setLevel", n, <<0>>), v) /\ Says(Call("clearAppenders", n, <<>>), v)
  BY DEF Call, Says
<1> HIDE DEF Call, Says
<1>3. /\ Retire(n) \in Seq(ListenerCalls) /\ DOMAIN Retire(n) = {1, 2}
      /\ Retire(n)[1] = Call("setLevel", n, <<0>>) /\ Retire(n)[2] = Call("clearAppenders", n, <<>>)
  BY <1>1 DEF Retire
<1> QED
  BY <1>2, <1>3

\* What the listener calls in one of its turns.
LEMMA ListenerQueue ==
    ASSUME NEW old \in Values \cup {<<>>}, NEW v \in Values \cup {<<>>}, NEW k \in 1 .. Turns
    PROVE  LET q == Listener(old, v, k) IN
           /\ q \in Seq(ListenerCalls)
           /\ \A i \in DOMAIN q :
                 Says(q[i], v) /\ (Changed(old, v, q[i].name) \/ Gone(old, v, q[i].name))
<1> DEFINE N == Len(NameOrder)
           q == Listener(old, v, k)
<1>1. N \in Nat /\ k \in Nat /\ k >= 1 /\ k <= 2 * N
  BY TurnsTyped DEF Turns
<1>2. DOMAIN <<>> = {} /\ <<>> \in Seq(ListenerCalls)
  OBVIOUS
<1>3. CASE k <= N
  <2> DEFINE n == NameOrder[k]
  <2>1. n \in Names
    BY <1>1, <1>3, TurnsTyped
  <2>2. q = IF Changed(old, v, n) THEN Configure(n, v[n]) ELSE <<>>
    BY <1>3 DEF Listener
  <2>3. CASE Changed(old, v, n)
    <3>1. n \in DOMAIN v
      BY <2>3 DEF Changed
    <3>2. v \in Values
      BY <3>1, <1>2
    <3>3. q = Configure(n, v[n])
      BY <2>2, <2>3
    <3> HIDE DEF q, n
    <3> QED
      BY <1>1, <1>3, <2>3, <3>1, <3>2, <3>3, ConfigureCalls DEF q, n
  <2>4. CASE ~ Changed(old, v, n)
    <3>1. q = <<>>
      BY <2>2, <2>4
    <3> HIDE DEF q
    <3> QED
      BY <1>1, <1>2, <1>3, <2>4, <3>1 DEF q
  <2> QED
    BY <2>3, <2>4
<1>4. CASE k > N
  <2> DEFINE n == NameOrder[k - N]
  <2>1. n \in Names /\ ~ (k <= N)
    <3>1. k - N \in 1 .. N /\ ~ (k <= N)
      BY <1>1, <1>4
    <3> QED
      BY <3>1, TurnsTyped
  <2>2. q = IF Gone(old, v, n) THEN Retire(n) ELSE <<>>
    BY <2>1 DEF Listener
  <2>3. CASE Gone(old, v, n)
    <3>1. n \notin DOMAIN v
      BY <2>3 DEF Gone
    <3>3. q = Retire(n)
      BY <2>2, <2>3
    <3>4. /\ q \in Seq(ListenerCalls)
          /\ \A i \in DOMAIN q : q[i].name = n /\ Says(q[i], v)
          /\ \E i \in DOMAIN q : q[i].op = "setLevel"
          /\ \E i \in DOMAIN q : q[i].op = "clearAppenders"
      BY <2>1, <3>1, <3>3, RetireCalls
    <3> HIDE DEF q, n
    <3> QED
      BY <2>1, <2>3, <3>4 DEF q, n
  <2>4. CASE ~ Gone(old, v, n)
    <3>1. q = <<>>
      BY <2>2, <2>4
    <3> HIDE DEF q, n
    <3> QED
      BY <1>2, <2>1, <2>4, <3>1 DEF q, n
  <2> QED
    BY <2>3, <2>4
<1> QED
  BY <1>1, <1>3, <1>4

\* In the second loop a logger that goes is silenced.
LEMMA ListenerRetires ==
    ASSUME NEW old, NEW v, NEW n \in Names, Gone(old, v, n),
           NEW k \in Nat, k > Len(NameOrder), NameOrder[k - Len(NameOrder)] = n
    PROVE  LET q == Listener(old, v, k) IN
           /\ \E i \in DOMAIN q : q[i].op = "setLevel" /\ q[i].name = n
           /\ \E i \in DOMAIN q : q[i].op = "clearAppenders" /\ q[i].name = n
<1>1. ~ (k <= Len(NameOrder))
  BY TurnsTyped
<1>2. n \notin DOMAIN v
  BY DEF Gone
<1>3. Listener(old, v, k) = Retire(n)
  BY <1>1 DEF Listener
<1> QED
  BY <1>2, <1>3, RetireCalls

-----------------------------------------------------------------------------
\* The invariant behind FormattersInStep: any number of threads may reload.
FormatInv == Shapes /\ \A n \in Names : Follows(logger[n])

\* A logger is made with the default pattern, which is correct.
LEMMA FormatInit == Init => FormatInv
<1> SUFFICES ASSUME Init PROVE FormatInv
  OBVIOUS
<1>1. Default \in Correct
  BY DefaultAssumption DEF Correct, Patterns
<1>2. \A n \in Names : NewLogger(n) \in Loggers /\ Follows(NewLogger(n))
  <2> SUFFICES ASSUME NEW n \in Names PROVE NewLogger(n) \in Loggers /\ Follows(NewLogger(n))
    OBVIOUS
  <2> DEFINE ap == [type |-> "stdout", own |-> FALSE, formatter |-> Default]
  <2>1. ap \in Appenders /\ ap.formatter = Default
    BY <1>1 DEF Appenders
  <2> HIDE DEF ap
  <2>2. <<ap>> \in Seq(Appenders) /\ <<>> \in Seq(Appenders)
    BY <2>1
  <2>3. NewLogger(n) = [level |-> 1, formatter |-> Default, appenders |-> IF n = Root THEN <<ap>> ELSE <<>>]
    BY DEF NewLogger, ap, DEBUG
  <2>4. NewLogger(n) \in Loggers
    BY <1>1, <2>2, <2>3 DEF Loggers
  <2>5. \A k \in DOMAIN <<ap>> : <<ap>>[k] = ap
    OBVIOUS
  <2>6. DOMAIN <<>> = {}
    OBVIOUS
  <2>7. Follows(NewLogger(n))
    <3>1. CASE n = Root
      BY <2>1, <2>3, <2>5, <3>1 DEF Follows
    <3>2. CASE n # Root
      BY <2>3, <2>6, <3>2 DEF Follows
    <3> QED
      BY <3>1, <3>2
  <2> QED
    BY <2>4, <2>7
<1>3. logger \in [Names -> Loggers] /\ \A n \in Names : Follows(logger[n])
  BY <1>2 DEF Init
<1>4. 0 \in 0 .. Turns /\ <<>> \in Seq(ListenerCalls)
  BY TurnsTyped
<1>5. /\ m_val \in Values \cup {<<>>} /\ pc \in [Setters -> {"out", "listen", "assign"}]
      /\ new \in [Setters -> Values \cup {<<>>}] /\ turn \in [Setters -> 0 .. Turns]
      /\ calls \in [Setters -> Seq(ListenerCalls)]
      /\ known \subseteq Names /\ disputed \subseteq Names /\ overlooked \subseteq Names
  BY <1>4 DEF Init
<1>6. crashed \in BOOLEAN
  BY DEF Init
<1> QED
  BY <1>3, <1>5, <1>6 DEF FormatInv, Shapes

\* One call of a listener, as the logger sees it: the call is one the listener
\* can make, its logger takes it, the others stay as they are.
LEMMA CallStep ==
    ASSUME FormatInv, NEW s \in Setters, ListenerCall(s)
    PROVE  LET c == calls[s][1] IN
           /\ 1 \in DOMAIN calls[s] /\ c \in ListenerCalls
           /\ calls'[s] = Tail(calls[s]) /\ Tail(calls[s]) \in Seq(ListenerCalls)
           /\ DOMAIN calls'[s] \subseteq DOMAIN calls[s]
           /\ \A i \in DOMAIN calls'[s] : i + 1 \in DOMAIN calls[s] /\ calls'[s][i] = calls[s][i + 1]
           /\ \A i \in DOMAIN calls[s] : i = 1 \/ (i - 1 \in DOMAIN calls'[s] /\ calls'[s][i - 1] = calls[s][i])
           /\ \A t \in Setters \ {s} : calls'[t] = calls[t]
           /\ logger'[c.name] = Applied(logger[c.name], c)
           /\ \A n \in Names \ {c.name} : logger'[n] = logger[n]
           /\ logger' \in [Names -> Loggers] /\ calls' \in [Setters -> Seq(ListenerCalls)]
<1> USE DEF FormatInv
<1>1. calls[s] \in Seq(ListenerCalls) /\ calls[s] # <<>>
  BY DEF ListenerCall, Shapes
<1>2. /\ Len(calls[s]) \in Nat /\ Len(calls[s]) >= 1 /\ DOMAIN calls[s] = 1 .. Len(calls[s])
      /\ Head(calls[s]) = calls[s][1] /\ calls[s][1] \in ListenerCalls
  BY <1>1
<1>3. /\ Tail(calls[s]) \in Seq(ListenerCalls) /\ Len(Tail(calls[s])) = Len(calls[s]) - 1
      /\ \A i \in 1 .. Len(calls[s]) - 1 : Tail(calls[s])[i] = calls[s][i + 1]
  BY <1>1, <1>2
<1>4. calls' = [calls EXCEPT ![s] = Tail(@)] /\ calls \in [Setters -> Seq(ListenerCalls)]
  BY DEF ListenerCall, Shapes
<1>5. /\ calls'[s] = Tail(calls[s]) /\ \A t \in Setters \ {s} : calls'[t] = calls[t]
      /\ calls' \in [Setters -> Seq(ListenerCalls)]
  BY <1>3, <1>4
<1>6. DOMAIN Tail(calls[s]) = 1 .. Len(calls[s]) - 1
  BY <1>2, <1>3
<1>7. /\ DOMAIN calls'[s] \subseteq DOMAIN calls[s]
      /\ \A i \in DOMAIN calls'[s] : i + 1 \in DOMAIN calls[s] /\ calls'[s][i] = calls[s][i + 1]
  BY <1>2, <1>3, <1>5, <1>6
<1>8. ASSUME NEW i \in DOMAIN calls[s], i # 1
      PROVE  i - 1 \in DOMAIN calls'[s] /\ calls'[s][i - 1] = calls[s][i]
  <2>1. i - 1 \in 1 .. Len(calls[s]) - 1 /\ (i - 1) + 1 = i
    BY <1>2, <1>8
  <2> QED
    BY <2>1, <1>3, <1>5, <1>6
<1>9. PICK c : c = calls[s][1]
  OBVIOUS
<1>10. /\ logger' = [logger EXCEPT ![c.name] = Applied(@, c)]
       /\ logger \in [Names -> Loggers] /\ Follows(logger[c.name]) /\ c.name \in Names
  BY <1>2, <1>9, CallFields DEF ListenerCall, Shapes
<1>11. Applied(logger[c.name], c) \in Loggers
  BY <1>2, <1>9, <1>10, AppliedLogger
<1>12. /\ logger'[c.name] = Applied(logger[c.name], c) /\ logger' \in [Names -> Loggers]
       /\ \A n \in Names \ {c.name} : logger'[n] = logger[n]
  BY <1>10, <1>11
<1> QED
  BY <1>2, <1>3, <1>5, <1>7, <1>8, <1>9, <1>10, <1>12

\* Setting the variable keeps the formatters in step.
LEMMA FormatConfiguring ==
    ASSUME FormatInv, NEW s \in Setters,
           \/ \E v \in Values : SetValue(s, v)
           \/ ListenerTurn(s) \/ ListenerCall(s) \/ ListenerCrash(s) \/ ListenerReturn(s) \/ Assign(s)
    PROVE  FormatInv'
<1> USE DEF FormatInv
<1>0. 0 \in 0 .. Turns
  BY TurnsTyped
<1>1. ASSUME NEW v \in Values, SetValue(s, v) PROVE FormatInv'
  BY <1>0, <1>1 DEF SetValue, Shapes
<1>2. CASE ListenerTurn(s)
  <2>1. turn[s] \in 0 .. Turns /\ turn[s] < Turns /\ Turns \in Nat
    BY <1>2, TurnsTyped DEF ListenerTurn, Shapes
  <2>2. turn[s] + 1 \in 0 .. Turns /\ turn[s] + 1 \in 1 .. Turns
    BY <2>1
  <2>3. Listener(m_val, new[s], turn[s] + 1) \in Seq(ListenerCalls)
    BY <2>2, ListenerQueue DEF Shapes
  <2> QED
    BY <1>2, <2>2, <2>3 DEF ListenerTurn, Shapes, ghosts
<1>3. CASE ListenerCall(s)
  <2>1. PICK c : c = calls[s][1]
    OBVIOUS
  <2>2. /\ c \in ListenerCalls /\ c.name \in Names /\ logger'[c.name] = Applied(logger[c.name], c)
        /\ \A n \in Names \ {c.name} : logger'[n] = logger[n]
        /\ logger' \in [Names -> Loggers] /\ calls' \in [Setters -> Seq(ListenerCalls)]
    BY <1>3, <2>1, CallStep, CallFields
  <2>3. Follows(logger'[c.name])
    BY <2>2, AppliedLogger DEF Shapes
  <2>4. \A n \in Names : Follows(logger'[n])
    BY <2>2, <2>3
  <2>5. UNCHANGED <<m_val, pc, new, turn, crashed, known, overlooked>> /\ disputed' \subseteq disputed
    BY <1>3 DEF ListenerCall
  <2> QED
    BY <2>2, <2>4, <2>5 DEF Shapes
<1>4. CASE ListenerCrash(s)
  BY <1>4 DEF ListenerCrash, Shapes, ghosts
<1>5. CASE ListenerReturn(s)
  BY <1>5 DEF ListenerReturn, Shapes, ghosts
<1>6. CASE Assign(s)
  <2>1. DOMAIN new[s] \subseteq Names
    <3>1. DOMAIN <<>> = {}
      OBVIOUS
    <3> QED
      BY <3>1, ValuesAssumption DEF Shapes
  <2>2. known' \subseteq Names /\ overlooked' \subseteq Names
    BY <1>6, <2>1 DEF Assign, Overlooked, Shapes
  <2> QED
    BY <1>6, <2>2 DEF Assign, Shapes
<1> QED
  BY <1>1, <1>2, <1>3, <1>4, <1>5, <1>6

\* Logging changes nothing but the event.
LEMMA LoggingOnly == Logging => UNCHANGED <<m_val, logger, pc, new, turn, calls, crashed, ghosts>>
BY DEF Logging, LogCheck, LogDeliver, LogElsewhere, LogRoot, LogReturn

\* FormatInv is inductive.
THEOREM FormatInductive == Spec => []FormatInv
<1>1. ASSUME FormatInv, [Next]_vars PROVE FormatInv'
  <2>1. CASE UNCHANGED vars \/ Logging
    <3>1. UNCHANGED <<m_val, logger, pc, new, turn, calls, crashed, ghosts>>
      BY <2>1, LoggingOnly DEF vars
    <3> QED
      BY <1>1, <3>1 DEF FormatInv, Shapes, ghosts
  <2>2. CASE Configuring
    BY <1>1, <2>2, FormatConfiguring DEF Configuring
  <2> QED
    BY <1>1, <2>1, <2>2 DEF Next
<1> QED
  BY <1>1, FormatInit, PTL DEF Spec

\* However reloads by several threads and the calls of their listeners
\* interleave, no logger and no appender is left with a formatter that has an
\* error, and an appender without a formatter of its own prints like its logger.
THEOREM FormattersStayInStep == Spec => []FormattersInStep
<1>1. ASSUME FormatInv PROVE FormattersInStep
  <2>1. \A n \in Names : /\ logger[n].level \in Nat /\ logger[n].formatter \notin Erroneous
                         /\ \A k \in DOMAIN logger[n].appenders : logger[n].appenders[k] \in Appenders
    BY <1>1 DEF FormatInv, Shapes, Loggers, Correct
  <2>2. \A a \in Appenders : AppenderOK(a)
    BY DEF Appenders, AppenderOK, Correct
  <2>3. TypeOK
    BY <1>1, <2>1, <2>2 DEF FormatInv, Shapes, TypeOK
  <2>4. AppendersFollowLogger
    BY <1>1 DEF FormatInv, Follows, AppendersFollowLogger
  <2> QED
    BY <2>3, <2>4 DEF FormattersInStep
<1> QED
  BY <1>1, FormatInductive, PTL

-----------------------------------------------------------------------------
(* The calls that give a logger its appenders are the last of their turn.  *)

\* The calls q end with taking the appenders of n away and adding those of ds,
\* as far as they are still to be made.
AddsLast(q, n, ds) ==
    /\ \A i \in 1 .. Len(q) : i + Len(ds) > Len(q) =>
          q[i] = Call("addAppender", n, <<ds[i + Len(ds) - Len(q)]>>)
    /\ Len(q) > Len(ds) => q[Len(q) - Len(ds)].op = "clearAppenders"
    /\ \A i \in 1 .. Len(q) : i + Len(ds) < Len(q) => q[i].op \in {"setLevel", "setFormatter"}

\* Where a call stands in what Configure asks for.
LEMMA ConfigureOrder ==
    ASSUME NEW v \in Values, NEW n \in DOMAIN v
    PROVE  LET q == Configure(n, v[n]) IN
           /\ AddsLast(q, n, v[n].appenders)
           /\ Len(q) > Len(v[n].appenders)
           /\ q[1] = Call("setLevel", n, <<v[n].level>>)
<1> DEFINE d == v[n]
           ds == d.appenders
           a == <<Call("setLevel", n, <<d.level>>)>>
           b == IF d.formatter = <<>> THEN <<>> ELSE <<Call("setFormatter", n, d.formatter)>>
           e == <<Call("clearAppenders", n, <<>>)>>
           f == [k \in DOMAIN ds |-> Call("addAppender", n, <<ds[k]>>)]
           q == Configure(n, d)
           C == {Call("setLevel", n, <<d.level>>), Call("setFormatter", n, d.formatter),
                 Call("clearAppenders", n, <<>>)} \cup {Call("addAppender", n, <<ds[k]>>) : k \in DOMAIN ds}
<1>1. ds \in Seq(Definitions) /\ Len(ds) \in Nat /\ DOMAIN ds = 1 .. Len(ds)
  <2>1. d.appenders \in Seq(Definitions)
    BY ValuesAssumption DEF Definitions
  <2> QED
    BY <2>1
<1>2. a \in Seq(C) /\ Len(a) = 1 /\ a[1] = Call("setLevel", n, <<d.level>>)
  <2>1. Call("setLevel", n, <<d.level>>) \in C
    OBVIOUS
  <2> HIDE DEF C
  <2> QED
    BY <2>1
<1>3. b \in Seq(C)
  <2>1. Call("setFormatter", n, d.formatter) \in C
    OBVIOUS
  <2>2. PICK c : c = Call("setFormatter", n, d.formatter)
    OBVIOUS
  <2>3. b = <<>> \/ b = <<c>>
    BY <2>2
  <2>4. c \in C
    BY <2>1, <2>2
  <2> HIDE DEF C, b
  <2>5. <<c>> \in Seq(C) /\ <<>> \in Seq(C)
    BY <2>4
  <2> QED
    BY <2>3, <2>5
<1>4. e \in Seq(C) /\ Len(e) = 1 /\ e[1].op = "clearAppenders"
  <2>1. Call("clearAppenders", n, <<>>) \in C
    OBVIOUS
  <2>2. Call("clearAppenders", n, <<>>).op = "clearAppenders"
    BY DEF Call
  <2> HIDE DEF C
  <2> QED
    BY <2>1, <2>2
<1>5. f \in Seq(C) /\ Len(f) = Len(ds) /\ \A k \in 1 .. Len(ds) : f[k] = Call("addAppender", n, <<ds[k]>>)
  <2>1. \A k \in 1 .. Len(ds) : Call("addAppender", n, <<ds[k]>>) \in C
    BY <1>1
  <2>2. f = [k \in 1 .. Len(ds) |-> Call("addAppender", n, <<ds[k]>>)]
    BY <1>1
  <2> HIDE DEF C, f
  <2>3. f \in [1 .. Len(ds) -> C] /\ \A k \in 1 .. Len(ds) : f[k] = Call("addAppender", n, <<ds[k]>>)
    BY <2>1, <2>2
  <2> QED
    BY <1>1, <2>3, SeqDef, LenProperties
<1>6. q = ((a \o b) \o e) \o f
  BY DEF Configure
<1> HIDE DEF a, b, e, f, C, q
<1>7. /\ a \o b \in Seq(C) /\ Len(a \o b) >= 1 /\ Len(a \o b) \in Nat /\ (a \o b)[1] = a[1]
      /\ \A i \in 1 .. Len(a \o b) : (a \o b)[i].op \in {"setLevel", "setFormatter"}
  <2>1. Len(b) \in Nat /\ \A i \in 1 .. Len(b) : b[i].op = "setFormatter"
    <3>1. PICK c : c = Call("setFormatter", n, d.formatter)
      OBVIOUS
    <3>2. c.op = "setFormatter"
      BY <3>1 DEF Call
    <3>3. b = <<>> \/ b = <<c>>
      BY <3>1 DEF b
    <3> QED
      BY <3>2, <3>3
  <2>2. a[1].op = "setLevel"
    BY <1>2 DEF Call
  <2>3. /\ a \o b \in Seq(C) /\ Len(a \o b) = Len(a) + Len(b)
        /\ \A i \in 1 .. Len(a) + Len(b) : (a \o b)[i] = IF i <= Len(a) THEN a[i] ELSE b[i - Len(a)]
    BY <1>2, <1>3, ConcatProperties
  <2>4. PICK r : r = a \o b
    OBVIOUS
  <2>5. ASSUME NEW i \in 1 .. Len(r) PROVE r[i].op \in {"setLevel", "setFormatter"}
    <3>1. CASE i = 1
      BY <1>2, <2>2, <2>3, <2>4, <3>1
    <3>2. CASE i # 1
      <4>1. r[i] = b[i - 1] /\ i - 1 \in 1 .. Len(b)
        BY <1>2, <2>1, <2>3, <2>4, <3>2
      <4> QED
        BY <2>1, <4>1
    <3> QED
      BY <3>1, <3>2
  <2> QED
    BY <1>2, <2>1, <2>3, <2>4, <2>5
<1>8. PICK p : p = (a \o b) \o e
  OBVIOUS
<1>9. /\ p \in Seq(C) /\ Len(p) = Len(a \o b) + 1 /\ p[1] = a[1] /\ p[Len(p)] = e[1]
      /\ \A i \in 1 .. Len(p) : i < Len(p) => p[i].op \in {"setLevel", "setFormatter"}
  <2>1. PICK r : r = a \o b
    OBVIOUS
  <2>2. /\ r \in Seq(C) /\ Len(r) \in Nat /\ Len(r) >= 1 /\ r[1] = a[1]
        /\ \A i \in 1 .. Len(r) : r[i].op \in {"setLevel", "setFormatter"}
    BY <1>7, <2>1
  <2>3. /\ p \in Seq(C) /\ Len(p) = Len(r) + 1
        /\ \A i \in 1 .. Len(r) + 1 : p[i] = IF i <= Len(r) THEN r[i] ELSE e[i - Len(r)]
    <3>1. p = r \o e
      BY <1>8, <2>1
    <3>2. /\ r \o e \in Seq(C) /\ Len(r \o e) = Len(r) + Len(e)
          /\ \A i \in 1 .. Len(r) + Len(e) : (r \o e)[i] = IF i <= Len(r) THEN r[i] ELSE e[i - Len(r)]
      BY <1>4, <2>2, ConcatProperties
    <3> QED
      BY <1>4, <3>1, <3>2
  <2>4. p[1] = r[1] /\ p[Len(r) + 1] = e[1] /\ \A i \in 1 .. Len(p) : i < Len(p) => p[i] = r[i] /\ i \in 1 .. Len(r)
    BY <2>2, <2>3
  <2> QED
    BY <2>1, <2>2, <2>3, <2>4
<1>10. /\ Len(q) = Len(p) + Len(ds)
       /\ \A i \in 1 .. Len(p) + Len(ds) : q[i] = IF i <= Len(p) THEN p[i] ELSE f[i - Len(p)]
  <2>1. q = p \o f
    BY <1>6, <1>8
  <2> QED
    <3>1. /\ p \o f \in Seq(C) /\ Len(p \o f) = Len(p) + Len(f)
          /\ \A i \in 1 .. Len(p) + Len(f) : (p \o f)[i] = IF i <= Len(p) THEN p[i] ELSE f[i - Len(p)]
      <4>1. p \in Seq(C) /\ f \in Seq(C)
        BY <1>5, <1>9
      <4> QED
        BY <4>1, ConcatProperties
    <3> QED
      BY <1>5, <2>1, <3>1
<1>11. Len(p) \in Nat /\ Len(p) >= 2
  BY <1>7, <1>9
<1>12. ASSUME NEW i \in 1 .. Len(q), i + Len(ds) > Len(q)
       PROVE  q[i] = Call("addAppender", n, <<ds[i + Len(ds) - Len(q)]>>)
  <2>1. i \in Nat /\ i > Len(p) /\ i - Len(p) \in 1 .. Len(ds) /\ i + Len(ds) - Len(q) = i - Len(p)
    BY <1>1, <1>10, <1>11, <1>12
  <2>2. q[i] = f[i - Len(p)]
    BY <1>1, <1>10, <1>11, <1>12, <2>1
  <2> QED
    BY <1>5, <2>1, <2>2
<1>13. Len(q) - Len(ds) = Len(p) /\ q[Len(p)] = p[Len(p)] /\ q[1] = p[1] /\ Len(q) > Len(ds)
  BY <1>1, <1>10, <1>11
<1> QED
  <2>1. q[1] = Call("setLevel", n, <<v[n].level>>)
    BY <1>2, <1>9, <1>13
  <2>2. ASSUME NEW i \in 1 .. Len(q), i + Len(ds) < Len(q)
        PROVE  q[i].op \in {"setLevel", "setFormatter"}
    <3>1. i \in 1 .. Len(p) /\ i < Len(p) /\ i \in 1 .. Len(p) + Len(ds)
      BY <1>1, <1>10, <1>11, <2>2
    <3>2. q[i] = p[i]
      BY <1>10, <3>1
    <3> QED
      BY <1>9, <3>1, <3>2
  <2>3. AddsLast(q, n, v[n].appenders) /\ Len(q) > Len(v[n].appenders)
    BY <1>4, <1>9, <1>12, <1>13, <2>2 DEF AddsLast
  <2> QED
    BY <2>1, <2>3 DEF q

\* One call less.
LEMMA AddsLastTail ==
    ASSUME NEW C, NEW q \in Seq(C), q # <<>>, NEW n, NEW ds, Len(ds) \in Nat, AddsLast(q, n, ds)
    PROVE  AddsLast(Tail(q), n, ds)
<1>1. /\ Len(q) \in Nat /\ Len(q) >= 1 /\ Len(Tail(q)) = Len(q) - 1
      /\ \A i \in 1 .. Len(q) - 1 : Tail(q)[i] = q[i + 1]
  OBVIOUS
<1> DEFINE r == Tail(q)
<1>2. ASSUME NEW i \in 1 .. Len(r), i + Len(ds) > Len(r)
      PROVE  r[i] = Call("addAppender", n, <<ds[i + Len(ds) - Len(r)]>>)
  <2>1. i + 1 \in 1 .. Len(q) /\ (i + 1) + Len(ds) > Len(q) /\ (i + 1) + Len(ds) - Len(q) = i + Len(ds) - Len(r)
    BY <1>1, <1>2
  <2> QED
    BY <1>1, <1>2, <2>1 DEF AddsLast
<1>3. ASSUME Len(r) > Len(ds) PROVE r[Len(r) - Len(ds)].op = "clearAppenders"
  <2>1. /\ Len(r) - Len(ds) \in 1 .. Len(q) - 1 /\ (Len(r) - Len(ds)) + 1 = Len(q) - Len(ds)
        /\ Len(q) > Len(ds)
    BY <1>1, <1>3
  <2> QED
    BY <1>1, <2>1 DEF AddsLast
<1>4. ASSUME NEW i \in 1 .. Len(r), i + Len(ds) < Len(r)
      PROVE  r[i].op \in {"setLevel", "setFormatter"}
  <2>1. i + 1 \in 1 .. Len(q) /\ (i + 1) + Len(ds) < Len(q)
    BY <1>1, <1>4
  <2> QED
    BY <1>1, <1>4, <2>1 DEF AddsLast
<1> QED
  BY <1>2, <1>3, <1>4 DEF AddsLast

\* The first m appenders of the definitions ds are made.
MadeOfFirst(as, ds, m) ==
    /\ Len(as) = m
    /\ \A k \in 1 .. m : /\ as[k].type = ds[k].type
                         /\ as[k].own = OwnFormatter(ds[k])
                         /\ as[k].own => as[k].formatter = ds[k].formatter

\* What a call does to the appenders of its logger.
LEMMA AppliedAppenders ==
    ASSUME NEW lg \in Loggers, NEW c \in ListenerCalls
    PROVE  /\ c.op = "addAppender" =>
                 \A ds, m : /\ m \in Nat /\ c.arg[1] = ds[m + 1] /\ MadeOfFirst(lg.appenders, ds, m)
                            => MadeOfFirst(Applied(lg, c).appenders, ds, m + 1)
           /\ c.op \in {"setLevel", "setFormatter"} /\ Applied(lg, c).appenders = <<>> => lg.appenders = <<>>
<1>0. /\ lg.level \in Nat /\ lg.formatter \in Correct /\ lg.appenders \in Seq(Appenders)
      /\ lg = [level |-> lg.level, formatter |-> lg.formatter, appenders |-> lg.appenders]
  BY DEF Loggers
<1>1. ASSUME c.op = "addAppender", NEW ds, NEW m \in Nat, c.arg[1] = ds[m + 1],
             MadeOfFirst(lg.appenders, ds, m)
      PROVE  MadeOfFirst(Applied(lg, c).appenders, ds, m + 1)
  <2>1. PICK d : d = c.arg[1]
    OBVIOUS
  <2>2. PICK ap : ap = [type |-> d.type, own |-> OwnFormatter(d),
                        formatter |-> IF OwnFormatter(d) THEN d.formatter ELSE lg.formatter]
    OBVIOUS
  <2>3. Applied(lg, c) = [lg EXCEPT !.appenders = Append(lg.appenders, ap)]
    BY <1>1, <2>1, <2>2 DEF Applied, Appended
  <2>4. Applied(lg, c).appenders = Append(lg.appenders, ap)
    BY <1>0, <2>3
  <2>5. ap.type = d.type /\ ap.own = OwnFormatter(d) /\ (ap.own => ap.formatter = d.formatter)
    BY <2>2
  <2>6. Len(lg.appenders) = m
    BY <1>1 DEF MadeOfFirst
  <2>7. Append(lg.appenders, ap) \in Seq(Appenders \cup {ap}) /\ lg.appenders \in Seq(Appenders \cup {ap})
    BY <1>0
  <2>8. /\ Len(Append(lg.appenders, ap)) = m + 1
        /\ \A k \in 1 .. m : Append(lg.appenders, ap)[k] = lg.appenders[k]
        /\ Append(lg.appenders, ap)[m + 1] = ap
    BY <2>6, <2>7, AppendProperties
  <2> HIDE DEF OwnFormatter
  <2>9. PICK bs : bs = Append(lg.appenders, ap)
    OBVIOUS
  <2>10. ASSUME NEW k \in 1 .. m + 1
         PROVE  /\ bs[k].type = ds[k].type
                /\ bs[k].own = OwnFormatter(ds[k])
                /\ bs[k].own => bs[k].formatter = ds[k].formatter
    <3>1. CASE k = m + 1
      <4>1. bs[k] = ap /\ ds[k] = d
        BY <1>1, <2>1, <2>8, <2>9, <3>1
      <4> QED
        BY <4>1, <2>5
    <3>2. CASE k # m + 1
      <4>1. k \in 1 .. m /\ bs[k] = lg.appenders[k]
        BY <2>8, <2>9, <3>2
      <4> QED
        BY <1>1, <4>1 DEF MadeOfFirst
    <3> QED
      BY <3>1, <3>2
  <2> QED
    BY <2>4, <2>8, <2>9, <2>10 DEF MadeOfFirst
<1>2. CASE c.op = "setLevel"
  <2>1. Applied(lg, c) = [lg EXCEPT !.level = c.arg[1]]
    BY <1>2 DEF Applied
  <2> QED
    BY <1>0, <1>2, <2>1
<1>3. CASE c.op = "setFormatter"
  <2>1. Applied(lg, c) = Formatted(lg, c.arg)
    BY <1>3 DEF Applied
  <2>2. PICK bs : bs = [k \in DOMAIN lg.appenders |->
                          IF lg.appenders[k].own THEN lg.appenders[k]
                          ELSE [lg.appenders[k] EXCEPT !.formatter = c.arg]]
    OBVIOUS
  <2>3. Formatted(lg, c.arg) = lg \/ Formatted(lg, c.arg) = [lg EXCEPT !.formatter = c.arg, !.appenders = bs]
    BY <2>2 DEF Formatted
  <2>4. Applied(lg, c).appenders = lg.appenders \/ Applied(lg, c).appenders = bs
    BY <1>0, <2>1, <2>3
  <2>5. DOMAIN bs = DOMAIN lg.appenders /\ DOMAIN <<>> = {}
    BY <2>2
  <2>6. bs = <<>> => lg.appenders = <<>>
    BY <1>0, <2>5, EmptySeq
  <2> QED
    BY <1>3, <2>4, <2>6
<1> QED
  BY <1>1, <1>2, <1>3

-----------------------------------------------------------------------------
(* What a reload leaves behind, however many threads set the variable.     *)

\* Logger n is as the value val has it, its appenders only if n is not in but.
Stands(n, val, but) ==
    IF n \in DOMAIN val
    THEN /\ logger[n].level = val[n].level
         /\ (val[n].formatter # <<>> /\ val[n].formatter \notin Erroneous) =>
                logger[n].formatter = val[n].formatter
         /\ n \notin but => MadeOf(logger[n].appenders, val[n].appenders)
    ELSE IF n \in known THEN logger[n].level = 0 /\ logger[n].appenders = <<>>
    ELSE logger[n] = NewLogger(n)

AsBefore(n) == n \notin disputed => Stands(n, m_val, overlooked)

HasCall(s, n, op) == \E k \in DOMAIN calls[s] : calls[s][k].op = op /\ calls[s][k].name = n

\* The number of calls left in the turn of s, if the turn is about n.
Left(s, n) == IF \E k \in DOMAIN calls[s] : calls[s][k].name = n THEN Len(calls[s]) ELSE 0

\* The listener of s has yet to come to n, in its first or in its second loop.
FirstToCome(s, n) == \E i \in 1 .. Len(NameOrder) : i > turn[s] /\ NameOrder[i] = n
SecondToCome(s, n) == \E i \in 1 .. Len(NameOrder) : i + Len(NameOrder) > turn[s] /\ NameOrder[i] = n

\* The first call of the turn is to set the level of n, which is as it was.
Starting(s, n) ==
    /\ calls[s] # <<>> /\ calls[s][1].op = "setLevel" /\ calls[s][1].name = n
    /\ AsBefore(n)

\* The value in force gives n no appender.
EmptyBefore(n) ==
    IF n \in DOMAIN m_val THEN m_val[n].appenders = <<>>
    ELSE n \in known \/ NewLogger(n).appenders = <<>>

\* Each thing the new value says of n is done or among the calls of this turn.
LevelOnTheWay(s, n) == Starting(s, n) \/ logger[n].level = new[s][n].level

FormatterOnTheWay(s, n) ==
    (new[s][n].formatter # <<>> /\ new[s][n].formatter \notin Erroneous) =>
        HasCall(s, n, "setFormatter") \/ logger[n].formatter = new[s][n].formatter

AppendersOnTheWay(s, n) ==
    LET ds == new[s][n].appenders IN
    /\ Left(s, n) > 0 => AddsLast(calls[s], n, ds)
    /\ (Left(s, n) > Len(ds) /\ n \notin disputed \cup overlooked /\ logger[n].appenders = <<>>) =>
           EmptyBefore(n)
    /\ Left(s, n) <= Len(ds) => MadeOfFirst(logger[n].appenders, ds, Len(ds) - Left(s, n))

BeingConfigured(s, n) == LevelOnTheWay(s, n) /\ FormatterOnTheWay(s, n) /\ AppendersOnTheWay(s, n)

BeingRetired(s, n) ==
    /\ HasCall(s, n, "setLevel") \/ logger[n].level = 0
    /\ HasCall(s, n, "clearAppenders") \/ logger[n].appenders = <<>>

\* A logger that changes is as before until the first loop comes to it, then it
\* is being configured; so for one that goes.  Another one is as before.
OnTheWay(s, n) ==
    /\ Changed(m_val, new[s], n) =>
          IF FirstToCome(s, n) THEN AsBefore(n) /\ Left(s, n) = 0 ELSE BeingConfigured(s, n)
    /\ Gone(m_val, new[s], n) => SecondToCome(s, n) \/ BeingRetired(s, n)
    /\ ~ Changed(m_val, new[s], n) /\ ~ Gone(m_val, new[s], n) => AsBefore(n)

\* The calls of the turn are about one logger that changes or goes, and say of
\* it what the new value says.
CallsSay(s) ==
    \A k \in DOMAIN calls[s] :
        /\ Says(calls[s][k], new[s])
        /\ calls[s][k].name = calls[s][1].name
        /\ Changed(m_val, new[s], calls[s][k].name) \/ Gone(m_val, new[s], calls[s][k].name)

\* The listener of s has been to all loggers.
Told(s, n) ==
    n \notin disputed =>
        IF Changed(m_val, new[s], n) \/ Gone(m_val, new[s], n)
        THEN Stands(n, new[s], {}) ELSE Stands(n, m_val, overlooked)

ListenInv(s) == CallsSay(s) /\ \A n \in Names : OnTheWay(s, n)

ReloadInv(s) ==
    /\ pc[s] = "listen" /\ Alone(s) => ListenInv(s)
    /\ pc[s] = "assign" /\ Alone(s) => \A n \in Names : Told(s, n)
    /\ pc[s] # "listen" => calls[s] = <<>>

\* Once two threads are inside setValue every name is in dispute, until one of
\* them is alone again and configures it.
ConfigInv ==
    /\ \A s, t \in Setters : s # t /\ pc[s] # "out" /\ pc[t] # "out" => disputed = Names
    /\ DOMAIN m_val \subseteq known
    /\ (\A s \in Setters : pc[s] = "out") => \A n \in Names : AsBefore(n)
    /\ \A s \in Setters : ReloadInv(s)

-----------------------------------------------------------------------------
\* What a turn of the listener consists of.
LEMMA TurnCalls ==
    ASSUME NEW old \in Values \cup {<<>>}, NEW v \in Values \cup {<<>>}, NEW k \in 1 .. Turns,
           NEW q, q = Listener(old, v, k), NEW n \in Names
    PROVE  /\ \A i \in DOMAIN q : q[i].name = q[1].name
           /\ (\E i \in DOMAIN q : q[i].name = n) =>
                 \/ k <= Len(NameOrder) /\ NameOrder[k] = n /\ Changed(old, v, n)
                 \/ k > Len(NameOrder) /\ Gone(old, v, n)
           /\ k <= Len(NameOrder) /\ NameOrder[k] = n /\ Changed(old, v, n) => q = Configure(n, v[n])
<1> DEFINE N == Len(NameOrder)
<1>1. N \in Nat /\ k \in Nat /\ k >= 1 /\ k <= 2 * N
  BY TurnsTyped DEF Turns
<1>2. DOMAIN <<>> = {}
  OBVIOUS
<1>3. CASE k <= N
  <2>1. PICK m : m = NameOrder[k]
    OBVIOUS
  <2>2. q = IF Changed(old, v, m) THEN Configure(m, v[m]) ELSE <<>>
    BY <1>3, <2>1 DEF Listener
  <2>3. CASE Changed(old, v, m)
    <3>1. m \in DOMAIN v /\ v \in Values
      BY <1>2, <2>3 DEF Changed
    <3>2. q = Configure(m, v[m]) /\ q \in Seq(ListenerCalls) /\ \A i \in DOMAIN q : q[i].name = m
      BY <2>2, <2>3, <3>1, ConfigureCalls
    <3>3. \A i \in DOMAIN q : 1 \in DOMAIN q
      BY <3>2
    <3> QED
      BY <1>3, <2>1, <2>3, <3>2, <3>3
  <2>4. CASE ~ Changed(old, v, m)
    BY <1>2, <1>3, <2>1, <2>2, <2>4
  <2> QED
    BY <2>3, <2>4
<1>4. CASE k > N
  <2>1. PICK m : m = NameOrder[k - N]
    OBVIOUS
  <2>2. m \in Names /\ ~ (k <= N)
    <3>1. k - N \in 1 .. N /\ ~ (k <= N)
      BY <1>1, <1>4
    <3> QED
      BY <2>1, <3>1, TurnsTyped
  <2>3. q = IF Gone(old, v, m) THEN Retire(m) ELSE <<>>
    BY <2>1, <2>2 DEF Listener
  <2>4. CASE Gone(old, v, m)
    <3>1. m \notin DOMAIN v
      BY <2>4 DEF Gone
    <3>2. q = Retire(m) /\ q \in Seq(ListenerCalls) /\ \A i \in DOMAIN q : q[i].name = m
      BY <2>2, <2>3, <2>4, <3>1, RetireCalls
    <3>3. \A i \in DOMAIN q : 1 \in DOMAIN q
      BY <3>2
    <3> QED
      BY <1>4, <2>2, <2>4, <3>2, <3>3
  <2>5. CASE ~ Gone(old, v, m)
    BY <1>2, <2>2, <2>3, <2>5
  <2> QED
    BY <2>4, <2>5
<1> QED
  BY <1>1, <1>3, <1>4

\* A turn about a logger that changes and is as before: it is being configured.
LEMMA TurnBegins ==
    ASSUME FormatInv, NEW s \in Setters, NEW n \in Names, AsBefore(n),
           new[s] \in Values, n \in DOMAIN new[s], new' = new,
           UNCHANGED <<m_val, logger, known, disputed, overlooked>>,
           calls'[s] = Configure(n, new[s][n])
    PROVE  BeingConfigured(s, n)'
<1>1. PICK q : q = Configure(n, new[s][n])
  OBVIOUS
<1>2. PICK ds : ds = new[s][n].appenders
  OBVIOUS
<1>3. /\ q \in Seq(ListenerCalls) /\ \A k \in DOMAIN q : q[k].name = n
      /\ new[s][n].formatter # <<>> => \E k \in DOMAIN q : q[k].op = "setFormatter"
  BY <1>1, ConfigureCalls
<1>4. AddsLast(q, n, ds) /\ Len(q) > Len(ds) /\ q[1] = Call("setLevel", n, <<new[s][n].level>>)
  BY <1>1, <1>2, ConfigureOrder
<1>5. Len(ds) \in Nat /\ Len(q) \in Nat /\ DOMAIN q = 1 .. Len(q)
  <2>1. ds \in Seq(Definitions)
    BY <1>2, ValuesAssumption DEF Definitions
  <2> QED
    BY <1>3, <2>1
<1>6. 1 \in DOMAIN q /\ q # <<>> /\ Len(q) > 0
  <2>1. Len(q) > 0
    BY <1>4, <1>5
  <2>2. q # <<>>
    BY <2>1
  <2> QED
    BY <1>5, <2>1, <2>2
<1>7. q[1].op = "setLevel" /\ q[1].name = n
  BY <1>4 DEF Call
<1>8. calls'[s] = q /\ AsBefore(n)' /\ Left(s, n)' = Len(q)
  BY <1>1, <1>3, <1>6 DEF AsBefore, Stands, Left
<1>9. LevelOnTheWay(s, n)'
  BY <1>6, <1>7, <1>8 DEF LevelOnTheWay, Starting
<1>10. FormatterOnTheWay(s, n)'
  BY <1>3, <1>8 DEF FormatterOnTheWay, HasCall
<1>11. ASSUME n \notin disputed \cup overlooked, logger[n].appenders = <<>> PROVE EmptyBefore(n)
  <2>1. Stands(n, m_val, overlooked)
    BY <1>11 DEF AsBefore
  <2>2. CASE n \in DOMAIN m_val
    <3>1. MadeOf(logger[n].appenders, m_val[n].appenders)
      BY <1>11, <2>1, <2>2 DEF Stands
    <3>2. DOMAIN <<>> = {} /\ Len(<<>>) = 0
      OBVIOUS
    <3>3. m_val \in Values
      BY <2>2, <3>2 DEF FormatInv, Shapes
    <3>4. m_val[n].appenders \in Seq([type : {"file", "stdout"}, formatter : Patterns])
      BY <2>2, <3>3, ValuesAssumption
    <3>5. Len(m_val[n].appenders) = 0
      BY <1>11, <3>1, <3>2 DEF MadeOf
    <3>6. m_val[n].appenders = <<>>
      BY <3>4, <3>5
    <3> QED
      BY <2>2, <3>6 DEF EmptyBefore
  <2>3. CASE n \notin DOMAIN m_val
    BY <1>11, <2>1, <2>3 DEF Stands, EmptyBefore
  <2> QED
    BY <2>2, <2>3
<1>12. AppendersOnTheWay(s, n)'
  <2>1. (n \notin disputed \cup overlooked /\ logger[n].appenders = <<>> => EmptyBefore(n))'
    BY <1>11 DEF EmptyBefore
  <2>2. new'[s][n].appenders = ds
    BY <1>2
  <2>3. ~ (Len(q) <= Len(ds))
    BY <1>4, <1>5
  <2> HIDE DEF EmptyBefore
  <2> QED
    BY <1>4, <1>8, <2>1, <2>2, <2>3 DEF AppendersOnTheWay
<1> QED
  BY <1>9, <1>10, <1>12 DEF BeingConfigured

\* A turn of the listener begins: what it has to do for its logger is among the
\* calls now, and the calls of the turn before are done.
LEMMA ReloadTurn ==
    ASSUME FormatInv, NEW s \in Setters, ListenerTurn(s), ListenInv(s)
    PROVE  ListenInv(s)'
<1> DEFINE N == Len(NameOrder)
<1>0. PICK v, k : v = new[s] /\ k = turn[s] + 1
  OBVIOUS
<1>1. PICK q : q = Listener(m_val, v, k)
  OBVIOUS
<1>2. turn[s] \in 0 .. Turns /\ turn[s] < Turns /\ Turns \in Nat /\ N \in Nat
  BY TurnsTyped DEF ListenerTurn, FormatInv, Shapes
<1>3. k \in 1 .. Turns /\ turn[s] \in Nat
  BY <1>0, <1>2
<1>4. m_val \in Values \cup {<<>>} /\ v \in Values \cup {<<>>}
  BY <1>0 DEF FormatInv, Shapes
<1>5. /\ UNCHANGED <<m_val, logger, pc, new, known, disputed, overlooked>> /\ calls[s] = <<>>
      /\ calls' = [calls EXCEPT ![s] = q] /\ turn' = [turn EXCEPT ![s] = @ + 1]
  BY <1>0, <1>1 DEF ListenerTurn, ghosts
<1>6. calls'[s] = q /\ turn'[s] = k
  BY <1>0, <1>5 DEF FormatInv, Shapes
<1>7. \A i \in DOMAIN q : Says(q[i], v) /\ (Changed(m_val, v, q[i].name) \/ Gone(m_val, v, q[i].name))
  BY <1>1, <1>3, <1>4, ListenerQueue
<1>8. \A i \in DOMAIN q : q[i].name = q[1].name
  <2>1. PICK n \in Names : TRUE
    BY RootIsALogger
  <2> QED
    BY <1>1, <1>3, <1>4, TurnCalls
<1>9. CallsSay(s)'
  BY <1>0, <1>5, <1>6, <1>7, <1>8 DEF CallsSay
<1>10. \A n \in Names : Left(s, n) = 0 /\ \A op : ~ HasCall(s, n, op)
  <2>1. DOMAIN calls[s] = {}
    BY <1>5
  <2> QED
    BY <2>1 DEF HasCall, Left
<1>11. ASSUME NEW n \in Names PROVE OnTheWay(s, n)'
  <2>1. OnTheWay(s, n)
    BY DEF ListenInv
  <2>2. AsBefore(n) => AsBefore(n)'
    BY <1>5 DEF AsBefore, Stands
  <2>3. (\E i \in DOMAIN q : q[i].name = n) =>
            \/ k <= N /\ NameOrder[k] = n /\ Changed(m_val, v, n)
            \/ k > N /\ Gone(m_val, v, n)
    BY <1>1, <1>3, <1>4, TurnCalls
  <2>4. ASSUME Changed(m_val, v, n)
        PROVE  IF FirstToCome(s, n)' THEN AsBefore(n)' /\ Left(s, n)' = 0 ELSE BeingConfigured(s, n)'
    <3>0. ~ Gone(m_val, v, n)
      BY <2>4 DEF Changed, Gone
    <3>1. CASE k <= N /\ NameOrder[k] = n
      <4>1. ~ FirstToCome(s, n)'
        <5>1. k \in 1 .. N /\ DOMAIN NameOrder = 1 .. N
          BY <1>2, <1>3, <3>1, NamesAreOrdered
        <5>2. \A i \in 1 .. N : NameOrder[i] = n => i = k
          BY <3>1, <5>1, NamesAreOrdered
        <5>3. \A i \in 1 .. N : NameOrder[i] = n => ~ (i > k)
          BY <5>1, <5>2
        <5> QED
          BY <1>6, <5>3 DEF FirstToCome
      <4>2. FirstToCome(s, n)
        <5>1. k \in 1 .. N /\ k > turn[s]
          BY <1>0, <1>2, <1>3, <3>1
        <5> QED
          BY <3>1, <5>1 DEF FirstToCome
      <4>3. AsBefore(n)
        BY <1>0, <2>1, <2>4, <4>2 DEF OnTheWay
      <4>4. q = Configure(n, v[n]) /\ n \in DOMAIN v
        BY <1>1, <1>3, <1>4, <2>4, <3>1, TurnCalls DEF Changed
      <4>5. v \in Values
        <5>1. DOMAIN <<>> = {}
          OBVIOUS
        <5> QED
          BY <1>4, <4>4, <5>1
      <4>6. BeingConfigured(s, n)'
        BY <1>0, <1>5, <1>6, <4>3, <4>4, <4>5, TurnBegins
      <4> QED
        BY <4>1, <4>6
    <3>2. CASE ~ (k <= N /\ NameOrder[k] = n)
      <4>1. ~ \E i \in DOMAIN q : q[i].name = n
        BY <2>3, <3>0, <3>2
      <4>2. Left(s, n)' = 0
        BY <1>6, <4>1 DEF Left
      <4>3. FirstToCome(s, n)' = FirstToCome(s, n)
        <5>1. \A i \in 1 .. N : NameOrder[i] = n => (i > k <=> i > turn[s])
          BY <1>0, <1>3, <3>2
        <5> QED
          BY <1>6, <5>1 DEF FirstToCome
      <4>4. CASE FirstToCome(s, n)
        BY <1>0, <2>1, <2>2, <2>4, <4>2, <4>3, <4>4 DEF OnTheWay
      <4>5. CASE ~ FirstToCome(s, n)
        <5>1. BeingConfigured(s, n)
          BY <1>0, <2>1, <2>4, <4>5 DEF OnTheWay
        <5>2. LevelOnTheWay(s, n)'
          BY <1>5, <5>1 DEF BeingConfigured, LevelOnTheWay, Starting
        <5>3. FormatterOnTheWay(s, n)'
          BY <1>5, <1>10, <5>1 DEF BeingConfigured, FormatterOnTheWay
        <5>4. Left(s, n) = 0 /\ Left(s, n)' = 0 /\ v[n].appenders = new[s][n].appenders
          BY <1>0, <1>10, <4>2
        <5>5. ~ (0 > 0) /\ EmptyBefore(n)' = EmptyBefore(n)
          BY <1>5 DEF EmptyBefore
        <5>6. AppendersOnTheWay(s, n)
          BY <5>1 DEF BeingConfigured
        <5>7. AppendersOnTheWay(s, n)'
          BY <1>5, <5>4, <5>5, <5>6 DEF AppendersOnTheWay
        <5> QED
          BY <4>3, <4>5, <5>2, <5>3, <5>7 DEF BeingConfigured
      <4> QED
        BY <4>4, <4>5
    <3> QED
      BY <3>1, <3>2
  <2>5. ASSUME Gone(m_val, v, n) PROVE SecondToCome(s, n)' \/ BeingRetired(s, n)'
    <3>1. CASE BeingRetired(s, n)
      BY <1>0, <1>5, <1>10, <3>1 DEF BeingRetired
    <3>2. CASE SecondToCome(s, n)
      <4>1. PICK i \in 1 .. N : i + N > turn[s] /\ NameOrder[i] = n
        BY <3>2 DEF SecondToCome
      <4>2. CASE i + N > k
        BY <1>6, <4>1, <4>2 DEF SecondToCome
      <4>3. CASE ~ (i + N > k)
        <5>1. i + N = k /\ k > N /\ k - N = i /\ NameOrder[k - N] = n
          BY <1>0, <1>2, <1>3, <4>1, <4>3
        <5>2. /\ \E j \in DOMAIN q : q[j].op = "setLevel" /\ q[j].name = n
              /\ \E j \in DOMAIN q : q[j].op = "clearAppenders" /\ q[j].name = n
          BY <1>1, <1>3, <2>5, <5>1, ListenerRetires
        <5> QED
          BY <1>0, <1>5, <1>6, <5>2 DEF BeingRetired, HasCall
      <4> QED
        BY <4>2, <4>3
    <3> QED
      BY <1>0, <2>1, <2>5, <3>1, <3>2 DEF OnTheWay
  <2>6. ~ Changed(m_val, v, n) /\ ~ Gone(m_val, v, n) => AsBefore(n)'
    BY <1>0, <2>1, <2>2 DEF OnTheWay
  <2>7. Changed(m_val, new[s], n)' = Changed(m_val, v, n) /\ Gone(m_val, new[s], n)' = Gone(m_val, v, n)
    BY <1>0, <1>5 DEF Changed, Gone, SameDefine
  <2> QED
    BY <2>4, <2>5, <2>6, <2>7 DEF OnTheWay
<1> QED
  BY <1>9, <1>11 DEF ListenInv

\* The calls of a turn are about one logger, so the turn is about it or not.
LEMMA LeftInTurn ==
    ASSUME FormatInv, NEW s \in Setters, CallsSay(s), NEW n
    PROVE  /\ calls[s] # <<>> /\ calls[s][1].name = n => Left(s, n) = Len(calls[s])
           /\ calls[s] = <<>> \/ calls[s][1].name # n =>
                 Left(s, n) = 0 /\ ~ Starting(s, n) /\ \A op : ~ HasCall(s, n, op)
<1>1. /\ calls[s] \in Seq(ListenerCalls) /\ DOMAIN calls[s] = 1 .. Len(calls[s]) /\ DOMAIN <<>> = {}
      /\ Len(calls[s]) \in Nat
  BY DEF FormatInv, Shapes
<1>2. \A k \in DOMAIN calls[s] : calls[s][k].name = calls[s][1].name
  BY DEF CallsSay
<1>3. calls[s] # <<>> => 1 \in DOMAIN calls[s]
  BY <1>1, EmptySeq
<1> QED
  BY <1>1, <1>2, <1>3 DEF Left, HasCall, Starting

\* One call about a logger that is being configured: what it was to do is done.
LEMMA CallConfigures ==
    ASSUME FormatInv, NEW s \in Setters, CallsSay(s), CallsSay(s)', ListenerCall(s),
           NEW n \in Names, calls[s][1].name = n, n \in DOMAIN new[s], BeingConfigured(s, n)
    PROVE  BeingConfigured(s, n)'
<1> DEFINE v == new[s]
<1>1. PICK c, q, ds : c = calls[s][1] /\ q = calls[s] /\ ds = v[n].appenders
  OBVIOUS
<1>2. /\ c \in ListenerCalls /\ 1 \in DOMAIN calls[s]
      /\ \A i \in DOMAIN calls[s] : i = 1 \/ (i - 1 \in DOMAIN calls'[s] /\ calls'[s][i - 1] = calls[s][i])
      /\ logger'[n] = Applied(logger[n], c)
      /\ calls'[s] = Tail(calls[s]) /\ Tail(calls[s]) \in Seq(ListenerCalls)
  BY <1>1, CallStep
<1>3. UNCHANGED <<m_val, new, known, overlooked>> /\ new'[s][n].appenders = ds
  BY <1>1 DEF ListenerCall
<1>4. Says(c, v) /\ c.name = n
  BY <1>1, <1>2 DEF CallsSay
<1>5. logger[n] \in Loggers /\ Follows(logger[n])
  BY DEF FormatInv, Shapes
<1>6. /\ logger'[n].level = (IF c.op = "setLevel" THEN c.arg[1] ELSE logger[n].level)
      /\ logger'[n].formatter =
            (IF c.op = "setFormatter" /\ c.arg \notin Erroneous THEN c.arg ELSE logger[n].formatter)
      /\ c.op = "clearAppenders" => logger'[n].appenders = <<>>
  BY <1>2, <1>5, AppliedLogger
<1>7. LevelOnTheWay(s, n)'
  <2>1. c.op = "setLevel" => c.arg = <<v[n].level>>
    BY <1>4 DEF Says
  <2>2. c.op # "setLevel" => logger[n].level = v[n].level
    BY <1>1 DEF BeingConfigured, LevelOnTheWay, Starting
  <2>3. logger'[n].level = v[n].level
    BY <1>6, <2>1, <2>2
  <2> QED
    BY <1>3, <2>3 DEF LevelOnTheWay
<1>8. FormatterOnTheWay(s, n)'
  <2>1. c.op = "setFormatter" => c.arg = v[n].formatter
    BY <1>4 DEF Says
  <2>2. HasCall(s, n, "setFormatter") => HasCall(s, n, "setFormatter")' \/ c.op = "setFormatter"
    <3> SUFFICES ASSUME HasCall(s, n, "setFormatter"), c.op # "setFormatter" PROVE HasCall(s, n, "setFormatter")'
      OBVIOUS
    <3>1. PICK i \in DOMAIN calls[s] : calls[s][i].op = "setFormatter" /\ calls[s][i].name = n
      BY DEF HasCall
    <3>2. i # 1
      BY <1>1, <3>1
    <3>3. i - 1 \in DOMAIN calls'[s] /\ calls'[s][i - 1] = calls[s][i]
      BY <1>2, <3>2
    <3> QED
      BY <3>1, <3>3 DEF HasCall
  <2>3. FormatterOnTheWay(s, n)
    BY DEF BeingConfigured
  <2>4. v[n].formatter \notin Erroneous => HasCall(s, n, "setFormatter")' \/ logger'[n].formatter = v[n].formatter
        \/ ~ (v[n].formatter # <<>> /\ v[n].formatter \notin Erroneous)
    BY <1>6, <2>1, <2>2, <2>3 DEF FormatterOnTheWay
  <2> QED
    BY <1>3, <2>4 DEF FormatterOnTheWay
<1>9. /\ q \in Seq(ListenerCalls) /\ Len(q) \in Nat /\ Len(q) >= 1 /\ DOMAIN q = 1 .. Len(q) /\ q # <<>>
      /\ Len(Tail(q)) = Len(q) - 1
  <2>1. q \in Seq(ListenerCalls) /\ q # <<>>
    BY <1>1 DEF FormatInv, Shapes, ListenerCall
  <2> QED
    BY <2>1
<1>10. ds \in Seq(Definitions) /\ Len(ds) \in Nat
  <2>1. v \in Values
    <3>1. DOMAIN <<>> = {}
      OBVIOUS
    <3> QED
      BY <3>1 DEF FormatInv, Shapes
  <2>2. ds \in Seq(Definitions)
    BY <1>1, <2>1, ValuesAssumption DEF Definitions
  <2> QED
    BY <2>2
<1>11. Left(s, n) = Len(q)
  BY <1>1, <1>9, LeftInTurn
<1>12. Left(s, n)' = Len(q) - 1
  <2>1. calls'[s] = Tail(q)
    BY <1>1, <1>2
  <2>2. CASE Tail(q) = <<>>
    <3>1. Left(s, n)' = 0 /\ Len(q) - 1 = 0
      <4>1. DOMAIN calls'[s] = {}
        BY <2>1, <2>2
      <4> QED
        BY <1>9, <2>2, <4>1 DEF Left
    <3> QED
      BY <3>1
  <2>3. CASE Tail(q) # <<>>
    <3>1. Len(Tail(q)) >= 1 /\ 2 \in DOMAIN q
      BY <1>9, <2>3
    <3>2. q[2].name = n
      BY <1>1, <3>1 DEF CallsSay
    <3>3. 1 \in DOMAIN calls'[s] /\ calls'[s][1] = q[2]
      BY <1>9, <2>1, <3>1
    <3> QED
      BY <1>9, <2>1, <3>2, <3>3 DEF Left
  <2> QED
    BY <2>2, <2>3
<1>13. AppendersOnTheWay(s, n)'
  <2>0. AppendersOnTheWay(s, n)
    BY DEF BeingConfigured
  <2>1. AddsLast(q, n, ds)
    BY <1>1, <1>9, <1>11, <2>0 DEF AppendersOnTheWay
  <2>2. AddsLast(calls'[s], n, ds)
    BY <1>1, <1>2, <1>9, <1>10, <2>1, AddsLastTail
  <2>3. ASSUME Len(q) - 1 > Len(ds), n \notin disputed' \cup overlooked', logger'[n].appenders = <<>>
        PROVE  EmptyBefore(n)'
    <3>1. Len(q) > 1 /\ Len(q) > Len(ds) /\ 1 \in 1 .. Len(q) /\ 1 + Len(ds) < Len(q)
      BY <1>9, <1>10, <2>3
    <3>2. disputed' = disputed
      <4>0. Len(q) \in Nat /\ Len(q) > 1
        BY <1>9, <3>1
      <4>2. PICK i : i = Len(q)
        OBVIOUS
      <4>3. i # 1
        BY <4>0, <4>2
      <4>1. Len(calls[s]) # 1
        BY <1>1, <4>2, <4>3
      <4> QED
        BY <4>1 DEF ListenerCall
    <3>3. q[1].op \in {"setLevel", "setFormatter"}
      BY <2>1, <3>1 DEF AddsLast
    <3>4. logger[n].appenders = <<>>
      BY <1>1, <1>2, <1>5, <2>3, <3>3, AppliedAppenders
    <3>5. EmptyBefore(n)
      BY <1>1, <1>3, <1>11, <2>0, <2>3, <3>1, <3>2, <3>4 DEF AppendersOnTheWay
    <3> QED
      BY <1>3, <3>5 DEF EmptyBefore
  <2>4. ASSUME Len(q) - 1 <= Len(ds) PROVE MadeOfFirst(logger'[n].appenders, ds, Len(ds) - (Len(q) - 1))
    <3>1. CASE Len(q) = Len(ds) + 1
      <4>1. Len(q) - Len(ds) = 1 /\ Len(q) > Len(ds) /\ Len(ds) - (Len(q) - 1) = 0
        BY <1>9, <1>10, <3>1
      <4>2. c.op = "clearAppenders"
        BY <1>1, <2>1, <4>1 DEF AddsLast
      <4>3. logger'[n].appenders = <<>> /\ Len(<<>>) = 0
        BY <1>6, <4>2
      <4> QED
        BY <4>1, <4>3 DEF MadeOfFirst
    <3>2. CASE Len(q) # Len(ds) + 1
      <4>1. /\ Len(q) <= Len(ds) /\ Len(ds) - Len(q) \in Nat /\ 1 \in 1 .. Len(q) /\ 1 + Len(ds) > Len(q)
            /\ 1 + Len(ds) - Len(q) = (Len(ds) - Len(q)) + 1
            /\ Len(ds) - (Len(q) - 1) = (Len(ds) - Len(q)) + 1
        <5>1. PICK i, j : i = Len(q) /\ j = Len(ds)
          OBVIOUS
        <5>2. i \in Nat /\ i >= 1 /\ j \in Nat /\ i - 1 <= j /\ i # j + 1
          BY <1>9, <1>10, <2>4, <3>2, <5>1
        <5>3. /\ i <= j /\ j - i \in Nat /\ 1 \in 1 .. i /\ 1 + j > i
              /\ 1 + j - i = (j - i) + 1 /\ j - (i - 1) = (j - i) + 1
          BY <5>2
        <5> QED
          BY <5>1, <5>3
      <4>2. q[1] = Call("addAppender", n, <<ds[(Len(ds) - Len(q)) + 1]>>)
        BY <2>1, <4>1 DEF AddsLast
      <4>3. c.op = "addAppender" /\ c.arg[1] = ds[(Len(ds) - Len(q)) + 1]
        BY <1>1, <4>2 DEF Call
      <4>4. MadeOfFirst(logger[n].appenders, ds, Len(ds) - Len(q))
        BY <1>1, <1>11, <2>0, <4>1 DEF AppendersOnTheWay
      <4>5. MadeOfFirst(Applied(logger[n], c).appenders, ds, (Len(ds) - Len(q)) + 1)
        BY <1>2, <1>5, <4>1, <4>3, <4>4, AppliedAppenders
      <4> QED
        BY <1>2, <4>1, <4>5
    <3> QED
      BY <3>1, <3>2
  <2> HIDE DEF EmptyBefore
  <2> QED
    BY <1>3, <1>12, <2>2, <2>3, <2>4 DEF AppendersOnTheWay
<1> QED
  BY <1>7, <1>8, <1>13 DEF BeingConfigured

\* One call about a logger that is gone.
LEMMA CallRetires ==
    ASSUME FormatInv, NEW s \in Setters, CallsSay(s), ListenerCall(s),
           NEW n \in Names, calls[s][1].name = n, n \notin DOMAIN new[s], BeingRetired(s, n)
    PROVE  BeingRetired(s, n)'
<1>1. PICK c : c = calls[s][1]
  OBVIOUS
<1>2. /\ c \in ListenerCalls /\ 1 \in DOMAIN calls[s]
      /\ \A i \in DOMAIN calls[s] : i = 1 \/ (i - 1 \in DOMAIN calls'[s] /\ calls'[s][i - 1] = calls[s][i])
      /\ logger'[n] = Applied(logger[n], c)
  BY <1>1, CallStep
<1>3. Says(c, new[s]) /\ c.name = n
  BY <1>1, <1>2 DEF CallsSay
<1>4. logger[n] \in Loggers /\ Follows(logger[n])
  BY DEF FormatInv, Shapes
<1>5. /\ logger'[n].level = (IF c.op = "setLevel" THEN c.arg[1] ELSE logger[n].level)
      /\ c.op = "clearAppenders" => logger'[n].appenders = <<>>
      /\ c.op # "addAppender" /\ logger[n].appenders = <<>> => logger'[n].appenders = <<>>
  BY <1>2, <1>4, AppliedLogger
<1>6. (c.op = "setLevel" => c.arg = <<0>>) /\ c.op # "addAppender"
  BY <1>3 DEF Says
<1>7. ASSUME NEW op, HasCall(s, n, op), c.op # op PROVE HasCall(s, n, op)'
  <2>1. PICK i \in DOMAIN calls[s] : calls[s][i].op = op /\ calls[s][i].name = n
    BY <1>7 DEF HasCall
  <2>2. i # 1
    BY <1>1, <1>7, <2>1
  <2>3. i - 1 \in DOMAIN calls'[s] /\ calls'[s][i - 1] = calls[s][i]
    BY <1>2, <2>2
  <2> QED
    BY <2>1, <2>3 DEF HasCall
<1>8. HasCall(s, n, "setLevel")' \/ logger'[n].level = 0
  <2>1. c.op = "setLevel" => logger'[n].level = 0
    BY <1>5, <1>6
  <2> QED
    BY <1>5, <1>7, <2>1 DEF BeingRetired
<1>9. HasCall(s, n, "clearAppenders")' \/ logger'[n].appenders = <<>>
  BY <1>5, <1>6, <1>7 DEF BeingRetired
<1> QED
  BY <1>8, <1>9 DEF BeingRetired

\* One call of the listener: what it was to do for its logger is done, and the
\* other loggers are as they were.
LEMMA ReloadCall ==
    ASSUME FormatInv, NEW s \in Setters, ListenerCall(s), ListenInv(s)
    PROVE  ListenInv(s)'
<1>1. PICK c : c = calls[s][1]
  OBVIOUS
<1>2. /\ 1 \in DOMAIN calls[s] /\ c \in ListenerCalls
      /\ \A i \in DOMAIN calls'[s] : i + 1 \in DOMAIN calls[s] /\ calls'[s][i] = calls[s][i + 1]
      /\ \A n \in Names \ {c.name} : logger'[n] = logger[n]
      /\ calls'[s] = Tail(calls[s]) /\ Tail(calls[s]) \in Seq(ListenerCalls)
  BY <1>1, CallStep
<1>3. /\ UNCHANGED <<m_val, new, turn, known, overlooked>> /\ calls[s] # <<>>
      /\ disputed' \in {disputed, disputed \ {c.name}}
  BY <1>1 DEF ListenerCall
<1>4. CallsSay(s) /\ \A n \in Names : OnTheWay(s, n)
  BY DEF ListenInv
<1>5. Says(c, new[s]) /\ (Changed(m_val, new[s], c.name) \/ Gone(m_val, new[s], c.name))
  BY <1>1, <1>2, <1>4 DEF CallsSay
<1>6. \A n : Changed(m_val, new[s], n)' = Changed(m_val, new[s], n) /\ Gone(m_val, new[s], n)' = Gone(m_val, new[s], n)
  BY <1>3 DEF Changed, Gone, SameDefine
<1>7. CallsSay(s)'
  <2>1. ASSUME NEW i \in DOMAIN calls'[s]
        PROVE  /\ Says(calls'[s][i], new[s]) /\ calls'[s][i].name = c.name
               /\ Changed(m_val, new[s], calls'[s][i].name) \/ Gone(m_val, new[s], calls'[s][i].name)
    BY <1>1, <1>2, <1>4 DEF CallsSay
  <2>2. ASSUME NEW i \in DOMAIN calls'[s] PROVE 1 \in DOMAIN calls'[s]
    BY <1>2
  <2> QED
    BY <1>3, <1>6, <2>1, <2>2 DEF CallsSay
<1>8. FormatInv'
  BY FormatConfiguring
<1>9. c.name \in Names
  BY <1>2, CallFields
<1>10. ASSUME NEW n \in Names PROVE OnTheWay(s, n)'
  <2>1. OnTheWay(s, n)
    BY <1>4
  <2>2. FirstToCome(s, n)' = FirstToCome(s, n) /\ SecondToCome(s, n)' = SecondToCome(s, n)
    BY <1>3 DEF FirstToCome, SecondToCome
  <2>3. CASE n # c.name
    <3>1. logger'[n] = logger[n] /\ (n \in disputed' <=> n \in disputed)
      BY <1>2, <1>3, <2>3
    <3>2. AsBefore(n)' = AsBefore(n)
      BY <1>3, <3>1 DEF AsBefore, Stands
    <3>3. Left(s, n) = 0 /\ ~ Starting(s, n) /\ \A op : ~ HasCall(s, n, op)
      BY <1>1, <1>4, <2>3, LeftInTurn
    <3>4. ~ \E i \in DOMAIN calls'[s] : calls'[s][i].name = n
      BY <1>1, <1>2, <1>4, <2>3 DEF CallsSay
    <3>5. Left(s, n)' = 0 /\ \A op : ~ HasCall(s, n, op)'
      BY <3>4 DEF Left, HasCall
    <3>6. ASSUME BeingConfigured(s, n) PROVE BeingConfigured(s, n)'
      <4>1. LevelOnTheWay(s, n)'
        BY <1>3, <3>1, <3>3, <3>6 DEF BeingConfigured, LevelOnTheWay
      <4>2. FormatterOnTheWay(s, n)'
        BY <1>3, <3>1, <3>3, <3>6 DEF BeingConfigured, FormatterOnTheWay
      <4>3. AppendersOnTheWay(s, n) /\ ~ (0 > 0) /\ EmptyBefore(n)' = EmptyBefore(n)
        BY <1>3, <3>6 DEF BeingConfigured, EmptyBefore
      <4>4. AppendersOnTheWay(s, n)'
        BY <1>3, <3>1, <3>3, <3>5, <4>3 DEF AppendersOnTheWay
      <4> QED
        BY <4>1, <4>2, <4>4 DEF BeingConfigured
    <3>7. BeingRetired(s, n) => BeingRetired(s, n)'
      BY <3>1, <3>3 DEF BeingRetired
    <3> QED
      BY <1>6, <2>1, <2>2, <3>2, <3>3, <3>5, <3>6, <3>7 DEF OnTheWay
  <2>4. CASE n = c.name
    <3>1. Left(s, n) = Len(calls[s]) /\ Left(s, n) # 0
      <4>1. Left(s, n) = Len(calls[s])
        BY <1>1, <1>3, <1>4, <2>4, LeftInTurn
      <4>2. calls[s] \in Seq(ListenerCalls)
        BY DEF FormatInv, Shapes
      <4> QED
        BY <1>3, <4>1, <4>2
    <3>2. Changed(m_val, new[s], n) => n \in DOMAIN new[s]
      BY DEF Changed
    <3>3. Gone(m_val, new[s], n) => n \notin DOMAIN new[s]
      BY DEF Gone
    <3>4. Changed(m_val, new[s], n) => ~ FirstToCome(s, n) /\ BeingConfigured(s, n)
      BY <2>1, <3>1 DEF OnTheWay
    <3>5. Changed(m_val, new[s], n) => BeingConfigured(s, n)'
      BY <1>1, <1>4, <1>7, <1>9, <2>4, <3>2, <3>4, CallConfigures
    <3>6. Gone(m_val, new[s], n) /\ BeingRetired(s, n) => BeingRetired(s, n)'
      BY <1>1, <1>4, <1>9, <2>4, <3>3, CallRetires
    <3>7. Changed(m_val, new[s], n) \/ Gone(m_val, new[s], n)
      BY <1>5, <2>4
    <3> QED
      BY <1>6, <2>1, <2>2, <3>4, <3>5, <3>6, <3>7 DEF OnTheWay
  <2> QED
    BY <2>3, <2>4
<1> QED
  BY <1>7, <1>10 DEF ListenInv

\* The listener returns: the loggers stand as the new value has them.
LEMMA ReloadReturn ==
    ASSUME FormatInv, DOMAIN m_val \subseteq known, NEW s \in Setters, ListenerReturn(s), ListenInv(s)
    PROVE  \A n \in Names : Told(s, n)'
<1> DEFINE v == new[s]
<1>1. /\ calls[s] = <<>> /\ turn[s] = Turns /\ UNCHANGED <<m_val, logger, new, known, disputed, overlooked>>
  BY DEF ListenerReturn, ghosts
<1>2. \A n \in Names : Left(s, n) = 0 /\ ~ Starting(s, n) /\ \A op : ~ HasCall(s, n, op)
  BY <1>1, LeftInTurn DEF ListenInv
<1>3. \A n \in Names : ~ FirstToCome(s, n) /\ ~ SecondToCome(s, n)
  <2>1. Len(NameOrder) \in Nat /\ turn[s] = 2 * Len(NameOrder)
    BY <1>1, TurnsTyped DEF Turns
  <2>2. \A i \in 1 .. Len(NameOrder) : ~ (i > turn[s]) /\ ~ (i + Len(NameOrder) > turn[s])
    BY <2>1
  <2> QED
    BY <2>2 DEF FirstToCome, SecondToCome
<1>4. ASSUME NEW n \in Names PROVE Told(s, n)
  <2>1. OnTheWay(s, n)
    BY DEF ListenInv
  <2>2. CASE Changed(m_val, v, n)
    <3>1. BeingConfigured(s, n) /\ n \in DOMAIN v
      BY <1>3, <2>1, <2>2 DEF OnTheWay, Changed
    <3>2. PICK ds : ds = v[n].appenders
      OBVIOUS
    <3>3. ds \in Seq(Definitions) /\ Len(ds) \in Nat /\ DOMAIN ds = 1 .. Len(ds)
      <4>1. DOMAIN <<>> = {}
        OBVIOUS
      <4>2. v \in Values
        BY <3>1, <4>1 DEF FormatInv, Shapes
      <4>3. ds \in Seq(Definitions)
        BY <3>1, <3>2, <4>2, ValuesAssumption DEF Definitions
      <4> QED
        BY <4>3
    <3>4. MadeOfFirst(logger[n].appenders, ds, Len(ds))
      <4>1. 0 <= Len(ds) /\ Len(ds) - 0 = Len(ds)
        BY <3>3
      <4> QED
        BY <1>2, <3>1, <3>2, <4>1 DEF BeingConfigured, AppendersOnTheWay
    <3>5. logger[n].appenders \in Seq(Appenders)
      BY DEF FormatInv, Shapes, Loggers
    <3>6. MadeOf(logger[n].appenders, ds)
      <4>1. DOMAIN logger[n].appenders = 1 .. Len(ds)
        BY <3>4, <3>5 DEF MadeOfFirst
      <4> QED
        BY <3>4, <4>1 DEF MadeOf, MadeOfFirst
    <3>7. LevelOnTheWay(s, n) /\ FormatterOnTheWay(s, n)
      BY <3>1 DEF BeingConfigured
    <3>8. Stands(n, v, {})
      BY <1>2, <3>1, <3>2, <3>6, <3>7 DEF LevelOnTheWay, FormatterOnTheWay, Stands
    <3> QED
      BY <2>2, <3>8 DEF Told
  <2>3. CASE Gone(m_val, v, n)
    <3>1. BeingRetired(s, n) /\ n \notin DOMAIN v /\ n \in known
      BY <1>3, <2>1, <2>3 DEF OnTheWay, Gone
    <3>2. Stands(n, v, {})
      BY <1>2, <3>1 DEF BeingRetired, Stands
    <3> QED
      BY <2>3, <3>2 DEF Told
  <2>4. CASE ~ Changed(m_val, v, n) /\ ~ Gone(m_val, v, n)
    BY <2>1, <2>4 DEF OnTheWay, AsBefore, Told
  <2> QED
    BY <2>2, <2>3, <2>4
<1>5. \A n \in Names : Told(s, n) => Told(s, n)'
  BY <1>1 DEF Told, Stands, Changed, Gone, SameDefine
<1> QED
  BY <1>4, <1>5

\* What has to change for what is said of a logger to change.
LEMMA SaysTheSame ==
    ASSUME UNCHANGED <<m_val, logger, known, disputed, overlooked>>, NEW n
    PROVE  /\ AsBefore(n)' = AsBefore(n)
           /\ \A s : new'[s] = new[s] => Told(s, n)' = Told(s, n)
           /\ \A s : new'[s] = new[s] /\ turn'[s] = turn[s] /\ calls'[s] = calls[s] =>
                 OnTheWay(s, n)' = OnTheWay(s, n) /\ CallsSay(s)' = CallsSay(s)
<1>1. \A val, but : Stands(n, val, but)' = Stands(n, val, but)
  BY DEF Stands
<1>2. \A s : new'[s] = new[s] =>
         Changed(m_val, new[s], n)' = Changed(m_val, new[s], n) /\ Gone(m_val, new[s], n)' = Gone(m_val, new[s], n)
  BY DEF Changed, Gone, SameDefine
<1>3. AsBefore(n)' = AsBefore(n) /\ EmptyBefore(n)' = EmptyBefore(n)
  BY DEF AsBefore, EmptyBefore, Stands
<1>4. ASSUME NEW s, new'[s] = new[s] PROVE Told(s, n)' = Told(s, n)
  BY <1>4 DEF Told, Stands, Changed, Gone, SameDefine
<1>5. ASSUME NEW s, new'[s] = new[s], turn'[s] = turn[s], calls'[s] = calls[s]
      PROVE  OnTheWay(s, n)' = OnTheWay(s, n) /\ CallsSay(s)' = CallsSay(s)
  <2>1. FirstToCome(s, n)' = FirstToCome(s, n) /\ SecondToCome(s, n)' = SecondToCome(s, n)
    BY <1>5 DEF FirstToCome, SecondToCome
  <2>2. BeingConfigured(s, n)' = BeingConfigured(s, n)
    <3>1. Left(s, n)' = Left(s, n) /\ Starting(s, n)' = Starting(s, n)
      BY <1>3, <1>5 DEF Left, Starting
    <3>2. LevelOnTheWay(s, n)' = LevelOnTheWay(s, n)
      BY <1>5, <3>1 DEF LevelOnTheWay
    <3>3. FormatterOnTheWay(s, n)' = FormatterOnTheWay(s, n)
      BY <1>5 DEF FormatterOnTheWay, HasCall
    <3>4. AppendersOnTheWay(s, n)' = AppendersOnTheWay(s, n)
      BY <1>3, <1>5, <3>1 DEF AppendersOnTheWay
    <3> QED
      BY <3>2, <3>3, <3>4 DEF BeingConfigured
  <2>3. BeingRetired(s, n)' = BeingRetired(s, n)
    BY <1>5 DEF BeingRetired, HasCall
  <2>4. Left(s, n)' = Left(s, n)
    BY <1>5 DEF Left
  <2>5. CallsSay(s)' = CallsSay(s)
    BY <1>5 DEF CallsSay, Says, Changed, Gone, SameDefine
  <2> QED
    BY <1>2, <1>3, <1>5, <2>1, <2>2, <2>3, <2>4, <2>5 DEF OnTheWay
<1> QED
  BY <1>3, <1>4, <1>5

\* The thread that is alone in setValue takes its first steps, or assigns: what
\* its listener said of a logger is said of it by the value in force.
LEMMA ToldIsAsBefore ==
    ASSUME FormatInv, DOMAIN m_val \subseteq known, NEW s \in Setters, Assign(s),
           NEW n \in Names, Told(s, n)
    PROVE  AsBefore(n)'
<1> DEFINE v == new[s]
<1>1. /\ m_val' = v /\ UNCHANGED <<logger, disputed>> /\ known' = known \cup DOMAIN v
      /\ overlooked' = Overlooked(m_val, v)
  BY DEF Assign
<1>2. SUFFICES ASSUME n \notin disputed PROVE Stands(n, m_val, overlooked)'
  BY <1>1 DEF AsBefore
<1>3. CASE Changed(m_val, v, n)
  <2>1. Stands(n, v, {}) /\ n \in DOMAIN v
    BY <1>2, <1>3 DEF Told, Changed
  <2> QED
    BY <1>1, <2>1 DEF Stands
<1>4. CASE Gone(m_val, v, n)
  <2>1. Stands(n, v, {}) /\ n \notin DOMAIN v /\ n \in known
    BY <1>2, <1>4 DEF Told, Gone
  <2> QED
    BY <1>1, <2>1 DEF Stands
<1>5. CASE ~ Changed(m_val, v, n) /\ ~ Gone(m_val, v, n)
  <2>1. Stands(n, m_val, overlooked)
    BY <1>2, <1>5 DEF Told
  <2>2. CASE n \in DOMAIN v
    <3>1. n \in DOMAIN m_val /\ SameDefine(v[n], m_val[n])
      BY <1>5, <2>2 DEF Changed
    <3>2. n \notin overlooked' => n \notin overlooked /\ v[n].appenders = m_val[n].appenders
      BY <1>1, <2>2, <3>1 DEF Overlooked
    <3> QED
      BY <1>1, <2>1, <2>2, <3>1, <3>2 DEF Stands, SameDefine
  <2>3. CASE n \notin DOMAIN v
    <3>1. n \notin DOMAIN m_val /\ (n \in known' <=> n \in known)
      BY <1>1, <1>5, <2>3 DEF Gone
    <3> QED
      BY <1>1, <2>1, <2>3, <3>1 DEF Stands
  <2> QED
    BY <2>2, <2>3
<1> QED
  BY <1>3, <1>4, <1>5

\* A step of a thread that stays inside setValue concerns no other.
LEMMA OthersWait ==
    ASSUME ConfigInv, NEW s \in Setters, pc[s] # "out", pc'[s] # "out",
           \A t \in Setters \ {s} : pc'[t] = pc[t] /\ calls'[t] = calls[t],
           disputed' = disputed \/ (Alone(s) /\ \A t \in Setters \ {s} : pc[t] = "out"),
           UNCHANGED <<m_val, known>>, ReloadInv(s)'
    PROVE  ConfigInv'
<1>1. \A t \in Setters \ {s} : ~ Alone(t)'
  BY DEF Alone
<1>2. \A t \in Setters \ {s} : ReloadInv(t)'
  BY <1>1 DEF ConfigInv, ReloadInv
<1>3. ASSUME NEW x \in Setters, NEW y \in Setters, x # y, pc'[x] # "out", pc'[y] # "out"
      PROVE  disputed' = Names
  <2>1. pc[x] # "out" /\ pc[y] # "out"
    BY <1>3
  <2>2. ~ \A t \in Setters \ {s} : pc[t] = "out"
    BY <1>3, <2>1
  <2> QED
    BY <1>3, <2>1, <2>2 DEF ConfigInv
<1> QED
  BY <1>2, <1>3 DEF ConfigInv

\* ConfigInv is inductive.
THEOREM ConfigInductive == Spec => []ConfigInv
<1>1. Init => ConfigInv
  <2> SUFFICES ASSUME Init PROVE ConfigInv
    OBVIOUS
  <2>1. DOMAIN <<>> = {} /\ m_val = <<>> /\ known = {}
    BY DEF Init
  <2>2. \A n \in Names : AsBefore(n)
    BY <2>1 DEF Init, AsBefore, Stands
  <2>3. \A s \in Setters : pc[s] = "out" /\ calls[s] = <<>>
    BY DEF Init
  <2> QED
    BY <2>1, <2>2, <2>3 DEF ConfigInv, ReloadInv
<1>2. ASSUME FormatInv, ConfigInv, [Next]_vars PROVE ConfigInv'
  <2>1. ASSUME UNCHANGED <<m_val, logger, pc, new, turn, calls, ghosts>> PROVE ConfigInv'
    <3>1. UNCHANGED <<m_val, logger, pc, new, turn, calls, known, disputed, overlooked>>
      BY <2>1 DEF ghosts
    <3>2. /\ \A n : AsBefore(n)' = AsBefore(n)
          /\ \A s, n : Told(s, n)' = Told(s, n) /\ OnTheWay(s, n)' = OnTheWay(s, n) /\ CallsSay(s)' = CallsSay(s)
      BY <3>1, SaysTheSame
    <3>3. \A s \in Setters : Alone(s)' = Alone(s)
      BY <3>1 DEF Alone
    <3>4. \A s : ListenInv(s)' = ListenInv(s)
      BY <3>2 DEF ListenInv
    <3>5. \A s \in Setters : ReloadInv(s) => ReloadInv(s)'
      BY <3>1, <3>2, <3>3, <3>4 DEF ReloadInv
    <3> QED
      BY <1>2, <3>1, <3>2, <3>5 DEF ConfigInv
  <2>2. ASSUME NEW s \in Setters, NEW v \in Values, SetValue(s, v) PROVE ConfigInv'
    <3>1. /\ pc[s] = "out" /\ pc'[s] = "listen" /\ turn'[s] = 0
          /\ UNCHANGED <<m_val, logger, calls, known, overlooked>>
          /\ \A t \in Setters \ {s} : pc'[t] = pc[t]
          /\ disputed' = IF Alone(s) THEN disputed ELSE Names
      BY <1>2, <2>2 DEF SetValue, FormatInv, Shapes
    <3>2. calls'[s] = <<>>
      BY <1>2, <3>1 DEF ConfigInv, ReloadInv
    <3>3. ASSUME Alone(s) PROVE ListenInv(s)'
      <4>1. disputed' = disputed /\ \A t \in Setters : pc[t] = "out"
        BY <3>1, <3>3 DEF Alone
      <4>2. \A n \in Names : AsBefore(n)
        BY <1>2, <4>1 DEF ConfigInv
      <4>3. \A n \in Names : AsBefore(n)'
        BY <3>1, <4>1, <4>2 DEF AsBefore, Stands
      <4>4. DOMAIN calls'[s] = {}
        BY <3>2
      <4>5. CallsSay(s)' /\ \A n : Left(s, n)' = 0
        BY <4>4 DEF CallsSay, Left
      <4>6. ASSUME NEW n \in Names PROVE FirstToCome(s, n)' /\ SecondToCome(s, n)'
        <5>1. PICK i \in 1 .. Len(NameOrder) : NameOrder[i] = n
          BY TurnsTyped
        <5>2. i > turn'[s] /\ i + Len(NameOrder) > turn'[s]
          BY <3>1, TurnsTyped
        <5> QED
          BY <5>1, <5>2 DEF FirstToCome, SecondToCome
      <4>7. \A n \in Names : OnTheWay(s, n)'
        BY <4>3, <4>5, <4>6 DEF OnTheWay
      <4> QED
        BY <4>5, <4>7 DEF ListenInv
    <3>4. Alone(s)' = Alone(s) /\ \A t \in Setters \ {s} : ~ Alone(t)'
      BY <3>1 DEF Alone
    <3>5. ReloadInv(s)'
      BY <3>1, <3>3, <3>4 DEF ReloadInv
    <3>6. \A t \in Setters \ {s} : ReloadInv(t)'
      BY <1>2, <3>1, <3>4 DEF ConfigInv, ReloadInv
    <3>7. ASSUME NEW x \in Setters, NEW y \in Setters, x # y, pc'[x] # "out", pc'[y] # "out"
          PROVE  disputed' = Names
      <4>1. ~ Alone(s) \/ (pc[x] # "out" /\ pc[y] # "out")
        BY <3>1, <3>7 DEF Alone
      <4> QED
        BY <1>2, <3>1, <3>7, <4>1 DEF ConfigInv
    <3>8. DOMAIN m_val' \subseteq known'
      BY <1>2, <3>1 DEF ConfigInv
    <3> QED
      BY <3>1, <3>5, <3>6, <3>7, <3>8 DEF ConfigInv
  <2>3. ASSUME NEW s \in Setters, ListenerTurn(s) PROVE ConfigInv'
    <3>1. /\ pc[s] = "listen" /\ UNCHANGED <<m_val, pc, known, disputed>>
          /\ \A t \in Setters \ {s} : calls'[t] = calls[t]
      BY <1>2, <2>3 DEF ListenerTurn, ghosts, FormatInv, Shapes
    <3>2. Alone(s)' = Alone(s)
      BY <3>1 DEF Alone
    <3>3. Alone(s) => ListenInv(s)
      BY <1>2, <3>1 DEF ConfigInv, ReloadInv
    <3>4. Alone(s) => ListenInv(s)'
      BY <1>2, <2>3, <3>3, ReloadTurn
    <3>5. ReloadInv(s)'
      BY <3>1, <3>2, <3>4 DEF ReloadInv
    <3> QED
      BY <1>2, <3>1, <3>5, OthersWait
  <2>4. ASSUME NEW s \in Setters, ListenerCall(s) PROVE ConfigInv'
    <3>1. /\ pc[s] = "listen" /\ UNCHANGED <<m_val, pc, known>>
          /\ \A t \in Setters \ {s} : calls'[t] = calls[t]
          /\ disputed' = disputed \/ Alone(s)
      BY <1>2, <2>4 DEF ListenerCall, FormatInv, Shapes
    <3>2. Alone(s)' = Alone(s) /\ (Alone(s) => \A t \in Setters \ {s} : pc[t] = "out")
      BY <3>1 DEF Alone
    <3>3. Alone(s) => ListenInv(s)
      BY <1>2, <3>1 DEF ConfigInv, ReloadInv
    <3>4. Alone(s) => ListenInv(s)'
      BY <1>2, <2>4, <3>3, ReloadCall
    <3>5. ReloadInv(s)'
      BY <3>1, <3>2, <3>4 DEF ReloadInv
    <3> QED
      BY <1>2, <3>1, <3>2, <3>5, OthersWait
  <2>5. ASSUME NEW s \in Setters, ListenerReturn(s) PROVE ConfigInv'
    <3>1. /\ pc[s] = "listen" /\ pc'[s] = "assign" /\ calls[s] = <<>>
          /\ UNCHANGED <<m_val, calls, known, disputed>>
          /\ \A t \in Setters \ {s} : pc'[t] = pc[t]
      BY <1>2, <2>5 DEF ListenerReturn, ghosts, FormatInv, Shapes
    <3>2. Alone(s)' = Alone(s)
      BY <3>1 DEF Alone
    <3>3. Alone(s) => ListenInv(s)
      BY <1>2, <3>1 DEF ConfigInv, ReloadInv
    <3>4. Alone(s) => \A n \in Names : Told(s, n)'
      BY <1>2, <2>5, <3>3, ReloadReturn DEF ConfigInv
    <3>5. ReloadInv(s)'
      BY <3>1, <3>2, <3>4 DEF ReloadInv
    <3> QED
      BY <1>2, <3>1, <3>5, OthersWait
  <2>6. ASSUME NEW s \in Setters, Assign(s) PROVE ConfigInv'
    <3>1. /\ pc[s] = "assign" /\ pc'[s] = "out" /\ ReadLocked = {} /\ m_val' = new[s]
          /\ UNCHANGED <<calls, disputed>> /\ known' = known \cup DOMAIN new[s]
          /\ \A t \in Setters \ {s} : pc'[t] = pc[t]
      BY <1>2, <2>6 DEF Assign, FormatInv, Shapes
    <3>2. ASSUME NEW t \in Setters PROVE ReloadInv(t)'
      <4>1. pc'[t] # "listen" => calls'[t] = <<>>
        BY <1>2, <3>1 DEF ConfigInv, ReloadInv
      <4>2. pc'[t] # "listen"
        BY <3>1 DEF ReadLocked
      <4>3. pc'[t] = "assign" => t # s /\ pc[t] # "out" /\ pc[s] # "out"
        BY <3>1
      <4>4. pc'[t] = "assign" => disputed' = Names
        BY <1>2, <3>1, <4>3 DEF ConfigInv
      <4> QED
        BY <4>1, <4>2, <4>4 DEF ReloadInv, Told
    <3>3. ASSUME \A t \in Setters : pc'[t] = "out", NEW n \in Names PROVE AsBefore(n)'
      <4>1. Alone(s)
        BY <3>1, <3>3 DEF Alone
      <4>2. Told(s, n)
        BY <1>2, <3>1, <4>1 DEF ConfigInv, ReloadInv
      <4> QED
        BY <1>2, <2>6, <4>2, ToldIsAsBefore DEF ConfigInv
    <3>4. ASSUME NEW x \in Setters, NEW y \in Setters, x # y, pc'[x] # "out", pc'[y] # "out"
          PROVE  disputed' = Names
      <4>1. pc[x] # "out" /\ pc[y] # "out"
        BY <3>1, <3>4
      <4> QED
        BY <1>2, <3>1, <3>4, <4>1 DEF ConfigInv
    <3> QED
      BY <3>1, <3>2, <3>3, <3>4 DEF ConfigInv
  <2>7. CASE UNCHANGED vars \/ Logging
    BY <2>1, <2>7, LoggingOnly DEF vars
  <2>8. ASSUME NEW s \in Setters, ListenerCrash(s) PROVE ConfigInv'
    BY <2>1, <2>8 DEF ListenerCrash
  <2> QED
    BY <1>2, <2>2, <2>3, <2>4, <2>5, <2>6, <2>7, <2>8 DEF Next, Configuring
<1> QED
  BY <1>1, <1>2, FormatInductive, PTL DEF Spec

\* However many threads set "logs", between two reloads every logger stands as
\* the value says: its level, its formatter if the pattern is correct and its
\* appenders, or level 0 without appenders once it is no longer defined; only a
\* logger that overlapping calls of setValue left in dispute, or the appenders
\* of one that operator== passed over, may be others.
THEOREM LoggersAreAsConfigured == Spec => []LoggersFollowConfig
<1>1. ASSUME FormatInv, ConfigInv PROVE LoggersFollowConfig
  BY <1>1 DEF ConfigInv, AsBefore, Stands, LoggersFollowConfig
<1> QED
  BY <1>1, FormatInductive, ConfigInductive, PTL

-----------------------------------------------------------------------------
(* Where the events go.                                                    *)

EventsTyped == [at : {"out", "checked", "root", "done"}, name : Names, level : Nat, reached : BOOLEAN]

\* Every event under way has a level.
EventInv ==
    /\ event \in [Writers -> EventsTyped]
    /\ \A w \in Writers : event[w].at # "out" => event[w].level >= 1

\* The root does not let an event of this level through, or has no appender.
RootSilent(l) == logger[Root].level > l \/ logger[Root].appenders = <<>>

\* EventInv is inductive.
LEMMA EventInductive == Spec => []EventInv
<1>1. NoEvent \in EventsTyped /\ NoEvent.at = "out"
  BY RootIsALogger DEF NoEvent, EventsTyped
<1>2. Init => EventInv
  BY <1>1 DEF Init, EventInv
<1>3. ASSUME EventInv, [Next]_vars PROVE EventInv'
  <2>1. ASSUME NEW w \in Writers, NEW e \in EventsTyped, event' = [event EXCEPT ![w] = e],
               e.at # "out" => e.level >= 1
        PROVE  EventInv'
    <3>1. event' \in [Writers -> EventsTyped] /\ event'[w] = e /\ \A u \in Writers \ {w} : event'[u] = event[u]
      BY <1>3, <2>1 DEF EventInv
    <3> QED
      BY <1>3, <2>1, <3>1 DEF EventInv
  <2>2. ASSUME NEW w \in Writers PROVE event[w] \in EventsTyped
    BY <1>3 DEF EventInv
  <2>3. ASSUME NEW w \in Writers, NEW n \in Names, NEW l \in Levels, LogCheck(w, n, l) PROVE EventInv'
    <3>1. PICK e : e = [at |-> "checked", name |-> n, level |-> l, reached |-> FALSE]
      OBVIOUS
    <3>2. l \in Nat /\ l >= 1
      BY LevelsAssumption
    <3>3. e \in EventsTyped /\ e.level >= 1
      BY <3>1, <3>2 DEF EventsTyped
    <3> QED
      BY <2>1, <2>3, <3>1, <3>3 DEF LogCheck
  <2>4. ASSUME NEW w \in Writers, LogDeliver(w) PROVE EventInv'
    <3>1. PICK e : e = [event[w] EXCEPT !.at = "done", !.reached = TRUE]
      OBVIOUS
    <3>2. e \in EventsTyped /\ e.level = event[w].level
      BY <2>2, <3>1 DEF EventsTyped
    <3> QED
      BY <1>3, <2>1, <2>4, <3>1, <3>2 DEF LogDeliver, EventInv
  <2>5. ASSUME NEW w \in Writers, LogElsewhere(w) PROVE EventInv'
    <3>1. PICK a : a = IF event[w].name # Root THEN "root" ELSE "done"
      OBVIOUS
    <3>2. PICK e : e = [event[w] EXCEPT !.at = a]
      OBVIOUS
    <3>3. e \in EventsTyped /\ e.level = event[w].level
      BY <2>2, <3>1, <3>2 DEF EventsTyped
    <3>4. event' = [event EXCEPT ![w] = e] /\ event[w].at # "out"
      BY <1>3, <2>5, <3>1, <3>2 DEF LogElsewhere, EventInv
    <3> QED
      BY <1>3, <2>1, <3>3, <3>4 DEF EventInv
  <2>6. ASSUME NEW w \in Writers, LogRoot(w) PROVE EventInv'
    <3>1. PICK r : r = (event[w].level >= logger[Root].level /\ logger[Root].appenders # <<>>)
      OBVIOUS
    <3>2. r \in BOOLEAN
      BY <3>1
    <3>3. PICK e : e = [event[w] EXCEPT !.at = "done", !.reached = r]
      OBVIOUS
    <3>4. e \in EventsTyped /\ e.level = event[w].level
      BY <2>2, <3>2, <3>3 DEF EventsTyped
    <3>5. event' = [event EXCEPT ![w] = e] /\ event[w].at # "out"
      BY <2>6, <3>1, <3>3 DEF LogRoot
    <3> QED
      BY <1>3, <2>1, <3>4, <3>5 DEF EventInv
  <2>7. ASSUME NEW w \in Writers, LogReturn(w) PROVE EventInv'
    BY <1>1, <2>1, <2>7 DEF LogReturn
  <2>8. CASE UNCHANGED vars \/ Configuring
    <3>1. event' = event
      BY <2>8 DEF vars, Configuring, SetValue, ListenerTurn, ListenerCall, ListenerCrash, ListenerReturn, Assign
    <3> QED
      BY <1>3, <3>1 DEF EventInv
  <2> QED
    BY <1>3, <2>3, <2>4, <2>5, <2>6, <2>7, <2>8 DEF Next, Logging
<1> QED
  BY <1>2, <1>3, PTL DEF Spec

\* A root that stands as a value has it is silent only if the value says so.
LEMMA SilentAsTheValueSays ==
    ASSUME FormatInv, NEW l \in Nat, l >= 1, RootSilent(l),
           NEW val \in Values \cup {<<>>}, NEW but, Root \notin but, Stands(Root, val, but)
    PROVE  SilencesRoot(val, l)
<1>1. CASE Root \in DOMAIN val
  <2>1. val \in Values
    <3>1. DOMAIN <<>> = {}
      OBVIOUS
    <3> QED
      BY <1>1, <3>1
  <2>2. /\ logger[Root].level = val[Root].level
        /\ MadeOf(logger[Root].appenders, val[Root].appenders)
    BY <1>1 DEF Stands
  <2>3. ASSUME logger[Root].appenders = <<>> PROVE val[Root].appenders = <<>>
    <3>1. Len(val[Root].appenders) = 0
      BY <2>2, <2>3 DEF MadeOf
    <3>2. val[Root].appenders \in Seq([type : {"file", "stdout"}, formatter : Patterns])
      BY <1>1, <2>1, ValuesAssumption
    <3> QED
      BY <3>1, <3>2
  <2> QED
    BY <1>1, <2>2, <2>3 DEF RootSilent, SilencesRoot
<1>2. CASE Root \notin DOMAIN val /\ Root \in known
  BY <1>2 DEF SilencesRoot
<1>3. CASE Root \notin DOMAIN val /\ Root \notin known
  <2>1. logger[Root] = NewLogger(Root)
    BY <1>3 DEF Stands
  <2>2. NewLogger(Root).level = 1 /\ NewLogger(Root).appenders # <<>>
    BY DEF NewLogger, DEBUG
  <2> QED
    BY <2>1, <2>2 DEF RootSilent
<1> QED
  BY <1>1, <1>2, <1>3

\* A root that is being configured is silent because of the value before, of
\* the value to come, or between the two.
LEMMA SilentWhileConfigured ==
    ASSUME FormatInv, NEW l \in Nat, l >= 1, RootSilent(l), Root \notin disputed \cup overlooked,
           NEW s \in Setters, BeingConfigured(s, Root), Root \in DOMAIN new[s]
    PROVE  RootInWork \/ SilencesRoot(m_val, l) \/ SilencesRoot(new[s], l)
<1>0. Root \in Names
  BY RootIsALogger
<1>1. PICK ds : ds = new[s][Root].appenders
  OBVIOUS
<1>2. ds \in Seq(Definitions) /\ Len(ds) \in Nat
  <2>1. new[s] \in Values
    <3>1. DOMAIN <<>> = {}
      OBVIOUS
    <3> QED
      BY <3>1 DEF FormatInv, Shapes
  <2>2. ds \in Seq(Definitions)
    BY <1>1, <2>1, ValuesAssumption DEF Definitions
  <2> QED
    BY <2>2
<1>3. CASE Starting(s, Root)
  <2>1. Stands(Root, m_val, overlooked) /\ m_val \in Values \cup {<<>>}
    BY <1>3 DEF Starting, AsBefore, FormatInv, Shapes
  <2> QED
    BY <2>1, SilentAsTheValueSays
<1>4. CASE ~ Starting(s, Root) /\ logger[Root].level > l
  <2>1. logger[Root].level = new[s][Root].level
    BY <1>4 DEF BeingConfigured, LevelOnTheWay
  <2> QED
    BY <1>4, <2>1 DEF SilencesRoot
<1>5. CASE logger[Root].appenders = <<>>
  <2>0. AppendersOnTheWay(s, Root)
    BY DEF BeingConfigured
  <2>1. PICK m : m = Left(s, Root)
    OBVIOUS
  <2>2. m \in Nat /\ (m > 0 => m = Len(calls[s]))
    <3>1. calls[s] \in Seq(ListenerCalls)
      BY DEF FormatInv, Shapes
    <3> QED
      BY <2>1, <3>1 DEF Left
  <2>3. CASE ds = <<>>
    BY <1>1, <2>3 DEF SilencesRoot
  <2>4. CASE m > Len(ds)
    <3>1. EmptyBefore(Root)
      BY <1>1, <1>5, <2>0, <2>1, <2>4 DEF AppendersOnTheWay
    <3>2. NewLogger(Root).appenders # <<>>
      BY DEF NewLogger
    <3> QED
      BY <3>1, <3>2 DEF EmptyBefore, SilencesRoot
  <2>5. CASE ds # <<>> /\ ~ (m > Len(ds))
    <3>1. Len(ds) > 0
      BY <1>2, <2>5
    <3>2. MadeOfFirst(logger[Root].appenders, ds, Len(ds) - m)
      <4>1. m <= Len(ds)
        BY <1>2, <2>2, <2>5
      <4> QED
        BY <1>1, <2>0, <2>1, <4>1 DEF AppendersOnTheWay
    <3>3. Len(ds) - m = 0
      BY <1>5, <3>2 DEF MadeOfFirst
    <3>4. m = Len(ds) /\ m > 0 /\ m = Len(calls[s])
      BY <1>2, <2>2, <3>1, <3>3
    <3>5. AddsLast(calls[s], Root, ds)
      BY <1>1, <2>0, <2>1, <3>4 DEF AppendersOnTheWay
    <3>6. 1 \in 1 .. Len(calls[s]) /\ 1 + Len(ds) > Len(calls[s])
      BY <1>2, <3>4
    <3>7. calls[s][1] = Call("addAppender", Root, <<ds[1 + Len(ds) - Len(calls[s])]>>)
      BY <3>5, <3>6 DEF AddsLast
    <3>8. 1 \in DOMAIN calls[s] /\ calls[s][1].op = "addAppender" /\ calls[s][1].name = Root
      <4>1. calls[s] \in Seq(ListenerCalls)
        BY DEF FormatInv, Shapes
      <4> QED
        BY <3>6, <3>7, <4>1 DEF Call
    <3> QED
      BY <3>8 DEF RootInWork
  <2> QED
    BY <2>3, <2>4, <2>5
<1> QED
  BY <1>3, <1>4, <1>5 DEF RootSilent

\* The root is silent only for one of the four reasons.
LEMMA SilentForAReason ==
    ASSUME FormatInv, ConfigInv, NEW l \in Nat, l >= 1, RootSilent(l)
    PROVE  RootExcused(l)
<1> SUFFICES ASSUME Root \notin disputed, Root \notin overlooked PROVE RootExcused(l)
  BY DEF RootExcused
<1>0. Root \in Names /\ m_val \in Values \cup {<<>>} /\ \A s \in Setters : new[s] \in Values \cup {<<>>}
  BY RootIsALogger DEF FormatInv, Shapes
<1>1. CASE AsBefore(Root)
  <2>1. SilencesRoot(m_val, l)
    BY <1>0, <1>1, SilentAsTheValueSays DEF AsBefore
  <2> QED
    BY <2>1 DEF RootExcused
<1>2. CASE \A s \in Setters : pc[s] = "out"
  BY <1>0, <1>1, <1>2 DEF ConfigInv
<1>3. ASSUME NEW s \in Setters, pc[s] # "out", ~ AsBefore(Root) PROVE RootExcused(l)
  <2>1. Alone(s)
    BY <1>0, <1>3 DEF Alone, ConfigInv
  <2>2. SUFFICES RootInWork \/ SilencesRoot(m_val, l) \/ SilencesRoot(new[s], l)
    BY <1>3 DEF RootExcused
  <2>3. CASE pc[s] = "listen"
    <3>1. OnTheWay(s, Root)
      BY <1>0, <2>1, <2>3 DEF ConfigInv, ReloadInv, ListenInv
    <3>2. CASE Changed(m_val, new[s], Root)
      <4>1. BeingConfigured(s, Root) /\ Root \in DOMAIN new[s]
        BY <1>3, <3>1, <3>2 DEF OnTheWay, Changed
      <4> QED
        BY <4>1, SilentWhileConfigured
    <3>3. CASE Gone(m_val, new[s], Root)
      BY <3>3 DEF Gone, ConfigInv, SilencesRoot
    <3> QED
      BY <1>3, <3>1, <3>2, <3>3 DEF OnTheWay
  <2>4. CASE pc[s] = "assign"
    <3>1. Told(s, Root)
      BY <1>0, <2>1, <2>4 DEF ConfigInv, ReloadInv
    <3>2. CASE Stands(Root, new[s], {})
      BY <1>0, <3>2, SilentAsTheValueSays
    <3>3. CASE Stands(Root, m_val, overlooked)
      BY <1>0, <3>3, SilentAsTheValueSays
    <3> QED
      BY <3>1, <3>2, <3>3 DEF Told
  <2> QED
    BY <1>3, <2>3, <2>4 DEF FormatInv, Shapes
<1> QED
  BY <1>1, <1>2, <1>3

\* However many threads reload and log, and whatever the values say of the
\* root: an event a logger has let through is lost only while the root is
\* between two lists of appenders, or because a value in force or coming into
\* force silences it, or because it is not as its value says, in the two cases
\* of LoggersFollowConfig.
THEOREM EventsAreDelivered == Spec => EventsReachAnAppender
<1>1. ASSUME FormatInv, ConfigInv, EventInv, Next, NEW w \in Writers, Lost(w)
      PROVE  RootExcused(event[w].level)
  <2>1. event[w] \in EventsTyped /\ event[w].level \in Nat
    BY <1>1 DEF EventInv, EventsTyped
  <2>2. event[w].at # "out" => event[w].level >= 1
    BY <1>1 DEF EventInv
  <2>3. event'[w] # event[w]
    BY <1>1 DEF Lost
  <2>4. Logging
    BY <1>1, <2>3 DEF Next, Configuring, SetValue, ListenerTurn, ListenerCall, ListenerCrash,
                      ListenerReturn, Assign
  <2>5. PICK u \in Writers : \/ \E n \in Names, l \in Levels : LogCheck(u, n, l)
                             \/ LogDeliver(u) \/ LogElsewhere(u) \/ LogRoot(u) \/ LogReturn(u)
    BY <2>4 DEF Logging
  <2>6. event \in [Writers -> EventsTyped]
    BY <1>1 DEF EventInv
  <2>7. u = w
    BY <2>3, <2>5, <2>6 DEF LogCheck, LogDeliver, LogElsewhere, LogRoot, LogReturn
  <2>8. event'[w].at = "done" /\ ~ event'[w].reached
    BY <1>1 DEF Lost
  <2>9. CASE \E n \in Names, l \in Levels : LogCheck(w, n, l)
    BY <2>6, <2>8, <2>9 DEF LogCheck
  <2>10. CASE LogDeliver(w)
    <3>1. event'[w] = [event[w] EXCEPT !.at = "done", !.reached = TRUE]
      BY <2>6, <2>10 DEF LogDeliver
    <3>2. event'[w].reached
      BY <2>1, <3>1 DEF EventsTyped
    <3> QED
      BY <2>8, <3>2
  <2>11. CASE LogReturn(w)
    BY <2>6, <2>8, <2>11 DEF LogReturn, NoEvent
  <2>12. CASE LogElsewhere(w)
    <3>1. event[w].name = Root
      <4>1. ASSUME event[w].name # Root PROVE FALSE
        <5>1. event' = [event EXCEPT ![w].at = "root"]
          BY <2>12, <4>1 DEF LogElsewhere
        <5>2. event'[w] = [event[w] EXCEPT !.at = "root"]
          BY <2>6, <5>1
        <5>3. event'[w].at = "root"
          BY <2>1, <5>2 DEF EventsTyped
        <5> QED
          BY <2>8, <5>3
      <4> QED
        BY <4>1
    <3>2. event[w].at = "checked" /\ logger[Root].appenders = <<>>
      BY <2>12, <3>1 DEF LogElsewhere
    <3> QED
      BY <1>1, <2>1, <2>2, <3>2, SilentForAReason DEF RootSilent
  <2>13. CASE LogRoot(w)
    <3>1. PICK r : r = (event[w].level >= logger[Root].level /\ logger[Root].appenders # <<>>)
      OBVIOUS
    <3>2. event'[w] = [event[w] EXCEPT !.at = "done", !.reached = r] /\ event[w].at = "root"
      BY <2>6, <2>13, <3>1 DEF LogRoot
    <3>3. event'[w].reached = r
      BY <2>1, <3>2 DEF EventsTyped
    <3>4. logger[Root].level \in Nat
      BY <1>1, RootIsALogger DEF FormatInv, Shapes, Loggers
    <3>5. RootSilent(event[w].level)
      <4>1. ~ r
        BY <2>8, <3>3
      <4>2. ~ (event[w].level >= logger[Root].level) \/ logger[Root].appenders = <<>>
        BY <3>1, <4>1, Zenon
      <4> QED
        BY <2>1, <3>4, <4>2 DEF RootSilent
    <3> QED
      BY <1>1, <2>1, <2>2, <3>2, <3>5, SilentForAReason
  <2> QED
    BY <2>5, <2>7, <2>9, <2>10, <2>11, <2>12, <2>13
<1>2. ASSUME FormatInv, ConfigInv, EventInv, [Next]_vars
      PROVE  [\A w \in Writers : Lost(w) => RootExcused(event[w].level)]_vars
  BY <1>1, <1>2
<1> QED
  BY <1>2, FormatInductive, ConfigInductive, EventInductive, PTL DEF Spec, EventsReachAnAppender
=============================================================================
