----------------------------- MODULE LogConfig ------------------------------
(***************************************************************************)
(* The configuration variable "logs" and the loggers it drives.            *)
(*                                                                         *)
(*   ConfigVar::setValue   src/sylar/config.h                              *)
(*   LogIniter, Logger, LoggerManager   src/sylar/log.cc                   *)
(*                                                                         *)
(* setValue compares and calls the listener under the read lock of the     *)
(* variable, and assigns under its write lock.  The listener of LogIniter  *)
(* walks over the definitions, the new ones and then the old ones, and     *)
(* changes each logger call by call, every call under that logger's own    *)
(* mutex, while other threads log.                                         *)
(*                                                                         *)
(* A value of the variable is a function from names to definitions         *)
(* [level, formatter, appenders], a formatter a pattern of LogPattern      *)
(* (<<>>: none given), an appender [type, formatter].                      *)
(***************************************************************************)
EXTENDS LogPattern

CONSTANTS
    Names,      \* the loggers, the root's name among them
    Root,       \* "root"
    NameOrder,  \* Names in the order of std::set<LogDefine>
    Values,     \* the values "logs" is given
    Setters,    \* threads that call setValue
    Writers,    \* threads that log
    Levels,     \* the levels of the events logged
    Layouts,    \* item lists that users write patterns for
    Default     \* the pattern of the constructor of Logger

ASSUME RootIsALogger == Root \in Names
ASSUME NamesAreOrdered ==
    /\ NameOrder \in Seq(Names) /\ ToSet(NameOrder) = Names
    /\ \A i, j \in DOMAIN NameOrder : NameOrder[i] = NameOrder[j] => i = j

VARIABLES
    m_val,      \* ConfigVar::m_val
    logger,     \* name -> [level, formatter, appenders]
    pc,         \* setter -> "out", "listen" (read lock held), "assign"
    new,        \* setter -> the argument of setValue
    turn,       \* setter -> the turns of its listener's two loops that have begun
    calls,      \* setter -> what the listener has still to do in this turn
    event,      \* writer -> the event it is logging
    crashed,    \* a null appender was dereferenced
    known,      \* ghost: names that some value has defined
    disputed,   \* ghost: names that overlapping calls of setValue may have mixed up
    overlooked  \* ghost: names whose last change was one of appenders only

ghosts == <<known, disputed, overlooked>>
vars == <<m_val, logger, pc, new, turn, calls, event, crashed, ghosts>>

DEBUG == 1

\* Every pattern that can be met, the item list each is parsed into, and those
\* whose formatter has isError().
Patterns ==
    {Default} \cup {Render(l) : l \in Layouts} \cup UNION {UNION {{v[n].formatter} \cup {a.formatter : a \in ToSet(v[n].appenders)} :
                                n \in DOMAIN v} : v \in Values}
Items == [p \in Patterns |-> Parse(p)]
Erroneous == {p \in Patterns : IsError(p)}
Written == [l \in Layouts |-> Render(l)]

\* Every definition has a level and a list of appenders, and names a logger;
\* the pattern of the constructor is correct, and no event has level 0.
ASSUME ValuesAssumption ==
    \A v \in Values :
        /\ DOMAIN v \subseteq Names
        /\ \A n \in DOMAIN v :
              /\ v[n].level \in Nat
              /\ v[n].appenders \in Seq([type : {"file", "stdout"}, formatter : Patterns])
ASSUME DefaultAssumption == Default \notin Erroneous
ASSUME LevelsAssumption == Levels \subseteq Nat \ {0}

NoEvent == [at |-> "out", name |-> Root, level |-> 0, reached |-> FALSE]

\* new Logger(name): level DEBUG, the default formatter, no appender; the
\* LoggerManager gives the root one for stdout.
NewLogger(n) ==
    [level |-> DEBUG, formatter |-> Default,
     appenders |-> IF n = Root
                   THEN <<[type |-> "stdout", own |-> FALSE, formatter |-> Default]>>
                   ELSE <<>>]

Init ==
    /\ m_val = <<>>
    /\ logger = [n \in Names |-> NewLogger(n)]
    /\ pc = [s \in Setters |-> "out"]
    /\ new = [s \in Setters |-> <<>>]
    /\ turn = [s \in Setters |-> 0]
    /\ calls = [s \in Setters |-> <<>>]
    /\ event = [w \in Writers |-> NoEvent]
    /\ crashed = FALSE
    /\ known = {} /\ disputed = {} /\ overlooked = {}

-----------------------------------------------------------------------------
\* LogDefine::operator== : "appenders == appenders" compares a list with itself.
SameDefine(d, e) == d.level = e.level /\ d.formatter = e.formatter

SameValue(v, w) ==
    DOMAIN v = DOMAIN w /\ \A n \in DOMAIN v : SameDefine(v[n], w[n])

Call(op, n, arg) == [op |-> op, name |-> n, arg |-> arg]

\* The calls of the listener for a new or changed logger ...
Configure(n, d) ==
    <<Call("setLevel", n, <<d.level>>)>>
    \o (IF d.formatter = <<>> THEN <<>> ELSE <<Call("setFormatter", n, d.formatter)>>)
    \o <<Call("clearAppenders", n, <<>>)>>
    \o [k \in DOMAIN d.appenders |-> Call("addAppender", n, <<d.appenders[k]>>)]

\* ... and for one that is not in the new value.
Retire(n) == <<Call("setLevel", n, <<0>>), Call("clearAppenders", n, <<>>)>>

Changed(old, v, n) ==
    n \in DOMAIN v /\ (n \in DOMAIN old => ~ SameDefine(v[n], old[n]))

Gone(old, v, n) == n \in DOMAIN old \ DOMAIN v

\* The loggers the listener passes over although their appenders are not those
\* of the value before, or were not told of an earlier change either.
Overlooked(old, v) ==
    {n \in DOMAIN old \cap DOMAIN v :
        SameDefine(v[n], old[n]) /\ (n \in overlooked \/ v[n].appenders # old[n].appenders)}

\* The first loop walks over the new value, the second over the old one.
Turns == 2 * Len(NameOrder)

\* Mutant: loggers that are gone keep what they had.
ListenerKeepsGone(old, v, k) ==
    LET n == NameOrder[IF k <= Len(NameOrder) THEN k ELSE k - Len(NameOrder)]
    IN  IF k <= Len(NameOrder) /\ Changed(old, v, n) THEN Configure(n, v[n]) ELSE <<>>

\* What the listener calls in turn k, for a change from old to v.
Listener(old, v, k) ==
    LET n == NameOrder[IF k <= Len(NameOrder) THEN k ELSE k - Len(NameOrder)]
    IN  IF k <= Len(NameOrder)
        THEN IF Changed(old, v, n) THEN Configure(n, v[n]) ELSE <<>>
        ELSE IF Gone(old, v, n) THEN Retire(n) ELSE <<>>

-----------------------------------------------------------------------------
ReadLocked == {s \in Setters : pc[s] = "listen"}

\* No other thread is inside setValue.
Alone(s) == \A t \in Setters \ {s} : pc[t] = "out"

\* setValue up to the listener; a value that compares equal changes nothing.
SetValue(s, v) ==
    /\ ~ crashed /\ pc[s] = "out"
    /\ ~ SameValue(v, m_val)
    /\ pc' = [pc EXCEPT ![s] = "listen"]
    /\ new' = [new EXCEPT ![s] = v]
    /\ turn' = [turn EXCEPT ![s] = 0]
    /\ disputed' = IF Alone(s) THEN disputed ELSE Names
    /\ UNCHANGED <<m_val, logger, calls, event, crashed, known, overlooked>>

\* A writer that is inside the root's log() holds the mutex of its own logger.
Locked(n) == \E w \in Writers : event[w].at = "root" /\ event[w].name = n

\* Mutant: the appenders are not told.
FormattedAlone(lg, p) == IF p \in Erroneous THEN lg ELSE [lg EXCEPT !.formatter = p]

\* Logger::setFormatter: the appenders without a formatter of their own follow.
Formatted(lg, p) ==
    IF p \in Erroneous THEN lg
    ELSE [lg EXCEPT
            !.formatter = p,
            !.appenders = [k \in DOMAIN @ |->
                IF @[k].own THEN @[k] ELSE [@[k] EXCEPT !.formatter = p]]]

OwnFormatter(a) == a.formatter # <<>> /\ a.formatter \notin Erroneous

\* The listener's appender with the definition a, added to the logger: it
\* keeps its own formatter if that is correct, else takes the logger's.
Appended(lg, a) ==
    [lg EXCEPT !.appenders = Append(@,
        [type |-> a.type, own |-> OwnFormatter(a),
         formatter |-> IF OwnFormatter(a) THEN a.formatter ELSE lg.formatter])]

Applied(lg, c) ==
    CASE c.op = "setLevel" -> [lg EXCEPT !.level = c.arg[1]]
      [] c.op = "setFormatter" -> Formatted(lg, c.arg)
      [] c.op = "clearAppenders" -> [lg EXCEPT !.appenders = <<>>]
      [] c.op = "addAppender" -> Appended(lg, c.arg[1])

NullAppender(c) == c.op = "addAppender" /\ c.arg[1].type = "stdout"

\* The listener looks at the next logger.
ListenerTurn(s) ==
    /\ ~ crashed /\ pc[s] = "listen" /\ calls[s] = <<>> /\ turn[s] < Turns
    /\ turn' = [turn EXCEPT ![s] = @ + 1]
    /\ calls' = [calls EXCEPT ![s] = Listener(m_val, new[s], turn[s] + 1)]
    /\ UNCHANGED <<m_val, logger, pc, new, event, crashed, ghosts>>

\* One call of the listener.  setLevel takes no lock.
ListenerCall(s) ==
    /\ ~ crashed /\ pc[s] = "listen" /\ calls[s] # <<>>
    /\ LET c == Head(calls[s]) IN
         /\ ~ NullAppender(c)
         /\ c.op # "setLevel" => ~ Locked(c.name)
         /\ logger' = [logger EXCEPT ![c.name] = Applied(@, c)]
         /\ disputed' = IF Alone(s) /\ Len(calls[s]) = 1 THEN disputed \ {c.name} ELSE disputed
    /\ calls' = [calls EXCEPT ![s] = Tail(@)]
    /\ UNCHANGED <<m_val, pc, new, turn, event, crashed, known, overlooked>>

\* For an appender of type 2 the listener makes none, and calls setLevel on it.
ListenerCrash(s) ==
    /\ ~ crashed /\ pc[s] = "listen" /\ calls[s] # <<>> /\ NullAppender(Head(calls[s]))
    /\ crashed' = TRUE
    /\ UNCHANGED <<m_val, logger, pc, new, turn, calls, event, ghosts>>

\* The read lock is dropped at the end of the block ...
ListenerReturn(s) ==
    /\ ~ crashed /\ pc[s] = "listen" /\ calls[s] = <<>> /\ turn[s] = Turns
    /\ pc' = [pc EXCEPT ![s] = "assign"]
    /\ UNCHANGED <<m_val, logger, new, turn, calls, event, crashed, ghosts>>

\* ... and the write lock taken for the assignment.
Assign(s) ==
    /\ ~ crashed /\ pc[s] = "assign"
    /\ ReadLocked = {}
    /\ m_val' = new[s]
    /\ pc' = [pc EXCEPT ![s] = "out"]
    /\ new' = [new EXCEPT ![s] = <<>>]
    /\ known' = known \cup DOMAIN new[s]
    /\ overlooked' = Overlooked(m_val, new[s])
    /\ UNCHANGED <<logger, turn, calls, event, crashed, disputed>>

-----------------------------------------------------------------------------
\* Logger::log up to the mutex: the level is looked at without it.
LogCheck(w, n, level) ==
    /\ ~ crashed /\ event[w].at = "out"
    /\ level >= logger[n].level
    /\ event' = [event EXCEPT ![w] =
                   [at |-> "checked", name |-> n, level |-> level, reached |-> FALSE]]
    /\ UNCHANGED <<m_val, logger, pc, new, turn, calls, crashed, ghosts>>

\* The rest, for a logger with appenders: each of them gets the event.
LogDeliver(w) ==
    /\ ~ crashed /\ event[w].at = "checked" /\ ~ Locked(event[w].name)
    /\ logger[event[w].name].appenders # <<>>
    /\ event' = [event EXCEPT ![w] = [@ EXCEPT !.at = "done", !.reached = TRUE]]
    /\ UNCHANGED <<m_val, logger, pc, new, turn, calls, crashed, ghosts>>

\* Mutant: an event is dropped when its logger has no appender.
LogNowhere(w) ==
    /\ ~ crashed /\ event[w].at = "checked" /\ ~ Locked(event[w].name)
    /\ logger[event[w].name].appenders = <<>>
    /\ event' = [event EXCEPT ![w].at = "done"]
    /\ UNCHANGED <<m_val, logger, pc, new, turn, calls, crashed, ghosts>>

\* Without appenders the root logs it, if there is one: the root itself has none.
LogElsewhere(w) ==
    /\ ~ crashed /\ event[w].at = "checked" /\ ~ Locked(event[w].name)
    /\ logger[event[w].name].appenders = <<>>
    /\ event' = [event EXCEPT ![w].at = IF event[w].name # Root THEN "root" ELSE "done"]
    /\ UNCHANGED <<m_val, logger, pc, new, turn, calls, crashed, ghosts>>

\* Root's log(), called with the mutex of the other logger held.
LogRoot(w) ==
    /\ ~ crashed /\ event[w].at = "root"
    /\ event' = [event EXCEPT ![w] =
         [@ EXCEPT !.at = "done",
                   !.reached = event[w].level >= logger[Root].level /\ logger[Root].appenders # <<>>]]
    /\ UNCHANGED <<m_val, logger, pc, new, turn, calls, crashed, ghosts>>

LogReturn(w) ==
    /\ ~ crashed /\ event[w].at = "done"
    /\ event' = [event EXCEPT ![w] = NoEvent]
    /\ UNCHANGED <<m_val, logger, pc, new, turn, calls, crashed, ghosts>>

-----------------------------------------------------------------------------
Configuring ==
    \E s \in Setters :
        \/ \E v \in Values : SetValue(s, v)
        \/ ListenerTurn(s)
        \/ ListenerCall(s)
        \/ ListenerCrash(s)
        \/ ListenerReturn(s)
        \/ Assign(s)

Logging ==
    \E w \in Writers :
        \/ \E n \in Names, l \in Levels : LogCheck(w, n, l)
        \/ LogDeliver(w)
        \/ LogElsewhere(w)
        \/ LogRoot(w)
        \/ LogReturn(w)

Next == Configuring \/ Logging

Spec == Init /\ [][Next]_vars

-----------------------------------------------------------------------------
AppenderOK(a) ==
    /\ DOMAIN a = {"type", "own", "formatter"}
    /\ a.type \in {"file", "stdout"} /\ a.own \in BOOLEAN
    /\ a.formatter \notin Erroneous

\* The state has its shape, and every formatter in use, a logger's or an
\* appender's, is one whose pattern was parsed without error: setFormatter
\* and the listener turn the others away.
TypeOK ==
    /\ m_val \in Values \cup {<<>>}
    /\ pc \in [Setters -> {"out", "listen", "assign"}]
    /\ new \in [Setters -> Values \cup {<<>>}]
    /\ turn \in [Setters -> 0 .. Turns]
    /\ known \cup disputed \cup overlooked \subseteq Names
    /\ crashed \in BOOLEAN
    /\ \A n \in Names : /\ logger[n].level \in Nat
                        /\ logger[n].formatter \notin Erroneous
                        /\ \A k \in DOMAIN logger[n].appenders : AppenderOK(logger[n].appenders[k])

\* The appenders as are the ones the definitions ds ask for.
MadeOf(as, ds) ==
    /\ Len(as) = Len(ds)
    /\ \A k \in DOMAIN as :
          /\ as[k].type = ds[k].type
          /\ as[k].own = OwnFormatter(ds[k])
          /\ as[k].own => as[k].formatter = ds[k].formatter

\* Between two reloads every logger stands as the value of "logs" says: one
\* that is defined has its level, its formatter if the pattern is correct, and
\* its appenders, one that no longer is has level 0 and no appender.  It may
\* differ in two cases: calls of setValue overlapped and the logger was
\* not configured since, for the value assigned last need not be the one whose
\* listener came last; and its appenders may be old ones when nothing but they
\* changed, for LogDefine::operator== compares the list with itself.
LoggersFollowConfig ==
    (\A s \in Setters : pc[s] = "out") =>
        \A n \in Names \ disputed :
            IF n \in DOMAIN m_val
            THEN /\ logger[n].level = m_val[n].level
                 /\ (m_val[n].formatter # <<>> /\ m_val[n].formatter \notin Erroneous) =>
                        logger[n].formatter = m_val[n].formatter
                 /\ n \notin overlooked => MadeOf(logger[n].appenders, m_val[n].appenders)
            ELSE n \in known => logger[n].level = 0 /\ logger[n].appenders = <<>>

\* An appender without a formatter of its own prints like its logger, whatever
\* was reloaded in between (setFormatter, addAppender).
AppendersFollowLogger ==
    \A n \in Names : \A k \in DOMAIN logger[n].appenders :
        LET a == logger[n].appenders[k]
        IN  ~ a.own => a.formatter = logger[n].formatter

\* The formatters in use are correct patterns and are the ones they should be.
FormattersInStep == TypeOK /\ AppendersFollowLogger

\* The layouts that are not parsed back into themselves, and those with a
\* "%" in a text.
Misread == {l \in Layouts : Items[Written[l]] # l}
WithPercent == {l \in Layouts : \E k \in DOMAIN l : l[k].kind = "text" /\ "%" \in ToSet(l[k].str)}

\* A pattern written down for a list of items is accepted, and after the reload
\* the logger prints exactly those items (LogFormatter::init, setFormatter).
\* Patterns with the "%%" of the comment above init() are excepted: init()
\* looks at the second "%" again, as the beginning of a conversion.
FormatterPrintsAsWritten ==
    /\ Misread \subseteq WithPercent
    /\ (\A s \in Setters : pc[s] = "out") =>
           \A n \in DOMAIN m_val \ disputed, l \in Layouts \ WithPercent :
               Written[l] = m_val[n].formatter => Items[logger[n].formatter] = l

\* "%%" in a pattern prints a "%" (LogPercent.cfg: it does not).
PercentIsPrinted == Misread = {}

\* The value v has events of this level end at the root: it defines the root
\* without an appender or with a higher level, or no longer defines it.
SilencesRoot(v, level) ==
    IF Root \in DOMAIN v THEN v[Root].appenders = <<>> \/ v[Root].level > level
    ELSE Root \in known

\* A listener has taken the root's appenders away and not added all the new ones.
RootInWork ==
    \E s \in Setters : \E k \in DOMAIN calls[s] :
        calls[s][k].op = "addAppender" /\ calls[s][k].name = Root

\* Why the root may have no appender for an event of this level, or not let it
\* through.
RootExcused(level) ==
    \/ RootInWork
    \/ SilencesRoot(m_val, level)
    \/ \E s \in Setters : pc[s] # "out" /\ SilencesRoot(new[s], level)
    \/ Root \in disputed \cup overlooked

Lost(w) == event[w].at # "done" /\ event'[w].at = "done" /\ ~ event'[w].reached

\* An event a logger has let through reaches an appender, its own or the
\* root's, even while a reload takes that logger's appenders away: it is lost
\* only if the root itself is being given new appenders, if a value in
\* force or coming into force silences the root, or if the root is not as its
\* value says (LoggersFollowConfig has the two cases).
EventsReachAnAppender ==
    [][\A w \in Writers : Lost(w) => RootExcused(event[w].level)]_vars

\* The exceptions left out.  A logger has the level of its definition after
\* every reload (LogTwoSetters.cfg) and its appenders (LogAppenders.cfg), no
\* event is ever lost (LogRoot.cfg): the code keeps none of these.
LevelsMatchValue ==
    (\A s \in Setters : pc[s] = "out") =>
        \A n \in DOMAIN m_val : logger[n].level = m_val[n].level

AppendersMatchValue ==
    (\A s \in Setters : pc[s] = "out") =>
        \A n \in DOMAIN m_val : MadeOf(logger[n].appenders, m_val[n].appenders)

NoEventLost == [][\A w \in Writers : ~ Lost(w)]_vars

\* A reload survives every kind of appender the configuration can name.
NeverCrashes == ~ crashed
=============================================================================
