---------------------------- MODULE MCLogConfig -----------------------------
(***************************************************************************)
(* Values for the constants of LogConfig.                                  *)
(***************************************************************************)
EXTENDS LogConfig, TLC

CONSTANTS
    MCStdout     \* may a value name a stdout appender?

\* The threads that set the variable are interchangeable.
Symmetric == Permutations(Setters)

MCLetters == {"d", "m", "H", "x"}
MCKnown == {<<"d">>, <<"m">>}
MCNameOrder == <<"root", "net">>

MCTexts == {<<"[">>, <<" ", "m">>, <<"%">>, <<"[", "%", "m">>}

MCParts ==
    {Text(t) : t \in MCTexts}
    \cup {Item(<<"m">>, <<>>), Item(<<"d">>, <<"%", "H">>)}

\* All layouts of one or two parts, and one of five.
MCLayouts ==
    {l \in {<<a>> : a \in MCParts} \cup {<<a, b>> : a \in MCParts, b \in MCParts} : Writable(l)}
    \cup {<<Item(<<"d">>, <<"%", "H">>), Text(<<"[">>), Item(<<"m">>, <<>>),
            Text(<<"]">>), Item(<<"d">>, <<>>)>>}

MCDefault == <<"%", "d", "{", "%", "H", "}", "[", "%", "m", "]", "%", "d">>

\* A conversion nobody knows, and braces that are never closed.
MCUnknown == <<"[", "%", "m", "x", "]">>
MCUnclosed == <<"%", "d", "{", "%", "H">>

MCFile(f) == [type |-> "file", formatter |-> f]
MCDefine(l, f, a) == [level |-> l, formatter |-> f, appenders |-> a]
MCNet(l, f, a) == [n \in {"net"} |-> MCDefine(l, f, a)]

MCRoot(l, a) == [n \in {"root"} |-> MCDefine(l, <<>>, a)]

\* Patterns for some layouts, one of them with a "%" in the text.
MCGood == <<Item(<<"m">>, <<>>), Text(<<"[">>)>>
MCPercent == <<Text(<<"%">>), Item(<<"m">>, <<>>)>>

\* Good and malformed patterns, the root with and without appenders, changes of
\* nothing but the appenders, loggers that come and go.
MCValues ==
    {MCNet(1, Render(MCGood), <<MCFile(MCUnknown)>>),
     MCNet(2, MCUnclosed, <<MCFile(MCDefault)>>),
     MCRoot(2, <<MCFile(<<>>)>>),
     MCRoot(2, <<>>) @@ MCNet(1, Render(MCPercent), <<>>),
     [n \in {} |-> MCDefine(0, <<>>, <<>>)]}
    \cup (IF MCStdout THEN {MCNet(0, <<>>, <<[type |-> "stdout", formatter |-> <<>>]>>)} ELSE {})
=============================================================================
