---------------------------- MODULE HttpGrammar ----------------------------
(***************************************************************************)
(* The automaton of http_parser_execute (src/sylar/http/http11_parser.cc,  *)
(* generated from http11_parser.rl), as a set of edges.  States keep their *)
(* numbers: 1 is the start, 0 the error, 348 and 349 the final ones.  An   *)
(* edge carries the bytes it is taken on and the embedded actions, in the  *)
(* order the generated code runs them.  A byte no edge mentions leads to   *)
(* state 0.                                                                *)
(*                                                                         *)
(* Bytes are abstracted to the 46 classes that the automaton tells apart;  *)
(* each is named by a member, the unprintable ones by a word: "HI" is any  *)
(* byte above 127, "CTL" 1, 7, 8, 14-31 and the token bytes ` and |, "B2"  *)
(* to "B6" the bytes 2 to 6, "VT" 11 and 12, "QUOTE" the two bytes that    *)
(* only a header value may hold.  "!" also stands for $ & ' * _ ~, "=" for *)
(* ( ) , ; and "3" for 3 4 6 7 8 9; A, G, a and g for the other letters.   *)
(***************************************************************************)
EXTENDS Integers, Sequences

Digit   == {"0", "1", "2", "3", "5"}
HexOnly == {"A", "a"}
XDigit  == Digit \cup HexOnly
Upper   == {"A", "G", "H", "P", "T"}
Alpha   == Upper \cup {"a", "g", "v"}
Spaces  == {"SP", "TAB", "LF", "VT", "CR"}
Control == {"CTL", "B2", "B3", "B4", "B5", "B6"}

Bytes == Alpha \cup Digit \cup Spaces \cup Control
         \cup {"HI", "NUL", "DEL", "QUOTE", "!", "=", "+", "-", ".", "/", "#", "%", ":",
               "<", ">", "?", "@", "[", "]", "^", "{", "}"}

\* unreserved and sub_delims; "{", "}" and "^" only when uri_relaxed is set.
RegName(relaxed) ==
  Alpha \cup Digit \cup {"!", "=", "+", "-", "."} \cup (IF relaxed THEN {"^", "{", "}"} ELSE {})
PChar(relaxed) == RegName(relaxed) \cup {":", "@", "HI"}

Edge(from, on, do, to) == [from |-> from, on |-> on, do |-> do, to |-> to]
Silent(from, on, to)   == {Edge(from, on, <<>>, to)}

\* The two digits after a "%"; state s is the one behind it.
Escape(s, back) == Silent(s, XDigit, s + 1) \cup Silent(s + 1, XDigit, back)

-----------------------------------------------------------------------------
(* The request line: method, target and version.                           *)

RequestStart ==
  { Edge(1, Upper \cup Digit, <<"mark">>, 2), Edge(1, {"<"}, <<"mark">>, 194),
    Edge(1, {"@"}, <<"mark">>, 198),
    Edge(2, {"SP"}, <<"request_method">>, 3), Edge(2, Upper \cup Digit, <<>>, 175) }

\* Letters 3 to 20 of the method; a 21st is refused.
MethodRest ==
  { Edge(s, {"SP"}, <<"request_method">>, 3) : s \in 175 .. 193 }
  \cup { Edge(s, Upper \cup Digit, <<>>, s + 1) : s \in 175 .. 192 }

\* What ends a path: the version, a fragment or a query follows.
PathEnd(s, first) ==
  { Edge(s, {"SP"}, first \o <<"request_path", "request_uri">>, 4),
    Edge(s, {"#"},  first \o <<"request_path", "request_uri">>, 20),
    Edge(s, {"?"},  first \o <<"request_path">>, 29) }

UriStart(relaxed) ==
  PathEnd(3, <<"mark">>)
  \cup { Edge(3, (RegName(relaxed) \cup {"@"}) \ Alpha, <<"mark">>, 19),
         Edge(3, {"%"}, <<"mark">>, 24), Edge(3, {"/"}, <<"mark">>, 33),
         Edge(3, Alpha, <<"mark">>, 173) }

\* "HTTP/1." and a digit 0 or 1, up to the end of the request line.
HttpVersion ==
  { Edge(4, {"H"}, <<"mark">>, 5), Edge(11, {"0", "1"}, <<>>, 12),
    Edge(12, {"LF"}, <<"http_version">>, 13), Edge(12, {"CR"}, <<"http_version">>, 17) }
  \cup { Edge(4 + i, {<<"H", "T", "T", "P", "/", "1", ".">>[i + 1]}, <<>>, 5 + i) : i \in 1 .. 6 }

PathNoScheme(relaxed) ==
  PathEnd(19, <<>>) \cup Silent(19, RegName(relaxed) \cup {"@"}, 19)
  \cup Silent(19, {"%"}, 24) \cup Silent(19, {"/"}, 26) \cup Escape(24, 19)

\* Mutant: a fragment keeps the mark of the path.
FragmentUnmarked(relaxed) ==
  LET Chars == PChar(relaxed) \cup {"/", "?"}
  IN Silent(20, Chars, 21) \cup Silent(20, {"%"}, 22)
     \cup { Edge(s, {"SP"}, <<"fragment">>, 4) : s \in {20, 21} }
     \cup Silent(21, Chars, 21) \cup Silent(21, {"%"}, 22) \cup Escape(22, 21)
Fragment(relaxed) ==
  LET Chars == PChar(relaxed) \cup {"/", "?"}
  IN { Edge(20, Chars, <<"mark">>, 21), Edge(20, {"%"}, <<"mark">>, 22),
       Edge(20, {"SP"}, <<"mark", "fragment">>, 4), Edge(21, {"SP"}, <<"fragment">>, 4) }
     \cup Silent(21, Chars, 21) \cup Silent(21, {"%"}, 22) \cup Escape(22, 21)

PathSegments(relaxed) ==
  PathEnd(26, <<>>) \cup Silent(26, PChar(relaxed) \cup {"/"}, 26)
  \cup Silent(26, {"%"}, 27) \cup Escape(27, 26)

Query(relaxed) ==
  LET Chars == PChar(relaxed) \cup {"/", "?"}
      Ends(s, first) == { Edge(s, {"SP"}, first \o <<"query_string", "request_uri">>, 4),
                          Edge(s, {"#"},  first \o <<"query_string", "request_uri">>, 20) }
  IN Ends(29, <<"start_query">>) \cup Ends(30, <<>>)
     \cup { Edge(29, Chars, <<"start_query">>, 30), Edge(29, {"%"}, <<"start_query">>, 31) }
     \cup Silent(30, Chars, 30) \cup Silent(30, {"%"}, 31) \cup Escape(31, 30)

\* A leading "/": a second one opens an authority.
PathAbsolute(relaxed) ==
  PathEnd(33, <<>>) \cup Silent(33, PChar(relaxed), 26)
  \cup Silent(33, {"%"}, 27) \cup Silent(33, {"/"}, 34)

\* A target that may still turn out to be a scheme; behind ":" the mark is set anew.
Scheme(relaxed) ==
  LET SchemeChar == Alpha \cup Digit \cup {"+", "-", "."}
  IN PathEnd(173, <<>>) \cup PathEnd(174, <<"mark">>)
     \cup Silent(173, SchemeChar, 173) \cup Silent(173, (RegName(relaxed) \cup {"@"}) \ SchemeChar, 19)
     \cup Silent(173, {"%"}, 24) \cup Silent(173, {"/"}, 26) \cup Silent(173, {":"}, 174)
     \cup { Edge(174, PChar(relaxed), <<"mark">>, 26), Edge(174, {"%"}, <<"mark">>, 27),
            Edge(174, {"/"}, <<"mark">>, 33) }

-----------------------------------------------------------------------------
(* The authority behind "//".  The generated code holds it twice: for a    *)
(* request target (shift 0) and for an "@" message (shift 175), where only *)
(* a blank or "/" ends it.                                                 *)

AuthorityEnd(s, shift) ==
  IF shift = 0 THEN PathEnd(s, <<>>) \cup Silent(s, {"/"}, 26)
               ELSE { Edge(s, {"SP"}, <<"request_path">>, 199) } \cup Silent(s, {"/"}, 205)

\* States 34-38: a host name, or the user's name in front of "@" or ":".
HostOrUser(b, relaxed) ==
  UNION { AuthorityEnd(s + b, b) \cup Silent(s + b, {"@"}, 42 + b) : s \in {34, 35, 38} }
  \cup UNION { Silent(s + b, RegName(relaxed), 35 + b) \cup Silent(s + b, {"%"}, 36 + b)
               \cup Silent(s + b, {":"}, 38 + b) : s \in {34, 35} }
  \cup Silent(34 + b, {"["}, 47 + b) \cup Escape(36 + b, 35 + b)
  \cup Silent(38 + b, Digit, 38 + b) \cup Silent(38 + b, {"%"}, 40 + b)
  \cup Silent(38 + b, (RegName(relaxed) \cup {":"}) \ Digit, 39 + b)

\* States 39-42: the user's password, up to "@".
UserInfo(b, relaxed) ==
  Silent(39 + b, RegName(relaxed) \cup {":"}, 39 + b) \cup Silent(39 + b, {"%"}, 40 + b)
  \cup Silent(39 + b, {"@"}, 42 + b) \cup Escape(40 + b, 39 + b)

\* States 42-46: the host behind "@", and the port.
HostPort(b, relaxed) ==
  UNION { AuthorityEnd(s + b, b) : s \in {42, 43, 46, 61} }
  \cup UNION { Silent(s + b, RegName(relaxed), 43 + b) \cup Silent(s + b, {"%"}, 44 + b)
               \cup Silent(s + b, {":"}, 46 + b) : s \in {42, 43} }
  \cup Silent(42 + b, {"["}, 47 + b) \cup Escape(44 + b, 43 + b)
  \cup Silent(46 + b, Digit, 46 + b) \cup Silent(61 + b, {":"}, 46 + b)

-----------------------------------------------------------------------------
(* The address in brackets.  The grammar writes 6( h16 ":" ) for six       *)
(* groups and ("1"-"9") for a range; ragel reads the byte 6 followed by    *)
(* one group, and the byte "1".  The automaton is what ragel made of it.   *)

\* One group of one to four hexadecimal digits, and the ":" behind it.
Group(s, next) ==
  UNION { Silent(s + i, XDigit, s + i + 1) : i \in 0 .. 2 }
  \cup UNION { Silent(s + i, {":"}, next) : i \in 0 .. 3 }

\* States 47-53: the opening bracket, and the group behind a byte 2 to 6.
LiteralStart(b) ==
  Silent(47 + b, {"B6"}, 48 + b) \cup Silent(47 + b, XDigit, 91 + b)
  \cup Silent(47 + b, {":"}, 167 + b) \cup Silent(47 + b, {"v"}, 169 + b)
  \cup Silent(48 + b, XDigit, 49 + b) \cup Group(49 + b, 53 + b)
  \cup Silent(167 + b, {":"}, 168 + b)

\* One decimal number: two digits only behind "1", three behind "1", "20" and "25".
Octet(open, last, one, two, end, next) ==
  Silent(open, {"0", "3", "5"}, last) \cup Silent(open, {"1"}, one) \cup Silent(open, {"2"}, two)
  \cup UNION { Silent(s, {end}, next) : s \in {last, one, one + 1, two} }
  \cup Silent(one, Digit, one + 1) \cup Silent(one + 1, Digit, last)
  \cup Silent(two, {"0"}, two + 1) \cup Silent(two, {"5"}, two + 2)
  \cup Silent(two + 1, Digit, last) \cup Silent(two + 2, {"0"}, last)

\* States 55-76: the second to the fourth number.
DottedRest(b) ==
  Octet(55 + b, 56 + b, 72 + b, 74 + b, ".", 57 + b)
  \cup Octet(57 + b, 58 + b, 67 + b, 69 + b, ".", 59 + b)
  \cup Octet(59 + b, 60 + b, 62 + b, 64 + b, "]", 61 + b)

\* States 80-83: the last group of the address.
LastGroup(b) ==
  Silent(80 + b, XDigit, 81 + b)
  \cup UNION { Silent(s + b, XDigit, s + b + 1) : s \in {81, 82} } \cup Silent(83 + b, XDigit, 60 + b)
  \cup UNION { Silent(s + b, {"]"}, 61 + b) : s \in 81 .. 83 }

\* A group that may turn out to be the first decimal number: d holds one digit that can
\* only be a number of its own, h two to four hexadecimal digits, one the numbers that
\* begin with "1", one + 3 those with "2", one + 6 a group that begins with a letter.
GroupOrOctet(b, d, h, one, next) ==
  UNION { Silent(s + b, {"."}, 55 + b) : s \in {d, one, one + 1, one + 2, one + 3} }
  \cup UNION { Silent(s + b, {":"}, next + b) : s \in {d} \cup h .. h + 2 \cup one .. one + 6 }
  \cup UNION { Silent(s + b, XDigit, h + b) : s \in {d, one + 6} }
  \cup UNION { Silent(s + b, XDigit, s + b + 1) : s \in {h, h + 1} }
  \cup Silent(one + b, Digit, one + 1 + b) \cup Silent(one + b, HexOnly, h + b)
  \cup Silent(one + 1 + b, Digit, one + 2 + b) \cup Silent(one + 1 + b, HexOnly, h + 1 + b)
  \cup Silent(one + 2 + b, XDigit, h + 2 + b)
  \cup Silent(one + 3 + b, {"0"}, one + 4 + b) \cup Silent(one + 3 + b, {"5"}, one + 5 + b)
  \cup Silent(one + 3 + b, XDigit \ {"0", "5"}, h + b)
  \cup Silent(one + 4 + b, Digit, one + 2 + b) \cup Silent(one + 4 + b, HexOnly, h + 1 + b)
  \cup Silent(one + 5 + b, {"0"}, one + 2 + b) \cup Silent(one + 5 + b, XDigit \ {"0"}, h + 1 + b)

\* Where such a group begins.
Branch(s, b, d, one) ==
  Silent(s + b, {"0", "3", "5"}, d + b) \cup Silent(s + b, {"1"}, one + b)
  \cup Silent(s + b, {"2"}, one + 3 + b) \cup Silent(s + b, HexOnly, one + 6 + b)

\* A group after which the address may also be complete.
MayEnd(b, d, h, one) ==
  UNION { Silent(s + b, {"]"}, 61 + b) : s \in {d} \cup h .. h + 2 \cup one .. one + 6 }

\* States 53, 54, 77-79 and 84-90: the last two groups, or the dotted form.
LastTwoGroups(b) == Branch(53, b, 54, 84) \cup GroupOrOctet(b, 54, 77, 84, 80)

\* One of the seven groups that may stand in front of "::".
LeadingGroup(b, g) ==
  Group(91 + 5 * g + b, 95 + 5 * g + b)
  \cup Silent(95 + 5 * g + b, {":"}, <<166, 165, 164, 163, 151, 150, 126>>[g + 1] + b)
  \cup Silent(95 + 5 * g + b, XDigit, (IF g = 6 THEN 121 ELSE 96 + 5 * g) + b)

\* States 91-100, 101-115 and 116-125; behind the seventh group the last state repeats.
FirstGroups(b)  == UNION { LeadingGroup(b, g) : g \in 0 .. 1 }
MiddleGroups(b) == UNION { LeadingGroup(b, g) : g \in 2 .. 4 }
FinalGroups(b)  == UNION { LeadingGroup(b, g) : g \in 5 .. 6 }

\* States 126-130 and 143-149: the first group behind "::" when one may be left.
OneOrTwoAfter(b) ==
  UNION { Branch(s, b, 127, 143) : s \in {126, 150, 168} }
  \cup GroupOrOctet(b, 127, 128, 143, 131) \cup MayEnd(b, 127, 128, 143)
  \cup UNION { Silent(s + b, {"]"}, 61 + b) : s \in {126, 168} }

\* States 131-142: the second one.
SecondAfter(b) ==
  Branch(131, b, 132, 136) \cup GroupOrOctet(b, 132, 133, 136, 80) \cup MayEnd(b, 132, 133, 136)

\* States 151-162: the first group behind "::" when one more must follow.
TwoAfter(b) == Branch(151, b, 152, 156) \cup GroupOrOctet(b, 152, 153, 156, 131)

\* States 163-168 and the rest of 126, 150 and 151: the bytes 2 to 5 that the counts became.
CountBytes(b) ==
  UNION { Silent(s + b, {"B2", "B3"}, 48 + b) : s \in {126, 150, 151, 163, 164} }
  \cup Silent(165 + b, {"B3"}, 48 + b) \cup Silent(166 + b, {"B4"}, 48 + b)
  \cup Silent(168 + b, {"B2", "B3", "B4", "B5"}, 48 + b) \cup Silent(163 + b, XDigit, 49 + b)

\* States 169-172: "v", a version, and anything up to the bracket.
IPvFuture(b, relaxed) ==
  Silent(169 + b, XDigit, 170 + b) \cup Silent(170 + b, XDigit, 170 + b) \cup Silent(170 + b, {"."}, 171 + b)
  \cup UNION { Silent(s + b, RegName(relaxed) \cup {":"}, 172 + b) : s \in {171, 172} }
  \cup Silent(172 + b, {"]"}, 61 + b)

Authority(b, relaxed) ==
  HostOrUser(b, relaxed) \cup UserInfo(b, relaxed) \cup HostPort(b, relaxed)

IpLiteral(b, relaxed) ==
  LiteralStart(b) \cup DottedRest(b) \cup LastGroup(b) \cup LastTwoGroups(b)
  \cup FirstGroups(b) \cup MiddleGroups(b) \cup FinalGroups(b) \cup OneOrTwoAfter(b) \cup SecondAfter(b) \cup TwoAfter(b)
  \cup CountBytes(b) \cup IPvFuture(b, relaxed)

-----------------------------------------------------------------------------
(* The header lines.  HTTP_CTL is (0 - 31) in the grammar, which ragel     *)
(* takes for the single byte 0: control bytes, CR and LF among them, may   *)
(* stand in a header's name.                                               *)

Token == Alpha \cup Digit \cup Control \cup {"LF", "VT", "CR", "!", "+", "-", ".", "#", "%", "^"}

HeaderName ==
  { Edge(13, Token \ {"LF", "CR"}, <<"start_field">>, 14),
    Edge(13, {"CR"}, <<"start_field">>, 18),
    Edge(13, {"LF"}, <<"start_field", "done">>, 348),
    Edge(14, {":"}, <<"write_field">>, 15) }
  \cup Silent(14, Token, 14)

\* Mutant: the mark stays in front of the blanks.
HeaderValueKeepsBlanks ==
  LET Content == Bytes \ {"NUL", "DEL", "LF", "CR"}
  IN { Edge(15, Content, <<"mark">>, 16),
       Edge(15, {"LF"}, <<"mark", "write_value">>, 13), Edge(15, {"CR"}, <<"mark", "write_value">>, 17),
       Edge(16, {"LF"}, <<"write_value">>, 13), Edge(16, {"CR"}, <<"write_value">>, 17) }
     \cup Silent(16, Content, 16)
HeaderValue ==
  LET Content == Bytes \ {"NUL", "DEL", "LF", "CR"}
  IN { Edge(15, Content \ {"SP", "TAB"}, <<"mark">>, 16), Edge(15, {"SP", "TAB"}, <<"mark">>, 15),
       Edge(15, {"LF"}, <<"mark", "write_value">>, 13), Edge(15, {"CR"}, <<"mark", "write_value">>, 17),
       Edge(16, {"LF"}, <<"write_value">>, 13), Edge(16, {"CR"}, <<"write_value">>, 17) }
     \cup Silent(16, Content, 16)

\* The end of a line, the blank line, and what would follow it.
LineEnd ==
  { Edge(18, {"LF"}, <<"done">>, 348) }
  \cup { Edge(s, {":"}, <<"write_field">>, 15) : s \in {18, 348} }
  \cup Silent(17, {"LF"}, 13) \cup Silent(18, Token \ {"LF"}, 14) \cup Silent(348, Token, 14)

-----------------------------------------------------------------------------
(* The two message forms that are not requests: "<" and "@".               *)

SocketXML ==
  LET Name == Alpha \cup Digit \cup {"-", "."}
  IN { Edge(195, Spaces \cup {"/", ">"}, <<"request_path">>, 196),
       Edge(197, {"NUL"}, <<"xml", "done">>, 349) }
     \cup Silent(194, Name, 195) \cup Silent(195, Name, 195)
     \cup Silent(196, Bytes \ {">"}, 196) \cup Silent(196, {">"}, 197)
     \cup Silent(197, Bytes \ {">", "NUL"}, 196) \cup Silent(197, {">"}, 197)

SocketJSONData ==
  { Edge(199, {"{"}, <<"mark">>, 200), Edge(201, {"NUL"}, <<"json", "done">>, 349) }
  \cup Silent(200, Bytes \ {"}"}, 200) \cup Silent(200, {"}"}, 201)
  \cup Silent(201, Bytes \ {"}", "NUL"}, 200) \cup Silent(201, {"}"}, 201)

SocketJSONPath(relaxed) ==
  { Edge(s, {"SP"}, <<"request_path">>, 199) : s \in {198, 202, 205, 208} }
  \cup UNION { Silent(s, RegName(relaxed) \cup {"@"}, 202) \cup Silent(s, {"%"}, 203) : s \in {198, 202} }
  \cup Silent(198, {"/"}, 208) \cup Silent(202, {"/"}, 205) \cup Escape(203, 202)
  \cup Silent(205, PChar(relaxed) \cup {"/"}, 205) \cup Silent(208, PChar(relaxed), 205)
  \cup UNION { Silent(s, {"%"}, 206) : s \in {205, 208} }
  \cup Silent(208, {"/"}, 209) \cup Escape(206, 205)

\* The second copy of the authority: states 209-221, and 222-347 for the address.
SocketJSONHost(relaxed)     == HostOrUser(175, relaxed)
SocketJSONUserInfo(relaxed) == UserInfo(175, relaxed)
SocketJSONHostPort(relaxed) == HostPort(175, relaxed)
SocketJSONLiteralStart      == LiteralStart(175)
SocketJSONDottedRest        == DottedRest(175)
SocketJSONLastGroup         == LastGroup(175)
SocketJSONLastTwoGroups     == LastTwoGroups(175)
SocketJSONFirstGroups       == FirstGroups(175)
SocketJSONMiddleGroups      == MiddleGroups(175)
SocketJSONFinalGroups       == FinalGroups(175)
SocketJSONOneOrTwoAfter     == OneOrTwoAfter(175)
SocketJSONSecondAfter       == SecondAfter(175)
SocketJSONTwoAfter          == TwoAfter(175)
SocketJSONCountBytes        == CountBytes(175)
SocketJSONIPvFuture(relaxed) == IPvFuture(175, relaxed)

SocketJSONAuthority(relaxed) ==
  SocketJSONHost(relaxed) \cup SocketJSONUserInfo(relaxed) \cup SocketJSONHostPort(relaxed)
  \cup SocketJSONLiteralStart \cup SocketJSONDottedRest \cup SocketJSONLastGroup \cup SocketJSONLastTwoGroups
  \cup SocketJSONFirstGroups \cup SocketJSONMiddleGroups \cup SocketJSONFinalGroups
  \cup SocketJSONOneOrTwoAfter \cup SocketJSONSecondAfter \cup SocketJSONTwoAfter
  \cup SocketJSONCountBytes \cup SocketJSONIPvFuture(relaxed)

-----------------------------------------------------------------------------
Edges(relaxed) ==
  RequestStart \cup MethodRest \cup UriStart(relaxed) \cup HttpVersion \cup PathNoScheme(relaxed)
  \cup Fragment(relaxed) \cup PathSegments(relaxed) \cup Query(relaxed) \cup PathAbsolute(relaxed)
  \cup Scheme(relaxed) \cup Authority(0, relaxed) \cup IpLiteral(0, relaxed)
  \cup HeaderName \cup HeaderValue \cup LineEnd \cup SocketXML \cup SocketJSONData
  \cup SocketJSONPath(relaxed) \cup SocketJSONAuthority(relaxed)

http_parser_start == 1
http_parser_error == 0
http_parser_first_final == 348
States == 0 .. 349

\* The edges that leave each state, as a table: one for each value of uri_relaxed.
Table(E) == SubSeq([s \in 1 .. 349 |-> {e \in E : e.from = s}], 1, 349)
StrictTable  == Table(Edges(FALSE))
RelaxedTable == Table(Edges(TRUE))
Out(relaxed, s) ==
  IF s = http_parser_error THEN {} ELSE IF relaxed THEN RelaxedTable[s] ELSE StrictTable[s]

\* The edge sets describe a deterministic automaton, as the switch statements do.
ASSUME Deterministic ==
  \A relaxed \in BOOLEAN : \A s \in States : \A e, f \in Out(relaxed, s) : e # f => e.on \cap f.on = {}
=============================================================================
