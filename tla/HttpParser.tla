----------------------------- MODULE HttpParser -----------------------------
(***************************************************************************)
(* The two parsers of src/sylar/http: http_parser_execute with the         *)
(* callbacks of HttpRequestParser, byte by byte over the automaton of      *)
(* HttpGrammar, and httpclient_parser with those of HttpResponseParser.    *)
(*                                                                         *)
(* Both keep the offsets of the token they are in relative to the buffer   *)
(* of the current call, and forget them when the next call begins.         *)
(***************************************************************************)
EXTENDS HttpGrammar, SequencesExt

CONSTANTS
  Methods,        \* the names of HTTP_METHOD_MAP, as sequences of bytes
  ContentLength   \* the name of the header that announces the body

NoText == <<>>
GET == <<"G", "A", "T">>   \* E is of the class of A

\* A fold from the left over seq, from position i on.
RECURSIVE From(_, _, _, _)
From(Op(_, _), acc, seq, i) ==
  IF i > Len(seq) THEN acc
  ELSE CHOOSE r \in {From(Op, next, seq, i + 1) : next \in {Op(acc, seq[i])}} : TRUE
Through(Op(_, _), first, seq) == CHOOSE r \in {From(Op, first, s, 1) : s \in {seq}} : TRUE

-----------------------------------------------------------------------------
(* http_parser                                                             *)

\* http_parser_init leaves uri_relaxed as it finds it.
http_parser_init(relaxed) ==
  [cs |-> http_parser_start, mark |-> 0, field_start |-> 0, field_len |-> 0, query_start |-> 0,
   body_start |-> 0, content_len |-> 0, xml_sent |-> FALSE, json_sent |-> FALSE, uri_relaxed |-> relaxed]

http_parser_has_error(parser)   == parser.cs = http_parser_error
http_parser_is_finished(parser) == parser.cs >= http_parser_first_final

\* A callback: the token reaches from offset at up to, not including, the byte at end.
Call(what, at, end) == [what |-> what, at |-> at, end |-> end, name |-> 0, name_len |-> 0]

\* The query's callback: its start is kept apart from the other tokens'.
QueryCall(parser, p) == Call("query", parser.query_start, p)

\* One embedded action, while p stands on a byte.
Embedded(s, a) ==
  LET pr == s.parser
      Calls(c) == [s EXCEPT !.out = Append(@, c)]
  IN CASE a = "mark"           -> [s EXCEPT !.parser.mark = s.p]
       [] a = "start_field"    -> [s EXCEPT !.parser.field_start = s.p]
       [] a = "write_field"    -> [s EXCEPT !.parser.field_len = s.p - pr.field_start]
       [] a = "start_query"    -> [s EXCEPT !.parser.query_start = s.p]
       [] a = "query_string"   -> Calls(QueryCall(pr, s.p))
       [] a = "write_value"    -> Calls([Call("field", pr.mark, s.p)
                                         EXCEPT !.name = pr.field_start, !.name_len = pr.field_len])
       [] a = "xml"            -> [s EXCEPT !.parser.xml_sent = TRUE]
       [] a = "json"           -> [s EXCEPT !.parser.json_sent = TRUE]
       [] a = "done"           ->
            IF pr.xml_sent \/ pr.json_sent
            THEN [s EXCEPT !.parser.body_start = pr.mark, !.parser.content_len = s.p - pr.mark + 1, !.stop = TRUE]
            ELSE [s EXCEPT !.parser.body_start = s.p + 1, !.stop = TRUE]
       [] OTHER                -> Calls(Call(a, pr.mark, s.p))

\* One byte: the embedded actions run before p and the state move on; done stops behind it.
Byte(s, c) ==
  IF s.stop THEN s
  ELSE LET taken == {e \in Out(s.parser.uri_relaxed, s.parser.cs) : c \in e.on}
       IN IF taken = {} THEN [s EXCEPT !.parser.cs = http_parser_error, !.stop = TRUE]
          ELSE LET e == CHOOSE e \in taken : TRUE
               IN [Through(Embedded, s, e.do) EXCEPT !.p = @ + 1, !.parser.cs = e.to]

\* Mutant: a call leaves the offsets of the call before.
KeepOffsets(parser) == parser
\* A call forgets every offset but query_start.
StartCall(parser) == [parser EXCEPT !.mark = 0, !.field_len = 0, !.field_start = 0]
http_parser_execute(parser, buffer) ==
  IF buffer = <<>> THEN [parser |-> parser, p |-> 0, out |-> <<>>, stop |-> FALSE]
  ELSE Through(Byte, [parser |-> StartCall(parser), p |-> 0, out |-> <<>>, stop |-> FALSE], buffer)

\* The offsets that are set when a message reaches a state in one call, for every message.
\* What a token's callback uses is spent: the next token has to set it anew.
Opens  == [mark |-> "mark", start_field |-> "field", start_query |-> "query", write_field |-> "name"]
Needs(a) == CASE a = "write_field" -> {"field"} [] a = "write_value" -> {"name", "mark"}
              [] a = "query_string" -> {"query"} [] a \in {"xml", "json", "done"} \cup DOMAIN Opens -> {}
              [] OTHER -> {"mark"}
Spends(a) == IF a \in {"request_path", "query_string"} THEN {} ELSE Needs(a)
Set(open, a) == (open \ Spends(a)) \cup (IF a \in DOMAIN Opens THEN {Opens[a]} ELSE {})

RECURSIVE Reached(_, _)
Reached(new, old) ==
  IF new = {} THEN old
  ELSE LET next == UNION { { <<e.to, Through(Set, x[2], e.do)>> : e \in Out(TRUE, x[1]) } : x \in new }
       IN CHOOSE r \in {Reached(n, old \cup new) : n \in {next \ (old \cup new)}} : TRUE
AllReached == Reached({<<http_parser_start, {}>>}, {})

\* The assertions at the end of http_parser_execute, in a call over len bytes.
ExecuteAssertions(parser, nread, len) ==
  /\ nread <= len /\ parser.body_start <= len /\ parser.mark < len
  /\ parser.field_len <= len /\ parser.field_start < len

-----------------------------------------------------------------------------
(* HttpRequestParser                                                       *)

\* HttpRequest's constructor; close is TRUE there, and nothing in the parser changes it.
NewRequest ==
  [method |-> GET, path |-> <<"/">>, query |-> NoText, fragment |-> NoText, version |-> 17,
   headers |-> <<>>, close |-> TRUE, body |-> NoText]

\* m_error has no initial value: garbage stands for what the memory held.
NewRequestParser(relaxed, garbage) ==
  [parser |-> http_parser_init(relaxed), error |-> garbage, data |-> NewRequest, threw |-> FALSE,
   nread |-> 0, len |-> 1]

\* m_headers, a map: the later of two headers of one name replaces the earlier one.
SetHeader(headers, name, value) ==
  Append(SelectSeq(headers, LAMBDA h : h.name # name), [name |-> name, value |-> value])

\* CharsToHttpMethod compares each known name with as many bytes as that name has.
CharsToHttpMethod(text) == {m \in Methods : IsPrefix(m, text)}

\* The callbacks on_request_*.  A token that would end before it begins makes std::string throw.
OnRequest(buffer, h, c) ==
  LET text == SubSeq(buffer, c.at + 1, c.end)
      name == SubSeq(buffer, c.name + 1, c.name + c.name_len)
      methods == CharsToHttpMethod(SubSeq(buffer, c.at + 1, Len(buffer)))
  IN IF h.threw \/ (c.what # "request_uri" /\ c.end < c.at) THEN [h EXCEPT !.threw = TRUE]
     ELSE CASE c.what = "request_method" ->
                 IF methods = {} THEN [h EXCEPT !.error = 1000]
                                 ELSE [h EXCEPT !.data.method = CHOOSE m \in methods : TRUE]
            [] c.what = "request_path" -> [h EXCEPT !.data.path = text]
            [] c.what = "query"        -> [h EXCEPT !.data.query = text]
            [] c.what = "fragment"     -> [h EXCEPT !.data.fragment = text]
            [] c.what = "http_version" ->
                 IF IsPrefix(text, <<"H", "T", "T", "P", "/", "1", ".", "1">>) THEN [h EXCEPT !.data.version = 17]
                 ELSE IF IsPrefix(text, <<"H", "T", "T", "P", "/", "1", ".", "0">>) THEN [h EXCEPT !.data.version = 16]
                 ELSE [h EXCEPT !.error = 1001]
            [] c.what = "field" ->
                 IF c.name_len = 0 THEN h ELSE [h EXCEPT !.data.headers = SetHeader(@, name, text)]
            [] OTHER -> h

\* HttpRequestParser::execute: parse, then move the rest to the front of the buffer.
RequestExecute(h, data) ==
  LET s == http_parser_execute(h.parser, data)
      called == Through(LAMBDA acc, c : OnRequest(data, acc, c), h, s.out)
      saved == IF http_parser_has_error(h.parser) THEN http_parser_error ELSE s.parser.cs
  IN [h |-> [called EXCEPT !.parser = [s.parser EXCEPT !.cs = saved], !.nread = s.p, !.len = Len(data)],
      data |-> SubSeq(data, s.p + 1, Len(data)), nparse |-> s.p, out |-> s.out]

RequestHasError(h) == h.error # 0 \/ http_parser_has_error(h.parser)

DigitValue == [d \in Digit |-> CASE d = "0" -> 0 [] d = "1" -> 1 [] d = "2" -> 2 [] d = "3" -> 3 [] d = "5" -> 5]

\* getHeaderAs<uint64_t>("content-length", 0); a value that is not a number counts as 0.
GetContentLength(headers) ==
  LET values == {headers[i].value : i \in {j \in DOMAIN headers : headers[j].name = ContentLength}}
      IsNumber(v) == v # <<>> /\ ToSet(v) \subseteq Digit
      Number(v) == FoldLeft(LAMBDA n, d : 10 * n + DigitValue[d], 0, v)
  IN IF \E v \in values : IsNumber(v) THEN Number(CHOOSE v \in values : IsNumber(v)) ELSE 0

-----------------------------------------------------------------------------
(* httpclient_parser, from httpclient_parser.rl, over the symbols of a     *)
(* response: <<kind, ...>>, where a name knows the header it belongs to.   *)

httpclient_parser_init ==
  [cs |-> "start", line |-> "other", content_len |-> -1, chunked |-> FALSE, chunks_done |-> FALSE,
   mark |-> 0, field_start |-> 0, field_len |-> 0]

\* main := (Response | Chunked_Header) @done, without chunk extensions: the state, the kind
\* of symbol, the next state, and the actions that run on the way.
ClientEdges ==
  { <<"start",    "ver",   "version",  <<"mark">>>>,
    <<"version",  "ver",   "version",  <<>>>>,
    <<"version",  "SP",    "to_code",  <<"http_version">>>>,
    <<"to_code",  "digit", "code",     <<"mark">>>>,
    <<"code",     "digit", "code",     <<>>>>,
    <<"code",     "SP",    "to_text",  <<"status_code">>>>,
    <<"to_text",  "text",  "text",     <<"mark">>>>,
    <<"text",     "text",  "text",     <<>>>>,
    <<"text",     "CR",    "line_cr",  <<"reason_phrase">>>>,
    <<"line_cr",  "LF",    "lines",    <<>>>>,
    <<"lines",    "name",  "name",     <<"start_field", "line">>>>,
    <<"name",     "name",  "name",     <<>>>>,
    <<"name",     ":",     "to_value", <<"write_field">>>>,
    <<"to_value", "SP",    "to_value", <<>>>>,
    <<"to_value", "digit", "value",    <<"mark">>>>,
    <<"value",    "digit", "value",    <<>>>>,
    <<"value",    "CR",    "value_cr", <<"write_value">>>>,
    <<"value_cr", "LF",    "lines",    <<"trans_chunked">>>>,
    <<"lines",    "CR",    "blank",    <<>>>>,
    <<"blank",    "LF",    "final",    <<"done">>>>,
    <<"start",    "hex",   "size",     <<"mark">>>>,
    <<"size",     "hex",   "size",     <<>>>>,
    <<"size",     "CR",    "size_cr",  <<"chunk_size">>>>,
    <<"size_cr",  "LF",    "final",    <<"done">>>> }

\* strtol, from the byte after offset at on: the digits up to the first other byte.
Strtol(data, at, base) ==
  LET digits == {i \in at + 1 .. Len(data) : \A j \in at + 1 .. i : data[j][1] \in {"digit", "hex"}}
  IN FoldLeft(LAMBDA n, i : base * n + data[i][2], 0, SetToSortSeq(digits, LAMBDA x, y : x < y))

\* One embedded action of the client's parser, on the symbol sym.
ClientEmbedded(data, s, a) ==
  LET pr == s.parser
  IN CASE a = "mark"          -> [s EXCEPT !.parser.mark = s.p]
       [] a = "start_field"   -> [s EXCEPT !.parser.field_start = s.p]
       [] a = "line"          -> [s EXCEPT !.parser.line = data[s.p + 1][2]]
       [] a = "write_field"   -> [s EXCEPT !.parser.field_len = s.p - pr.field_start]
       [] a = "trans_chunked" -> [s EXCEPT !.parser.chunked = @ \/ pr.line = "chunked"]
       [] a = "chunk_size"    ->
            [s EXCEPT !.parser.chunked = TRUE, !.parser.content_len = Strtol(data, pr.mark, 16),
                      !.parser.chunks_done = Strtol(data, pr.mark, 16) <= 0]
       [] a = "write_value"   ->
            [s EXCEPT !.out = Append(@, [Call("field", pr.mark, s.p)
                                           EXCEPT !.name = pr.field_start, !.name_len = pr.field_len])]
       [] a = "done"          -> [s EXCEPT !.stop = TRUE]
       [] OTHER               -> [s EXCEPT !.out = Append(@, Call(a, pr.mark, s.p))]

ClientSymbol(data, s, sym) ==
  LET taken == {e \in ClientEdges : e[1] = s.parser.cs /\ e[2] = sym[1]}
      e     == CHOOSE e \in taken : TRUE
  IN IF s.stop THEN s
     ELSE IF taken = {} THEN [s EXCEPT !.parser.cs = "error", !.stop = TRUE]
     ELSE [Through(LAMBDA acc, a : ClientEmbedded(data, acc, a), s, e[4])
             EXCEPT !.p = @ + 1, !.parser.cs = e[3]]

\* A call forgets every offset, in the middle of a token too.
httpclient_parser_execute(parser, data) ==
  Through(LAMBDA acc, sym : ClientSymbol(data, acc, sym),
          [parser |-> StartCall(parser), p |-> 0, out |-> <<>>, stop |-> FALSE], data)

\* The version a response announces, as its symbols.
VersionText == <<<<"ver", 1>>, <<"ver", 2>>>>

\* The callbacks on_response_*; the reason is not kept.
OnResponse(data, h, c) ==
  LET text == SubSeq(data, c.at + 1, c.end)
      name == SubSeq(data, c.name + 1, c.name + c.name_len)
  IN CASE c.what = "http_version" -> IF IsPrefix(text, VersionText) THEN h ELSE [h EXCEPT !.error = 1001]
       [] c.what = "status_code"  -> [h EXCEPT !.status = Strtol(data, c.at, 10)]
       [] c.what = "field" /\ c.name_len > 0 -> [h EXCEPT !.headers = SetHeader(@, name, text)]
       [] OTHER -> h

\* HttpResponseParser::execute; in a chunked body every call starts the parser anew.
ResponseExecute(h, data, chunck) ==
  LET s == httpclient_parser_execute(IF chunck THEN httpclient_parser_init ELSE h.parser, data)
      called == Through(LAMBDA acc, c : OnResponse(data, acc, c), h, s.out)
  IN [h |-> [called EXCEPT !.parser = s.parser], data |-> SubSeq(data, s.p + 1, Len(data)),
      nparse |-> s.p]
=============================================================================
