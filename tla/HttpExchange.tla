---------------------------- MODULE HttpExchange ----------------------------
(***************************************************************************)
(* One HTTP connection, read by the code of src/sylar/http: the server's   *)
(* HttpSession::recvRequest and HttpServer::handleClient, or the client's  *)
(* HttpConnection::recvResponse.  The peer has sent one message; the       *)
(* network hands it over in pieces of any size, one piece per read, and    *)
(* may fail at any read.                                                   *)
(*                                                                         *)
(* Nothing but the reading fiber touches its buffer and parser, so what    *)
(* happens between two reads is one step.                                  *)
(***************************************************************************)
EXTENDS HttpParser, FiniteSetsExt

CONSTANTS
  Requests,      \* the requests a peer may send (records as NewRequest)
  Responses,     \* the responses a peer may send, each a record [wire, status, body]
  BuffSize,      \* http.request.buffer_size
  Keepalive,     \* HttpServer::m_isKeepalive
  ConnectionName, CloseValue, KeepAliveValue

ASSUME SizeAssumption == BuffSize \in Nat \ {0}

VARIABLES
  side,      \* "server" reads a request, "client" reads a response
  sent,      \* what the peer meant to say: a request, or a response's status and body
  msg,       \* the whole message on the wire
  inside,    \* the lengths of its prefixes that end inside a token
  wire,      \* what of it has not been read
  pc,        \* where the reading fiber is
  buf,      \* the bytes in the buffer behind what is parsed
  session,         \* the HttpRequestParser
  client,    \* the HttpResponseParser: the httpclient_parser, m_error and the response
  body,      \* the body read so far
  left,      \* how much of it readFixSize, or the chunk loop, still wants
  cut        \* a read has ended inside a token

vars == <<side, sent, msg, inside, wire, pc, buf, session, client, body, left, cut>>

-----------------------------------------------------------------------------
(* HttpRequest::dump and HttpResponse::dump                                *)

Line(name, value) == name \o <<":", "SP">> \o value \o <<"CR", "LF">>

\* A body of up to five bytes is announced by one digit.
Decimal(n) == CHOOSE d \in Digit : DigitValue[d] = n

RequestDump(req) ==
  req.method \o <<"SP">> \o req.path
  \o (IF req.query = NoText THEN <<>> ELSE <<"?">> \o req.query)
  \o (IF req.fragment = NoText THEN <<>> ELSE <<"#">> \o req.fragment)
  \o <<"SP", "H", "T", "T", "P", "/", "1", ".", IF req.version = 17 THEN "1" ELSE "0", "CR", "LF">>
  \o Line(ConnectionName, IF req.close THEN CloseValue ELSE KeepAliveValue)
  \o FlattenSeq([i \in DOMAIN req.headers |->
       IF req.headers[i].name = ConnectionName THEN <<>> ELSE Line(req.headers[i].name, req.headers[i].value)])
  \o (IF req.body = NoText THEN <<"CR", "LF">>
      ELSE Line(ContentLength, <<Decimal(Len(req.body))>>) \o <<"CR", "LF">> \o req.body)

\* The head of a response: the status line, one line of some header, or one of the two that
\* say how the body is sent.
StatusLine(status) ==
  VersionText \o <<<<"SP">>>> \o status \o <<<<"SP">>, <<"text">>, <<"text">>, <<"CR">>, <<"LF">>>>
NameOf(header) == <<<<"name", header, 1>>, <<"name", header, 2>>>>
HeadLine(header, value) ==
  NameOf(header) \o <<<<":">>, <<"SP">>>> \o value \o <<<<"CR">>, <<"LF">>>>
Blank == <<<<"CR">>, <<"LF">>>>

ResponseDump(status, text) ==
  StatusLine(status) \o HeadLine("other", <<<<"digit", 1>>>>)
  \o (IF text = <<>> THEN Blank ELSE HeadLine("length", <<<<"digit", Len(text)>>>>) \o Blank \o text)

-----------------------------------------------------------------------------
(* Where a read must not end: inside what one callback hands over.         *)

InRequestToken(text) ==
  LET First(c) == IF c.what = "field" THEN c.name ELSE c.at
      calls == {c \in ToSet(http_parser_execute(http_parser_init(TRUE), text).out) : c.what # "request_uri"}
  IN UNION { First(c) + 1 .. c.end : c \in calls }

InChunkHeader(text) ==
  {k \in DOMAIN text : text[k][1] = "hex" \/ (k > 1 /\ text[k][1] = "CR" /\ text[k - 1][1] = "hex")}

InResponseToken(text) ==
  LET First(c) == IF c.what = "field" THEN c.name ELSE c.at
  IN UNION { First(c) + 1 .. c.end : c \in ToSet(httpclient_parser_execute(httpclient_parser_init, text).out) }

\* Stream::read hands over at most size bytes, and at least one.
Read(size, n) ==
  /\ n \in 1 .. Min({size, Len(wire)})
  /\ wire' = SubSeq(wire, n + 1, Len(wire))
  /\ cut' = (cut \/ Len(msg) - Len(wire) + n \in inside)

Piece(n) == SubSeq(wire, 1, n)

\* Neither uri_relaxed nor m_error is given a value by the constructors.
NewSession == { NewRequestParser(relaxed, garbage) : relaxed \in BOOLEAN, garbage \in {0, 1} }

Init ==
  /\ \/ /\ side = "server" /\ session \in NewSession
        /\ \E r \in Requests : sent = r /\ msg = RequestDump(r) /\ inside = InRequestToken(msg)
     \/ /\ side = "client" /\ \E garbage \in {0, 1} : session = NewRequestParser(FALSE, garbage)
        /\ \E r \in Responses : /\ sent = [status |-> r.status, body |-> r.body] /\ msg = r.wire
                               /\ inside = InResponseToken(msg) \cup InChunkHeader(msg)
  /\ wire = msg /\ pc = "head" /\ buf = <<>> /\ body = <<>> /\ left = 0 /\ cut = FALSE
  /\ client = [parser |-> httpclient_parser_init, error |-> session.error, status |-> 200, headers |-> <<>>]

-----------------------------------------------------------------------------
(* HttpSession::recvRequest                                                *)

\* What both sides do with a length that was announced: the part of the body that is in the
\* buffer is copied, readFixSize fetches the rest.
TakeBody(length, rest) ==
  /\ body' = IF length > 0 THEN SubSeq(rest, 1, Min({length, Len(rest)})) ELSE <<>>
  /\ left' = IF length > 0 THEN length - Len(rest) ELSE 0
  /\ pc' = IF length - Len(rest) > 0 THEN "body" ELSE "have"

RecvRequest(n) ==
  /\ side = "server" /\ pc = "head"
  /\ Read(BuffSize - Len(buf), n)
  /\ \E r \in {RequestExecute(session, buf \o Piece(n))} :
       /\ session' = r.h /\ buf' = r.data
       /\ IF r.h.threw THEN pc' = "except" /\ UNCHANGED <<body, left>>
          ELSE IF RequestHasError(r.h) \/ Len(r.data) = BuffSize THEN pc' = "refused" /\ UNCHANGED <<body, left>>
          ELSE IF http_parser_is_finished(r.h.parser) THEN TakeBody(GetContentLength(r.h.data.headers), r.data)
          ELSE UNCHANGED <<pc, body, left>>
  /\ UNCHANGED <<side, sent, msg, inside, client>>

\* One turn of Stream::readFixSize.
ReadFixSize(n) ==
  /\ pc = "body" /\ Read(left, n)
  /\ body' = body \o Piece(n) /\ left' = left - n
  /\ pc' = IF left = n THEN "have" ELSE "body"
  /\ UNCHANGED <<side, sent, msg, inside, buf, session, client>>

\* A read that returns 0 or -1: the stream is closed and no message is returned.
ReadFails ==
  /\ pc \in {"head", "body", "chunk", "rest"}
  /\ ~ (pc = "chunk" /\ buf # <<>> /\ left = 0)
  /\ pc' = "refused"
  /\ UNCHANGED <<side, sent, msg, inside, wire, buf, session, client, body, left, cut>>

\* HttpServer::handleClient: answer, and go on with the connection or close it.  The buffer
\* of recvRequest is gone by then, with what it may have held of a further request.
HandleClient ==
  /\ side = "server" /\ pc = "have"
  /\ IF ~ Keepalive \/ session.data.close THEN pc' = "closed" /\ UNCHANGED <<buf, session, body>>
     ELSE pc' = "head" /\ buf' = <<>> /\ body' = <<>> /\ session' \in NewSession
  /\ UNCHANGED <<side, sent, msg, inside, wire, client, left, cut>>

-----------------------------------------------------------------------------
(* HttpConnection::recvResponse                                            *)

ResponseHasError(h) == h.error # 0 \/ h.parser.cs = "error"

ClientContentLength(headers) ==
  LET found == {i \in DOMAIN headers : headers[i].name = NameOf("length")}
  IN IF found = {} THEN 0 ELSE Strtol(headers[Max(found)].value, 0, 10)

RecvHead(n) ==
  /\ side = "client" /\ pc = "head"
  /\ Read(BuffSize - Len(buf), n)
  /\ \E r \in {ResponseExecute(client, buf \o Piece(n), FALSE)} :
       /\ client' = r.h /\ buf' = r.data
       /\ IF ResponseHasError(r.h) \/ Len(r.data) = BuffSize THEN pc' = "refused" /\ UNCHANGED <<body, left>>
          ELSE IF r.h.parser.cs # "final" THEN UNCHANGED <<pc, body, left>>
          ELSE IF r.h.parser.chunked THEN pc' = "chunk" /\ UNCHANGED <<body, left>>
          ELSE TakeBody(ClientContentLength(r.h.headers), r.data)
  /\ UNCHANGED <<side, sent, msg, inside, session>>

\* Mutant: the CR LF is forgotten.
NoTrailer == 0
\* The CR LF behind a chunk.
Trailer == 2

\* What follows a parsed chunk header: the chunk is in the buffer with its CR LF, or the rest
\* of it is read.  left counts both.
AfterChunkHeader(parser, rest) ==
  LET size == parser.content_len + Trailer
  IN IF size <= Len(rest)
     THEN /\ body' = body \o SubSeq(rest, 1, parser.content_len)
          /\ buf' = SubSeq(rest, size + 1, Len(rest))
          /\ left' = 0
          /\ pc' = IF parser.chunks_done THEN "have" ELSE "chunk"
     ELSE /\ body' = body \o rest /\ buf' = <<>> /\ left' = size - Len(rest) /\ pc' = "rest"

\* One turn of the loop over a chunk's header.  It reads unless it is the first turn and the
\* buffer holds something; left = 1 marks a turn that is not the first.
ChunkTurn(buffer) ==
  /\ \E r \in {ResponseExecute(client, buffer, TRUE)} :
       /\ client' = r.h
       /\ IF ResponseHasError(r.h) \/ Len(r.data) = BuffSize
          THEN pc' = "refused" /\ buf' = r.data /\ UNCHANGED <<body, left>>
          ELSE IF r.h.parser.cs # "final" THEN left' = 1 /\ buf' = r.data /\ UNCHANGED <<pc, body>>
          ELSE AfterChunkHeader(r.h.parser, r.data)
  /\ UNCHANGED <<side, sent, msg, inside, session>>

ChunkHeaderInBuffer ==
  /\ pc = "chunk" /\ buf # <<>> /\ left = 0
  /\ ChunkTurn(buf) /\ UNCHANGED <<wire, cut>>

ChunkHeaderRead(n) ==
  /\ pc = "chunk" /\ (buf = <<>> \/ left = 1)
  /\ Read(BuffSize - Len(buf), n)
  /\ ChunkTurn(buf \o Piece(n))

\* The loop that reads the rest of a chunk; the last two bytes are cut off at its end.
ChunkRest(n) ==
  LET all == body \o Piece(n)
  IN /\ pc = "rest" /\ Read(Min({left, BuffSize}), n)
     /\ left' = left - n
     /\ body' = IF left = n THEN SubSeq(all, 1, Len(all) - Trailer) ELSE all
     /\ pc' = IF left > n THEN "rest" ELSE IF client.parser.chunks_done THEN "have" ELSE "chunk"
     /\ UNCHANGED <<side, sent, msg, inside, buf, session, client>>

-----------------------------------------------------------------------------
Terminal == pc \in {"refused", "except", "closed"} \/ (pc = "have" /\ side = "client")
Done == Terminal /\ UNCHANGED vars

Pieces == 1 .. Len(wire)

Next ==
  \/ \E n \in Pieces : RecvRequest(n)
  \/ \E n \in Pieces : ReadFixSize(n)
  \/ ReadFails
  \/ HandleClient
  \/ \E n \in Pieces : RecvHead(n)
  \/ ChunkHeaderInBuffer
  \/ \E n \in Pieces : ChunkHeaderRead(n)
  \/ \E n \in Pieces : ChunkRest(n)
  \/ Done

Spec == Init /\ [][Next]_vars

-----------------------------------------------------------------------------
\* The reader's state keeps its shape: the buffer never holds more than buffer_size bytes,
\* and what a size_t counts, the bytes of a body that are still missing, is never negative.
TypeOK ==
  /\ side \in {"server", "client"}
  /\ pc \in {"head", "body", "chunk", "rest", "have", "refused", "except", "closed"}
  /\ Len(buf) <= BuffSize /\ left \in Nat /\ cut \in BOOLEAN
  /\ session.parser.cs \in States
  /\ client.parser.cs \in {e[3] : e \in ClientEdges} \cup {"start", "error"}

HeaderOf(req, name) == {req.headers[i].value : i \in {j \in DOMAIN req.headers : req.headers[j].name = name}}

\* What HttpConnection::sendRequest wrote is what recvRequest hands to the servlet, however
\* the network cuts the message, as long as no read ends inside a token: method, target,
\* version, every header and the body (http_session.cc:9-73 over http.cc:152-179).
HandedOverAsSent ==
  (side = "server" /\ pc \in {"have", "closed"} /\ ~ cut) =>
    /\ \A f \in {"method", "path", "query", "fragment", "version"} : session.data[f] = sent[f]
    /\ \A i \in DOMAIN sent.headers : HeaderOf(session.data, sent.headers[i].name) = {sent.headers[i].value}
    /\ body = sent.body

\* A request that HttpRequest::dump writes is refused only for one of these reasons: a read
\* failed, a read ended inside a token, m_error held garbage when the parser was made, or the
\* target holds a byte that counts only if uri_relaxed, which nothing initialises, is set.
RefusedForAReason ==
  (side = "server" /\ pc \in {"refused", "except"} /\ ~ cut /\ session.error = 0) =>
    \/ ~ http_parser_has_error(session.parser) /\ ~ session.threw
    \/ ~ session.parser.uri_relaxed /\ ToSet(sent.path) \cap {"^", "{", "}"} # {}

\* The one callback that may be handed a token outside the buffer is the query's: query_start
\* survives a call of http_parser_execute.  It takes a read that ended inside the query.
OnlyACutThrows == session.threw => cut

\* A request that goes through is the one that was sent; one that does not go through was
\* stopped for one of the few reasons the code has.
RequestRoundTrip == HandedOverAsSent /\ RefusedForAReason /\ OnlyACutThrows

\* recvResponse returns the status and the body the peer sent, chunked or not, however the
\* network cuts the message, as long as no read ends inside a token of the head or inside the
\* line that announces a chunk.  A head that is cut inside a token forgets the offsets of that
\* token, so a header or the status may be lost or the version be refused; the body of a
\* response that is not chunked then comes back whole or not at all, but never in part.
ResponseRoundTrip ==
  side = "client" =>
    /\ ~ cut => /\ pc = "have" => body = sent.body /\ client.status = sent.status
                /\ client.parser.cs # "error" /\ client.error \in {0, 1}
    /\ pc = "have" /\ ~ client.parser.chunked => body \in {sent.body, <<>>}

\* The assertions at the end of http_parser_execute, for every way to cut a request: the
\* offsets that are left over from earlier calls never reach past the buffer of the last one.
ParserAssertions == ~ session.threw => ExecuteAssertions(session.parser, session.nread, session.len)

\* The reader and its parser are in step: every offset and length either holds is one of the
\* buffer of the last call.
ReaderInv == TypeOK /\ ParserAssertions

\* Whatever bytes arrive in one call of http_parser_execute, no callback is handed the start
\* of an earlier token: on every path of the automaton each token sets its own offsets before
\* the action that ends it reads them (http11_parser.cc:117-6650).  Stated where reading begins.
EveryTokenBegins ==
  wire = msg =>
  \A x \in AllReached : \A e \in Out(TRUE, x[1]) : \A i \in DOMAIN e.do :
    Needs(e.do[i]) \subseteq Through(Set, x[2], SubSeq(e.do, 1, i - 1))
=============================================================================
