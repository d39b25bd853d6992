------------------------------- MODULE MCHttp -------------------------------
(* Small messages for HttpExchange.  Header names are two bytes long.      *)
EXTENDS HttpExchange

MCMethods == {GET, <<"P", "G", "T">>}
MCContentLength == <<"a", "v">>
MCConnection == <<"a", "g">>
MCClose == <<"a">>
MCKeepAlive == <<"g">>

Plain == [NewRequest EXCEPT !.version = 16]
Full ==
  [NewRequest EXCEPT !.method = <<"P", "G", "T">>, !.path = <<"/", "g">>, !.query = <<"a", "=", "a">>,
                     !.fragment = <<"v">>, !.headers = <<[name |-> <<"g", "v">>, value |-> <<"g", "g">>]>>,
                     !.body = <<"g", "a", "v">>]
Braced == [NewRequest EXCEPT !.path = <<"/", "{">>]
MCRequests == {Plain, Full, Braced}

Text(n) == [i \in 1 .. n |-> <<"data", i>>]
Chunk(size, text) == size \o <<<<"CR">>, <<"LF">>>> \o text \o <<<<"CR">>, <<"LF">>>>
Hex(d) == <<"hex", d>>
Ok == <<<<"digit", 2>>, <<"digit", 0>>>>
Chunked ==
  StatusLine(Ok) \o HeadLine("chunked", <<<<"digit", 1>>, <<"digit", 1>>>>) \o Blank
  \o Chunk(<<Hex(0), Hex(3)>>, Text(3)) \o Chunk(<<Hex(1)>>, Text(1)) \o Chunk(<<Hex(0)>>, <<>>)
Response(bytes, text) == [wire |-> bytes, status |-> 20, body |-> text]
MCResponses ==
  { Response(ResponseDump(Ok, Text(3)), Text(3)), Response(ResponseDump(Ok, <<>>), <<>>),
    Response(Chunked, Text(3) \o Text(1)),
    Response(SubSeq(Chunked, 1, Len(Chunked) - 16), Text(3)) }   \* the peer stops inside a chunk
=============================================================================
