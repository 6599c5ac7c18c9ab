---------------------------- MODULE MCHttpParser ----------------------------
(***************************************************************************)
(* Clients for HttpParser.  A message is described by what it means; what  *)
(* is sent for it (Bytes) and the request a handler should see (Meaning)   *)
(* are both computed from the description.                                 *)
(***************************************************************************)
EXTENDS HttpParser, SequencesExt

CrLf == <<"cr", "lf">>
Host == <<<<"Host">>, <<"a">>>>
Line(h, eol) == h[1] \o <<":", "sp">> \o h[2] \o eol
Lines(hs, eol) == FlattenSeq([k \in DOMAIN hs |-> Line(hs[k], eol)])

(* Chunks: sequences of data, the size of each a hexadecimal digit.        *)
Size(data) == <<CASE Len(data) = 0 -> "0" [] Len(data) = 1 -> "1"
                  [] Len(data) = 2 -> "2">>
Chunk(data) == Size(data) \o CrLf \o data \o CrLf

(* A description: method, url, version, eol (the end of its lines),        *)
(* headers, framing ("none", "length" or "chunked") and parts, the body    *)
(* in pieces.                                                              *)
Body(d) == FlattenSeq(d.parts)

Framing(d) ==
  CASE d.framing = "none" -> <<>>
    [] d.framing = "length" -> <<<<<<"Content-Length">>, Size(Body(d))>>>>
    [] d.framing = "chunked" ->
         <<<<<<"Transfer-Encoding">>, <<"chunked">>>>>>

Headers(d) == Framing(d) \o d.headers

(* A value that goes on in another line is read without the line's end.    *)
Unfolded(h) == <<h[1], SelectSeq(h[2], LAMBDA c : c \notin {"cr", "lf"})>>

(* A header whose value is empty is dropped when another one follows it    *)
(* (parser.h:46), and kept in the last place (parser.h:78).                *)
Kept(hs) ==
  LET unfolded == [k \in DOMAIN hs |-> Unfolded(hs[k])]
      kept == SelectSeq([k \in DOMAIN hs |-> k],
                        LAMBDA k : k = Len(hs) \/ unfolded[k][2] # <<>>)
  IN [n \in DOMAIN kept |-> unfolded[kept[n]]]

Bytes(d) ==
  <<d.method, "sp">> \o d.url \o <<"sp", d.version>> \o d.eol
    \o Lines(Headers(d), d.eol) \o d.eol
    \o IF d.framing = "chunked"
         THEN FlattenSeq([k \in DOMAIN d.parts |-> Chunk(d.parts[k])])
                \o <<"0">> \o CrLf \o CrLf
         ELSE Body(d)

(* The header says so, with or without trailing spaces.                    *)
Says(d, name, word) ==
  \E k \in DOMAIN d.headers :
    d.headers[k] \in {<<<<name>>, <<word>>>>, <<<<name>>, <<word, "sp">>>>}

Path(url) ==
  LET q == SelectInSeq(url, LAMBDA c : c = "?")
  IN IF q = 0 THEN url ELSE SubSeq(url, 1, q - 1)

Meaning(d) ==
  [method |-> d.method, raw_url |-> d.url, url |-> Path(d.url),
   headers |-> Kept(Headers(d)), body |-> Body(d), version |-> d.version,
   keep_alive |->
     CASE d.version = "HTTP/1.1" -> TRUE
       [] d.version = "HTTP/1.0" -> Says(d, "Connection", "keep-alive")
       [] OTHER -> FALSE,
   close_connection |->
     CASE d.version = "HTTP/1.1" -> Says(d, "Connection", "close")
       [] d.version = "HTTP/1.0" -> ~Says(d, "Connection", "keep-alive")
       [] OTHER -> FALSE,
   upgrade |-> \E k \in DOMAIN d.headers : d.headers[k][1] = <<"Upgrade">>]

Good(d) == [bytes |-> Bytes(d), request |-> Meaning(d)]

(* A message no handler should see.                                        *)
Refused == [EmptyRequest EXCEPT !.version = "refused"]
Bad(bytes) == [bytes |-> bytes, request |-> Refused]

Simple(method, url, version, headers) ==
  [method |-> method, url |-> url, version |-> version, eol |-> CrLf,
   headers |-> headers, framing |-> "none", parts |-> <<>>]
With(d, framing, parts) == [d EXCEPT !.framing = framing, !.parts = parts]

Get == Simple("GET", <<"/", "a">>, "HTTP/1.1", <<Host>>)
Query == Simple("GET", <<"/", "a", "?", "b", "?">>, "HTTP/1.1", <<Host>>)
StreamedGet == [Get EXCEPT !.url = <<"/", "b">>]
Post == Simple("POST", <<"/", "a">>, "HTTP/1.1", <<Host>>)

RouteUrls == {<<"/", "a">>, <<"/", "b">>, <<"b", ":", "/", "/", "a", "/", "b">>}
StreamedUrls == {<<"/", "b">>}

ConnectionHeaders ==
  {<<<<"Connection">>, v>> : v \in {<<"close">>, <<"keep-alive">>,
      <<"close", "sp">>, <<"close", "b">>, <<"keep-alive", ",", "close">>,
      <<"b">>}}
    \cup {<<<<"Connection", "a">>, <<"close">>>>}

GoodOnes ==
  {Simple("GET", <<"/", "a">>, v, <<Host, h>>) :
     v \in {"HTTP/1.0", "HTTP/1.1", "HTTP/2.0"}, h \in ConnectionHeaders}
  \cup {With(Post, "length", p) : p \in {<<>>, <<<<"a">>>>, <<<<"a", "b">>>>}}
  \cup {With(Post, "chunked", p) :
          p \in {<<>>, <<<<"a">>>>, <<<<"a", "b">>, <<"b">>>>}}
  \cup {Query, [Get EXCEPT !.eol = <<"lf">>],
        [Get EXCEPT !.url = <<"b", ":", "/", "/", "a", "/", "b">>],
        [Get EXCEPT !.headers = <<Host, <<<<"a", "b">>, <<"a", ",", "b">>>>>>],
        [Get EXCEPT !.headers = <<Host, <<<<"Content-Length", "a">>, <<"1">>>>>>],
        [Get EXCEPT !.headers = <<Host, <<<<"b">>, <<>>>>>>],
        [Get EXCEPT !.headers = <<<<<<"b">>, <<>>>>, Host>>],
        [Get EXCEPT !.headers = <<Host, <<<<"b">>, <<>>>>, <<<<"a">>, <<"b">>>>>>],
        [Get EXCEPT !.headers = <<<<<<"Host">>, <<>>>>, <<<<"b">>, <<"a">>>>>>],
        [Get EXCEPT !.headers = <<Host, <<<<"b">>, <<"a", "cr", "lf", "sp", "b">>>>>>],
        [Get EXCEPT !.headers = <<Host, <<<<"Upgrade">>, <<"a">>>>>>],
        [Get EXCEPT !.headers = <<<<<<"b">>, <<"a">>>>>>]}

RequestLine == <<"POST", "sp", "/", "a", "sp", "HTTP/1.1">> \o CrLf
  \o Line(Host, CrLf)
LengthLine(v) == Line(<<<<"Content-Length">>, v>>, CrLf)
EncodingLine(v) == Line(<<<<"Transfer-Encoding">>, v>>, CrLf)

Chunked == RequestLine \o EncodingLine(<<"chunked">>) \o CrLf

BadOnes ==
  {RequestLine \o h \o CrLf \o <<"1", "cr", "lf", "a", "cr", "lf", "0", "cr",
                                 "lf", "cr", "lf">> :
     h \in {LengthLine(<<"2", "0", "1">>), LengthLine(<<"1", "sp", "1">>),
            LengthLine(<<"a">>), LengthLine(<<"1", "a">>),
            LengthLine(<<"1">>) \o LengthLine(<<"1">>),
            LengthLine(<<"1">>) \o EncodingLine(<<"chunked">>),
            EncodingLine(<<"gzip">>), EncodingLine(<<"chunked", ",", "gzip">>),
            Line(<<<<"b">>, <<"a", "nul">>>>, CrLf),
            <<"a", "sp", ":", "a">> \o CrLf}}
  \cup {Chunked \o <<"1", ";", "a", "cr", "lf", "a", "b">>,
         Chunked \o <<"1", "cr", "lf", "a", "cr", "b">>,
         <<"CONNECT", "sp", "a", ":", "1", "sp", "HTTP/1.1">> \o CrLf,
         <<"GET", "sp", "/", "b", "b", "sp", "HTTP/1.1">> \o CrLf,
         RequestLine \o <<"b", ":", "cr", "a">>,
         RequestLine \o <<"b", ":", "a", "cr", "a">>,
         RequestLine \o Line(<<<<"b">>, [k \in 1 .. 50 |-> "a"]>>, CrLf)}
  \cup {<<"sp">>, <<"GET", "sp", "?">>, <<"GET", "sp", "b", "/">>,
        <<"POST", "sp", "/", "a", "cr", "lf">>,
        <<"GET", "sp", "/", "a", "sp", "a">>,
        Chunked \o <<"1", "1", "9">>,
        Chunked \o <<"1", "cr", "a">>,
        Chunked
          \o <<"1", "cr", "lf", "a", "b">>,
        Chunked \o <<"a">>}

(* One message, and a second on the same connection, which is sent when    *)
(* the first has been answered or at once; or the end of a line between.   *)
Script(d, e) == [messages |-> <<d, e>>, pipelining |-> FALSE]
Pipelined(messages) == [messages |-> messages, pipelining |-> TRUE]
Posts == {With(Post, framing, <<<<"a">>>>) : framing \in {"length", "chunked"}}
RequestScripts ==
  {Script(Good(d), Good(e)) :
     d \in GoodOnes, e \in {Query, With(Post, "length", <<<<"a">>>>)}}
    \cup {Script(Good(With(Post, "chunked", <<<<"a">>>>)), Bad(b)) : b \in BadOnes}
    \cup {Pipelined(<<Good(StreamedGet), Good(e)>>) :
             e \in {Get, With(Post, "chunked", <<<<"a">>>>)}}
    \cup {Pipelined(<<Good(d), Good(Get)>>) : d \in {Get, With(Post, "length", <<<<"a">>>>)}}
    \cup {Pipelined(<<Good(d), Bad(<<"lf">>), Good(Get)>>) : d \in {Get} \cup Posts}

(* What it takes for a URL to arrive in two buffers.                       *)
SplitScripts == {Script(Good(Get), Good(Query))}

=============================================================================
