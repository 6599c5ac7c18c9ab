-------------------------- MODULE HttpParser_proofs --------------------------
(***************************************************************************)
(* Theorems about HttpParser: what the parser keeps within bounds, for     *)
(* every client and however its bytes are cut into buffers.                *)
(***************************************************************************)
EXTENDS HttpParser, TLAPS

(* A record of all the fields of http_parser.                              *)
IsParser(p) ==
  p = [state |-> p.state, header_state |-> p.header_state, flags |-> p.flags,
       uses_transfer_encoding |-> p.uses_transfer_encoding,
       content_length |-> p.content_length, nread |-> p.nread, qs_point |-> p.qs_point,
       method |-> p.method, version |-> p.version, upgrade |-> p.upgrade,
       errno |-> p.errno, mark |-> p.mark, marked |-> p.marked, url_start |-> p.url_start]

(* Lengths that fit, headers within their limit, and nothing marked        *)
(* without a mark.                                                         *)
ParserOK(p) ==
  /\ IsParser(p)
  /\ p.content_length \in 0 .. UllMax
  /\ p.nread \in 0 .. MaxHeader
  /\ p.mark = "none" => p.marked = <<>>

(* A mark is only set in the states of what it marks; one of a body that   *)
(* ends with its buffer is set when the buffer is used up.                 *)
MarkFits(p, b) ==
  \/ p.mark = "none"
  \/ p.mark = "url" /\ p.state \in UrlStart \cup UrlRest
  \/ p.mark = "field" /\ p.state = "s_header_field"
  \/ p.mark = "value" /\ p.state = "s_header_value"
  \/ p.mark = "body" /\ p.state \in {"s_chunk_data", "s_chunk_data_almost_done"}
  \/ p.mark = "body" /\ p.state = "s_body_identity" /\ b = <<>>

(* The sequences of lexemes, and the client that sends them.               *)
Sequences ==
  /\ script \in Scripts /\ sent \in 0 .. Len(script.messages)
  /\ stream \in Seq(STRING) /\ buffer \in Seq(STRING)

(* A body that is being read has not ended.                                *)
BodyLeft(p) == p.state = "s_body_identity" => p.content_length # 0

(* Between two buffers nothing is marked, unless the parser has failed,    *)
(* and then nothing more is read.                                          *)
Marks ==
  /\ feed = "executing" => parser.errno = "OK" /\ MarkFits(parser, buffer)
  /\ feed # "executing" /\ parser.errno = "OK" => parser.mark = "none"
  /\ feed = "idle" /\ parser.errno # "OK" => socket = "closed"

(* The connection around the parser.                                       *)
Connected ==
  /\ feed \in {"idle", "executing", "returning"}
  /\ socket \in {"open", "draining", "closed"}
  /\ writing \in Nat

IInv == Sequences /\ ParserOK(parser) /\ BodyLeft(parser) /\ Marks /\ Connected

-----------------------------------------------------------------------------
(* A new connection has such a parser.                                     *)
LEMMA InitOK == Init => IInv
<1> SUFFICES ASSUME Init PROVE IInv
  OBVIOUS
<1>1. Sequences
  BY HttpParserAssumption DEF Init, Sequences
<1>2. IsParser(NewParser)
  BY DEF NewParser, IsParser
<1>3. NewParser.state = "s_start_req" /\ NewParser.content_length = 0 /\ NewParser.nread = 0 /\ NewParser.errno = "OK"
      /\ NewParser.mark = "none" /\ NewParser.marked = <<>>
  BY DEF NewParser
<1>4. ParserOK(parser) /\ BodyLeft(parser) /\ parser.errno = "OK" /\ parser.mark = "none"
  BY <1>2, <1>3, HttpParserAssumption DEF Init, ParserOK, BodyLeft
<1>5. Marks /\ Connected
  BY <1>4 DEF Init, Marks, Connected
<1> QED
  BY <1>1, <1>4, <1>5 DEF IInv

(* The parser after a byte.                                                *)
LEMMA PastIs ==
  ASSUME IInv, buffer # <<>>, InHeader(parser.state) => parser.nread < MaxHeader, NEW s
  PROVE  /\ ParserOK(Past(s))
         /\ Past(s).state = s /\ Past(s).mark = parser.mark /\ Past(s).errno = parser.errno
         /\ Past(s).content_length = parser.content_length
<1> DEFINE count == IF InHeader(parser.state) THEN parser.nread + 1 ELSE parser.nread
           read == IF parser.mark = "none" THEN <<>> ELSE Append(parser.marked, ch)
<1>1. IsParser(parser) /\ parser.nread \in 0 .. MaxHeader
      /\ parser.content_length \in 0 .. UllMax
  BY DEF IInv, ParserOK
<1>2. count \in 0 .. MaxHeader
  BY <1>1, HttpParserAssumption
<1>3. parser.mark = "none" => read = <<>>
  OBVIOUS
<1>4. Past(s) = [parser EXCEPT !.state = s, !.nread = count, !.marked = read]
  BY <1>1 DEF Past, IsParser
<1> HIDE DEF count, read
<1> SUFFICES ASSUME NEW r, r = [parser EXCEPT !.state = s, !.nread = count, !.marked = read]
             PROVE  /\ ParserOK(r)
                    /\ r.state = s /\ r.mark = parser.mark /\ r.errno = parser.errno
                    /\ r.content_length = parser.content_length
  BY <1>4, Zenon
<1>5. r.state = s /\ r.mark = parser.mark /\ r.errno = parser.errno /\ r.nread = count
      /\ r.content_length = parser.content_length /\ r.marked = read
  BY <1>1 DEF IsParser
<1>6. IsParser(r)
  BY <1>1 DEF IsParser
<1> QED
  BY <1>1, <1>2, <1>3, <1>5, <1>6 DEF ParserOK

(* The states in which something may be marked.                            *)
Marked ==
  UrlStart \cup UrlRest
    \cup {"s_header_field", "s_header_value", "s_chunk_data", "s_chunk_data_almost_done"}

(* What holds when a byte is processed in a state.                         *)
LEMMA AtIs ==
  ASSUME IInv, NEW s, At(s)
  PROVE  /\ feed = "executing" /\ parser.errno = "OK" /\ buffer # <<>> /\ parser.state = s
         /\ InHeader(parser.state) => parser.nread < MaxHeader
         /\ s \notin Marked => parser.mark = "none"
         /\ MarkFits(parser, buffer)
<1>1. /\ feed = "executing" /\ parser.errno = "OK" /\ buffer # <<>> /\ parser.state = s
      /\ InHeader(parser.state) => parser.nread < MaxHeader
  BY DEF At
<1>2. MarkFits(parser, buffer)
  BY <1>1 DEF IInv, Marks
<1>3. s \notin Marked => parser.mark = "none"
  BY <1>1, <1>2 DEF Marked, MarkFits
<1> QED
  BY <1>1, <1>2, <1>3

(* The buffer without its first lexeme.                                    *)
LEMMA ConsumeIs ==
  ASSUME IInv, buffer # <<>>, Consume
  PROVE  buffer' \in Seq(STRING)
BY DEF IInv, Sequences, Consume

(* The parser goes on with the buffer.                                     *)
LEMMA GoesOn ==
  ASSUME IInv, feed = "executing", UNCHANGED <<client, stream, feed, connection>>,
         buffer' \in Seq(STRING), ParserOK(parser'), parser'.errno = "OK",
         BodyLeft(parser'), MarkFits(parser', buffer')
  PROVE  IInv'
<1>1. Sequences' /\ Connected'
  BY DEF IInv, Sequences, Connected, client, connection
<1>2. Marks'
  BY DEF Marks
<1> QED
  BY <1>1, <1>2 DEF IInv

(* It fails.                                                               *)
LEMMA FailKeeps ==
  ASSUME IInv, feed = "executing", NEW e, e # "OK", Fail(e)
  PROVE  IInv'
<1>1. IsParser(parser) /\ ParserOK(parser)
  BY DEF IInv, ParserOK
<1>2. parser' = [parser EXCEPT !.errno = e]
  BY DEF Fail
<1>3. /\ parser'.errno = e /\ parser'.mark = parser.mark /\ parser'.marked = parser.marked
      /\ parser'.content_length = parser.content_length /\ parser'.nread = parser.nread
      /\ parser'.state = parser.state /\ IsParser(parser')
  BY <1>1, <1>2 DEF IsParser
<1>4. ParserOK(parser') /\ BodyLeft(parser')
  BY <1>1, <1>3 DEF ParserOK, IInv, BodyLeft
<1>5. Sequences' /\ Connected' /\ feed' = "returning"
  BY DEF IInv, Sequences, Connected, Fail, Silent, client, connection
<1>6. Marks'
  BY <1>3, <1>5 DEF Marks
<1> QED
  BY <1>4, <1>5, <1>6 DEF IInv

(* It goes to another state with a byte, of no mark.                       *)
LEMMA GoKeeps ==
  ASSUME IInv, NEW s, At(s), s \notin Marked, NEW t, t # "s_body_identity", Go(t)
  PROVE  IInv'
<1>1. /\ feed = "executing" /\ parser.errno = "OK" /\ buffer # <<>> /\ parser.mark = "none"
      /\ InHeader(parser.state) => parser.nread < MaxHeader
  BY AtIs
<1>2. ParserOK(parser') /\ parser'.mark = "none" /\ parser'.errno = "OK" /\ BodyLeft(parser')
  BY <1>1, PastIs DEF Go, BodyLeft
<1>3. buffer' \in Seq(STRING)
  BY <1>1, ConsumeIs DEF Go
<1> QED
  BY <1>1, <1>2, <1>3, GoesOn DEF Go, Silent, MarkFits

(* Or without one.                                                         *)
LEMMA ReexecuteKeeps ==
  ASSUME IInv, NEW s, At(s), s \notin Marked, NEW t, t # "s_body_identity", Reexecute(t)
  PROVE  IInv'
<1>1. /\ feed = "executing" /\ parser.errno = "OK" /\ parser.mark = "none"
  BY AtIs
<1>2. IsParser(parser) /\ ParserOK(parser)
  BY DEF IInv, ParserOK
<1>3. parser' = [parser EXCEPT !.state = t]
  BY DEF Reexecute
<1>4. /\ parser'.errno = "OK" /\ parser'.mark = "none" /\ parser'.marked = parser.marked
      /\ parser'.content_length = parser.content_length /\ parser'.nread = parser.nread
      /\ parser'.state = t /\ IsParser(parser')
  BY <1>1, <1>2, <1>3 DEF IsParser
<1>5. /\ ParserOK(parser') /\ MarkFits(parser', buffer') /\ buffer' \in Seq(STRING)
      /\ BodyLeft(parser')
  BY <1>1, <1>2, <1>4 DEF ParserOK, MarkFits, Reexecute, IInv, Sequences, BodyLeft
<1> QED
  BY <1>1, <1>4, <1>5, GoesOn DEF Reexecute, Silent

(* What Unmarked does.                                                     *)
LEMMA UnmarkedIs ==
  ASSUME NEW p, ParserOK(p)
  PROVE  /\ ParserOK(Unmarked(p)) /\ Unmarked(p).mark = "none" /\ Unmarked(p).errno = p.errno
         /\ Unmarked(p).state = p.state
<1>1. Unmarked(p) = [p EXCEPT !.mark = "none", !.marked = <<>>]
  BY DEF Unmarked
<1> SUFFICES ASSUME NEW r, r = [p EXCEPT !.mark = "none", !.marked = <<>>]
             PROVE  ParserOK(r) /\ r.mark = "none" /\ r.errno = p.errno /\ r.state = p.state
  BY <1>1, Zenon
<1>2. /\ r.mark = "none" /\ r.errno = p.errno /\ r.marked = <<>> /\ r.state = p.state
      /\ r.content_length = p.content_length /\ r.nread = p.nread /\ IsParser(r)
  BY DEF ParserOK, IsParser
<1> QED
  BY <1>2 DEF ParserOK

(* After the callback of a URL nothing is marked.                          *)
LEMMA OnUrlIs ==
  ASSUME IInv, NEW p, ParserOK(p), OnUrl(p)
  PROVE  /\ ParserOK(parser') /\ parser'.mark = "none" /\ parser'.state = p.state
         /\ writing' \in Nat /\ socket' = socket
<1>1. ParserOK(Unmarked(p)) /\ Unmarked(p).mark = "none" /\ Unmarked(p).state = p.state
  BY UnmarkedIs
<1>2. ASSUME parser' = Unmarked(p), UNCHANGED connection
      PROVE  /\ ParserOK(parser') /\ parser'.mark = "none" /\ parser'.state = p.state
             /\ writing' \in Nat /\ socket' = socket
  BY <1>1, <1>2 DEF IInv, Connected, connection
<1>3. ASSUME NEW w, Answer(404, Unmarked([p EXCEPT !.errno = "INVALID_EOF_STATE"]), w, FALSE)
      PROVE  /\ ParserOK(parser') /\ parser'.mark = "none" /\ parser'.state = p.state
             /\ writing' \in Nat /\ socket' = socket
  <2>1. ASSUME NEW r, r = [p EXCEPT !.errno = "INVALID_EOF_STATE"] PROVE ParserOK(r) /\ r.state = p.state
    <3>1. /\ r.mark = p.mark /\ r.marked = p.marked /\ IsParser(r)
          /\ r.content_length = p.content_length /\ r.nread = p.nread /\ r.state = p.state
      BY <2>1 DEF ParserOK, IsParser
    <3> QED
      BY <3>1 DEF ParserOK
  <2>2. PICK r : r = [p EXCEPT !.errno = "INVALID_EOF_STATE"]
    OBVIOUS
  <2>3. ParserOK(r) /\ r.state = p.state
    BY <2>1, <2>2, Zenon
  <2>4. parser' = Unmarked(r) /\ writing' = writing + 1 /\ socket' = socket
    BY <1>3, <2>2 DEF Answer
  <2> QED
    BY <2>3, <2>4, UnmarkedIs DEF IInv, Connected
<1> QED
  BY <1>2, <1>3, Zenon DEF OnUrl

(* Nor after the end of a message, before which nothing was.               *)
LEMMA OnMessageCompleteIs ==
  ASSUME IInv, NEW p, ParserOK(p), p.mark = "none", OnMessageComplete(p)
  PROVE  /\ ParserOK(parser') /\ parser'.mark = "none" /\ parser'.errno = p.errno
         /\ parser'.state \in {p.state, "s_start_req"}
         /\ writing' \in Nat /\ socket' \in {"open", "draining", "closed"}
<1> DEFINE Good == /\ ParserOK(parser') /\ parser'.mark = "none" /\ parser'.errno = p.errno
                   /\ parser'.state \in {p.state, "s_start_req"}
                   /\ writing' \in Nat /\ socket' \in {"open", "draining", "closed"}
<1>1. ASSUME parser' = p, UNCHANGED <<socket, writing>> PROVE Good
  BY <1>1 DEF IInv, Connected
<1>2. ASSUME NEW code, NEW w, NEW streamed, Answer(code, p, w, streamed) PROVE Good
  <2>1. CASE streamed
    <3>1. parser' = [p EXCEPT !.state = "s_start_req", !.qs_point = 0]
      BY <1>2, <2>1 DEF Answer
    <3>2. /\ parser'.mark = p.mark /\ parser'.errno = p.errno /\ parser'.marked = p.marked
          /\ parser'.content_length = p.content_length /\ parser'.nread = p.nread
          /\ parser'.state = "s_start_req" /\ IsParser(parser')
      BY <3>1 DEF ParserOK, IsParser
    <3>3. ParserOK(parser')
      BY <3>2 DEF ParserOK
    <3>4. writing' \in Nat /\ socket' \in {"open", "draining", "closed"}
      BY <1>2, <2>1 DEF Answer, IInv, Connected
    <3> QED
      BY <3>2, <3>3, <3>4
  <2>2. CASE ~streamed
    BY <1>2, <2>2 DEF Answer, IInv, Connected
  <2> QED
    BY <2>1, <2>2
<1> HIDE DEF Good
<1>3. Good
  BY <1>1, <1>2, Zenon DEF OnMessageComplete
<1> QED
  BY <1>3 DEF Good

(* A callback was called for the byte.                                     *)
LEMMA CalledKeeps ==
  ASSUME IInv, buffer # <<>>, Called, ParserOK(parser'), parser'.mark = "none",
         BodyLeft(parser'),
         writing' \in Nat, socket' \in {"open", "draining", "closed"}
  PROVE  IInv'
<1>1. buffer' \in Seq(STRING)
  BY ConsumeIs DEF Called
<1>2. Sequences' /\ Connected'
  BY <1>1 DEF IInv, Sequences, Connected, Called, client
<1>3. Marks'
  BY DEF Marks, Called, MarkFits
<1> QED
  BY <1>2, <1>3 DEF IInv

-----------------------------------------------------------------------------
(* parse_url_char stays in the states of a URL, or finds it dead.          *)
LEMMA UrlNextIs ==
  ASSUME NEW s, NEW c
  PROVE  UrlNext(s, c) \in UrlStart \cup UrlRest \cup {"s_dead"}
<1> DEFINE server == CASE c = "/" -> "s_req_path"
                       [] c = "?" -> "s_req_query_string_start"
                       [] c = "@" /\ s # "s_req_server_with_at" -> "s_req_server_with_at"
                       [] IsUserInfoChar(c) -> "s_req_server"
                       [] OTHER -> "s_dead"
<1>1. server \in UrlRest \cup {"s_dead"}
  BY DEF UrlRest
<1>2. UrlNext(s, c) =
        CASE s = "s_req_spaces_before_url" /\ c \in {"/", "*"} -> "s_req_path"
          [] s = "s_req_spaces_before_url" /\ c \in Alpha -> "s_req_schema"
          [] s = "s_req_schema" /\ c \in Alpha -> s
          [] s = "s_req_schema" /\ c = ":" -> "s_req_schema_slash"
          [] s = "s_req_schema_slash" /\ c = "/" -> "s_req_schema_slash_slash"
          [] s = "s_req_schema_slash_slash" /\ c = "/" -> "s_req_server_start"
          [] s \in {"s_req_server_start", "s_req_server", "s_req_server_with_at"} -> server
          [] s = "s_req_path" /\ IsUrlChar(c) -> s
          [] s = "s_req_path" /\ c = "?" -> "s_req_query_string_start"
          [] s \in {"s_req_query_string_start", "s_req_query_string"}
               /\ (IsUrlChar(c) \/ c = "?") -> "s_req_query_string"
          [] OTHER -> "s_dead"
  BY Zenon DEF UrlNext
<1> HIDE DEF server
<1> QED
  BY <1>1, <1>2 DEF UrlStart, UrlRest

(* A character of the URL, when p is the parser with it read.              *)
LEMMA UrlCharKeeps ==
  ASSUME IInv, feed = "executing", buffer # <<>>, NEW p, ParserOK(p), p.mark \in {"none", "url"},
         p.errno = "OK", NEW s, UrlChar(p, s)
  PROVE  IInv'
<1> DEFINE t == UrlNext(s, ch)
           point == IF t # "s_req_query_string_start" THEN p.qs_point
                    ELSE IF p.url_start THEN Len(p.marked) - 1
                    ELSE UllMax
<1>1. CASE t = "s_dead"
  BY <1>1, FailKeeps DEF UrlChar
<1>2. CASE t # "s_dead"
  <2>1. t \in UrlStart \cup UrlRest
    BY <1>2, UrlNextIs
  <2>2. parser' = [p EXCEPT !.state = t, !.qs_point = point]
        /\ Consume /\ Silent /\ UNCHANGED feed
    BY <1>2 DEF UrlChar, ParserOK, IsParser
  <2> HIDE DEF t, point
  <2>3. /\ parser'.mark = p.mark /\ parser'.errno = p.errno /\ parser'.marked = p.marked
        /\ parser'.content_length = p.content_length /\ parser'.nread = p.nread
        /\ IsParser(parser') /\ parser'.state = t
    BY <2>2 DEF ParserOK, IsParser
  <2>4. ParserOK(parser')
    BY <2>3 DEF ParserOK
  <2>5. buffer' \in Seq(STRING) /\ MarkFits(parser', buffer') /\ BodyLeft(parser')
    BY <2>1, <2>2, <2>3, ConsumeIs DEF MarkFits, BodyLeft, UrlStart, UrlRest
  <2> QED
    BY <2>2, <2>3, <2>4, <2>5, GoesOn DEF Silent
<1> QED
  BY <1>1, <1>2

(* The request line.                                                       *)
LEMMA StartReqKeeps == IInv /\ StartReq => IInv'
<1> SUFFICES ASSUME IInv, StartReq PROVE IInv'
  OBVIOUS
<1>1. At("s_start_req") /\ "s_start_req" \notin Marked
  BY DEF StartReq, Marked, UrlStart, UrlRest
<1>2. /\ feed = "executing" /\ parser.errno = "OK" /\ buffer # <<>> /\ parser.mark = "none"
      /\ InHeader(parser.state) => parser.nread < MaxHeader
  BY <1>1, AtIs
<1> DEFINE p == Past("s_req_spaces_before_url")
<1>3. ASSUME parser' = [p EXCEPT !.flags = {}, !.uses_transfer_encoding = FALSE,
                                 !.content_length = UllMax, !.method = ch],
             Consume, Silent, UNCHANGED feed
      PROVE  IInv'
  <2>1. ParserOK(p) /\ p.mark = "none" /\ p.errno = "OK" /\ p.state = "s_req_spaces_before_url"
    BY <1>2, PastIs
  <2> HIDE DEF p
  <2>2. /\ parser'.state = p.state /\ parser'.mark = p.mark /\ parser'.errno = p.errno /\ parser'.marked = p.marked
        /\ parser'.content_length = UllMax /\ parser'.nread = p.nread /\ IsParser(parser')
    BY <1>3, <2>1 DEF ParserOK, IsParser
  <2>3. ParserOK(parser')
    BY <2>1, <2>2, HttpParserAssumption DEF ParserOK
  <2>4. buffer' \in Seq(STRING) /\ MarkFits(parser', buffer') /\ BodyLeft(parser')
    BY <1>2, <1>3, <2>1, <2>2, ConsumeIs DEF MarkFits, BodyLeft
  <2> QED
    BY <1>2, <1>3, <2>1, <2>2, <2>3, <2>4, GoesOn DEF Silent
<1>4. \/ Go("s_start_req") \/ Fail("INVALID_METHOD")
      \/ /\ parser' = [p EXCEPT !.flags = {}, !.uses_transfer_encoding = FALSE,
                                !.content_length = UllMax, !.method = ch]
         /\ Consume /\ Silent /\ UNCHANGED feed
  BY DEF StartReq
<1> QED
  BY <1>1, <1>2, <1>3, <1>4, GoKeeps, FailKeeps

(* The spaces before the URL.                                              *)
LEMMA SpacesBeforeUrlKeeps == IInv /\ SpacesBeforeUrl => IInv'
<1> SUFFICES ASSUME IInv, SpacesBeforeUrl PROVE IInv'
  OBVIOUS
<1>1. At("s_req_spaces_before_url") /\ "s_req_spaces_before_url" \notin Marked
  BY DEF SpacesBeforeUrl, Marked, UrlStart, UrlRest
<1>2. /\ feed = "executing" /\ parser.errno = "OK" /\ buffer # <<>> /\ parser.mark = "none"
      /\ InHeader(parser.state) => parser.nread < MaxHeader
  BY <1>1, AtIs
<1>3. CASE Go("s_req_spaces_before_url")
  BY <1>1, <1>3, GoKeeps
<1>4. ASSUME NEW s, UrlChar([Past(parser.state) EXCEPT !.mark = "url", !.marked = <<ch>>,
                                                       !.url_start = TRUE], s)
      PROVE  IInv'
  <2> DEFINE p == Past(parser.state)
  <2>1. ParserOK(p) /\ p.errno = "OK"
    BY <1>2, PastIs
  <2>2. UrlChar([p EXCEPT !.mark = "url", !.marked = <<ch>>, !.url_start = TRUE], s)
    BY <1>4
  <2> HIDE DEF p
  <2>3. PICK r : r = [p EXCEPT !.mark = "url", !.marked = <<ch>>, !.url_start = TRUE]
    OBVIOUS
  <2>4. /\ r.mark = "url" /\ r.errno = p.errno /\ r.content_length = p.content_length
        /\ r.nread = p.nread /\ IsParser(r)
    BY <2>1, <2>3 DEF ParserOK, IsParser
  <2>5. ParserOK(r)
    BY <2>1, <2>4 DEF ParserOK
  <2>6. UrlChar(r, s)
    BY <2>2, <2>3, Zenon
  <2> QED
    BY <1>2, <2>1, <2>4, <2>5, <2>6, UrlCharKeeps
<1> QED
  BY <1>3, <1>4, Zenon DEF SpacesBeforeUrl

(* In the states of a URL nothing else is marked.                          *)
LEMMA InUrl ==
  ASSUME IInv, NEW s \in UrlStart \cup UrlRest, At(s)
  PROVE  parser.mark \in {"none", "url"}
<1>1. MarkFits(parser, buffer) /\ parser.state = s
  BY AtIs
<1>2. s \notin {"s_header_field", "s_header_value", "s_chunk_data",
                "s_chunk_data_almost_done", "s_body_identity"}
  BY DEF UrlStart, UrlRest
<1> QED
  BY <1>1, <1>2 DEF MarkFits

(* The first character of the URL opens its mark.                          *)
LEMMA UrlBeginsKeeps == IInv /\ UrlBegins => IInv'
<1> SUFFICES ASSUME IInv, NEW s \in UrlStart, At(s), UrlChar(Past(s), s) PROVE IInv'
  BY DEF UrlBegins
<1>1. ParserOK(Past(s)) /\ Past(s).mark \in {"none", "url"} /\ Past(s).errno = "OK"
      /\ feed = "executing" /\ buffer # <<>>
  BY AtIs, PastIs, InUrl
<1> QED
  BY <1>1, UrlCharKeeps

(* The characters of the URL, and what ends it.                            *)
LEMMA UrlKeeps == IInv /\ Url => IInv'
<1> SUFFICES ASSUME IInv, Url PROVE IInv'
  OBVIOUS
<1> DEFINE Lines == {"s_req_line_almost_done", "s_header_field_start"}
           Old(t, v) == /\ OnUrl([Past(t) EXCEPT !.marked = parser.marked, !.version = v])
                        /\ Called
<1>1. PICK s \in UrlRest :
        /\ At(s)
        /\ \/ \E t \in Lines : \E v : Old(t, v)
           \/ OnUrl([Past("s_req_http_start") EXCEPT !.marked = parser.marked]) /\ Called
           \/ Fail("INVALID_VERSION")
           \/ UrlChar(Past(s), s)
  BY Zenon DEF Url
<1>2. /\ feed = "executing" /\ parser.errno = "OK" /\ buffer # <<>>
      /\ InHeader(parser.state) => parser.nread < MaxHeader
  BY <1>1, AtIs
<1>3. CASE Fail("INVALID_VERSION")
  BY <1>2, <1>3, FailKeeps
<1>4. CASE UrlChar(Past(s), s)
  <2>1. ParserOK(Past(s)) /\ Past(s).mark \in {"none", "url"} /\ Past(s).errno = "OK"
    BY <1>1, <1>2, PastIs, InUrl
  <2> QED
    BY <1>2, <1>4, <2>1, UrlCharKeeps
<1>5. ASSUME NEW p, ParserOK(p), p.state # "s_body_identity", OnUrl(p), Called PROVE IInv'
  <2>1. /\ ParserOK(parser') /\ parser'.mark = "none" /\ parser'.state = p.state
        /\ writing' \in Nat /\ socket' \in {"open", "draining", "closed"}
    BY <1>5, OnUrlIs DEF IInv, Connected
  <2> QED
    BY <1>2, <1>5, <2>1, CalledKeeps DEF BodyLeft
<1>6. ASSUME NEW t, NEW p, ParserOK(p), p.mark = parser.mark, NEW r,
             r.mark = p.mark, r.marked = parser.marked, r.content_length = p.content_length,
             r.nread = p.nread, IsParser(r)
      PROVE  ParserOK(r)
  <2>1. parser.mark = "none" => parser.marked = <<>>
    BY DEF IInv, ParserOK
  <2> QED
    BY <1>6, <2>1 DEF ParserOK
<1>7. ASSUME NEW t \in {"s_req_line_almost_done", "s_header_field_start"}, NEW v,
             OnUrl([Past(t) EXCEPT !.marked = parser.marked, !.version = v]), Called
      PROVE  IInv'
  <2> DEFINE p == Past(t)
  <2>1. ParserOK(p) /\ p.mark = parser.mark /\ p.state # "s_body_identity"
    BY <1>2, PastIs
  <2>2. OnUrl([p EXCEPT !.marked = parser.marked, !.version = v])
    BY <1>7
  <2> HIDE DEF p
  <2>3. PICK r : r = [p EXCEPT !.marked = parser.marked, !.version = v]
    OBVIOUS
  <2>4. /\ r.mark = p.mark /\ r.marked = parser.marked /\ r.content_length = p.content_length
        /\ r.nread = p.nread /\ IsParser(r) /\ r.state = p.state
    BY <2>1, <2>3 DEF ParserOK, IsParser
  <2>5. ParserOK(r)
    BY <1>6, <2>1, <2>4
  <2>6. OnUrl(r)
    BY <2>2, <2>3, Zenon
  <2> QED
    BY <1>5, <1>7, <2>1, <2>4, <2>5, <2>6
<1>8. ASSUME OnUrl([Past("s_req_http_start") EXCEPT !.marked = parser.marked]), Called
      PROVE  IInv'
  <2> DEFINE p == Past("s_req_http_start")
  <2>1. ParserOK(p) /\ p.mark = parser.mark /\ p.state # "s_body_identity"
    BY <1>2, PastIs
  <2>2. OnUrl([p EXCEPT !.marked = parser.marked])
    BY <1>8
  <2> HIDE DEF p
  <2>3. PICK r : r = [p EXCEPT !.marked = parser.marked]
    OBVIOUS
  <2>4. /\ r.mark = p.mark /\ r.marked = parser.marked /\ r.content_length = p.content_length
        /\ r.nread = p.nread /\ IsParser(r) /\ r.state = p.state
    BY <2>1, <2>3 DEF ParserOK, IsParser
  <2>5. ParserOK(r)
    BY <1>6, <2>1, <2>4
  <2>6. OnUrl(r)
    BY <2>2, <2>3, Zenon
  <2> QED
    BY <1>5, <1>8, <2>1, <2>4, <2>5, <2>6
<1>9. CASE /\ OnUrl([Past("s_req_http_start") EXCEPT !.marked = parser.marked])
           /\ Called
  BY <1>8, <1>9, Zenon
<1>10. ASSUME NEW t \in Lines, NEW v, Old(t, v) PROVE IInv'
  BY <1>7, <1>10, Zenon
<1> HIDE DEF Old, Lines
<1> QED
  BY <1>1, <1>3, <1>4, <1>9, <1>10, Zenon

(* A state of the line ends, or of what is passed over.                    *)
LEMMA HttpEndKeeps == IInv /\ HttpEnd => IInv'
<1> SUFFICES ASSUME IInv, HttpEnd PROVE IInv'
  OBVIOUS
<1>1. At("s_req_http_end") /\ "s_req_http_end" \notin Marked
  BY DEF HttpEnd, Marked, UrlStart, UrlRest
<1>2. feed = "executing"
  BY <1>1, AtIs
<1>3. Go("s_req_line_almost_done") \/ Go("s_header_field_start") \/ Fail("INVALID_VERSION")
  BY DEF HttpEnd
<1> QED
  BY <1>1, <1>2, <1>3, GoKeeps, FailKeeps

(* A state of the line ends, or of what is passed over.                    *)
LEMMA LineAlmostDoneKeeps == IInv /\ LineAlmostDone => IInv'
<1> SUFFICES ASSUME IInv, LineAlmostDone PROVE IInv'
  OBVIOUS
<1>1. At("s_req_line_almost_done") /\ "s_req_line_almost_done" \notin Marked
  BY DEF LineAlmostDone, Marked, UrlStart, UrlRest
<1>2. feed = "executing"
  BY <1>1, AtIs
<1>3. Go("s_header_field_start") \/ Fail("LF_EXPECTED")
  BY DEF LineAlmostDone
<1> QED
  BY <1>1, <1>2, <1>3, GoKeeps, FailKeeps

(* A state of the line ends, or of what is passed over.                    *)
LEMMA DiscardWsAlmostDoneKeeps == IInv /\ DiscardWsAlmostDone => IInv'
<1> SUFFICES ASSUME IInv, DiscardWsAlmostDone PROVE IInv'
  OBVIOUS
<1>1. At("s_header_value_discard_ws_almost_done") /\ "s_header_value_discard_ws_almost_done" \notin Marked
  BY DEF DiscardWsAlmostDone, Marked, UrlStart, UrlRest
<1>2. feed = "executing"
  BY <1>1, AtIs
<1>3. Go("s_header_value_discard_lws") \/ Fail("STRICT")
  BY DEF DiscardWsAlmostDone
<1> QED
  BY <1>1, <1>2, <1>3, GoKeeps, FailKeeps

(* A state of the line ends, or of what is passed over.                    *)
LEMMA HeaderAlmostDoneKeeps == IInv /\ HeaderAlmostDone => IInv'
<1> SUFFICES ASSUME IInv, HeaderAlmostDone PROVE IInv'
  OBVIOUS
<1>1. At("s_header_almost_done") /\ "s_header_almost_done" \notin Marked
  BY DEF HeaderAlmostDone, Marked, UrlStart, UrlRest
<1>2. feed = "executing"
  BY <1>1, AtIs
<1>3. Go("s_header_value_lws") \/ Fail("LF_EXPECTED")
  BY DEF HeaderAlmostDone
<1> QED
  BY <1>1, <1>2, <1>3, GoKeeps, FailKeeps

(* A state of the line ends, or of what is passed over.                    *)
LEMMA ChunkParametersKeeps == IInv /\ ChunkParameters => IInv'
<1> SUFFICES ASSUME IInv, ChunkParameters PROVE IInv'
  OBVIOUS
<1>1. At("s_chunk_parameters") /\ "s_chunk_parameters" \notin Marked
  BY DEF ChunkParameters, Marked, UrlStart, UrlRest
<1>2. feed = "executing"
  BY <1>1, AtIs
<1>3. \E t \in {"s_chunk_size_almost_done", "s_chunk_parameters"} : Go(t)
  BY <1>1, AtIs DEF ChunkParameters
<1> QED
  BY <1>1, <1>2, <1>3, GoKeeps, FailKeeps

(* The parser went on with a byte: it is as Past leaves it, but for what   *)
(* else the action sets, and has no mark.                                  *)
LEMMA PlainKeeps ==
  ASSUME IInv, NEW s, At(s), s \notin Marked, NEW t, IsParser(parser'), NEW p, p = Past(t),
         BodyLeft(parser'),
         parser'.mark = p.mark, parser'.errno = p.errno, parser'.marked = p.marked,
         parser'.nread \in {p.nread, 0}, parser'.content_length \in 0 .. UllMax,
         Consume, Silent, UNCHANGED feed
  PROVE  IInv'
<1>1. /\ feed = "executing" /\ parser.errno = "OK" /\ buffer # <<>> /\ parser.mark = "none"
      /\ InHeader(parser.state) => parser.nread < MaxHeader
  BY AtIs
<1>2. ParserOK(p) /\ p.mark = "none" /\ p.errno = "OK"
  BY <1>1, PastIs
<1>3. ParserOK(parser') /\ MarkFits(parser', buffer') /\ buffer' \in Seq(STRING)
  BY <1>1, <1>2, ConsumeIs, HttpParserAssumption DEF ParserOK, MarkFits
<1> QED
  BY <1>1, <1>2, <1>3, GoesOn DEF Silent

(* The parser Past leaves.                                                 *)
LEMMA PastOK ==
  ASSUME IInv, NEW s, At(s), NEW t
  PROVE  ParserOK(Past(t)) /\ IsParser(Past(t))
BY AtIs, PastIs DEF ParserOK

(* The version is read.                                                    *)
LEMMA HttpVersionKeeps == IInv /\ HttpVersion => IInv'
<1> SUFFICES ASSUME IInv, HttpVersion PROVE IInv'
  OBVIOUS
<1>1. At("s_req_http_start") /\ "s_req_http_start" \notin Marked
  BY DEF HttpVersion, Marked, UrlStart, UrlRest
<1>2. feed = "executing"
  BY <1>1, AtIs
<1> DEFINE p == Past("s_req_http_end")
<1>3. ASSUME parser' = [p EXCEPT !.version = ch], Consume, Silent, UNCHANGED feed PROVE IInv'
  <2>1. ParserOK(p) /\ IsParser(p) /\ p = Past("s_req_http_end") /\ p.state = "s_req_http_end"
    BY <1>1, PastOK, PastIs, AtIs
  <2> HIDE DEF p
  <2>2. /\ parser'.mark = p.mark /\ parser'.errno = p.errno /\ parser'.marked = p.marked
        /\ parser'.content_length = p.content_length /\ parser'.nread = p.nread
        /\ IsParser(parser') /\ parser'.state = "s_req_http_end"
    BY <1>3, <2>1 DEF IsParser
  <2> QED
    BY <1>1, <1>3, <2>1, <2>2, PlainKeeps DEF ParserOK, BodyLeft
<1>4. \/ Go("s_req_http_start") \/ Fail("INVALID_CONSTANT")
      \/ parser' = [p EXCEPT !.version = ch] /\ Consume /\ Silent /\ UNCHANGED feed
  BY DEF HttpVersion
<1> QED
  BY <1>1, <1>2, <1>3, <1>4, GoKeeps, FailKeeps

(* A header begins, or the line that ends them.                            *)
LEMMA HeaderFieldStartKeeps == IInv /\ HeaderFieldStart => IInv'
<1> SUFFICES ASSUME IInv, HeaderFieldStart PROVE IInv'
  OBVIOUS
<1>1. At("s_header_field_start") /\ "s_header_field_start" \notin Marked
  BY DEF HeaderFieldStart, Marked, UrlStart, UrlRest
<1>2. /\ feed = "executing" /\ parser.errno = "OK" /\ buffer # <<>>
      /\ InHeader(parser.state) => parser.nread < MaxHeader
  BY <1>1, AtIs
<1> DEFINE p == Past("s_header_field")
<1>3. ASSUME NEW hs, NEW u,
             parser' = [p EXCEPT !.mark = "field", !.marked = <<ch>>, !.header_state = hs,
                                 !.uses_transfer_encoding = u],
             Consume, Silent, UNCHANGED feed
      PROVE  IInv'
  <2>1. ParserOK(p) /\ IsParser(p) /\ p.state = "s_header_field" /\ p.errno = "OK"
    BY <1>1, <1>2, PastOK, PastIs
  <2> HIDE DEF p
  <2>2. /\ parser'.mark = "field" /\ parser'.errno = "OK" /\ parser'.state = "s_header_field"
        /\ parser'.content_length = p.content_length /\ parser'.nread = p.nread
        /\ IsParser(parser')
    BY <1>3, <2>1 DEF IsParser
  <2>3. /\ ParserOK(parser') /\ MarkFits(parser', buffer') /\ buffer' \in Seq(STRING)
        /\ BodyLeft(parser')
    BY <1>2, <1>3, <2>1, <2>2, ConsumeIs DEF ParserOK, MarkFits, BodyLeft
  <2> QED
    BY <1>2, <1>3, <2>2, <2>3, GoesOn DEF Silent
<1>4. \/ Go("s_headers_almost_done") \/ Reexecute("s_headers_almost_done")
      \/ Fail("INVALID_HEADER_TOKEN")
      \/ \E hs, u :
           /\ parser' = [p EXCEPT !.mark = "field", !.marked = <<ch>>, !.header_state = hs,
                                  !.uses_transfer_encoding = u]
           /\ Consume /\ Silent /\ UNCHANGED feed
  <2>1. ParserOK(p) /\ IsParser(p)
    BY <1>1, PastOK
  <2>2. \A hs : [p EXCEPT !.mark = "field", !.marked = <<ch>>, !.header_state = hs,
                          !.uses_transfer_encoding = @ \/ ch = "Transfer-Encoding"]
              = [p EXCEPT !.mark = "field", !.marked = <<ch>>, !.header_state = hs,
                          !.uses_transfer_encoding =
                             p.uses_transfer_encoding \/ ch = "Transfer-Encoding"]
    <3> HIDE DEF p
    <3> QED
      BY <2>1 DEF IsParser
  <2> QED
    BY <2>2, Zenon DEF HeaderFieldStart
<1> QED
  BY <1>1, <1>2, <1>3, <1>4, GoKeeps, ReexecuteKeeps, FailKeeps

(* The name of a header.                                                   *)
LEMMA HeaderFieldRestKeeps == IInv /\ HeaderFieldRest => IInv'
<1> SUFFICES ASSUME IInv, HeaderFieldRest PROVE IInv'
  OBVIOUS
<1>1. At("s_header_field")
  BY DEF HeaderFieldRest
<1>2. /\ feed = "executing" /\ parser.errno = "OK" /\ buffer # <<>>
      /\ InHeader(parser.state) => parser.nread < MaxHeader
      /\ parser.mark \in {"none", "field"}
  <2>1. MarkFits(parser, buffer) /\ parser.state = "s_header_field"
    BY <1>1, AtIs
  <2>2. parser.mark \in {"none", "field"}
    BY <2>1 DEF MarkFits, UrlStart, UrlRest
  <2> QED
    BY <1>1, <2>2, AtIs
<1> DEFINE p == Past("s_header_field")
<1>3. ASSUME parser' = [p EXCEPT !.header_state = "h_general"], Consume, Silent, UNCHANGED feed
      PROVE  IInv'
  <2>1. ParserOK(p) /\ IsParser(p) /\ p.state = "s_header_field" /\ p.errno = "OK"
        /\ p.mark = parser.mark
    BY <1>1, <1>2, PastOK, PastIs
  <2> HIDE DEF p
  <2>2. /\ parser'.mark = p.mark /\ parser'.errno = "OK" /\ parser'.state = "s_header_field"
        /\ parser'.content_length = p.content_length /\ parser'.nread = p.nread
        /\ parser'.marked = p.marked /\ IsParser(parser')
    BY <1>3, <2>1 DEF IsParser
  <2>3. /\ ParserOK(parser') /\ MarkFits(parser', buffer') /\ buffer' \in Seq(STRING)
        /\ BodyLeft(parser')
    BY <1>2, <1>3, <2>1, <2>2, ConsumeIs DEF ParserOK, MarkFits, BodyLeft
  <2> QED
    BY <1>2, <1>3, <2>2, <2>3, GoesOn DEF Silent
<1>4. ASSUME parser' = Unmarked(Past("s_header_value_discard_ws")), Consume,
             UNCHANGED <<client, stream, feed, connection>>
      PROVE  IInv'
  <2>1. ParserOK(parser') /\ parser'.mark = "none" /\ parser'.errno = "OK"
        /\ parser'.state = "s_header_value_discard_ws"
    BY <1>2, <1>4, PastIs, UnmarkedIs
  <2>2. MarkFits(parser', buffer') /\ buffer' \in Seq(STRING) /\ BodyLeft(parser')
    BY <1>2, <1>4, <2>1, ConsumeIs DEF MarkFits, BodyLeft
  <2> QED
    BY <1>2, <1>4, <2>1, <2>2, GoesOn
<1>5. \/ Fail("INVALID_HEADER_TOKEN")
      \/ /\ parser' = [p EXCEPT !.header_state = "h_general"]
         /\ Consume /\ Silent /\ UNCHANGED feed
      \/ /\ parser' = Unmarked(Past("s_header_value_discard_ws")) /\ Consume
         /\ UNCHANGED <<client, stream, feed, connection>>
  BY DEF HeaderFieldRest
<1> QED
  BY <1>2, <1>3, <1>4, <1>5, FailKeeps

-----------------------------------------------------------------------------
(* The value of a digit is a length that fits.                             *)
LEMMA DigitIs ==
  ASSUME NEW d \in Digits
  PROVE  Digit(d) \in 0 .. UllMax /\ Digit(d) \in Nat
<1>1. d \in {"0", "1", "2", "9"}
  BY DEF Digits
<1>2. Digit(d) = CASE d = "0" -> 0 [] d = "1" -> 1 [] d = "2" -> 2 [] d = "9" -> 9
  BY Zenon DEF Digit
<1>3. Digit(d) \in {0, 1, 2, 9}
  BY <1>1, <1>2
<1> QED
  BY <1>3, HttpParserAssumption

(* What the first lexeme of a value changes.                               *)
LEMMA ValueStartedIs ==
  ASSUME NEW p, ParserOK(p), p.header_state = "h_content_length" => ch \in Digits
  PROVE  /\ ParserOK(ValueStarted(p))
         /\ ValueStarted(p).mark = p.mark /\ ValueStarted(p).errno = p.errno
         /\ ValueStarted(p).state = p.state
<1> DEFINE Alike(r) == ParserOK(r) /\ r.mark = p.mark /\ r.errno = p.errno /\ r.state = p.state
           to(hs) == [p EXCEPT !.header_state = hs]
           flagged == [to("h_general") EXCEPT !.flags = @ \cup {"F_UPGRADE"}]
           sized == [to("h_content_length_num") EXCEPT
                       !.flags = @ \cup {"F_CONTENTLENGTH"}, !.content_length = Digit(ch)]
<1>1. Alike(p)
  OBVIOUS
<1>2. ASSUME NEW hs, NEW r, r = to(hs) PROVE Alike(r) /\ IsParser(r)
  <2>1. /\ r.mark = p.mark /\ r.errno = p.errno /\ r.state = p.state /\ r.marked = p.marked
        /\ r.content_length = p.content_length /\ r.nread = p.nread /\ IsParser(r)
    BY <1>2 DEF ParserOK, IsParser
  <2> QED
    BY <2>1 DEF ParserOK
<1>3. Alike(flagged)
  <2>1. PICK q : q = to("h_general")
    OBVIOUS
  <2>2. Alike(q) /\ IsParser(q)
    BY <1>2, <2>1
  <2>3. PICK r : r = [q EXCEPT !.flags = @ \cup {"F_UPGRADE"}]
    OBVIOUS
  <2>4. /\ r.mark = q.mark /\ r.errno = q.errno /\ r.state = q.state /\ r.marked = q.marked
        /\ r.content_length = q.content_length /\ r.nread = q.nread /\ IsParser(r)
    BY <2>2, <2>3 DEF IsParser
  <2>5. Alike(r)
    BY <2>2, <2>4 DEF ParserOK
  <2> HIDE DEF Alike, to
  <2>6. r = flagged
    BY <2>1, <2>3, Zenon
  <2> QED
    BY <2>5, <2>6, Zenon
<1>4. ASSUME ch \in Digits PROVE Alike(sized)
  <2>1. PICK q : q = to("h_content_length_num")
    OBVIOUS
  <2>2. Alike(q) /\ IsParser(q)
    BY <1>2, <2>1
  <2>3. PICK r : r = [q EXCEPT !.flags = @ \cup {"F_CONTENTLENGTH"}, !.content_length = Digit(ch)]
    OBVIOUS
  <2>4. /\ r.mark = q.mark /\ r.errno = q.errno /\ r.state = q.state /\ r.marked = q.marked
        /\ r.content_length = Digit(ch) /\ r.nread = q.nread /\ IsParser(r)
    BY <2>2, <2>3 DEF IsParser
  <2>5. Alike(r)
    BY <1>4, <2>2, <2>4, DigitIs DEF ParserOK
  <2> HIDE DEF Alike, to
  <2>6. r = sized
    BY <2>1, <2>3, Zenon
  <2> QED
    BY <2>5, <2>6, Zenon
<1>5. \A hs : Alike(to(hs))
  BY <1>2
<1> DEFINE encoding == IF ch = "chunked" THEN "h_transfer_encoding_chunked"
                                         ELSE "h_matching_transfer_encoding_token"
           upgrade == IF ch = "h" /\ Len(buffer) > 1 /\ buffer[2] = "2c"
                        THEN to("h_general") ELSE flagged
           connecting == CASE ch = "keep-alive" -> to("h_connection_keep_alive")
                           [] ch = "close" -> to("h_connection_close")
                           [] ch \in Blank -> p
                           [] OTHER -> to("h_general")
<1>6. ValueStarted(p) =
        CASE p.header_state = "h_upgrade" -> upgrade
          [] p.header_state = "h_transfer_encoding" -> to(encoding)
          [] p.header_state = "h_content_length" -> sized
          [] p.header_state = "h_connection" -> connecting
          [] p.header_state \in {"h_content_length_ws",
                                 "h_matching_transfer_encoding_token_start"} -> p
          [] OTHER -> to("h_general")
  BY Zenon DEF ValueStarted
<1> HIDE DEF Alike, to, flagged, sized
<1>7. Alike(upgrade) /\ Alike(to(encoding))
  BY <1>3, <1>5
<1>8. Alike(connecting)
  BY <1>1, <1>5
<1> HIDE DEF upgrade, encoding, connecting
<1>9. \/ ValueStarted(p) = upgrade \/ ValueStarted(p) = to(encoding)
      \/ ValueStarted(p) = sized /\ p.header_state = "h_content_length"
      \/ ValueStarted(p) = connecting \/ ValueStarted(p) = p
      \/ ValueStarted(p) = to("h_general")
  BY <1>6
<1>10. Alike(ValueStarted(p))
  BY <1>1, <1>4, <1>5, <1>7, <1>8, <1>9, Zenon
<1> QED
  BY <1>10 DEF Alike

(* A value begins.                                                         *)
LEMMA ValueStartKeeps ==
  ASSUME IInv, NEW s, At(s), s \notin Marked, ValueStart
  PROVE  IInv'
<1>1. /\ feed = "executing" /\ parser.errno = "OK" /\ buffer # <<>>
      /\ InHeader(parser.state) => parser.nread < MaxHeader
  BY AtIs
<1>2. ASSUME parser' = ValueStarted([Past("s_header_value") EXCEPT
                                       !.mark = "value", !.marked = <<ch>>]),
             parser.header_state = "h_content_length" => ch \in Digits,
             Consume, Silent, UNCHANGED feed
      PROVE  IInv'
  <2> DEFINE p == Past("s_header_value")
  <2>1. ParserOK(p) /\ IsParser(p) /\ p.state = "s_header_value" /\ p.errno = "OK"
    BY <1>1, PastOK, PastIs
  <2>2. p.header_state = parser.header_state
    BY DEF Past, IInv, ParserOK, IsParser
  <2>3. parser' = ValueStarted([p EXCEPT !.mark = "value", !.marked = <<ch>>])
    BY <1>2
  <2> HIDE DEF p
  <2>4. PICK r : r = [p EXCEPT !.mark = "value", !.marked = <<ch>>]
    OBVIOUS
  <2>5. /\ r.mark = "value" /\ r.errno = p.errno /\ r.state = p.state
        /\ r.content_length = p.content_length /\ r.nread = p.nread /\ IsParser(r)
        /\ r.header_state = p.header_state
    BY <2>1, <2>4 DEF IsParser
  <2>6. ParserOK(r) /\ (r.header_state = "h_content_length" => ch \in Digits)
    BY <1>2, <2>1, <2>2, <2>5 DEF ParserOK
  <2>7. parser' = ValueStarted(r)
    BY <2>3, <2>4, Zenon
  <2>8. ParserOK(parser') /\ parser'.mark = "value" /\ parser'.errno = "OK"
        /\ parser'.state = "s_header_value"
    BY <2>1, <2>5, <2>6, <2>7, ValueStartedIs
  <2>9. MarkFits(parser', buffer') /\ buffer' \in Seq(STRING) /\ BodyLeft(parser')
    BY <1>1, <1>2, <2>8, ConsumeIs DEF MarkFits, BodyLeft
  <2> QED
    BY <1>1, <1>2, <2>8, <2>9, GoesOn DEF Silent
<1>3. \/ Fail("INVALID_CONTENT_LENGTH") \/ Fail("UNEXPECTED_CONTENT_LENGTH")
      \/ /\ parser' = ValueStarted([Past("s_header_value") EXCEPT
                                      !.mark = "value", !.marked = <<ch>>])
         /\ parser.header_state = "h_content_length" => ch \in Digits
         /\ Consume /\ Silent /\ UNCHANGED feed
  BY Zenon DEF ValueStart
<1> QED
  BY <1>1, <1>2, <1>3, FailKeeps

(* A value begins, and opens its mark.                                     *)
LEMMA HeaderValueStartKeeps == IInv /\ HeaderValueStart => IInv'
<1>1. "s_header_value_start" \notin Marked
  BY DEF Marked, UrlStart, UrlRest
<1> QED
  BY <1>1, ValueStartKeeps DEF HeaderValueStart

(* The blanks before a value.                                              *)
LEMMA HeaderValueDiscardWsKeeps == IInv /\ HeaderValueDiscardWs => IInv'
<1> SUFFICES ASSUME IInv, HeaderValueDiscardWs PROVE IInv'
  OBVIOUS
<1>1. At("s_header_value_discard_ws") /\ "s_header_value_discard_ws" \notin Marked
  BY DEF HeaderValueDiscardWs, Marked, UrlStart, UrlRest
<1>2. \/ Go("s_header_value_discard_ws") \/ Go("s_header_value_discard_ws_almost_done")
      \/ Go("s_header_value_discard_lws") \/ ValueStart
  BY DEF HeaderValueDiscardWs
<1> QED
  BY <1>1, <1>2, GoKeeps, ValueStartKeeps

(* Only the state of the parser changes, which has no mark.                *)
LEMMA StateKeeps ==
  ASSUME IInv, NEW s, At(s), s \notin Marked, NEW t, t # "s_body_identity", NEW hs, NEW flags,
         parser' = [parser EXCEPT !.state = t, !.header_state = hs, !.flags = flags],
         UNCHANGED <<client, stream, feed, buffer, connection>>
  PROVE  IInv'
<1>1. feed = "executing" /\ parser.errno = "OK" /\ parser.mark = "none"
  BY AtIs
<1>2. ParserOK(parser) /\ IsParser(parser) /\ buffer \in Seq(STRING)
  BY DEF IInv, ParserOK, Sequences
<1>3. /\ parser'.mark = parser.mark /\ parser'.errno = parser.errno
      /\ parser'.marked = parser.marked /\ parser'.content_length = parser.content_length
      /\ parser'.nread = parser.nread /\ parser'.state = t /\ IsParser(parser')
  BY <1>2 DEF IsParser
<1>4. ParserOK(parser') /\ MarkFits(parser', buffer') /\ BodyLeft(parser')
  BY <1>1, <1>2, <1>3 DEF ParserOK, MarkFits, BodyLeft
<1> QED
  BY <1>1, <1>2, <1>3, <1>4, GoesOn

(* The line after an empty value.                                          *)
LEMMA DiscardLwsKeeps == IInv /\ DiscardLws => IInv'
<1> SUFFICES ASSUME IInv, DiscardLws PROVE IInv'
  OBVIOUS
<1>1. At("s_header_value_discard_lws") /\ "s_header_value_discard_lws" \notin Marked
  BY DEF DiscardLws, Marked, UrlStart, UrlRest
<1>2. ASSUME parser' = [parser EXCEPT !.state = "s_header_field_start"],
             UNCHANGED <<client, stream, feed, buffer, connection>>
      PROVE  IInv'
  <2>1. parser' = [parser EXCEPT !.state = "s_header_field_start",
                                 !.header_state = parser.header_state, !.flags = parser.flags]
    BY <1>2 DEF IInv, ParserOK, IsParser
  <2> QED
    BY <1>1, <1>2, <2>1, StateKeeps
<1>3. \/ Go("s_header_value_discard_ws")
      \/ /\ parser' = [parser EXCEPT !.state = "s_header_field_start"]
         /\ UNCHANGED <<client, stream, feed, buffer, connection>>
  BY DEF DiscardLws
<1> QED
  BY <1>1, <1>2, <1>3, GoKeeps

(* The line after a value, which may go on with it.                        *)
LEMMA HeaderValueLwsKeeps == IInv /\ HeaderValueLws => IInv'
<1> SUFFICES ASSUME IInv, HeaderValueLws PROVE IInv'
  OBVIOUS
<1>1. At("s_header_value_lws") /\ "s_header_value_lws" \notin Marked
  BY DEF HeaderValueLws, Marked, UrlStart, UrlRest
<1>2. ParserOK(parser) /\ IsParser(parser)
  BY DEF IInv, ParserOK
<1>3. UNCHANGED <<client, stream, feed, buffer, connection>>
  BY DEF HeaderValueLws, Silent
<1>4. ASSUME NEW hs, parser' = [parser EXCEPT !.state = "s_header_value_start", !.header_state = hs]
      PROVE  IInv'
  <2>1. parser' = [parser EXCEPT !.state = "s_header_value_start", !.header_state = hs,
                                 !.flags = parser.flags]
    BY <1>2, <1>4 DEF IsParser
  <2> QED
    BY <1>1, <1>3, <2>1, StateKeeps
<1>5. ASSUME NEW flag, parser' = [parser EXCEPT !.state = "s_header_field_start",
                                                !.flags = @ \cup flag]
      PROVE  IInv'
  <2>1. parser' = [parser EXCEPT !.state = "s_header_field_start",
                                 !.header_state = parser.header_state,
                                 !.flags = parser.flags \cup flag]
    BY <1>2, <1>5 DEF IsParser
  <2> QED
    BY <1>1, <1>3, <2>1, StateKeeps
<1>6. \/ \E hs : parser' = [parser EXCEPT !.state = "s_header_value_start", !.header_state = hs]
      \/ \E flag : parser' = [parser EXCEPT !.state = "s_header_field_start",
                                            !.flags = @ \cup flag]
  BY Zenon DEF HeaderValueLws
<1> QED
  BY <1>4, <1>5, <1>6

-----------------------------------------------------------------------------
(* The value of a header is over.                                          *)
LEMMA HeaderValueEndsKeeps == IInv /\ HeaderValueEnds => IInv'
<1> SUFFICES ASSUME IInv, HeaderValueEnds PROVE IInv'
  OBVIOUS
<1>1. At("s_header_value") /\ UNCHANGED <<client, stream, feed, connection>>
  BY DEF HeaderValueEnds
<1>2. /\ feed = "executing" /\ parser.errno = "OK" /\ buffer # <<>>
      /\ InHeader(parser.state) => parser.nread < MaxHeader
  BY <1>1, AtIs
<1>3. ParserOK(parser) /\ IsParser(parser) /\ buffer \in Seq(STRING)
  BY DEF IInv, ParserOK, Sequences
<1>4. ASSUME NEW p, ParserOK(p), p.errno = "OK", p.state = "s_header_almost_done",
             parser' = Unmarked(p), buffer' \in Seq(STRING)
      PROVE  IInv'
  <2>1. /\ ParserOK(parser') /\ parser'.mark = "none" /\ parser'.errno = "OK"
        /\ parser'.state = "s_header_almost_done"
    BY <1>4, UnmarkedIs
  <2>2. MarkFits(parser', buffer') /\ BodyLeft(parser')
    BY <2>1 DEF MarkFits, BodyLeft
  <2> QED
    BY <1>1, <1>2, <1>4, <2>1, <2>2, GoesOn
<1>5. CASE parser' = Unmarked(Past("s_header_almost_done")) /\ Consume
  <2>1. ParserOK(Past("s_header_almost_done")) /\ Past("s_header_almost_done").errno = "OK"
        /\ Past("s_header_almost_done").state = "s_header_almost_done"
    BY <1>2, PastIs
  <2>2. buffer' \in Seq(STRING)
    BY <1>2, <1>5, ConsumeIs
  <2> QED
    BY <1>4, <1>5, <2>1, <2>2
<1>6. CASE /\ parser' = Unmarked([parser EXCEPT !.state = "s_header_almost_done"])
           /\ UNCHANGED buffer
  <2>1. PICK r : r = [parser EXCEPT !.state = "s_header_almost_done"]
    OBVIOUS
  <2>2. /\ r.mark = parser.mark /\ r.errno = "OK" /\ r.marked = parser.marked
        /\ r.content_length = parser.content_length /\ r.nread = parser.nread /\ IsParser(r)
        /\ r.state = "s_header_almost_done"
    BY <1>2, <1>3, <2>1 DEF IsParser
  <2>3. ParserOK(r)
    BY <1>3, <2>2 DEF ParserOK
  <2>4. parser' = Unmarked(r)
    BY <1>6, <2>1
  <2> QED
    BY <1>3, <1>4, <1>6, <2>2, <2>3, <2>4
<1> QED
  BY <1>5, <1>6 DEF HeaderValueEnds

(* A length and a digit more, in 64 bits.                                  *)
LEMMA LongerIs ==
  ASSUME NEW length \in Nat, NEW base \in Nat, NEW digit \in Nat
  PROVE  Longer(length, base, digit) \in 0 .. UllMax
<1> DEFINE x == length * base + digit
           m == UllMax + 1
<1>1. x \in Nat /\ m \in Nat /\ m > 0
  BY HttpParserAssumption
<1>2. \A y \in Nat, k \in Nat : k > 0 => y % k \in 0 .. k - 1
  OBVIOUS
<1>3. Longer(length, base, digit) = x % m
  BY DEF Longer
<1>4. m - 1 = UllMax
  BY HttpParserAssumption
<1> HIDE DEF x, m
<1> QED
  BY <1>1, <1>2, <1>3, <1>4

(* A value goes on.                                                        *)
LEMMA HeaderValueKeeps == IInv /\ HeaderValue => IInv'
<1> SUFFICES ASSUME IInv, HeaderValue PROVE IInv'
  OBVIOUS
<1>1. At("s_header_value")
  BY DEF HeaderValue
<1>2. /\ feed = "executing" /\ parser.errno = "OK" /\ buffer # <<>>
      /\ InHeader(parser.state) => parser.nread < MaxHeader
      /\ parser.mark \in {"none", "value"}
  <2>1. MarkFits(parser, buffer) /\ parser.state = "s_header_value"
    BY <1>1, AtIs
  <2>2. parser.mark \in {"none", "value"}
    BY <2>1 DEF MarkFits, UrlStart, UrlRest
  <2> QED
    BY <1>1, <2>2, AtIs
<1> DEFINE p == Past("s_header_value")
           number == parser.header_state = "h_content_length_num"
           length == IF number /\ ch # "sp" THEN Longer(p.content_length, 10, Digit(ch))
                                            ELSE p.content_length
<1>3. ParserOK(p) /\ IsParser(p) /\ p.state = "s_header_value" /\ p.errno = "OK"
      /\ p.mark = parser.mark /\ p.content_length \in 0 .. UllMax
  BY <1>1, <1>2, PastOK, PastIs DEF ParserOK
<1>4. ASSUME parser' = [p EXCEPT !.header_state = ValueState(parser.header_state),
                                 !.content_length = length],
             number /\ ch # "sp" => ch \in Digits,
             Consume, Silent, UNCHANGED feed
      PROVE  IInv'
  <2>1. length \in 0 .. UllMax
    <3>1. CASE number /\ ch # "sp"
      <4>1. Digit(ch) \in Nat /\ p.content_length \in Nat
        BY <1>3, <1>4, <3>1, DigitIs, HttpParserAssumption
      <4>2. Longer(p.content_length, 10, Digit(ch)) \in 0 .. UllMax
        <5> HIDE DEF p
        <5> QED
          BY <4>1, LongerIs
      <4> HIDE DEF p, number
      <4> QED
        BY <3>1, <4>2
    <3>2. CASE ~(number /\ ch # "sp")
      <4> HIDE DEF p, number
      <4> QED
        BY <1>3, <3>2
    <3> HIDE DEF length, number
    <3> QED
      BY <3>1, <3>2
  <2> HIDE DEF p, length, number
  <2>2. /\ parser'.mark = p.mark /\ parser'.errno = "OK" /\ parser'.state = "s_header_value"
        /\ parser'.content_length = length /\ parser'.nread = p.nread
        /\ parser'.marked = p.marked /\ IsParser(parser')
    BY <1>3, <1>4 DEF IsParser
  <2>3. /\ ParserOK(parser') /\ MarkFits(parser', buffer') /\ buffer' \in Seq(STRING)
        /\ BodyLeft(parser')
    BY <1>2, <1>3, <1>4, <2>1, <2>2, ConsumeIs DEF ParserOK, MarkFits, BodyLeft
  <2> QED
    BY <1>2, <1>4, <2>2, <2>3, GoesOn DEF Silent
<1>5. \/ Fail("INVALID_HEADER_TOKEN") \/ Fail("INVALID_CONTENT_LENGTH")
      \/ /\ parser' = [p EXCEPT !.header_state = ValueState(parser.header_state),
                                !.content_length = length]
         /\ number /\ ch # "sp" => ch \in Digits
         /\ Consume /\ Silent /\ UNCHANGED feed
  <2>1. \/ Fail("INVALID_HEADER_TOKEN") \/ Fail("INVALID_CONTENT_LENGTH")
        \/ /\ parser' = [p EXCEPT !.header_state = ValueState(parser.header_state),
                                  !.content_length = IF number /\ ch # "sp"
                                                       THEN Longer(@, 10, Digit(ch)) ELSE @]
           /\ number /\ ch # "sp" => ch \in Digits
           /\ Consume /\ Silent /\ UNCHANGED feed
    BY Zenon DEF HeaderValue
  <2>2. [p EXCEPT !.header_state = ValueState(parser.header_state),
                  !.content_length = IF number /\ ch # "sp"
                                       THEN Longer(@, 10, Digit(ch)) ELSE @]
          = [p EXCEPT !.header_state = ValueState(parser.header_state),
                      !.content_length = length]
    <3> HIDE DEF p, number
    <3> QED
      BY <1>3 DEF IsParser
  <2> QED
    BY <2>1, <2>2, Zenon
<1> QED
  BY <1>2, <1>4, <1>5, FailKeeps

(* The end of the headers.                                                 *)
LEMMA HeadersAlmostDoneKeeps == IInv /\ HeadersAlmostDone => IInv'
<1> SUFFICES ASSUME IInv, HeadersAlmostDone PROVE IInv'
  OBVIOUS
<1>1. At("s_headers_almost_done") /\ "s_headers_almost_done" \notin Marked
  BY DEF HeadersAlmostDone, Marked, UrlStart, UrlRest
<1>2. /\ feed = "executing" /\ parser.errno = "OK" /\ buffer # <<>> /\ parser.mark = "none"
      /\ InHeader(parser.state) => parser.nread < MaxHeader
  BY <1>1, AtIs
<1>3. ParserOK(parser) /\ IsParser(parser) /\ buffer \in Seq(STRING)
  BY DEF IInv, ParserOK, Sequences
<1>4. ASSUME OnMessageComplete(Past(parser.state)), Called PROVE IInv'
  <2>1. ParserOK(Past(parser.state)) /\ Past(parser.state).mark = "none"
        /\ Past(parser.state).state = "s_headers_almost_done"
    BY <1>1, <1>2, PastIs, AtIs
  <2>2. /\ ParserOK(parser') /\ parser'.mark = "none"
        /\ parser'.state \in {"s_headers_almost_done", "s_start_req"}
        /\ writing' \in Nat /\ socket' \in {"open", "draining", "closed"}
    BY <1>4, <2>1, OnMessageCompleteIs
  <2> QED
    BY <1>2, <1>4, <2>2, CalledKeeps DEF BodyLeft
<1>5. ASSUME NEW u, parser' = [parser EXCEPT !.state = "s_headers_done", !.upgrade = u],
             UNCHANGED <<client, stream, feed, buffer, connection>>
      PROVE  IInv'
  <2>1. /\ parser'.mark = "none" /\ parser'.errno = "OK" /\ parser'.marked = parser.marked
        /\ parser'.content_length = parser.content_length /\ parser'.nread = parser.nread
        /\ parser'.state = "s_headers_done" /\ IsParser(parser')
    BY <1>2, <1>3, <1>5 DEF IsParser
  <2>2. ParserOK(parser') /\ MarkFits(parser', buffer') /\ BodyLeft(parser')
    BY <1>2, <1>3, <2>1 DEF ParserOK, MarkFits, BodyLeft
  <2> QED
    BY <1>2, <1>3, <1>5, <2>1, <2>2, GoesOn
<1>6. \/ Fail("STRICT") \/ Fail("UNEXPECTED_CONTENT_LENGTH")
      \/ OnMessageComplete(Past(parser.state)) /\ Called
      \/ \E u : /\ parser' = [parser EXCEPT !.state = "s_headers_done", !.upgrade = u]
                /\ UNCHANGED <<client, stream, feed, buffer, connection>>
  BY Zenon DEF HeadersAlmostDone
<1> QED
  BY <1>2, <1>4, <1>5, <1>6, FailKeeps

(* The headers end: a body by length begins only when it has one.          *)
LEMMA HeadersDoneKeeps == IInv /\ HeadersDone => IInv'
<1> SUFFICES ASSUME IInv, HeadersDone PROVE IInv'
  OBVIOUS
<1>1. At("s_headers_done") /\ "s_headers_done" \notin Marked
  BY DEF HeadersDone, Marked, UrlStart, UrlRest
<1>2. /\ feed = "executing" /\ parser.errno = "OK" /\ buffer # <<>> /\ parser.mark = "none"
      /\ InHeader(parser.state) => parser.nread < MaxHeader
  BY <1>1, AtIs
<1> DEFINE q == Past(parser.state)
           p == [q EXCEPT !.nread = 0]
<1>3. /\ ParserOK(q) /\ IsParser(q) /\ q.mark = "none" /\ q.errno = "OK"
      /\ q.state = "s_headers_done" /\ q.content_length = parser.content_length
  BY <1>1, <1>2, PastOK, PastIs, AtIs
<1> HIDE DEF q
<1>4. ASSUME NEW r, r = p
      PROVE  /\ r.mark = "none" /\ r.errno = "OK" /\ r.marked = q.marked /\ IsParser(r)
             /\ r.content_length = q.content_length /\ r.nread = 0 /\ ParserOK(r)
             /\ r.state = "s_headers_done"
  <2>1. /\ r.mark = "none" /\ r.errno = "OK" /\ r.marked = q.marked /\ IsParser(r)
        /\ r.content_length = q.content_length /\ r.nread = 0 /\ r.state = "s_headers_done"
    BY <1>3, <1>4 DEF IsParser
  <2>2. ParserOK(r)
    BY <1>3, <2>1, HttpParserAssumption DEF ParserOK
  <2> QED
    BY <2>1, <2>2
<1>5. p.mark = "none" /\ p.errno = "OK" /\ IsParser(p) /\ ParserOK(p)
      /\ p.marked = q.marked /\ p.content_length = q.content_length /\ p.nread = 0
      /\ p.state = "s_headers_done"
  <2>1. PICK r : r = p
    OBVIOUS
  <2> HIDE DEF p
  <2> QED
    BY <1>4, <2>1
<1>6. ASSUME NEW t, t = "s_body_identity" => parser.content_length # 0,
             parser' = [p EXCEPT !.state = t], Consume, Silent, UNCHANGED feed
      PROVE  IInv'
  <2> HIDE DEF p
  <2>1. /\ parser'.mark = "none" /\ parser'.errno = "OK" /\ parser'.marked = p.marked
        /\ parser'.content_length = p.content_length /\ parser'.nread = 0 /\ IsParser(parser')
        /\ parser'.state = t
    BY <1>5, <1>6 DEF IsParser
  <2>2. /\ ParserOK(parser') /\ MarkFits(parser', buffer') /\ buffer' \in Seq(STRING)
        /\ BodyLeft(parser')
    BY <1>2, <1>3, <1>5, <1>6, <2>1, ConsumeIs DEF ParserOK, MarkFits, BodyLeft
  <2> QED
    BY <1>2, <1>6, <2>1, <2>2, GoesOn DEF Silent
<1>7. ASSUME OnMessageComplete(p), Consume, feed' \in {"executing", "returning"},
             UNCHANGED <<client, stream>>
      PROVE  IInv'
  <2> HIDE DEF p
  <2>1. /\ ParserOK(parser') /\ parser'.mark = "none" /\ parser'.errno = "OK"
        /\ parser'.state \in {"s_headers_done", "s_start_req"}
        /\ writing' \in Nat /\ socket' \in {"open", "draining", "closed"}
    BY <1>5, <1>7, OnMessageCompleteIs
  <2>2. buffer' \in Seq(STRING)
    BY <1>2, <1>7, ConsumeIs
  <2>3. Sequences' /\ Connected'
    BY <1>7, <2>1, <2>2 DEF IInv, Sequences, Connected, client
  <2>4. Marks' /\ BodyLeft(parser')
    BY <1>7, <2>1 DEF Marks, MarkFits, BodyLeft
  <2> QED
    BY <2>1, <2>3, <2>4 DEF IInv
<1>8. \/ Fail("STRICT") \/ Fail("INVALID_TRANSFER_ENCODING")
      \/ OnMessageComplete(p) /\ Consume /\ feed' = "returning" /\ UNCHANGED <<client, stream>>
      \/ OnMessageComplete(p) /\ Called
      \/ \E t : /\ t = "s_body_identity" => parser.content_length # 0
                /\ parser' = [p EXCEPT !.state = t] /\ Consume /\ Silent /\ UNCHANGED feed
  <2> DEFINE Then(t) == parser' = [p EXCEPT !.state = t] /\ Consume /\ Silent /\ UNCHANGED feed
  <2>1. \/ Fail("STRICT") \/ Fail("INVALID_TRANSFER_ENCODING")
        \/ OnMessageComplete(p) /\ Consume /\ feed' = "returning" /\ UNCHANGED <<client, stream>>
        \/ OnMessageComplete(p) /\ Called
        \/ Then("s_chunk_size_start")
        \/ parser.content_length \notin {0, UllMax} /\ Then("s_body_identity")
    BY Zenon DEF HeadersDone, q
  <2> HIDE DEF p
  <2> QED
    BY <2>1
<1>9. ASSUME Called PROVE Consume /\ feed' \in {"executing", "returning"} /\ UNCHANGED <<client, stream>>
  BY <1>9 DEF Called
<1> HIDE DEF p
<1> QED
  BY <1>2, <1>6, <1>7, <1>8, <1>9, FailKeeps

-----------------------------------------------------------------------------
(* How much of a body the buffer holds.                                    *)
LEMMA AvailableIs ==
  ASSUME IInv
  PROVE  /\ Available \in 0 .. Len(buffer)
         /\ parser.content_length - Available \in 0 .. UllMax
         /\ Len(buffer) \in Nat
<1>1. parser.content_length \in 0 .. UllMax /\ Len(buffer) \in Nat
  BY DEF IInv, ParserOK, Sequences
<1> QED
  BY <1>1, HttpParserAssumption DEF Available

(* A part of the buffer.                                                   *)
LEMMA PartIs ==
  ASSUME IInv, NEW i \in Nat, i >= 1
  PROVE  SubSeq(buffer, i, Len(buffer)) \in Seq(STRING)
<1>1. buffer \in Seq(STRING)
  BY DEF IInv, Sequences
<1> QED
  BY <1>1

(* A body whose length is known.                                           *)
LEMMA BodyIdentityKeeps == IInv /\ BodyIdentity => IInv'
<1> SUFFICES ASSUME IInv, BodyIdentity PROVE IInv'
  OBVIOUS
<1>1. At("s_body_identity") /\ UNCHANGED <<client, stream, feed, connection>>
  BY DEF BodyIdentity
<1>2. feed = "executing" /\ parser.errno = "OK" /\ buffer # <<>> /\ parser.mark = "none"
  <2>1. MarkFits(parser, buffer) /\ parser.state = "s_body_identity" /\ buffer # <<>>
    BY <1>1, AtIs
  <2>2. parser.mark = "none"
    BY <2>1 DEF MarkFits, UrlStart, UrlRest
  <2> QED
    BY <1>1, <2>2, AtIs
<1>3. ParserOK(parser) /\ IsParser(parser)
  BY DEF IInv, ParserOK
<1> DEFINE data == SubSeq(buffer, 1, Available)
           rest == parser.content_length - Available
<1>4. rest \in 0 .. UllMax
  BY AvailableIs
<1>5. ASSUME rest = 0,
             parser' = [parser EXCEPT !.content_length = 0, !.state = "s_message_done"],
             buffer' = SubSeq(buffer, Available, Len(buffer))
      PROVE  IInv'
  <2>1. /\ parser'.mark = "none" /\ parser'.errno = "OK" /\ parser'.marked = parser.marked
        /\ parser'.content_length = 0 /\ parser'.nread = parser.nread /\ IsParser(parser')
        /\ parser'.state = "s_message_done"
    BY <1>2, <1>3, <1>5 DEF IsParser
  <2>2. ParserOK(parser') /\ MarkFits(parser', buffer') /\ BodyLeft(parser')
    BY <1>2, <1>3, <2>1, HttpParserAssumption DEF ParserOK, MarkFits, BodyLeft
  <2>3. buffer' \in Seq(STRING)
    <3>1. Available \in Nat /\ Len(buffer) \in Nat /\ parser.content_length = Available
      BY <1>3, <1>5, AvailableIs, HttpParserAssumption DEF ParserOK
    <3>2. parser.content_length # 0
      BY <1>1, AtIs DEF IInv, BodyLeft
    <3> QED
      BY <1>5, <3>1, <3>2, PartIs
  <2> QED
    BY <1>1, <1>2, <2>1, <2>2, <2>3, GoesOn
<1>6. ASSUME rest # 0,
             parser' = [parser EXCEPT !.content_length = rest, !.mark = "body", !.marked = data],
             buffer' = <<>>
      PROVE  IInv'
  <2> HIDE DEF rest, data
  <2>1. /\ parser'.mark = "body" /\ parser'.errno = "OK" /\ parser'.state = parser.state
        /\ parser'.content_length = rest /\ parser'.nread = parser.nread /\ IsParser(parser')
    BY <1>2, <1>3, <1>6 DEF IsParser
  <2>2. parser.state = "s_body_identity" /\ buffer' \in Seq(STRING)
    BY <1>1, <1>6, AtIs
  <2>3. ParserOK(parser') /\ MarkFits(parser', buffer') /\ BodyLeft(parser')
    BY <1>3, <1>4, <1>6, <2>1, <2>2 DEF ParserOK, MarkFits, BodyLeft
  <2> QED
    BY <1>1, <1>2, <2>1, <2>2, <2>3, GoesOn
<1> QED
  BY <1>5, <1>6, Zenon DEF BodyIdentity


(* A message is complete.                                                  *)
LEMMA MessageDoneKeeps == IInv /\ MessageDone => IInv'
<1> SUFFICES ASSUME IInv, MessageDone PROVE IInv'
  OBVIOUS
<1>1. At("s_message_done") /\ "s_message_done" \notin Marked
  BY DEF MessageDone, Marked, UrlStart, UrlRest
<1>2. buffer # <<>> /\ parser.mark = "none" /\ parser.state = "s_message_done"
  BY <1>1, AtIs
<1>3. /\ ParserOK(parser') /\ parser'.mark = "none"
      /\ parser'.state \in {"s_message_done", "s_start_req"}
      /\ writing' \in Nat /\ socket' \in {"open", "draining", "closed"}
  BY <1>2, OnMessageCompleteIs DEF MessageDone, IInv
<1> QED
  BY <1>2, <1>3, CalledKeeps DEF MessageDone, BodyLeft

(* The size of a chunk.                                                    *)
LEMMA SizeKeeps ==
  ASSUME IInv, NEW s, At(s), s \notin Marked, NEW length \in 0 .. UllMax,
         parser' = [Past("s_chunk_size") EXCEPT !.content_length = length],
         Consume, Silent, UNCHANGED feed
  PROVE  IInv'
<1> DEFINE p == Past("s_chunk_size")
<1>1. ParserOK(p) /\ IsParser(p) /\ p = Past("s_chunk_size") /\ p.state = "s_chunk_size"
  BY PastOK, PastIs, AtIs
<1>2. parser' = [p EXCEPT !.content_length = length]
  OBVIOUS
<1> HIDE DEF p
<1>3. /\ parser'.mark = p.mark /\ parser'.errno = p.errno /\ parser'.marked = p.marked
      /\ parser'.content_length = length /\ parser'.nread = p.nread
      /\ IsParser(parser') /\ parser'.state = "s_chunk_size"
  BY <1>1, <1>2 DEF IsParser
<1>4. BodyLeft(parser')
  BY <1>3 DEF BodyLeft
<1> QED
  BY <1>1, <1>3, <1>4, PlainKeeps

(* The first digit of a chunk's size.                                      *)
LEMMA ChunkSizeStartKeeps == IInv /\ ChunkSizeStart => IInv'
<1> SUFFICES ASSUME IInv, ChunkSizeStart PROVE IInv'
  OBVIOUS
<1>1. At("s_chunk_size_start") /\ "s_chunk_size_start" \notin Marked
  BY DEF ChunkSizeStart, Marked, UrlStart, UrlRest
<1>2. feed = "executing"
  BY <1>1, AtIs
<1>3. \/ Fail("INVALID_CHUNK_SIZE")
      \/ /\ ch \in Digits
         /\ parser' = [Past("s_chunk_size") EXCEPT !.content_length = Digit(ch)]
         /\ Consume /\ Silent /\ UNCHANGED feed
  BY DEF ChunkSizeStart
<1> QED
  BY <1>1, <1>2, <1>3, FailKeeps, SizeKeeps, DigitIs

(* The other digits of a chunk's size.                                     *)
LEMMA ChunkSizeKeeps == IInv /\ ChunkSize => IInv'
<1> SUFFICES ASSUME IInv, ChunkSize PROVE IInv'
  OBVIOUS
<1>1. At("s_chunk_size") /\ "s_chunk_size" \notin Marked
  BY DEF ChunkSize, Marked, UrlStart, UrlRest
<1>2. feed = "executing"
  BY <1>1, AtIs
<1> DEFINE p == Past("s_chunk_size")
<1>3. ASSUME ch \in Digits,
             parser' = [p EXCEPT !.content_length = Longer(@, 16, Digit(ch))],
             Consume, Silent, UNCHANGED feed
      PROVE  IInv'
  <2>1. ParserOK(p) /\ IsParser(p) /\ p.content_length \in Nat
    BY <1>1, PastOK, HttpParserAssumption DEF ParserOK
  <2> DEFINE length == Longer(p.content_length, 16, Digit(ch))
  <2>2. length \in 0 .. UllMax
    <3>1. Digit(ch) \in Nat
      BY <1>3, DigitIs
    <3> HIDE DEF p
    <3> QED
      BY <2>1, <3>1, LongerIs
  <2>3. parser' = [p EXCEPT !.content_length = length]
    <3> HIDE DEF p
    <3> QED
      BY <1>3, <2>1 DEF IsParser
  <2> HIDE DEF length
  <2> QED
    BY <1>1, <1>3, <2>2, <2>3, SizeKeeps
<1>4. \/ Fail("INVALID_CHUNK_SIZE") \/ Fail("INVALID_CONTENT_LENGTH")
      \/ Go("s_chunk_size_almost_done") \/ Go("s_chunk_parameters")
      \/ /\ ch \in Digits
         /\ parser' = [p EXCEPT !.content_length = Longer(@, 16, Digit(ch))]
         /\ Consume /\ Silent /\ UNCHANGED feed
  BY Zenon DEF ChunkSize
<1> QED
  BY <1>1, <1>2, <1>3, <1>4, FailKeeps, GoKeeps

(* The line of a chunk's size ends.                                        *)
LEMMA ChunkSizeAlmostDoneKeeps == IInv /\ ChunkSizeAlmostDone => IInv'
<1> SUFFICES ASSUME IInv, ChunkSizeAlmostDone PROVE IInv'
  OBVIOUS
<1>1. At("s_chunk_size_almost_done") /\ "s_chunk_size_almost_done" \notin Marked
  BY DEF ChunkSizeAlmostDone, Marked, UrlStart, UrlRest
<1>2. feed = "executing"
  BY <1>1, AtIs
<1>3. ASSUME NEW t \in {"s_header_field_start", "s_chunk_data"}, NEW p, p = Past(t), IsParser(parser'),
             parser'.mark = p.mark, parser'.errno = p.errno, parser'.marked = p.marked,
             parser'.content_length = p.content_length, parser'.nread = 0,
             parser'.state = p.state, Consume, Silent, UNCHANGED feed
      PROVE  IInv'
  <2>1. ParserOK(p) /\ p.state = t
    BY <1>1, <1>3, PastOK, PastIs, AtIs
  <2>2. BodyLeft(parser') /\ parser'.content_length \in 0 .. UllMax
    BY <1>3, <2>1 DEF BodyLeft, ParserOK
  <2> QED
    BY <1>1, <1>3, <2>2, PlainKeeps
<1>4. ASSUME parser' = [Past("s_header_field_start") EXCEPT
                          !.nread = 0, !.flags = @ \cup {"F_TRAILING"}],
             Consume, Silent, UNCHANGED feed
      PROVE  IInv'
  <2> DEFINE p == Past("s_header_field_start")
  <2>1. IsParser(p) /\ p = Past("s_header_field_start")
    BY <1>1, PastOK
  <2>2. parser' = [p EXCEPT !.nread = 0, !.flags = @ \cup {"F_TRAILING"}]
    BY <1>4
  <2> HIDE DEF p
  <2>3. /\ parser'.mark = p.mark /\ parser'.errno = p.errno /\ parser'.marked = p.marked
        /\ parser'.content_length = p.content_length /\ parser'.nread = 0
        /\ IsParser(parser') /\ parser'.state = p.state
    BY <2>1, <2>2 DEF IsParser
  <2> QED
    BY <1>3, <1>4, <2>1, <2>3
<1>5. ASSUME parser' = [Past("s_chunk_data") EXCEPT !.nread = 0],
             Consume, Silent, UNCHANGED feed
      PROVE  IInv'
  <2> DEFINE p == Past("s_chunk_data")
  <2>1. IsParser(p) /\ p = Past("s_chunk_data")
    BY <1>1, PastOK
  <2>2. parser' = [p EXCEPT !.nread = 0]
    BY <1>5
  <2> HIDE DEF p
  <2>3. /\ parser'.mark = p.mark /\ parser'.errno = p.errno /\ parser'.marked = p.marked
        /\ parser'.content_length = p.content_length /\ parser'.nread = 0
        /\ IsParser(parser') /\ parser'.state = p.state
    BY <2>1, <2>2 DEF IsParser
  <2> QED
    BY <1>3, <1>5, <2>1, <2>3
<1>6. \/ Fail("STRICT")
      \/ /\ \/ parser' = [Past("s_header_field_start") EXCEPT
                            !.nread = 0, !.flags = @ \cup {"F_TRAILING"}]
            \/ parser' = [Past("s_chunk_data") EXCEPT !.nread = 0]
         /\ Consume /\ Silent /\ UNCHANGED feed
  BY Zenon DEF ChunkSizeAlmostDone
<1> QED
  BY <1>2, <1>4, <1>5, <1>6, FailKeeps, Zenon

(* The data of a chunk.                                                    *)
LEMMA ChunkDataKeeps == IInv /\ ChunkData => IInv'
<1> SUFFICES ASSUME IInv, ChunkData PROVE IInv'
  OBVIOUS
<1> DEFINE data == SubSeq(buffer, 1, Available)
           rest == parser.content_length - Available
           t == IF rest = 0 THEN "s_chunk_data_almost_done" ELSE parser.state
<1>1. At("s_chunk_data") /\ UNCHANGED <<client, stream, feed, connection>>
      /\ buffer' = SubSeq(buffer, Available + 1, Len(buffer))
  BY DEF ChunkData, Silent
<1>2. feed = "executing" /\ parser.errno = "OK" /\ parser.state = "s_chunk_data"
  BY <1>1, AtIs
<1>3. ParserOK(parser) /\ IsParser(parser) /\ rest \in 0 .. UllMax
  BY AvailableIs DEF IInv, ParserOK
<1>4. parser' = [parser EXCEPT !.content_length = rest, !.state = t,
                               !.mark = "body", !.marked = data]
  BY <1>3 DEF ChunkData, IsParser
<1>5. t \in {"s_chunk_data", "s_chunk_data_almost_done"}
  BY <1>2
<1> HIDE DEF data, rest, t
<1>6. /\ parser'.mark = "body" /\ parser'.errno = parser.errno /\ parser'.state = t
      /\ parser'.content_length = rest /\ parser'.nread = parser.nread /\ IsParser(parser')
  BY <1>3, <1>4 DEF IsParser
<1>7. ParserOK(parser') /\ MarkFits(parser', buffer') /\ BodyLeft(parser')
  BY <1>3, <1>5, <1>6 DEF ParserOK, MarkFits, BodyLeft
<1>8. buffer' \in Seq(STRING)
  <2>1. Available + 1 \in Nat /\ Available + 1 >= 1
    BY AvailableIs
  <2>2. buffer \in Seq(STRING) /\ Len(buffer) \in Nat
    BY DEF IInv, Sequences
  <2> QED
    BY <1>1, <2>1, <2>2, PartIs
<1> QED
  BY <1>1, <1>2, <1>6, <1>7, <1>8, GoesOn

(* The carriage return behind a chunk.                                     *)
LEMMA ChunkDataAlmostDoneKeeps == IInv /\ ChunkDataAlmostDone => IInv'
<1> SUFFICES ASSUME IInv, ChunkDataAlmostDone PROVE IInv'
  OBVIOUS
<1>1. At("s_chunk_data_almost_done")
  BY DEF ChunkDataAlmostDone
<1>2. /\ feed = "executing" /\ parser.errno = "OK" /\ buffer # <<>>
      /\ InHeader(parser.state) => parser.nread < MaxHeader
  BY <1>1, AtIs
<1>3. ASSUME parser' = Unmarked(Past("s_chunk_data_done")), Consume,
             UNCHANGED <<client, stream, feed, connection>>
      PROVE  IInv'
  <2>1. /\ ParserOK(parser') /\ parser'.mark = "none" /\ parser'.errno = "OK"
        /\ parser'.state = "s_chunk_data_done"
    BY <1>2, <1>3, PastIs, UnmarkedIs
  <2>2. MarkFits(parser', buffer') /\ BodyLeft(parser') /\ buffer' \in Seq(STRING)
    BY <1>2, <1>3, <2>1, ConsumeIs DEF MarkFits, BodyLeft
  <2> QED
    BY <1>2, <1>3, <2>1, <2>2, GoesOn
<1> QED
  BY <1>2, <1>3, FailKeeps DEF ChunkDataAlmostDone

(* The line feed behind a chunk; the next chunk's line is counted anew.    *)
LEMMA ChunkDataDoneKeeps == IInv /\ ChunkDataDone => IInv'
<1> SUFFICES ASSUME IInv, ChunkDataDone PROVE IInv'
  OBVIOUS
<1>1. At("s_chunk_data_done") /\ "s_chunk_data_done" \notin Marked
  BY DEF ChunkDataDone, Marked, UrlStart, UrlRest
<1>2. feed = "executing"
  BY <1>1, AtIs
<1> DEFINE p == Past("s_chunk_size_start")
<1>3. ASSUME parser' = [p EXCEPT !.nread = 0], Consume, Silent, UNCHANGED feed
      PROVE  IInv'
  <2>1. /\ IsParser(p) /\ p = Past("s_chunk_size_start") /\ p.state = "s_chunk_size_start"
        /\ p.content_length \in 0 .. UllMax
    BY <1>1, PastOK, PastIs, AtIs DEF ParserOK
  <2> HIDE DEF p
  <2>2. /\ parser'.mark = p.mark /\ parser'.errno = p.errno /\ parser'.marked = p.marked
        /\ parser'.content_length = p.content_length /\ parser'.nread = 0
        /\ IsParser(parser') /\ parser'.state = p.state
    BY <1>3, <2>1 DEF IsParser
  <2> QED
    BY <1>1, <1>3, <2>1, <2>2, PlainKeeps DEF BodyLeft
<1> QED
  BY <1>2, <1>3, FailKeeps DEF ChunkDataDone

(* The buffer is used up: what was marked of it has been handed over.      *)
LEMMA EndOfBufferKeeps == IInv /\ EndOfBuffer => IInv'
<1> SUFFICES ASSUME IInv, EndOfBuffer PROVE IInv'
  OBVIOUS
<1>1. feed' = "returning" /\ UNCHANGED <<client, stream, buffer>>
  BY DEF EndOfBuffer
<1>2. ParserOK(parser) /\ BodyLeft(parser)
  BY DEF IInv
<1>3. CASE parser.mark = "url"
  <2>1. OnUrl(parser)
    BY <1>3 DEF EndOfBuffer
  <2>2. /\ ParserOK(parser') /\ parser'.mark = "none" /\ parser'.state = parser.state
        /\ writing' \in Nat /\ socket' = socket
    BY <1>2, <2>1, OnUrlIs
  <2>3. parser.state \in UrlStart \cup UrlRest
    BY <1>3 DEF EndOfBuffer, IInv, Marks, MarkFits
  <2>4. BodyLeft(parser')
    BY <2>2, <2>3 DEF BodyLeft, UrlStart, UrlRest
  <2>5. Sequences' /\ Connected' /\ Marks'
    BY <1>1, <2>2 DEF IInv, Sequences, Connected, Marks, client
  <2> QED
    BY <2>2, <2>4, <2>5 DEF IInv
<1>4. CASE parser.mark # "url"
  <2>1. parser' = Unmarked(parser) /\ UNCHANGED connection
    BY <1>4 DEF EndOfBuffer
  <2>2. ParserOK(parser') /\ parser'.mark = "none" /\ parser'.state = parser.state
    BY <1>2, <2>1, UnmarkedIs
  <2>3. parser'.content_length = parser.content_length
    BY <1>2, <2>1 DEF Unmarked, ParserOK, IsParser
  <2>4. BodyLeft(parser')
    BY <1>2, <2>2, <2>3 DEF BodyLeft
  <2>5. Sequences' /\ Connected' /\ Marks'
    BY <1>1, <2>1, <2>2 DEF IInv, Sequences, Connected, Marks, client, connection
  <2> QED
    BY <2>2, <2>4, <2>5 DEF IInv
<1> QED
  BY <1>3, <1>4

-----------------------------------------------------------------------------
(* The client sends a message.                                             *)
LEMMA SendKeeps == IInv /\ Send => IInv'
<1> SUFFICES ASSUME IInv, Send PROVE IInv'
  OBVIOUS
<1>1. /\ sent < Len(script.messages) /\ sent' = sent + 1
      /\ stream' = stream \o script.messages[sent + 1].bytes
      /\ UNCHANGED <<script, feed, buffer, parser, connection>>
  BY DEF Send
<1>2. /\ script \in Scripts /\ sent \in 0 .. Len(script.messages)
      /\ stream \in Seq(STRING) /\ buffer \in Seq(STRING)
  BY DEF IInv, Sequences
<1>3. Len(script.messages) \in Nat
      /\ \A k \in 1 .. Len(script.messages) : script.messages[k].bytes \in Seq(STRING)
  BY <1>2, HttpParserAssumption
<1>4. sent' \in 0 .. Len(script.messages) /\ script.messages[sent + 1].bytes \in Seq(STRING)
  <2>1. sent + 1 \in 1 .. Len(script.messages)
    BY <1>1, <1>2, <1>3
  <2> QED
    BY <1>1, <1>3, <2>1
<1>5. stream' \in Seq(STRING)
  BY <1>1, <1>2, <1>4
<1>6. Sequences'
  BY <1>1, <1>2, <1>4, <1>5 DEF Sequences
<1>7. ParserOK(parser') /\ BodyLeft(parser') /\ Marks' /\ Connected'
  BY <1>1 DEF IInv, Marks, Connected, connection
<1> QED
  BY <1>6, <1>7 DEF IInv

(* A buffer is read.                                                       *)
LEMMA ReadKeeps == ASSUME IInv, NEW n \in DOMAIN stream, Read(n) PROVE IInv'
<1>1. /\ socket = "open" /\ feed = "idle" /\ parser.errno = "OK" /\ parser.mark = "none"
      /\ UNCHANGED <<client, connection>>
  BY DEF Read, IInv, Marks
<1>2. ParserOK(parser) /\ IsParser(parser) /\ BodyLeft(parser)
  BY DEF IInv, ParserOK
<1>3. stream \in Seq(STRING) /\ buffer \in Seq(STRING) /\ n \in 1 .. Len(stream)
      /\ Len(stream) \in Nat
  BY DEF IInv, Sequences
<1>4. stream' \in Seq(STRING)
  <2>1. n + 1 \in Nat /\ n + 1 >= 1
    BY <1>3
  <2> QED
    BY <1>3, <2>1 DEF Read
<1>5. CASE wrapper.message_complete
  <2>1. feed' = "returning" /\ UNCHANGED <<buffer, parser>>
    BY <1>5 DEF Read
  <2>2. Sequences' /\ Connected' /\ Marks'
    BY <1>1, <1>4, <2>1 DEF IInv, Sequences, Connected, Marks, client, connection
  <2> QED
    BY <1>2, <2>1, <2>2 DEF IInv
<1>6. CASE ~wrapper.message_complete
  <2> DEFINE m == CASE parser.state = "s_header_field" -> "field"
                    [] parser.state = "s_header_value" -> "value"
                    [] parser.state \in UrlStart \cup UrlRest -> "url"
                    [] OTHER -> "none"
  <2>1. /\ feed' = "executing" /\ buffer' = SubSeq(stream, 1, n)
        /\ parser' = [parser EXCEPT !.mark = m, !.url_start = FALSE]
    BY <1>6 DEF Read
  <2>2. m = "none" \/ (m = "url" /\ parser.state \in UrlStart \cup UrlRest)
        \/ (m = "field" /\ parser.state = "s_header_field")
        \/ (m = "value" /\ parser.state = "s_header_value")
    <3>1. CASE parser.state = "s_header_field"
      BY <3>1 DEF UrlStart, UrlRest
    <3>2. CASE parser.state = "s_header_value"
      BY <3>2 DEF UrlStart, UrlRest
    <3>3. CASE parser.state \in UrlStart \cup UrlRest
      BY <3>3 DEF UrlStart, UrlRest
    <3>4. CASE parser.state \notin {"s_header_field", "s_header_value"} \cup UrlStart \cup UrlRest
      BY <3>4
    <3> QED
      BY <3>1, <3>2, <3>3, <3>4
  <2> HIDE DEF m
  <2>3. /\ parser'.mark = m /\ parser'.errno = "OK" /\ parser'.state = parser.state
        /\ parser'.marked = parser.marked /\ parser'.content_length = parser.content_length
        /\ parser'.nread = parser.nread /\ IsParser(parser')
    BY <1>1, <1>2, <2>1 DEF IsParser
  <2>4. ParserOK(parser') /\ MarkFits(parser', buffer') /\ BodyLeft(parser')
    BY <1>1, <1>2, <2>2, <2>3 DEF ParserOK, MarkFits, BodyLeft
  <2>5. buffer' \in Seq(STRING)
    BY <1>3, <2>1
  <2>6. Sequences' /\ Connected' /\ Marks'
    BY <1>1, <1>4, <2>1, <2>3, <2>4, <2>5
       DEF IInv, Sequences, Connected, Marks, client, connection
  <2> QED
    BY <2>4, <2>6 DEF IInv
<1> QED
  BY <1>5, <1>6

(* The parser returns.                                                     *)
LEMMA ReturnKeeps == IInv /\ Return => IInv'
<1> SUFFICES ASSUME IInv, Return PROVE IInv'
  OBVIOUS
<1>1. /\ feed' = "idle" /\ buffer' = <<>> /\ feed = "returning"
      /\ UNCHANGED <<client, stream, parser, writing>>
  BY DEF Return
<1>2. socket' \in {"open", "draining", "closed"} /\ (parser.errno # "OK" => socket' = "closed")
  <2>1. CASE parser.errno # "OK" \/ buffer # <<>>
    BY <2>1 DEF Return
  <2>2. CASE ~(parser.errno # "OK" \/ buffer # <<>>)
    <3>1. socket' \in {socket, "closed", "draining"}
      BY <2>2 DEF Return
    <3> QED
      BY <2>2, <3>1 DEF IInv, Connected
  <2> QED
    BY <2>1, <2>2
<1>3. Sequences' /\ Connected' /\ Marks'
  BY <1>1, <1>2 DEF IInv, Sequences, Connected, Marks, client
<1> QED
  BY <1>1, <1>3 DEF IInv

(* An answer has been written.                                             *)
LEMMA WrittenKeeps == IInv /\ Written => IInv'
<1> SUFFICES ASSUME IInv, Written PROVE IInv'
  OBVIOUS
<1>1. /\ feed = "idle" /\ writing > 0 /\ writing' = writing - 1
      /\ parser' = [parser EXCEPT !.state = "s_start_req", !.qs_point = 0]
      /\ socket' \in {"closed", socket}
      /\ UNCHANGED <<client, stream, feed, buffer>>
  BY DEF Written
<1>2. ParserOK(parser) /\ IsParser(parser)
  BY DEF IInv, ParserOK
<1>3. /\ parser'.mark = parser.mark /\ parser'.errno = parser.errno
      /\ parser'.marked = parser.marked /\ parser'.content_length = parser.content_length
      /\ parser'.nread = parser.nread /\ IsParser(parser') /\ parser'.state = "s_start_req"
  BY <1>1, <1>2 DEF IsParser
<1>4. ParserOK(parser') /\ BodyLeft(parser')
  BY <1>2, <1>3 DEF ParserOK, BodyLeft
<1>5. Sequences' /\ Connected' /\ Marks'
  BY <1>1, <1>3 DEF IInv, Sequences, Connected, Marks, client
<1> QED
  BY <1>4, <1>5 DEF IInv

(* A header longer than its limit is refused.                              *)
LEMMA HeaderOverflowKeeps == IInv /\ HeaderOverflow => IInv'
BY FailKeeps DEF HeaderOverflow

(* One call of the parser keeps the invariant.                             *)
LEMMA ExecuteKeeps == IInv /\ Execute => IInv'
BY HeaderOverflowKeeps, StartReqKeeps, SpacesBeforeUrlKeeps, UrlBeginsKeeps, UrlKeeps,
   HttpVersionKeeps, HttpEndKeeps, LineAlmostDoneKeeps, HeaderFieldStartKeeps,
   HeaderFieldRestKeeps, HeaderValueStartKeeps, HeaderValueDiscardWsKeeps,
   DiscardWsAlmostDoneKeeps, DiscardLwsKeeps, HeaderValueEndsKeeps, HeaderValueKeeps,
   HeaderAlmostDoneKeeps, HeaderValueLwsKeeps, HeadersAlmostDoneKeeps, HeadersDoneKeeps,
   BodyIdentityKeeps, MessageDoneKeeps, ChunkSizeStartKeeps, ChunkSizeKeeps,
   ChunkParametersKeeps, ChunkSizeAlmostDoneKeeps, ChunkDataKeeps,
   ChunkDataAlmostDoneKeeps, ChunkDataDoneKeeps, EndOfBufferKeeps, Zenon DEF Execute

(* Nothing happens.                                                        *)
LEMMA StutterKeeps == IInv /\ UNCHANGED vars => IInv'
<1> SUFFICES ASSUME IInv, UNCHANGED vars PROVE IInv'
  OBVIOUS
<1>1. Sequences' /\ Connected' /\ Marks'
  BY DEF IInv, Sequences, Connected, Marks, vars, client, connection
<1>2. ParserOK(parser') /\ BodyLeft(parser')
  BY DEF IInv, vars
<1> QED
  BY <1>1, <1>2 DEF IInv

(* For every client, every set of routes and every way its bytes arrive:   *)
(* the state of the parser, its open mark and the length it counts fit     *)
(* together at every byte, over every boundary of buffers, from one        *)
(* request to the next; a failed parser is never given another buffer.     *)
THEOREM ParserInvariant == Spec => []IInv
<1>1. IInv /\ [Next]_vars => IInv'
  BY SendKeeps, ReadKeeps, ExecuteKeeps, ReturnKeeps, WrittenKeeps, StutterKeeps DEF Next
<1> QED
  BY InitOK, <1>1, PTL DEF Spec

(* A length never exceeds 64 bits, however many digits a client writes,    *)
(* the headers never exceed their limit, and nothing that was marked is    *)
(* left over when its mark is gone.                                        *)
THEOREM LengthsFit == Spec => []TypeOK
<1>1. IInv => TypeOK
  BY DEF IInv, Sequences, ParserOK, Connected, TypeOK
<1> QED
  BY <1>1, ParserInvariant, PTL

=============================================================================
