----------------------------- MODULE HttpParser -----------------------------
(***************************************************************************)
(* How an HTTP connection turns bytes into requests: http_parser_execute   *)
(* (http_parser_merged.h), the callbacks of HTTPParser (parser.h), and of  *)
(* Connection (http_connection.h) what decides when the parser is fed and  *)
(* cleared: buffers are read, a request is handled, its answer is written  *)
(* later, and then the parser is cleared for the next one.                 *)
(*                                                                         *)
(* Bytes are grouped into lexemes: a method, a version, a header name or   *)
(* value the parser recognises, or one byte of any other kind.  A buffer   *)
(* may end between any two of them.  lenient_http_headers and              *)
(* allow_chunked_length are 0: http_parser_init leaves them so.            *)
(***************************************************************************)
EXTENDS Integers, Sequences

CONSTANTS
  Scripts,      \* what clients do: [messages, pipelining], the messages being
                \* [bytes, request], sent with or without awaiting answers
  Routes,       \* the URLs that have a rule
  Streamed,     \* those answered synchronously (do_write_static, ...)
  MaxHeader,    \* max_header_size, in lexemes
  UllMax        \* CROW_ULLONG_MAX

(* Messages are sequences of lexemes; a digit is a length that fits.       *)
ASSUME HttpParserAssumption ==
  /\ MaxHeader \in Nat /\ UllMax \in Nat /\ UllMax >= 9
  /\ \A c \in Scripts :
       /\ Len(c.messages) \in Nat
       /\ \A k \in 1 .. Len(c.messages) : c.messages[k].bytes \in Seq(STRING)

VARIABLES
  script, sent, \* the client, and how many messages it has sent
  stream,       \* what it has sent and the server not read
  feed,         \* HTTPParser::feed: "idle", "executing" or "returning"
  buffer,       \* what http_parser_execute has not consumed
  parser,       \* http_parser, and the marks of http_parser_execute
  wrapper,      \* HTTPParser: req, header_field, header_value, ...
  socket,       \* "open", "draining" (nothing is read any more) or "closed"
  writing,      \* asynchronous writes under way
  handled,      \* history: the requests given to Connection::handle
  answers       \* history: the status codes of the answers

client == <<script, sent>>
connection == <<socket, writing, handled, answers>>
vars == <<client, stream, feed, buffer, parser, wrapper, connection>>

Methods == {"GET", "POST", "CONNECT"}
Versions == {"HTTP/1.0", "HTTP/1.1", "HTTP/2.0"}
Digits == {"0", "1", "2", "9"}
Digit(d) == CASE d = "0" -> 0 [] d = "1" -> 1 [] d = "2" -> 2 [] d = "9" -> 9
Blank == {"sp", "tab"}
Alpha == {"a", "b"}
Words == {"close", "keep-alive", "chunked", "gzip", "h", "2c",
          "Connection", "Content-Length", "Transfer-Encoding", "Upgrade",
          "Host"}
(* CROW_TOKEN, CROW_IS_URL_CHAR, CROW_IS_USERINFO_CHAR, CROW_IS_HEADER_CHAR *)
IsToken(c) == c \in Alpha \cup Digits \cup Methods \cup Words
IsUrlChar(c) == c \in Alpha \cup Digits \cup {"/", "*", ":", "@", ","}
IsUserInfoChar(c) == c \in Alpha \cup Digits \cup {":", ","}
IsHeaderChar(c) == c # "nul"

InHeader(s) ==
  s \notin {"s_chunk_data", "s_chunk_data_almost_done", "s_chunk_data_done",
            "s_body_identity", "s_message_done"}

UrlStart == {"s_req_schema", "s_req_schema_slash", "s_req_schema_slash_slash",
             "s_req_server_start"}
UrlRest == {"s_req_server", "s_req_server_with_at", "s_req_path",
            "s_req_query_string_start", "s_req_query_string"}

EmptyRequest ==
  [method |-> "GET", raw_url |-> <<>>, url |-> <<>>, headers |-> <<>>,
   body |-> <<>>, version |-> "none", keep_alive |-> FALSE,
   close_connection |-> FALSE, upgrade |-> FALSE]

(* HTTPParser as clear() leaves it.                                        *)
Cleared ==
  [req |-> EmptyRequest, header_field |-> <<>>, header_value |-> <<>>,
   header_building_state |-> 0, message_complete |-> FALSE]

(* http_parser_init.                                                       *)
NewParser ==
  [state |-> "s_start_req", header_state |-> "h_general", flags |-> {},
   uses_transfer_encoding |-> FALSE, content_length |-> 0, nread |-> 0,
   qs_point |-> 0, method |-> "GET", version |-> "none", upgrade |-> FALSE,
   errno |-> "OK", mark |-> "none", marked |-> <<>>, url_start |-> FALSE]

Init ==
  /\ script \in Scripts
  /\ sent = 0
  /\ stream = <<>>
  /\ feed = "idle"
  /\ buffer = <<>>
  /\ parser = NewParser
  /\ wrapper = Cleared
  /\ socket = "open"
  /\ writing = 0
  /\ handled = <<>>
  /\ answers = <<>>

-----------------------------------------------------------------------------
(* http_parser_execute: consuming, failing, marks.                         *)

ch == Head(buffer)

(* Mutant: the size of the headers is not limited.                         *)
AtUnbounded(s) ==
  /\ feed = "executing"
  /\ parser.errno = "OK"
  /\ buffer # <<>>
  /\ parser.state = s

(* A byte is processed in state s.  (Those of a header are counted first.) *)
At(s) ==
  /\ feed = "executing"
  /\ parser.errno = "OK"
  /\ buffer # <<>>
  /\ parser.state = s
  /\ InHeader(s) => parser.nread < MaxHeader

(* The parser after it consumed a byte and went to state s.                *)
Past(s) ==
  [parser EXCEPT !.state = s,
     !.nread = IF InHeader(parser.state) THEN @ + 1 ELSE @,
     !.marked = IF parser.mark = "none" THEN <<>> ELSE Append(@, ch)]

Consume == buffer' = Tail(buffer)
Silent == UNCHANGED <<client, stream, wrapper, connection>>

Go(s) ==
  /\ parser' = Past(s)
  /\ Consume
  /\ Silent
  /\ UNCHANGED feed

(* CROW_SET_ERRNO and goto error.                                          *)
Fail(e) ==
  /\ parser' = [parser EXCEPT !.errno = e]
  /\ feed' = "returning"
  /\ Silent
  /\ UNCHANGED buffer

(* CROW_REEXECUTE: the byte is processed again, in state s.                *)
Reexecute(s) ==
  /\ parser' = [parser EXCEPT !.state = s]
  /\ Silent
  /\ UNCHANGED <<feed, buffer>>

(* A callback was called for the byte: if it left an error, that is all.   *)
Called ==
  /\ Consume
  /\ feed' = IF parser'.errno = "OK" THEN "executing" ELSE "returning"
  /\ UNCHANGED <<client, stream>>

Unmarked(p) == [p EXCEPT !.mark = "none", !.marked = <<>>]

HeaderOverflow ==
  /\ feed = "executing" /\ parser.errno = "OK" /\ buffer # <<>>
  /\ InHeader(parser.state)
  /\ parser.nread >= MaxHeader
  /\ Fail("HEADER_OVERFLOW")

-----------------------------------------------------------------------------
(* HTTPParser's callbacks.                                                 *)

(* set_connection_parameters.                                              *)
WithParameters(req) ==
  LET v == parser.version
      flagged(f) == f \in parser.flags
  IN [req EXCEPT
        !.version = v,
        !.keep_alive = \/ v = "HTTP/1.1"
                       \/ v = "HTTP/1.0" /\ flagged("F_CONNECTION_KEEP_ALIVE"),
        !.close_connection =
          \/ v = "HTTP/1.1" /\ flagged("F_CONNECTION_CLOSE")
          \/ v = "HTTP/1.0" /\ ~flagged("F_CONNECTION_KEEP_ALIVE"),
        !.upgrade = flagged("F_UPGRADE") \/ parser.method = "CONNECT"]

(* A new name: the header before it is complete.  One whose value is empty *)
(* is dropped.                                                             *)
OnHeaderField(w, data) ==
  IF w.header_building_state = 0
    THEN [w EXCEPT !.req.headers =
                     IF w.header_value # <<>>
                       THEN Append(@, <<w.header_field, w.header_value>>)
                       ELSE @,
                   !.header_field = data,
                   !.header_value = <<>>,
                   !.header_building_state = 1]
    ELSE [w EXCEPT !.header_field = @ \o data]

OnHeaderValue(w, data) ==
  IF w.header_building_state = 0
    THEN [w EXCEPT !.header_value = @ \o data]
    ELSE [w EXCEPT !.header_value = data, !.header_building_state = 0]

OnHeadersComplete(w) ==
  LET req == IF w.header_field # <<>>
               THEN [w.req EXCEPT !.headers =
                       Append(@, <<w.header_field, w.header_value>>)]
               ELSE w.req
  IN [w EXCEPT !.req = WithParameters(req),
               !.header_field = <<>>, !.header_value = <<>>]

OnBody(w, data) == [w EXCEPT !.req.body = @ \o data]

(* Write an answer: the parser is cleared now, or when an asynchronous     *)
(* write has ended.  p is the parser at that time.                         *)
Answer(code, p, w, streamed) ==
  /\ answers' = Append(answers, code)
  /\ IF streamed
       THEN /\ parser' = [p EXCEPT !.state = "s_start_req", !.qs_point = 0]
            /\ wrapper' = Cleared
            /\ socket' = IF w.req.close_connection THEN "closed" ELSE socket
            /\ UNCHANGED writing
       ELSE /\ parser' = p
            /\ wrapper' = w
            /\ writing' = writing + 1
            /\ UNCHANGED socket

(* on_url, handle_url: what has been read of the URL is looked up at once. *)
(* If it has no rule the answer is 404, and parser_.done() leaves the      *)
(* parser in error.  p is the parser at that time.                         *)
OnUrl(p) ==
  LET raw == wrapper.req.raw_url \o p.marked
      url == IF p.qs_point = 0 \/ p.qs_point > Len(raw)
               THEN raw ELSE SubSeq(raw, 1, p.qs_point)
      w   == [wrapper EXCEPT !.req.raw_url = raw, !.req.url = url,
                             !.req.method = p.method]
  IN IF url \in Routes
       THEN /\ parser' = Unmarked(p)
            /\ wrapper' = w
            /\ UNCHANGED connection
       ELSE /\ Answer(404, Unmarked([p EXCEPT !.errno = "INVALID_EOF_STATE"]),
                      w, FALSE)
            /\ UNCHANGED handled

HasHost(req) == \E k \in DOMAIN req.headers : req.headers[k][1] = <<"Host">>
ToHttp2(req) ==
  \E k \in DOMAIN req.headers :
    req.headers[k][1] = <<"Upgrade">> /\ req.headers[k][2] = <<"h", "2c">>

(* on_message_complete, handle: an HTTP/1.1 request without Host is        *)
(* answered 400; one that asks for an upgrade is not answered: its         *)
(* connection ends.  p is the parser at that time.                         *)
OnMessageComplete(p) ==
  LET w == [wrapper EXCEPT !.message_complete = TRUE]
      invalid == w.req.version = "HTTP/1.1" /\ ~HasHost(w.req)
  IN /\ handled' = Append(handled, w.req)
     /\ IF w.req.version = "HTTP/1.1" /\ ~invalid /\ w.req.upgrade
          /\ ~ToHttp2(w.req)
       THEN /\ parser' = p
            /\ wrapper' = [w EXCEPT !.req.close_connection = TRUE]
            /\ UNCHANGED <<socket, writing, answers>>
       ELSE Answer(IF invalid THEN 400 ELSE 200, p, w,
                   w.req.url \in Streamed /\ ~invalid)

-----------------------------------------------------------------------------
(* http_parser_execute: the request line.                                  *)

(* s_start_req and s_req_method: a method is one lexeme.                   *)
StartReq ==
  /\ At("s_start_req")
  /\ \/ ch \in {"cr", "lf"} /\ Go("s_start_req")
     \/ /\ ch \in Methods
        /\ parser' = [Past("s_req_spaces_before_url") EXCEPT
                        !.flags = {}, !.uses_transfer_encoding = FALSE,
                        !.content_length = UllMax, !.method = ch]
        /\ Consume
        /\ Silent
        /\ UNCHANGED feed
     \/ ch \notin Methods \cup {"cr", "lf"} /\ Fail("INVALID_METHOD")

(* parse_url_char, without the question mark that begins the query.        *)
UrlNext(s, c) ==
  CASE s = "s_req_spaces_before_url" /\ c \in {"/", "*"} -> "s_req_path"
    [] s = "s_req_spaces_before_url" /\ c \in Alpha -> "s_req_schema"
    [] s = "s_req_schema" /\ c \in Alpha -> s
    [] s = "s_req_schema" /\ c = ":" -> "s_req_schema_slash"
    [] s = "s_req_schema_slash" /\ c = "/" -> "s_req_schema_slash_slash"
    [] s = "s_req_schema_slash_slash" /\ c = "/" -> "s_req_server_start"
    [] s \in {"s_req_server_start", "s_req_server", "s_req_server_with_at"} ->
         CASE c = "/" -> "s_req_path"
           [] c = "?" -> "s_req_query_string_start"
           [] c = "@" /\ s # "s_req_server_with_at" -> "s_req_server_with_at"
           [] IsUserInfoChar(c) -> "s_req_server"
           [] OTHER -> "s_dead"
    [] s = "s_req_path" /\ IsUrlChar(c) -> s
    [] s = "s_req_path" /\ c = "?" -> "s_req_query_string_start"
    [] s \in {"s_req_query_string_start", "s_req_query_string"}
         /\ (IsUrlChar(c) \/ c = "?") -> "s_req_query_string"
    [] OTHER -> "s_dead"

(* The call of parse_url_char: where the query begins is counted from      *)
(* url_start_mark, which is null in every buffer but the first of a URL    *)
(* (the difference is then larger than any URL).                           *)
UrlChar(p, s) ==
  LET t == UrlNext(s, ch) IN
  IF t = "s_dead"
    THEN Fail("INVALID_URL")
    ELSE /\ parser' = [p EXCEPT
              !.state = t,
              !.qs_point = IF t # "s_req_query_string_start" THEN @
                           ELSE IF p.url_start THEN Len(p.marked) - 1
                           ELSE UllMax]
         /\ Consume
         /\ Silent
         /\ UNCHANGED feed

SpacesBeforeUrl ==
  /\ At("s_req_spaces_before_url")
  /\ \/ ch = "sp" /\ Go("s_req_spaces_before_url")
     \/ /\ ch # "sp"
        /\ UrlChar([Past(parser.state) EXCEPT !.mark = "url",
                      !.marked = <<ch>>, !.url_start = TRUE],
                   IF parser.method = "CONNECT" THEN "s_req_server_start"
                                                ELSE parser.state)

UrlBegins ==
  \E s \in UrlStart : At(s) /\ UrlChar(Past(s), s)

(* The URL ends with a space, or with the line for HTTP/0.9.               *)
Url ==
  \E s \in UrlRest :
    /\ At(s)
    /\ \/ /\ ch = "sp"
          /\ OnUrl([Past("s_req_http_start") EXCEPT !.marked = parser.marked])
          /\ Called
       \/ ch \in {"cr", "lf"} /\ parser.method # "GET"
          /\ Fail("INVALID_VERSION")
       \/ /\ ch \in {"cr", "lf"} /\ parser.method = "GET"
          /\ OnUrl([Past(IF ch = "cr" THEN "s_req_line_almost_done"
                                      ELSE "s_header_field_start") EXCEPT
                      !.marked = parser.marked, !.version = "HTTP/0.9"])
          /\ Called
       \/ ch \notin {"sp", "cr", "lf"} /\ UrlChar(Past(s), s)

(* s_req_http_start .. s_req_http_minor: a version is one lexeme.          *)
HttpVersion ==
  /\ At("s_req_http_start")
  /\ \/ ch = "sp" /\ Go("s_req_http_start")
     \/ /\ ch \in Versions
        /\ parser' = [Past("s_req_http_end") EXCEPT !.version = ch]
        /\ Consume
        /\ Silent
        /\ UNCHANGED feed
     \/ ch \notin Versions \cup {"sp"} /\ Fail("INVALID_CONSTANT")

HttpEnd ==
  /\ At("s_req_http_end")
  /\ \/ ch = "cr" /\ Go("s_req_line_almost_done")
     \/ ch = "lf" /\ Go("s_header_field_start")
     \/ ch \notin {"cr", "lf"} /\ Fail("INVALID_VERSION")

LineAlmostDone ==
  /\ At("s_req_line_almost_done")
  /\ \/ ch = "lf" /\ Go("s_header_field_start")
     \/ ch # "lf" /\ Fail("LF_EXPECTED")

-----------------------------------------------------------------------------
(* http_parser_execute: headers.                                           *)

HeaderFieldStart ==
  /\ At("s_header_field_start")
  /\ \/ ch = "cr" /\ Go("s_headers_almost_done")
     \/ ch = "lf" /\ Reexecute("s_headers_almost_done")
     \/ /\ IsToken(ch)
        /\ parser' = [Past("s_header_field") EXCEPT
             !.mark = "field", !.marked = <<ch>>,
             !.header_state =
               CASE ch = "Connection" -> "h_connection"
                 [] ch = "Content-Length" -> "h_content_length"
                 [] ch = "Transfer-Encoding" -> "h_transfer_encoding"
                 [] ch = "Upgrade" -> "h_upgrade"
                 [] OTHER -> "h_general",
             !.uses_transfer_encoding = @ \/ ch = "Transfer-Encoding"]
        /\ Consume
        /\ Silent
        /\ UNCHANGED feed
     \/ ~IsToken(ch) /\ ch \notin {"cr", "lf"} /\ Fail("INVALID_HEADER_TOKEN")

(* The rest of a name: a known name that goes on is another name.          *)
HeaderFieldRest ==
  /\ At("s_header_field")
  /\ \/ /\ IsToken(ch)
        /\ parser' = [Past("s_header_field") EXCEPT
                        !.header_state = "h_general"]
        /\ Consume
        /\ Silent
        /\ UNCHANGED feed
     \/ /\ ch = ":"
        /\ wrapper' = OnHeaderField(wrapper, parser.marked)
        /\ parser' = Unmarked(Past("s_header_value_discard_ws"))
        /\ Consume
        /\ UNCHANGED <<client, stream, feed, connection>>
     \/ ~IsToken(ch) /\ ch # ":" /\ Fail("INVALID_HEADER_TOKEN")

(* s_header_value_start: what the first lexeme of a value says, by the     *)
(* name of the header.  The second lexeme is looked at for "h2" only if    *)
(* it is in the same buffer.                                               *)
ValueStarted(p) ==
  LET to(hs) == [p EXCEPT !.header_state = hs] IN
  CASE p.header_state = "h_upgrade" ->
         IF ch = "h" /\ Len(buffer) > 1 /\ buffer[2] = "2c"
           THEN to("h_general")
           ELSE [to("h_general") EXCEPT !.flags = @ \cup {"F_UPGRADE"}]
    [] p.header_state = "h_transfer_encoding" ->
         to(IF ch = "chunked" THEN "h_transfer_encoding_chunked"
                              ELSE "h_matching_transfer_encoding_token")
    [] p.header_state = "h_content_length" ->
         [to("h_content_length_num") EXCEPT
            !.flags = @ \cup {"F_CONTENTLENGTH"}, !.content_length = Digit(ch)]
    [] p.header_state = "h_connection" ->
         CASE ch = "keep-alive" -> to("h_connection_keep_alive")
           [] ch = "close" -> to("h_connection_close")
           [] ch \in Blank -> p
           [] OTHER -> to("h_general")
    [] p.header_state \in {"h_content_length_ws",
                           "h_matching_transfer_encoding_token_start"} -> p
    [] OTHER -> to("h_general")

ValueStart ==
  IF parser.header_state = "h_content_length" /\ ch \notin Digits
    THEN Fail("INVALID_CONTENT_LENGTH")
  ELSE IF /\ parser.header_state = "h_content_length"
          /\ "F_CONTENTLENGTH" \in parser.flags
    THEN Fail("UNEXPECTED_CONTENT_LENGTH")
  ELSE /\ parser' = ValueStarted([Past("s_header_value") EXCEPT
                                    !.mark = "value", !.marked = <<ch>>])
       /\ Consume
       /\ Silent
       /\ UNCHANGED feed

HeaderValueStart == At("s_header_value_start") /\ ValueStart

HeaderValueDiscardWs ==
  /\ At("s_header_value_discard_ws")
  /\ \/ ch \in Blank /\ Go("s_header_value_discard_ws")
     \/ ch = "cr" /\ Go("s_header_value_discard_ws_almost_done")
     \/ ch = "lf" /\ Go("s_header_value_discard_lws")
     \/ ch \notin Blank \cup {"cr", "lf"} /\ ValueStart

DiscardWsAlmostDone ==
  /\ At("s_header_value_discard_ws_almost_done")
  /\ \/ ch = "lf" /\ Go("s_header_value_discard_lws")
     \/ ch # "lf" /\ Fail("STRICT")

(* An empty value, unless the next line goes on with it.                   *)
DiscardLws ==
  /\ At("s_header_value_discard_lws")
  /\ \/ ch \in Blank /\ Go("s_header_value_discard_ws")
     \/ /\ ch \notin Blank
        /\ wrapper' = OnHeaderValue(wrapper, <<>>)
        /\ parser' = [parser EXCEPT !.state = "s_header_field_start"]
        /\ UNCHANGED <<client, stream, feed, buffer, connection>>

(* Mutant: the multiplication is not checked for overflow.                 *)
LengthFitsAlways(length, base) == TRUE

(* CROW_ULLONG_MAX - base) / base < length is refused.                     *)
LengthFits(length, base) == length <= (UllMax - base) \div base

(* content_length * base + digit, in 64 bits.                              *)
Longer(length, base, digit) == (length * base + digit) % (UllMax + 1)

(* s_header_value, one lexeme that does not end the line.                  *)
ValueState(hs) ==
  CASE hs = "h_content_length_num" ->
         IF ch = "sp" THEN "h_content_length_ws" ELSE hs
    [] hs = "h_matching_transfer_encoding_token_start" ->
         CASE ch = "chunked" -> "h_transfer_encoding_chunked"
           [] IsToken(ch) /\ ch # "chunked" -> "h_matching_transfer_encoding_token"
           [] ch \in Blank -> hs
           [] OTHER -> "h_general"
    [] hs = "h_matching_transfer_encoding_token" ->
         IF ch = "," THEN "h_matching_transfer_encoding_token_start" ELSE hs
    [] hs = "h_transfer_encoding_chunked" ->
         IF ch = "sp" THEN hs ELSE "h_matching_transfer_encoding_token"
    [] hs \in {"h_connection_keep_alive", "h_connection_close"} ->
         IF ch = "sp" THEN hs ELSE "h_general"
    [] hs = "h_content_length_ws" -> hs
    [] OTHER -> "h_general"

HeaderValueEnds ==
  /\ At("s_header_value")
  /\ ch \in {"cr", "lf"}
  /\ wrapper' = OnHeaderValue(wrapper, parser.marked)
  /\ IF ch = "cr"
       THEN parser' = Unmarked(Past("s_header_almost_done")) /\ Consume
       ELSE /\ parser' = Unmarked([parser EXCEPT
                                      !.state = "s_header_almost_done"])
            /\ UNCHANGED buffer
  /\ UNCHANGED <<client, stream, feed, connection>>

HeaderValue ==
  /\ At("s_header_value")
  /\ ch \notin {"cr", "lf"}
  /\ LET hs == parser.header_state
         number == hs = "h_content_length_num"
     IN IF ~IsHeaderChar(ch)
          THEN Fail("INVALID_HEADER_TOKEN")
        ELSE IF \/ number /\ ch # "sp" /\ ch \notin Digits
                \/ /\ number /\ ch \in Digits
                   /\ ~LengthFits(parser.content_length, 10)
                \/ hs = "h_content_length_ws" /\ ch # "sp"
          THEN Fail("INVALID_CONTENT_LENGTH")
        ELSE /\ parser' = [Past("s_header_value") EXCEPT
                  !.header_state = ValueState(hs),
                  !.content_length = IF number /\ ch # "sp"
                                       THEN Longer(@, 10, Digit(ch)) ELSE @]
             /\ Consume
             /\ Silent
             /\ UNCHANGED feed

HeaderAlmostDone ==
  /\ At("s_header_almost_done")
  /\ \/ ch = "lf" /\ Go("s_header_value_lws")
     \/ ch # "lf" /\ Fail("LF_EXPECTED")

(* The value goes on in the next line, or the header is finished.          *)
HeaderValueLws ==
  /\ At("s_header_value_lws")
  /\ LET hs == parser.header_state
         folded == IF hs = "h_content_length_num" THEN "h_content_length_ws"
                                                  ELSE hs
         flag == CASE hs = "h_connection_keep_alive" ->
                        {"F_CONNECTION_KEEP_ALIVE"}
                   [] hs = "h_connection_close" -> {"F_CONNECTION_CLOSE"}
                   [] hs = "h_transfer_encoding_chunked" -> {"F_CHUNKED"}
                   [] OTHER -> {}
     IN parser' = IF ch \in Blank
          THEN [parser EXCEPT !.state = "s_header_value_start",
                              !.header_state = folded]
          ELSE [parser EXCEPT !.state = "s_header_field_start",
                              !.flags = @ \cup flag]
  /\ Silent
  /\ UNCHANGED <<feed, buffer>>

(* The empty line: of the trailer of a chunked body, or of the headers.    *)
HeadersAlmostDone ==
  /\ At("s_headers_almost_done")
  /\ \/ ch # "lf" /\ Fail("STRICT")
     \/ /\ ch = "lf" /\ "F_TRAILING" \in parser.flags
        /\ OnMessageComplete(Past(parser.state))
        /\ Called
     \/ /\ ch = "lf" /\ "F_TRAILING" \notin parser.flags
        /\ IF parser.uses_transfer_encoding /\ "F_CONTENTLENGTH" \in parser.flags
             THEN Fail("UNEXPECTED_CONTENT_LENGTH")
             ELSE /\ wrapper' = OnHeadersComplete(wrapper)
                  /\ parser' = [parser EXCEPT
                       !.state = "s_headers_done",
                       !.upgrade = \/ "F_UPGRADE" \in parser.flags
                                   \/ parser.method = "CONNECT"]
                  /\ UNCHANGED <<client, stream, feed, buffer, connection>>

-----------------------------------------------------------------------------
(* http_parser_execute: bodies.                                            *)

(* The end of the headers decides where the body ends.  (The state is left *)
(* as it is when there is none: it changes when the parser is cleared.)    *)
HeadersDone ==
  /\ At("s_headers_done")
  /\ LET p == [Past(parser.state) EXCEPT !.nread = 0]
         length == parser.content_length
     IN \/ ch # "lf" /\ Fail("STRICT")
        \/ /\ ch = "lf" /\ parser.upgrade
           /\ OnMessageComplete(p)
           /\ Consume
           /\ feed' = "returning"
           /\ UNCHANGED <<client, stream>>
        \/ /\ ch = "lf" /\ ~parser.upgrade
           /\ \/ /\ "F_CHUNKED" \in parser.flags
                 /\ parser' = [p EXCEPT !.state = "s_chunk_size_start"]
                 /\ Consume
                 /\ Silent
                 /\ UNCHANGED feed
              \/ /\ "F_CHUNKED" \notin parser.flags
                 /\ parser.uses_transfer_encoding
                 /\ Fail("INVALID_TRANSFER_ENCODING")
              \/ /\ "F_CHUNKED" \notin parser.flags
                 /\ ~parser.uses_transfer_encoding
                 /\ IF length \in {0, UllMax}
                      THEN OnMessageComplete(p) /\ Called
                      ELSE /\ parser' = [p EXCEPT !.state = "s_body_identity"]
                           /\ Consume
                           /\ Silent
                           /\ UNCHANGED feed

Available ==
  IF parser.content_length < Len(buffer) THEN parser.content_length
                                         ELSE Len(buffer)

(* The last byte of the body is processed again in s_message_done.         *)
BodyIdentity ==
  /\ At("s_body_identity")
  /\ LET data == SubSeq(buffer, 1, Available)
         rest == parser.content_length - Available
     IN IF rest = 0
          THEN /\ wrapper' = OnBody(wrapper, data)
               /\ parser' = [parser EXCEPT !.content_length = 0,
                                           !.state = "s_message_done"]
               /\ buffer' = SubSeq(buffer, Available, Len(buffer))
          ELSE /\ parser' = [parser EXCEPT !.content_length = rest,
                               !.mark = "body", !.marked = data]
               /\ buffer' = <<>>
               /\ UNCHANGED wrapper
  /\ UNCHANGED <<client, stream, feed, connection>>

MessageDone ==
  /\ At("s_message_done")
  /\ OnMessageComplete(parser)
  /\ Called

ChunkSizeStart ==
  /\ At("s_chunk_size_start")
  /\ \/ /\ ch \in Digits
        /\ parser' = [Past("s_chunk_size") EXCEPT !.content_length = Digit(ch)]
        /\ Consume
        /\ Silent
        /\ UNCHANGED feed
     \/ ch \notin Digits /\ Fail("INVALID_CHUNK_SIZE")

ChunkSize ==
  /\ At("s_chunk_size")
  /\ \/ ch = "cr" /\ Go("s_chunk_size_almost_done")
     \/ ch \in {";", "sp"} /\ Go("s_chunk_parameters")
     \/ /\ ch \in Digits
        /\ IF LengthFits(parser.content_length, 16)
             THEN /\ parser' = [Past("s_chunk_size") EXCEPT
                                  !.content_length = Longer(@, 16, Digit(ch))]
                  /\ Consume
                  /\ Silent
                  /\ UNCHANGED feed
             ELSE Fail("INVALID_CONTENT_LENGTH")
     \/ ch \notin Digits \cup {"cr", ";", "sp"} /\ Fail("INVALID_CHUNK_SIZE")

ChunkParameters ==
  /\ At("s_chunk_parameters")
  /\ Go(IF ch = "cr" THEN "s_chunk_size_almost_done" ELSE parser.state)

ChunkSizeAlmostDone ==
  /\ At("s_chunk_size_almost_done")
  /\ IF ch # "lf"
       THEN Fail("STRICT")
       ELSE /\ parser' = IF parser.content_length = 0
                 THEN [Past("s_header_field_start") EXCEPT
                         !.nread = 0, !.flags = @ \cup {"F_TRAILING"}]
                 ELSE [Past("s_chunk_data") EXCEPT !.nread = 0]
            /\ Consume
            /\ Silent
            /\ UNCHANGED feed

ChunkData ==
  /\ At("s_chunk_data")
  /\ LET rest == parser.content_length - Available IN
       parser' = [parser EXCEPT
         !.content_length = rest,
         !.state = IF rest = 0 THEN "s_chunk_data_almost_done" ELSE @,
         !.mark = "body",
         !.marked = SubSeq(buffer, 1, Available)]
  /\ buffer' = SubSeq(buffer, Available + 1, Len(buffer))
  /\ Silent
  /\ UNCHANGED feed

ChunkDataAlmostDone ==
  /\ At("s_chunk_data_almost_done")
  /\ IF ch # "cr"
       THEN Fail("STRICT")
       ELSE /\ wrapper' = OnBody(wrapper, parser.marked)
            /\ parser' = Unmarked(Past("s_chunk_data_done"))
            /\ Consume
            /\ UNCHANGED <<client, stream, feed, connection>>

ChunkDataDone ==
  /\ At("s_chunk_data_done")
  /\ IF ch # "lf"
       THEN Fail("STRICT")
       ELSE /\ parser' = [Past("s_chunk_size_start") EXCEPT !.nread = 0]
            /\ Consume
            /\ Silent
            /\ UNCHANGED feed

(* The buffer is used up: what it holds of a name, a value, a URL or a     *)
(* body goes to the callback.                                              *)
EndOfBuffer ==
  /\ feed = "executing" /\ parser.errno = "OK" /\ buffer = <<>>
  /\ feed' = "returning"
  /\ IF parser.mark = "url"
       THEN OnUrl(parser)
       ELSE /\ wrapper' = CASE parser.mark = "field" ->
                                OnHeaderField(wrapper, parser.marked)
                          [] parser.mark = "value" ->
                                OnHeaderValue(wrapper, parser.marked)
                          [] parser.mark = "body" ->
                                OnBody(wrapper, parser.marked)
                          [] OTHER -> wrapper
            /\ parser' = Unmarked(parser)
            /\ UNCHANGED connection
  /\ UNCHANGED <<client, stream, buffer>>

Execute ==
  \/ HeaderOverflow
  \/ StartReq \/ SpacesBeforeUrl \/ UrlBegins \/ Url
  \/ HttpVersion \/ HttpEnd \/ LineAlmostDone
  \/ HeaderFieldStart \/ HeaderFieldRest
  \/ HeaderValueStart \/ HeaderValueDiscardWs \/ DiscardWsAlmostDone
  \/ DiscardLws \/ HeaderValueEnds \/ HeaderValue \/ HeaderAlmostDone
  \/ HeaderValueLws \/ HeadersAlmostDone \/ HeadersDone
  \/ BodyIdentity \/ MessageDone
  \/ ChunkSizeStart \/ ChunkSize \/ ChunkParameters \/ ChunkSizeAlmostDone
  \/ ChunkData \/ ChunkDataAlmostDone \/ ChunkDataDone
  \/ EndOfBuffer

-----------------------------------------------------------------------------
(* The client and the connection.                                          *)

Send ==
  /\ socket = "open" /\ sent < Len(script.messages)
  /\ script.pipelining \/ (Len(answers) >= sent /\ writing = 0)
  /\ sent' = sent + 1
  /\ stream' = stream \o script.messages[sent + 1].bytes
  /\ UNCHANGED <<script, feed, buffer, parser, wrapper, connection>>

(* do_read has got n bytes.  feed ignores them while message_complete; in  *)
(* the middle of a name, a value or a URL the mark is set again.           *)
Read(n) ==
  /\ socket = "open" /\ feed = "idle"
  /\ stream' = SubSeq(stream, n + 1, Len(stream))
  /\ IF wrapper.message_complete
       THEN feed' = "returning" /\ UNCHANGED <<buffer, parser>>
       ELSE /\ feed' = "executing"
            /\ buffer' = SubSeq(stream, 1, n)
            /\ parser' = [parser EXCEPT
                 !.mark = CASE parser.state = "s_header_field" -> "field"
                            [] parser.state = "s_header_value" -> "value"
                            [] parser.state \in UrlStart \cup UrlRest -> "url"
                            [] OTHER -> "none",
                 !.url_start = FALSE]
  /\ UNCHANGED <<client, wrapper, connection>>

(* close_connection_, which handle sets from the request.                  *)
CloseConnection == wrapper.message_complete /\ wrapper.req.close_connection

(* do_read's callback after feed: on an error, or if not all was consumed, *)
(* the socket is closed; nothing more is read if it is to be closed after  *)
(* the write (without one the connection is destroyed).                    *)
Return ==
  /\ feed = "returning"
  /\ feed' = "idle"
  /\ buffer' = <<>>
  /\ socket' = IF parser.errno # "OK" \/ buffer # <<>> THEN "closed"
               ELSE IF socket = "open" /\ CloseConnection
                 THEN IF writing = 0 THEN "closed" ELSE "draining"
               ELSE socket
  /\ UNCHANGED <<client, stream, parser, wrapper, writing, handled, answers>>

(* Mutant: the parser is cleared when the answer is handed to the socket,  *)
(* and not again when it has been written.                                 *)
WrittenUncleared ==
  /\ writing > 0 /\ feed = "idle"
  /\ writing' = writing - 1
  /\ socket' = IF wrapper.message_complete /\ wrapper.req.close_connection
                 THEN "closed" ELSE socket
  /\ UNCHANGED <<client, stream, feed, buffer, parser, wrapper, handled,
                 answers>>

(* do_write's callback: clear().                                           *)
Written ==
  /\ writing > 0 /\ feed = "idle"
  /\ writing' = writing - 1
  /\ wrapper' = Cleared
  /\ parser' = [parser EXCEPT !.state = "s_start_req", !.qs_point = 0]
  /\ socket' = IF CloseConnection THEN "closed" ELSE socket
  /\ UNCHANGED <<client, stream, feed, buffer, handled, answers>>

Next ==
  \/ Send
  \/ \E n \in DOMAIN stream : Read(n)
  \/ Execute \/ Return \/ Written

Spec == Init /\ [][Next]_vars

(* The thread that serves the connection runs, and what was sent arrives.  *)
FairSpec ==
  /\ Spec
  /\ WF_vars(Execute \/ Return)
  /\ WF_vars(Written)
  /\ WF_vars(\E n \in DOMAIN stream : Read(n))

-----------------------------------------------------------------------------

TypeOK ==
  /\ sent \in 0 .. Len(script.messages)
  /\ feed \in {"idle", "executing", "returning"}
  /\ parser.content_length \in 0 .. UllMax
  /\ parser.nread \in 0 .. MaxHeader
  /\ parser.mark = "none" => parser.marked = <<>>
  /\ socket \in {"open", "draining", "closed"}
  /\ writing \in Nat

(* The messages sent that say what was handled k-th.                       *)
SentAs(k) == {m \in 1 .. sent : script.messages[m].request = handled[k]}

(* No bytes were sent behind a message before its asynchronous answer.     *)
InStep ==
  \/ ~script.pipelining
  \/ \A k \in 1 .. sent - 1 : script.messages[k].request.url \in Streamed

(* However the network cuts what a client sends into buffers, the requests *)
(* that handle() gets are those it sent, in order, each once: the parser   *)
(* carries its state, the open mark and the half-built header over buffer  *)
(* boundaries, and a message refused is never handled.  The exception: of  *)
(* a client that sends more behind a message before that is answered, a    *)
(* request may be handled again (a byte behind its body, or a line feed    *)
(* behind its last line, in the same buffer completes it once more,        *)
(* http_parser_merged.h:1767, 1586, 1706) and later ones may be lost (feed *)
(* drops what is read before the answer is written, parser.h:112); they    *)
(* still come in order, and none is put together from two.                 *)
DeliveredAsSent ==
  /\ \A k \in DOMAIN handled : SentAs(k) # {}
  /\ \A k \in 2 .. Len(handled) : \E m \in SentAs(k - 1), n \in SentAs(k) : m <= n
  /\ InStep => /\ Len(handled) <= sent
               /\ \A k \in DOMAIN handled : k \in SentAs(k)

(* A client that awaits its answers gets one for each request, or sees the *)
(* connection end: no sequence of buffers leaves the parser waiting for    *)
(* bytes of a message that is complete, and a parser that has had one is   *)
(* ready for the next.                                                     *)
RequestsEnd ==
  \A k \in 1 .. 2 :
    sent = k /\ ~script.pipelining ~> (Len(answers) >= k \/ socket = "closed")

(* A request for a URL that has a rule is not answered 404.  ("It will be  *)
(* called arbitrarally many times for each string", http_parser_merged.h   *)
(* says of on_url, which looks up what has been read of the URL.)          *)
KnownUrlsFound ==
  \A k \in DOMAIN answers :
    answers[k] = 404 => script.messages[k].request.url \notin Routes

=============================================================================
