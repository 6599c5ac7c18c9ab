---------------------------- MODULE HttpExchange ----------------------------
(***************************************************************************)
(* From a request's URL to its answer, as Crow does it: the router         *)
(* (headers/crow/routing.h, Router) finds the rule, the connection         *)
(* (http_connection.h) has it handled, and the response object             *)
(* (http_response.h), one per connection and used for every request on it, *)
(* is sent and cleared.  The application declares its rules, run()         *)
(* validates them, and then requests come on one connection at a time, the *)
(* next one after the answer to the last has been written.                 *)
(*                                                                         *)
(* The router is what Build and Search make it (UrlTrie has Crow's).       *)
(*                                                                         *)
(* A rule has a URL, methods, and what its handler does: "value" returns a *)
(* response of its code and size, "late" ends the response afterwards,     *)
(* "throws", "endsThenThrows", "file" and "nofile" set a static file that  *)
(* is there or not, "redirects" to a path, "socket" is a websocket rule.   *)
(* Sizes are numbers: StreamThreshold is res_stream_threshold_ and         *)
(* StatusSize the size of a status text.  There are no blueprints,         *)
(* middlewares or catchall handlers: the server uses none.                 *)
(***************************************************************************)
EXTENDS UrlRules, FiniteSets

CONSTANTS
  Build(_),         \* Router::validate: of the declared rules a table with the rules
                    \* and the tree of each method, and whether none was refused
  Search(_, _),     \* Trie::find: the rule and the parameters of a URL in a tree
  Routes,           \* the rules an application may declare
  MaxRules,         \* a bound: how many it declares
  Urls,             \* the URLs that are asked for
  Manners,          \* the rest of a request: version 1.1, Host, keep-alive, close, upgrade
  StreamThreshold, StatusSize, FileSize

NoUrl == "none"
\* What a handler may do; "nothing" is a rule without one, which is refused.
Handlers == {"value", "late", "throws", "endsThenThrows", "file", "nofile", "redirects", "socket",
             "nothing"}

ASSUME HttpExchangeAssumption ==
  /\ {"Get", "Head", "Options"} \subseteq Methods
  /\ {MaxRules, StreamThreshold, StatusSize, FileSize} \subseteq Nat
  /\ StatusSize < StreamThreshold
  /\ NoUrl \notin Methods
  /\ Routes \subseteq [url : Seq(STRING), methods : SUBSET Methods, does : Handlers, code : Nat,
                       size : Nat]
  /\ Manners \subseteq [v11 : BOOLEAN, host : BOOLEAN, keep : BOOLEAN, close : BOOLEAN,
                        upgrade : BOOLEAN]

(* What is found in a tree is the redirect, or a rule it was built from.   *)
ASSUME RouterAssumption ==
  \A n \in 0..MaxRules : \A rules \in [1..n -> Routes] :
    LET v == Build(rules) IN
    v.ok => \A m \in Methods :
      LET mine == v.table[m].rules IN
      /\ Len(mine) \in 2..(MaxRules + 2)
      /\ \A i \in 3..Len(mine) : mine[i].does # "nothing" /\ mine[i] \in {Upgraded(r) : r \in Routes}
      /\ \A u \in Urls : Search(v.table[m].trie, u).rule \in 0..(Len(mine) - 1)

VARIABLES
  all_rules,        \* the declared rules, in order
  phase,            \* "declaring", "running", or "failed" when validate has thrown
  per_methods,      \* for each method its rules and its tree
  request,          \* the method and the URL of the last request
  found,            \* routing_handle_result_
  conn              \* the connection: its response, flags and what it has sent; stale and
                    \* left are history: skip_body, or a completed response, was left over
                    \* from an earlier request

vars == <<all_rules, phase, per_methods, request, found, conn>>

----------------------------------------------------------------------------
(* The response (http_response.h).                                          *)

NoHeaders == [length |-> -1, location |-> "none", allow |-> {}, connection |-> FALSE]
Response(code, body) ==
  [code |-> code, body |-> body, headers |-> NoHeaders, completed |-> FALSE, file |-> FALSE]
NoResponse ==
  [code |-> 200, body |-> 0, headers |-> NoHeaders, completed |-> FALSE, file |-> FALSE,
   skip_body |-> FALSE, manual_length |-> FALSE, handler |-> FALSE]

\* operator=: everything but skip_body, manual_length_header and the handler.
Assign(res, r) == [f \in DOMAIN res |-> IF f \in DOMAIN r THEN r[f] ELSE res[f]]
Clear(res) == Assign(res, Response(200, 0))

\* (mutant: the body is dropped before its length is told)
CompleteEmptied(res) ==
  IF res.skip_body
  THEN [res EXCEPT !.completed = TRUE, !.headers.length = 0, !.body = 0, !.manual_length = TRUE]
  ELSE [res EXCEPT !.completed = TRUE]

\* end() up to the handler: the body of an answer to a HEAD is dropped.
Complete(res) ==
  IF res.skip_body
  THEN [res EXCEPT !.completed = TRUE, !.headers.length = res.body, !.body = 0,
                   !.manual_length = TRUE]
  ELSE [res EXCEPT !.completed = TRUE]

\* set_static_file_info: add_header keeps a length that is there.
SetStaticFile(res, there) ==
  IF there
  THEN [res EXCEPT !.file = TRUE, !.code = 200,
                   !.headers.length = IF @ = -1 THEN FileSize ELSE @]
  ELSE [res EXCEPT !.code = 404, !.file = FALSE]

----------------------------------------------------------------------------
(* The answer is sent (Connection::complete_request).                       *)

StatusCodes ==
  {100, 101} \cup 200..206 \cup 300..304 \cup {307, 308}
    \cup {400, 401, 403, 404, 405, 406, 407, 409, 410, 413, 415, 416, 417, 428, 429, 451}
    \cup (500..506 \ {505})

\* (mutant: the handler stays in place)
FinishedKeepingHandler(res, hosted) ==
  [res EXCEPT !.body = IF res.code >= 400 /\ @ = 0 THEN StatusSize ELSE @]

\* An unknown status is a 500.
Known(code) == IF code \in StatusCodes THEN code ELSE 500

\* A partial URL is completed with the Host.
Finished(res, hosted) ==
  LET code == Known(res.code)
  IN [res EXCEPT !.code = code, !.handler = FALSE,
                 !.body = IF code >= 400 /\ @ = 0 THEN StatusSize ELSE @,
                 !.headers.location = IF @ = "path" THEN IF hosted THEN "full" ELSE "hostless" ELSE @]

\* What goes out: the length told is -1 when none is.
AnswerOf(res, keep) ==
  [code |-> res.code,
   length |-> IF res.headers.length # -1 \/ res.manual_length THEN res.headers.length ELSE res.body,
   body |-> IF res.file THEN FileSize ELSE res.body,
   allow |-> res.headers.allow,
   location |-> res.headers.location,
   connection |-> Cardinality({h \in {1} : res.headers.connection} \cup {h \in {2} : keep})]

\* Static files and long bodies are written here and now, and the response is
\* cleared; a short body is swapped out and written asynchronously.
CompleteRequest(c) ==
  LET res  == Finished(c.res, c.hosted)
      sent == Append(c.sent, AnswerOf(res, c.keep))
      now  == res.file \/ res.body >= StreamThreshold
  IN IF now
     THEN [c EXCEPT !.sent = sent, !.res = Clear(res),
                    !.stage = IF c.close THEN "over" ELSE "answered"]
     ELSE [c EXCEPT !.sent = sent, !.res = [res EXCEPT !.body = 0], !.stage = "writing"]

\* response::end().
End(c) ==
  IF c.res.completed THEN c
  ELSE LET d == [c EXCEPT !.res = Complete(@)]
       IN IF ~c.res.handler THEN d
          ELSE [CompleteRequest(d) EXCEPT !.res.manual_length = FALSE, !.res.skip_body = FALSE]

Respond(c, r) == End([c EXCEPT !.res = Assign(@, r)])

----------------------------------------------------------------------------
(* The rules are declared and validated (Router::validate).                 *)

RuleAt(method, index) == per_methods[method].rules[index + 1]

NewRule(rule) ==
  /\ phase = "declaring" /\ Len(all_rules) < MaxRules
  /\ all_rules' = Append(all_rules, rule)
  /\ UNCHANGED <<phase, per_methods, request, found, conn>>

Validate ==
  /\ phase = "declaring"
  /\ LET v == Build(all_rules)
     IN /\ phase' = IF v.ok THEN "running" ELSE "failed"
        /\ per_methods' = IF v.ok THEN v.table ELSE per_methods
  /\ UNCHANGED <<all_rules, request, found, conn>>

----------------------------------------------------------------------------
(* The URL of a request is there (Connection::handle_url).                  *)

FindRule(method, url) == Search(per_methods[method].trie, url)
KnownBy(url) == {m \in Methods : FindRule(m, url).rule # 0}
NotFound == [rule |-> 0, params |-> NoParams, method |-> "none"]
FoundBy(method, url) ==
  LET f == FindRule(method, url) IN [rule |-> f.rule, params |-> f.params, method |-> method]

\* (mutant: the methods of the whole server for every URL)
AllowedAnywhere(url) == {"Options", "Head"} \cup {m \in Methods : per_methods[m].trie.children # <<>>}

\* OPTIONS: the methods that have a rule, of all the server's for "/*".
Allowed(url) ==
  {"Options", "Head"}
    \cup (IF url = <<"/", "*">> THEN {m \in Methods : per_methods[m].trie.children # <<>>}
          ELSE KnownBy(url))

\* handle_initial, what it finds, and what it does to the response.
InitialRule(method, url) ==
  LET own == FoundBy(method, url)
  IN CASE method = "Options"               -> NotFound
       [] method = "Head" /\ own.rule = 0 -> FoundBy("Get", url)
       [] OTHER                            -> own

InitialResponse(c, method, url, rule) ==
  CASE method = "Options" ->
         IF url = <<"/", "*">> \/ KnownBy(url) # {}
         THEN Respond(c, [Response(204, 0) EXCEPT !.headers.allow = Allowed(url)])
         ELSE Respond(c, Response(404, 0))
    [] method = "Head" ->
         IF rule = 0 THEN Respond(c, Response(404, 0)) ELSE [c EXCEPT !.res.skip_body = TRUE]
    [] OTHER ->
         IF rule = 0
         THEN End([c EXCEPT !.res.code = IF KnownBy(url) # {} THEN 405 ELSE 404])  \* get_error
         ELSE c

\* A request without a rule is answered before its headers have been read.
HandleUrl(method, url) ==
  /\ phase = "running" /\ conn.stage = "idle"
  /\ request' = [method |-> method, url |-> url]
  /\ found' = InitialRule(method, url)
  /\ LET b == [conn EXCEPT !.stale = conn.res.skip_body, !.left = conn.res.completed]
         c == InitialResponse(b, method, url, found'.rule)
     IN conn' = IF found'.rule = 0 THEN CompleteRequest(c) ELSE [c EXCEPT !.stage = "reading"]
  /\ UNCHANGED <<all_rules, phase, per_methods>>

----------------------------------------------------------------------------
(* The request is there (Connection::handle, Router::handle).               *)

Redirect(c) ==
  Respond(c, [Response(301, 0) EXCEPT !.headers.location =
                IF c.hosted THEN "full" ELSE "path"])

\* An exception becomes a 500.
HandleRule(c, rule) ==
  CASE rule.does = "value"     -> Respond(c, Response(rule.code, rule.size))
    [] rule.does = "late"      -> [c EXCEPT !.stage = "handling"]
    [] rule.does = "throws"    -> Respond(c, Response(500, 0))
    [] rule.does = "endsThenThrows" ->
         Respond(Respond(c, Response(rule.code, rule.size)), Response(500, 0))
    [] rule.does = "file"      -> End([c EXCEPT !.res = SetStaticFile(@, TRUE)])
    [] rule.does = "nofile"    -> End([c EXCEPT !.res = SetStaticFile(@, FALSE)])
    [] rule.does = "redirects" -> End([c EXCEPT !.res.code = 307, !.res.headers.location = "path"])
    [] rule.does = "socket"    -> Respond(c, Response(404, 0))

RouterHandle(c) ==
  IF found.rule = RULE_SPECIAL_REDIRECT_SLASH THEN Redirect(c)
  ELSE HandleRule(c, RuleAt(found.method, found.rule))

\* A websocket rule takes the socket over; what others answer has no handler
\* that would send it.
HandleUpgrade(c) ==
  LET rule   == FindRule(request.method, request.url).rule
      closed == [c EXCEPT !.close = TRUE, !.stage = "upgraded"]
  IN CASE rule = 0 -> Respond(closed, Response(405, 0))
       [] rule = RULE_SPECIAL_REDIRECT_SLASH -> Redirect(closed)
       [] rule > 1 /\ RuleAt(request.method, rule).does = "socket" -> closed
       [] OTHER -> Respond(closed, Response(404, 0))

\* Connection: Keep-Alive is set on the response after the handler has run.
Kept(c) == IF c.keep THEN [c EXCEPT !.res.headers.connection = TRUE] ELSE c

Handled(c, manner) ==
  CASE manner.v11 /\ ~manner.host    -> CompleteRequest([c EXCEPT !.res = Assign(@, Response(400, 0))])
    [] manner.v11 /\ manner.host /\ manner.upgrade -> HandleUpgrade(c)
    [] ~(manner.v11 /\ (~manner.host \/ manner.upgrade)) /\ c.res.completed -> CompleteRequest(c)
    [] OTHER -> Kept(RouterHandle([c EXCEPT !.res.handler = TRUE]))

Handle(manner) ==
  /\ conn.stage = "reading"
  /\ LET c == [conn EXCEPT !.keep = manner.keep, !.close = manner.close, !.hosted = manner.host]
     IN conn' = Handled(c, manner)
  /\ UNCHANGED <<all_rules, phase, per_methods, request, found>>

\* A handler that kept the response ends it.
EndLate ==
  /\ conn.stage = "handling"
  /\ LET rule == RuleAt(found.method, found.rule)
     IN conn' = Respond(conn, Response(rule.code, rule.size))
  /\ UNCHANGED <<all_rules, phase, per_methods, request, found>>

\* do_write's callback.
Written ==
  /\ conn.stage = "writing"
  /\ conn' = [conn EXCEPT !.res = Clear(@), !.stage = IF conn.close THEN "over" ELSE "answered"]
  /\ UNCHANGED <<all_rules, phase, per_methods, request, found>>

\* The client has the answer and may send the next request, unless the parser
\* has failed on a URL without a rule (handle_url's done()).
NoRule == found.rule = 0
Receive ==
  /\ conn.stage = "answered" /\ ~NoRule
  /\ conn' = [conn EXCEPT !.stage = "idle", !.sent = <<>>, !.hosted = FALSE,
                          !.stale = FALSE, !.left = FALSE]
  /\ request' = [method |-> NoUrl, url |-> <<>>] /\ found' = NotFound
  /\ UNCHANGED <<all_rules, phase, per_methods>>

\* A new connection begins once the last one has been closed or taken over.
NewConnection ==
  [res |-> NoResponse, keep |-> FALSE, close |-> FALSE, hosted |-> FALSE, stale |-> FALSE,
   left |-> FALSE, sent |-> <<>>, stage |-> "idle"]
Connect ==
  /\ conn.stage \in {"over", "upgraded"} \/ (conn.stage = "answered" /\ NoRule)
  /\ conn' = NewConnection
  /\ request' = [method |-> NoUrl, url |-> <<>>] /\ found' = NotFound
  /\ UNCHANGED <<all_rules, phase, per_methods>>

Init ==
  /\ all_rules = <<>> /\ phase = "declaring"
  /\ per_methods = [m \in Methods |-> NoRules]
  /\ request = [method |-> NoUrl, url |-> <<>>] /\ found = NotFound
  /\ conn = NewConnection

Next ==
  \/ \E r \in Routes : NewRule(r)
  \/ Validate
  \/ \E m \in Methods, u \in Urls : HandleUrl(m, u)
  \/ \E manner \in Manners : Handle(manner)
  \/ EndLate
  \/ Written
  \/ Receive
  \/ Connect

Spec == Init /\ [][Next]_vars

----------------------------------------------------------------------------
(* The rules of a method, in order, and what they promise.                  *)

RulesAmong(rules, m) ==
  SelectSeq([i \in DOMAIN rules |-> Upgraded(rules[i])], LAMBDA r : m \in r.methods)
RulesOf(m) == RulesAmong(all_rules, m)
Redirects(m, url) == \E r \in ToSet(RulesOf(m)) : HasSlash(r) /\ Matches(Front(r.url), url)
Serves(m, url) == Redirects(m, url) \/ \E r \in ToSet(RulesOf(m)) : Matches(r.url, url)

\* The state of a connection is one the code can leave it in (Connection,
\* http_connection.h:603-635).
TypeOK ==
  /\ phase \in {"declaring", "running", "failed"}
  /\ ToSet(all_rules) \subseteq Routes /\ Len(all_rules) <= MaxRules
  /\ request.method \in Methods \cup {NoUrl} /\ request.url \in Urls \cup {<<>>}
  /\ found.rule \in 0..(MaxRules + 1) /\ found.method \in Methods \cup {"none"}
  /\ conn.stage \in {"idle", "reading", "handling", "writing", "answered", "over", "upgraded"}
  /\ conn.res.code \in Nat /\ conn.res.body \in Nat
  /\ conn.res.handler <=> conn.stage = "handling"
  /\ {conn.keep, conn.close, conn.hosted, conn.stale, conn.left} \subseteq BOOLEAN

\* What a rule promises, where there are several of them.
Routed(m, url) ==
  LET f    == FindRule(m, url)
      mine == RulesOf(m)
      rule == RuleAt(m, f.rule)
  IN IF Redirects(m, url) THEN f.rule = RULE_SPECIAL_REDIRECT_SLASH
     ELSE IF ~Serves(m, url) THEN f.rule = 0
     ELSE /\ f.rule > 1
          /\ f.params = Walk(rule.url, url).params
          /\ \E i \in DOMAIN mine : /\ mine[i] = rule /\ Matches(rule.url, url)
                                    /\ \A k \in 1..(i - 1) : ~Matches(mine[k].url, url)

\* The search in the optimized trees finds what the rules, tried one after the
\* other, would: the redirect to a trailing slash first, else the rule that was
\* declared first, with exactly the parameters its URL takes, and nothing where
\* no rule fits (Trie::find keeps the smallest index and pops the parameters of
\* the branches that failed, routing.h:860-1000).
RoutedAsDeclared ==
  phase = "running" /\ conn = NewConnection =>
    \A m \in Methods :
      /\ per_methods[m].trie.children # <<>> <=> RulesOf(m) # <<>>
      /\ \A url \in Urls : Routed(m, url)

\* A request is answered once: never a second time when a handler throws after
\* it has ended the response, and always before the next one is taken up
\* (response::end, http_response.h:237-255; prepare_buffers drops the handler).
AnsweredOnce ==
  Len(conn.sent) = IF conn.stage \in {"writing", "answered", "over"} THEN 1 ELSE 0

\* The code with which a rule answers.
CodeOf(rule) ==
  CASE rule.does \in {"value", "late", "endsThenThrows"} -> Known(rule.code)
    [] rule.does = "throws"    -> 500
    [] rule.does = "file"      -> 200
    [] rule.does = "redirects" -> 307
    [] OTHER                   -> 404

\* The code of the answer is what the declared rules make of the request: 405
\* only for a URL that another method serves, 404 only for one nobody does, and
\* otherwise what the rule's handler does (routing.h:1562-1680, 1683-1723).  But
\* a handler that ends a long response and then throws leaves a completed 500,
\* which answers the next request in place of its handler.
CodesAgree ==
  \A a \in ToSet(conn.sent) :
    LET m == request.method
        u == request.url
        served == \E x \in Methods : Serves(x, u)
        rule == RuleAt(found.method, found.rule)
        refused == CASE m = "Options" -> IF served \/ u = <<"/", "*">> THEN 204 ELSE 404
                     [] m = "Head"    -> 404
                     [] OTHER         -> IF served THEN 405 ELSE 404
    IN IF m = "Options" \/ ~(Serves(m, u) \/ (m = "Head" /\ Serves("Get", u))) THEN a.code = refused
       ELSE \/ a.code = 400 /\ ~conn.hosted
            \/ a.code = 500 /\ conn.left
            \/ found.rule = RULE_SPECIAL_REDIRECT_SLASH /\ a.code = 301
            \/ found.rule > 1 /\ a.code = CodeOf(rule)

\* OPTIONS allows the methods that would be served, and no other but OPTIONS and
\* HEAD (routing.h:1597-1652).
AllowTellsMethods ==
  \A a \in ToSet(conn.sent) : request.method = "Options" /\ a.code = 204 =>
    \A m \in Methods \ {"Options", "Head"} :
      m \in a.allow <=> IF request.url = <<"/", "*">> THEN RulesOf(m) # <<>> ELSE Serves(m, request.url)

\* The Content-Length of an answer is the size of the body that follows, and
\* that of an answer to a HEAD the size of the body a GET would have had
\* (http_response.h:242-247, http_connection.h:362-380).  But a HEAD without Host
\* is answered 400 without a handler, which would reset skip_body: the answers
\* after it, up to one with a handler, are treated as if to a HEAD, too.
LengthTold ==
  \A a \in ToSet(conn.sent) :
    IF request.method # "Head" THEN a.length = a.body \/ conn.stale
    ELSE (found.rule > 1 /\ a.code < 400) =>
           LET rule == RuleAt(found.method, found.rule)
           IN rule.does \in {"value", "late"} => a.length = rule.size /\ a.body = 0
=============================================================================
