------------------------- MODULE HttpExchange_proofs -------------------------
(***************************************************************************)
(* Theorems about HttpExchange: every request is answered once, and what   *)
(* the answer says of it, whatever the one response object of a connection *)
(* was used for before.                                                    *)
(***************************************************************************)
EXTENDS HttpExchange, TLAPS

(* The fields of a response and of a connection.                           *)
IsHeaders(h) ==
  h = [length |-> h.length, location |-> h.location, allow |-> h.allow,
       connection |-> h.connection]

IsResponse(r) ==
  /\ r = [code |-> r.code, body |-> r.body, headers |-> r.headers, completed |-> r.completed,
          file |-> r.file, skip_body |-> r.skip_body, manual_length |-> r.manual_length,
          handler |-> r.handler]
  /\ IsHeaders(r.headers)
  /\ r.code \in Nat /\ r.body \in Nat
  /\ r.completed \in BOOLEAN /\ r.file \in BOOLEAN /\ r.skip_body \in BOOLEAN
  /\ r.manual_length \in BOOLEAN /\ r.handler \in BOOLEAN
  /\ r.manual_length => r.skip_body

IsConnection(c) ==
  /\ c = [res |-> c.res, keep |-> c.keep, close |-> c.close, hosted |-> c.hosted,
          stale |-> c.stale, left |-> c.left, sent |-> c.sent, stage |-> c.stage]
  /\ IsResponse(c.res)
  /\ c.keep \in BOOLEAN /\ c.close \in BOOLEAN /\ c.hosted \in BOOLEAN
  /\ c.stale \in BOOLEAN /\ c.left \in BOOLEAN

(* A response that nothing has been put into; one that is completed is the *)
(* 500 of a handler that threw after it had answered.                      *)
Unused(r) ==
  /\ r.body = 0 /\ ~r.file /\ r.headers.length = -1
  /\ r.completed => r.code = 500

(* What has been sent in each stage, and what the response is then.        *)
Stages == {"idle", "reading", "handling", "writing", "answered", "over", "upgraded"}

One(s) == s = <<s[1]>>

Staged(c) ==
  /\ c.stage \in Stages
  /\ c.res.handler <=> c.stage = "handling"
  /\ IF c.stage \in {"writing", "answered", "over"} THEN One(c.sent) ELSE c.sent = <<>>
  /\ c.stage \in {"idle", "reading", "handling", "answered", "over"} => Unused(c.res)
  /\ c.stage = "idle" => ~c.stale /\ ~c.left

(* The answer to a HEAD loses its body, and any answer after a HEAD that   *)
(* was not handled.                                                        *)
Waiting(c) ==
  /\ c.stage \in {"reading", "handling"} =>
       /\ found.rule # 0
       /\ c.res.skip_body <=> request.method = "Head" \/ c.stale
  /\ c.stage = "reading" => c.left = c.res.completed
  /\ c.stage = "handling" =>
       /\ ~c.res.completed
       /\ found.rule > 1 /\ RuleAt(found.method, found.rule).does = "late"

(* The rules, and the tables that were built from them.                    *)
Tables ==
  /\ Len(all_rules) \in 0 .. MaxRules /\ all_rules \in [1 .. Len(all_rules) -> Routes]
  /\ phase \in {"declaring", "running", "failed"}
  /\ phase = "running" => Build(all_rules).ok /\ per_methods = Build(all_rules).table
  /\ phase # "running" => conn = NewConnection

(* The request that is being served, and what was found for it.            *)
Requested ==
  IF conn.stage = "idle"
  THEN request = [method |-> NoUrl, url |-> <<>>] /\ found = NotFound
  ELSE /\ request.method \in Methods /\ request.url \in Urls
       /\ request = [method |-> request.method, url |-> request.url]
       /\ found = InitialRule(request.method, request.url)

(* The code of an answer to a request that no rule takes, and of one that  *)
(* a rule answers; and what an answer to OPTIONS allows.                   *)
RefusedWith(method, url) ==
  CASE method = "Options" ->
         IF url = <<"/", "*">> \/ KnownBy(url) # {} THEN 204 ELSE 404
    [] method = "Head" -> 404
    [] method \notin {"Options", "Head"} -> IF KnownBy(url) # {} THEN 405 ELSE 404

AnsweredWith(code, hosted, left) ==
  \/ code = 400 /\ ~hosted
  \/ code = 500 /\ left
  \/ found.rule = RULE_SPECIAL_REDIRECT_SLASH /\ code = 301
  \/ found.rule > 1 /\ code = CodeOf(RuleAt(found.method, found.rule))

Coded(a, c) ==
  IF found.rule = 0
  THEN /\ a.code = RefusedWith(request.method, request.url)
       /\ request.method = "Options" /\ a.code = 204 => a.allow = Allowed(request.url)
  ELSE AnsweredWith(a.code, c.hosted, c.left)

(* The length an answer tells.                                             *)
Told(a, c) ==
  IF request.method # "Head" THEN a.length = a.body \/ c.stale
  ELSE (found.rule > 1 /\ a.code < 400) =>
         LET rule == RuleAt(found.method, found.rule)
         IN rule.does \in {"value", "late"} => a.length = rule.size /\ a.body = 0

Sound(c) == \A a \in ToSet(c.sent) : Coded(a, c) /\ Told(a, c)

IInv ==
  /\ Tables /\ Requested
  /\ IsConnection(conn) /\ Staged(conn) /\ Waiting(conn)
  /\ Sound(conn)

----------------------------------------------------------------------------
(* The response.                                                           *)

(* A sequence of one holds that one.                                       *)
LEMMA OnlyOne ==
  ASSUME NEW a
  PROVE  ToSet(<<a>>) = {a} /\ One(<<a>>)
BY DEF ToSet, One

(* There is nothing in a sequence of none.                                 *)
LEMMA NoneAtAll == ToSet(<<>>) = {}
BY DEF ToSet

(* A status Crow knows is a number.                                        *)
LEMMA KnownIsCode ==
  ASSUME NEW code \in Nat
  PROVE  Known(code) \in Nat
BY DEF Known

(* The headers of a new response.                                          *)
LEMMA NoHeadersIs ==
  IsHeaders(NoHeaders) /\ NoHeaders.length = -1 /\ NoHeaders.allow = {}
BY DEF IsHeaders, NoHeaders

(* Assigning a response leaves skip_body, manual_length_header and the     *)
(* handler (operator=, http_response.h:164-174).                           *)
LEMMA AssignIs ==
  ASSUME NEW r, IsResponse(r), NEW q, NEW code \in Nat, NEW body \in Nat, NEW headers,
         IsHeaders(headers),
         q = [code |-> code, body |-> body, headers |-> headers, completed |-> FALSE,
              file |-> FALSE]
  PROVE  /\ IsResponse(Assign(r, q))
         /\ Assign(r, q).code = code /\ Assign(r, q).body = body
         /\ Assign(r, q).headers = headers
         /\ ~Assign(r, q).file /\ ~Assign(r, q).completed
         /\ Assign(r, q).skip_body = r.skip_body
         /\ Assign(r, q).manual_length = r.manual_length
         /\ Assign(r, q).handler = r.handler
<1>1. DOMAIN r = {"code", "body", "headers", "completed", "file", "skip_body",
                  "manual_length", "handler"}
  BY DEF IsResponse
<1>2. DOMAIN q = {"code", "body", "headers", "completed", "file"}
  OBVIOUS
<1>3. Assign(r, q) = [f \in DOMAIN r |-> IF f \in DOMAIN q THEN q[f] ELSE r[f]]
  BY DEF Assign
<1> DEFINE a == Assign(r, q)
<1> HIDE DEF a
<1>4. /\ a.code = code /\ a.body = body /\ a.headers = headers
      /\ a.completed = FALSE /\ a.file = FALSE /\ a.skip_body = r.skip_body
      /\ a.manual_length = r.manual_length /\ a.handler = r.handler
  BY <1>1, <1>2, <1>3 DEF a
<1>5. a = [code |-> a.code, body |-> a.body, headers |-> a.headers,
           completed |-> a.completed, file |-> a.file, skip_body |-> a.skip_body,
           manual_length |-> a.manual_length, handler |-> a.handler]
  BY <1>1, <1>3 DEF a
<1>6. /\ r.skip_body \in BOOLEAN /\ r.manual_length \in BOOLEAN /\ r.handler \in BOOLEAN
      /\ r.manual_length => r.skip_body
  BY DEF IsResponse
<1>7. IsResponse(a)
  BY <1>4, <1>5, <1>6 DEF IsResponse
<1> QED BY <1>4, <1>7 DEF a

(* Assigning a response that has only a code and a body.                   *)
LEMMA AssignNewIs ==
  ASSUME NEW r, IsResponse(r), NEW code \in Nat, NEW body \in Nat
  PROVE  LET q == Assign(r, Response(code, body))
         IN /\ IsResponse(q)
            /\ q.code = code /\ q.body = body /\ q.headers = NoHeaders
            /\ ~q.file /\ ~q.completed
            /\ q.skip_body = r.skip_body /\ q.manual_length = r.manual_length
            /\ q.handler = r.handler
<1>1. Response(code, body)
        = [code |-> code, body |-> body, headers |-> NoHeaders, completed |-> FALSE,
           file |-> FALSE]
  BY DEF Response
<1> QED BY <1>1, AssignIs, NoHeadersIs

(* A cleared response is unused.                                           *)
LEMMA ClearIs ==
  ASSUME NEW r, IsResponse(r)
  PROVE  /\ IsResponse(Clear(r)) /\ Unused(Clear(r)) /\ ~Clear(r).completed
         /\ Clear(r).skip_body = r.skip_body /\ Clear(r).manual_length = r.manual_length
         /\ Clear(r).handler = r.handler
<1> DEFINE q == Assign(r, Response(200, 0))
<1>1. /\ IsResponse(q) /\ q.body = 0 /\ q.headers = NoHeaders /\ ~q.file /\ ~q.completed
      /\ q.skip_body = r.skip_body /\ q.manual_length = r.manual_length
      /\ q.handler = r.handler
  BY AssignNewIs
<1>2. Clear(r) = q
  BY DEF Clear
<1> HIDE DEF q
<1> QED BY <1>1, <1>2, NoHeadersIs DEF Unused

(* The fields of a response, whatever is in them.                          *)
Shaped(q) ==
  q = [code |-> q.code, body |-> q.body, headers |-> q.headers,
       completed |-> q.completed, file |-> q.file, skip_body |-> q.skip_body,
       manual_length |-> q.manual_length, handler |-> q.handler]

(* What makes a record of these fields a response.                         *)
LEMMA ResponseLike ==
  ASSUME NEW q,
         Shaped(q),
         IsHeaders(q.headers), q.code \in Nat, q.body \in Nat,
         q.completed \in BOOLEAN, q.file \in BOOLEAN, q.skip_body \in BOOLEAN,
         q.manual_length \in BOOLEAN, q.handler \in BOOLEAN,
         q.manual_length => q.skip_body
  PROVE  IsResponse(q)
BY DEF IsResponse, Shaped

(* A response with its code, its headers and its file replaced, in steps.  *)
Put(r, code, headers, file) ==
  [code |-> code, body |-> r.body, headers |-> headers, completed |-> r.completed,
   file |-> file, skip_body |-> r.skip_body, manual_length |-> r.manual_length,
   handler |-> r.handler]

(* Nothing is replaced yet.                                                *)
LEMMA PutNothing ==
  ASSUME NEW r, Shaped(r)
  PROVE  r = Put(r, r.code, r.headers, r.file)
BY DEF Put, Shaped

(* The code is replaced.                                                   *)
LEMMA PutCode ==
  ASSUME NEW r, NEW q, NEW code, NEW headers, NEW file, q = Put(r, code, headers, file), NEW x
  PROVE  [q EXCEPT !.code = x] = Put(r, x, headers, file)
BY DEF Put

(* The file is.                                                            *)
LEMMA PutFile ==
  ASSUME NEW r, NEW q, NEW code, NEW headers, NEW file, q = Put(r, code, headers, file), NEW x
  PROVE  [q EXCEPT !.file = x] = Put(r, code, headers, x)
BY DEF Put

(* The headers are.                                                        *)
LEMMA PutHeaders ==
  ASSUME NEW r, NEW q, NEW code, NEW headers, NEW file, q = Put(r, code, headers, file), NEW x
  PROVE  [q EXCEPT !.headers = x] = Put(r, code, x, file)
BY DEF Put

(* The new code, headers and file are such as a response has.              *)
Putting(q, r, code, headers, file) ==
  /\ q = Put(r, code, headers, file)
  /\ IsResponse(r) /\ code \in Nat /\ IsHeaders(headers) /\ file \in BOOLEAN

(* A response with these in it, the rest as it was.                        *)
HasPut(q, r, code, headers, file) ==
  /\ IsResponse(q)
  /\ q.code = code /\ q.headers = headers /\ q.file = file
  /\ q.body = r.body /\ q.completed = r.completed
  /\ q.skip_body = r.skip_body /\ q.handler = r.handler

(* What comes of it is a response, and the rest is as it was.              *)
LEMMA PutIs ==
  ASSUME NEW q, NEW r, NEW code, NEW headers, NEW file, Putting(q, r, code, headers, file)
  PROVE  HasPut(q, r, code, headers, file)
<1> USE DEF Putting, HasPut
<1>1. /\ q.code = code /\ q.headers = headers /\ q.file = file
      /\ q.body = r.body /\ q.completed = r.completed
      /\ q.skip_body = r.skip_body /\ q.manual_length = r.manual_length
      /\ q.handler = r.handler
  BY DEF Put
<1>2. Shaped(q)
  BY DEF Put, Shaped
<1>3. /\ r.body \in Nat /\ r.completed \in BOOLEAN
      /\ r.skip_body \in BOOLEAN /\ r.manual_length \in BOOLEAN
      /\ r.handler \in BOOLEAN
      /\ r.manual_length => r.skip_body
  BY DEF IsResponse
<1>4. q.completed \in BOOLEAN /\ q.skip_body \in BOOLEAN
  BY <1>1, <1>3
<1>5. q.manual_length \in BOOLEAN /\ q.handler \in BOOLEAN
  BY <1>1, <1>3
<1>6. q.manual_length => q.skip_body
  BY <1>1, <1>3
<1>7. q.code \in Nat /\ q.body \in Nat /\ q.file \in BOOLEAN /\ IsHeaders(q.headers)
  BY <1>1, <1>3
<1>8. IsResponse(q)
  BY <1>2, <1>4, <1>5, <1>6, <1>7, ResponseLike
<1> QED BY <1>1, <1>8

(* A response that has been ended up to its handler: after a HEAD its body *)
(* is dropped and its length told.                                         *)
LEMMA CompleteIs ==
  ASSUME NEW r, IsResponse(r)
  PROVE  /\ IsResponse(Complete(r)) /\ Complete(r).completed
         /\ Complete(r).code = r.code /\ Complete(r).file = r.file
         /\ Complete(r).headers.allow = r.headers.allow
         /\ Complete(r).skip_body = r.skip_body /\ Complete(r).handler = r.handler
         /\ r.skip_body => /\ Complete(r).body = 0 /\ Complete(r).headers.length = r.body
                           /\ Complete(r).manual_length
         /\ ~r.skip_body => /\ Complete(r).body = r.body /\ ~Complete(r).manual_length
                            /\ Complete(r).headers = r.headers
<1>1. CASE r.skip_body
  <2> DEFINE c == Complete(r)
             h == [r.headers EXCEPT !.length = r.body]
  <2>1. c = [r EXCEPT !.completed = TRUE, !.headers.length = r.body, !.body = 0,
                      !.manual_length = TRUE]
    BY <1>1 DEF Complete
  <2>2. h.length = r.body /\ h.allow = r.headers.allow /\ IsHeaders(h)
    BY DEF IsResponse, IsHeaders
  <2>3. c.headers = h
    BY <2>1 DEF IsResponse
  <2> HIDE DEF c, h
  <2>4. IsResponse(c)
    BY <2>1, <2>2, <2>3, <1>1 DEF IsResponse
  <2>5. /\ c.completed /\ c.code = r.code /\ c.file = r.file /\ c.skip_body = r.skip_body
        /\ c.handler = r.handler /\ c.body = 0 /\ c.manual_length
    BY <2>1 DEF IsResponse
  <2> QED BY <1>1, <2>2, <2>3, <2>4, <2>5 DEF c
<1>2. CASE ~r.skip_body
  <2>1. Complete(r) = [r EXCEPT !.completed = TRUE]
    BY <1>2 DEF Complete
  <2> QED BY <2>1, <1>2 DEF IsResponse
<1> QED BY <1>1, <1>2 DEF IsResponse

(* What a response that is sent becomes, and what goes out: a status Crow  *)
(* knows, and for an error without a body the text of the status.          *)
BodyOf(r) == IF Known(r.code) >= 400 /\ r.body = 0 THEN StatusSize ELSE r.body

(* A response as complete_request finishes it: the code, the body and what *)
(* stays.                                                                  *)
LEMMA FinishedIs ==
  ASSUME NEW r, IsResponse(r), NEW hosted
  PROVE  LET f == Finished(r, hosted)
         IN /\ IsResponse(f)
            /\ f.code = Known(r.code) /\ f.body = BodyOf(r) /\ f.file = r.file
            /\ f.headers.length = r.headers.length /\ f.headers.allow = r.headers.allow
            /\ f.skip_body = r.skip_body /\ f.manual_length = r.manual_length
            /\ f.completed = r.completed
            /\ ~f.handler
<1> DEFINE code == Known(r.code)
           f == Finished(r, hosted)
           place == IF r.headers.location = "path" THEN IF hosted THEN "full" ELSE "hostless"
                    ELSE r.headers.location
<1>1. f = [r EXCEPT !.code = code, !.handler = FALSE, !.body = BodyOf(r),
                    !.headers.location = place]
  BY DEF Finished, BodyOf, IsResponse, IsHeaders
<1>2. code \in Nat /\ BodyOf(r) \in Nat
  BY KnownIsCode, HttpExchangeAssumption DEF IsResponse, BodyOf
<1> HIDE DEF place, code, f
<1> SUFFICES /\ IsResponse(f)
             /\ f.code = code /\ f.body = BodyOf(r) /\ f.file = r.file
             /\ f.headers.length = r.headers.length /\ f.headers.allow = r.headers.allow
             /\ f.skip_body = r.skip_body /\ f.manual_length = r.manual_length
             /\ f.completed = r.completed
             /\ ~f.handler
  BY DEF f, code
<1> QED BY <1>1, <1>2 DEF IsResponse, IsHeaders

(* The answer that goes out, by the response it is made of.                *)
LEMMA AnswerIs ==
  ASSUME NEW r, IsResponse(r), NEW hosted, NEW keep
  PROVE  LET a == AnswerOf(Finished(r, hosted), keep)
         IN /\ a.code = Known(r.code)
            /\ a.allow = r.headers.allow
            /\ a.body = IF r.file THEN FileSize ELSE BodyOf(r)
            /\ a.length = IF r.headers.length # -1 \/ r.manual_length THEN r.headers.length
                          ELSE BodyOf(r)
<1> DEFINE f == Finished(r, hosted)
           a == AnswerOf(f, keep)
<1>1. /\ f.code = Known(r.code) /\ f.body = BodyOf(r) /\ f.file = r.file
      /\ f.headers.length = r.headers.length /\ f.headers.allow = r.headers.allow
      /\ f.manual_length = r.manual_length
  BY FinishedIs
<1> HIDE DEF f
<1>2. /\ a.code = f.code /\ a.allow = f.headers.allow
      /\ a.body = IF f.file THEN FileSize ELSE f.body
      /\ a.length = IF f.headers.length # -1 \/ f.manual_length THEN f.headers.length
                    ELSE f.body
  BY DEF AnswerOf
<1> HIDE DEF a
<1>3. /\ a.code = Known(r.code)
      /\ a.allow = r.headers.allow
      /\ a.body = IF r.file THEN FileSize ELSE BodyOf(r)
      /\ a.length = IF r.headers.length # -1 \/ r.manual_length THEN r.headers.length
                    ELSE BodyOf(r)
  BY <1>1, <1>2
<1> QED BY <1>3 DEF a, f

----------------------------------------------------------------------------
(* The connection.                                                         *)

(* What an operation leaves of a connection that is not the response, the  *)
(* stage or what has been sent.                                            *)
SameManner(d, c) ==
  d.keep = c.keep /\ d.close = c.close /\ d.hosted = c.hosted /\ d.stale = c.stale
  /\ d.left = c.left

(* A connection with its response replaced.                                *)
LEMMA WithResponse ==
  ASSUME NEW c, IsConnection(c), NEW r, IsResponse(r)
  PROVE  LET d == [c EXCEPT !.res = r]
         IN /\ IsConnection(d) /\ SameManner(d, c)
            /\ d.res = r /\ d.sent = c.sent /\ d.stage = c.stage
BY DEF IsConnection, SameManner

(* A connection with its response, its stage and what it has sent replaced.*)
Sending(c, r, sent, stage) == [c EXCEPT !.sent = sent, !.res = r, !.stage = stage]

(* Replacing the three leaves everything else of a connection as it was.   *)
LEMMA WithSent ==
  ASSUME NEW c, IsConnection(c), NEW r, IsResponse(r), NEW sent, NEW stage,
         NEW d, d = Sending(c, r, sent, stage)
  PROVE  /\ IsConnection(d) /\ SameManner(d, c)
         /\ d.res = r /\ d.sent = sent /\ d.stage = stage
<1>1. c = [res |-> c.res, keep |-> c.keep, close |-> c.close, hosted |-> c.hosted,
           stale |-> c.stale, left |-> c.left, sent |-> c.sent, stage |-> c.stage]
  BY DEF IsConnection
<1>2. PICK e : e = [c EXCEPT !.sent = sent]
  OBVIOUS
<1>3. e = [res |-> c.res, keep |-> c.keep, close |-> c.close, hosted |-> c.hosted,
           stale |-> c.stale, left |-> c.left, sent |-> sent, stage |-> c.stage]
  BY <1>1, <1>2
<1>4. PICK f : f = [e EXCEPT !.res = r]
  OBVIOUS
<1>5. f = [res |-> r, keep |-> c.keep, close |-> c.close, hosted |-> c.hosted,
           stale |-> c.stale, left |-> c.left, sent |-> sent, stage |-> c.stage]
  BY <1>3, <1>4
<1>6. d = [f EXCEPT !.stage = stage]
  BY <1>2, <1>4 DEF Sending
<1>7. d = [res |-> r, keep |-> c.keep, close |-> c.close, hosted |-> c.hosted,
           stale |-> c.stale, left |-> c.left, sent |-> sent, stage |-> stage]
  BY <1>5, <1>6
<1>8. /\ d.res = r /\ d.keep = c.keep /\ d.close = c.close /\ d.hosted = c.hosted
      /\ d.stale = c.stale /\ d.left = c.left /\ d.sent = sent /\ d.stage = stage
  BY <1>7
<1>9. /\ c.keep \in BOOLEAN /\ c.close \in BOOLEAN /\ c.hosted \in BOOLEAN
      /\ c.stale \in BOOLEAN /\ c.left \in BOOLEAN
  BY DEF IsConnection
<1>10. IsConnection(d)
  BY <1>7, <1>8, <1>9 DEF IsConnection
<1> QED BY <1>8, <1>10 DEF SameManner

(* What has been sent of a connection that had sent nothing: the answer a  *)
(* response makes.  The response is left unused, or its body is being      *)
(* written.                                                                *)
Replied(d, c, r) ==
  /\ IsConnection(d) /\ SameManner(d, c)
  /\ d.sent = <<AnswerOf(Finished(r, c.hosted), c.keep)>>
  /\ d.stage \in {"writing", "answered", "over"}
  /\ d.stage # "writing" => Unused(d.res) /\ ~d.res.completed
  /\ ~d.res.handler

(* complete_request sends one answer, drops the handler, and leaves the    *)
(* response unused or its body being written (http_connection.h:300-420).  *)
LEMMA CompleteRequestIs ==
  ASSUME NEW c, IsConnection(c), c.sent = <<>>
  PROVE  /\ Replied(CompleteRequest(c), c, c.res)
         /\ CompleteRequest(c).res.skip_body = c.res.skip_body
         /\ CompleteRequest(c).res.manual_length = c.res.manual_length
<1> DEFINE res  == Finished(c.res, c.hosted)
           sent == Append(c.sent, AnswerOf(res, c.keep))
           now  == res.file \/ res.body >= StreamThreshold
           d    == CompleteRequest(c)
<1>1. IsResponse(c.res)
  BY DEF IsConnection
<1>2. /\ IsResponse(res) /\ res.skip_body = c.res.skip_body
      /\ res.manual_length = c.res.manual_length /\ ~res.handler
  BY <1>1, FinishedIs
<1>3. sent = <<AnswerOf(res, c.keep)>>
  OBVIOUS
<1>4. CASE now
  <2> DEFINE stage == IF c.close THEN "over" ELSE "answered"
  <2>1. d = Sending(c, Clear(res), sent, stage)
    BY <1>4 DEF CompleteRequest, Sending
  <2>2. /\ IsResponse(Clear(res)) /\ Unused(Clear(res)) /\ ~Clear(res).completed
        /\ Clear(res).skip_body = res.skip_body
        /\ Clear(res).manual_length = res.manual_length /\ ~Clear(res).handler
    BY <1>2, ClearIs
  <2>3. stage \in {"answered", "over"}
    OBVIOUS
  <2> HIDE DEF stage, d, res, sent, now
  <2>4. /\ IsConnection(d) /\ SameManner(d, c)
        /\ d.res = Clear(res) /\ d.sent = sent /\ d.stage = stage
    BY <2>1, <2>2, WithSent
  <2>5. Replied(d, c, c.res)
    BY <1>3, <2>2, <2>3, <2>4 DEF Replied, res
  <2> QED BY <2>2, <2>4, <2>5, <1>2 DEF d
<1>5. CASE ~now
  <2> DEFINE r == [res EXCEPT !.body = 0]
  <2>1. d = Sending(c, r, sent, "writing")
    BY <1>5 DEF CompleteRequest, Sending
  <2> HIDE DEF d, res, sent, now
  <2>2. /\ IsResponse(r) /\ r.skip_body = res.skip_body
        /\ r.manual_length = res.manual_length /\ ~r.handler
    BY <1>2 DEF IsResponse
  <2> HIDE DEF r
  <2>4. /\ IsConnection(d) /\ SameManner(d, c)
        /\ d.res = r /\ d.sent = sent /\ d.stage = "writing"
    BY <2>1, <2>2, WithSent
  <2>5. Replied(d, c, c.res)
    BY <1>3, <2>2, <2>4 DEF Replied, res
  <2> QED BY <2>2, <2>4, <2>5, <1>2 DEF d
<1> QED BY <1>4, <1>5

(* Ending a response that has no handler sends nothing.                    *)
LEMMA EndQuiet ==
  ASSUME NEW c, IsConnection(c), ~c.res.handler, ~c.res.completed
  PROVE  LET d == End(c)
         IN /\ IsConnection(d) /\ SameManner(d, c)
            /\ d.sent = c.sent /\ d.stage = c.stage /\ d.res = Complete(c.res)
<1>1. IsResponse(c.res)
  BY DEF IsConnection
<1>2. IsResponse(Complete(c.res))
  BY <1>1, CompleteIs
<1>3. End(c) = [c EXCEPT !.res = Complete(c.res)]
  BY DEF End
<1> QED BY <1>2, <1>3, WithResponse

(* Ending one that has a handler sends the answer, and readies skip_body   *)
(* for the next request.                                                   *)
LEMMA EndIs ==
  ASSUME NEW c, IsConnection(c), c.res.handler, ~c.res.completed, c.sent = <<>>
  PROVE  LET d == End(c)
         IN Replied(d, c, Complete(c.res)) /\ ~d.res.skip_body
<1> DEFINE e == [c EXCEPT !.res = Complete(c.res)]
           f == CompleteRequest(e)
           d == End(c)
<1>1. IsResponse(Complete(c.res))
  BY CompleteIs DEF IsConnection
<1>2. /\ IsConnection(e) /\ SameManner(e, c)
      /\ e.res = Complete(c.res) /\ e.sent = <<>> /\ e.stage = c.stage
  BY <1>1, WithResponse
<1>3. d = [f EXCEPT !.res.manual_length = FALSE, !.res.skip_body = FALSE]
  BY DEF End
<1> HIDE DEF e, d
<1>4. Replied(f, e, e.res)
  BY <1>2, CompleteRequestIs
<1> HIDE DEF f
<1> DEFINE r == [f.res EXCEPT !.manual_length = FALSE, !.skip_body = FALSE]
<1>5. IsConnection(f) /\ IsResponse(f.res)
  BY <1>4 DEF Replied, IsConnection
<1>6. /\ IsResponse(r) /\ ~r.skip_body /\ r.handler = f.res.handler /\ r.body = f.res.body
      /\ r.file = f.res.file /\ r.headers = f.res.headers /\ r.completed = f.res.completed
      /\ r.code = f.res.code
  <2>1. r = [f.res EXCEPT !.manual_length = FALSE, !.skip_body = FALSE]
    OBVIOUS
  <2> HIDE DEF r
  <2>2. /\ ~r.skip_body /\ ~r.manual_length /\ r.handler = f.res.handler
        /\ r.body = f.res.body /\ r.file = f.res.file /\ r.headers = f.res.headers
        /\ r.completed = f.res.completed /\ r.code = f.res.code
    BY <1>5, <2>1 DEF IsResponse
  <2>3. r = [code |-> r.code, body |-> r.body, headers |-> r.headers,
             completed |-> r.completed, file |-> r.file, skip_body |-> r.skip_body,
             manual_length |-> r.manual_length, handler |-> r.handler]
    BY <1>5, <2>1 DEF IsResponse
  <2>4. r.skip_body \in BOOLEAN /\ r.manual_length \in BOOLEAN
    BY <1>5, <2>1 DEF IsResponse
  <2>5. IsResponse(r)
    BY <1>5, <2>2, <2>3, <2>4 DEF IsResponse
  <2> QED BY <2>2, <2>5
<1>7. d = [f EXCEPT !.res = r]
  BY <1>3, <1>5 DEF IsConnection
<1> HIDE DEF r
<1>8. /\ IsConnection(d) /\ SameManner(d, f)
      /\ d.res = r /\ d.sent = f.sent /\ d.stage = f.stage
  BY <1>5, <1>6, <1>7, WithResponse
<1>9. Replied(d, c, Complete(c.res))
  BY <1>2, <1>4, <1>6, <1>8 DEF Replied, SameManner, Unused
<1> QED BY <1>6, <1>8, <1>9 DEF d

----------------------------------------------------------------------------
(* What an answer says of the response it was made of.                     *)

(* The length a response tells before it is sent: that of its file or none.*)
Lengths(r) == r.headers.length = IF r.file THEN FileSize ELSE -1

(* A response has been sent: its code, what it allows, and, unless its body*)
(* was dropped, the length of the body that follows.                       *)
Ended(d, c, r) ==
  /\ IsConnection(d) /\ SameManner(d, c)
  /\ One(d.sent)
  /\ d.stage \in {"writing", "answered", "over"}
  /\ d.stage # "writing" => Unused(d.res) /\ ~d.res.completed
  /\ ~d.res.handler
  /\ d.sent[1].code = Known(r.code)
  /\ d.sent[1].allow = r.headers.allow
  /\ ~r.skip_body => d.sent[1].length = d.sent[1].body

(* A body that was dropped is told of by its length.                       *)
Dropped(d, r) ==
  r.skip_body /\ ~r.file /\ Known(r.code) < 400 =>
    d.sent[1].length = r.body /\ d.sent[1].body = 0

(* An answer from a response that was not ended tells the length of its    *)
(* body, unless skip_body was left over.                                   *)
LEMMA RepliedIs ==
  ASSUME NEW c, IsConnection(c), NEW d, NEW r, IsResponse(r), Lengths(r), Replied(d, c, r)
  PROVE  Ended(d, c, r)
<1> DEFINE a == AnswerOf(Finished(r, c.hosted), c.keep)
<1>1. /\ a.code = Known(r.code)
      /\ a.allow = r.headers.allow
      /\ a.body = IF r.file THEN FileSize ELSE BodyOf(r)
      /\ a.length = IF r.headers.length # -1 \/ r.manual_length THEN r.headers.length
                    ELSE BodyOf(r)
  BY AnswerIs
<1>2. d.sent = <<a>>
  BY DEF Replied
<1>3. FileSize \in Nat
  BY HttpExchangeAssumption
<1> HIDE DEF a
<1>4. ~r.skip_body => ~r.manual_length
  BY DEF IsResponse
<1>5. ~r.skip_body => a.length = a.body
  BY <1>1, <1>3, <1>4 DEF Lengths
<1>6. d.sent[1] = a /\ One(d.sent)
  BY <1>2 DEF One
<1> QED BY <1>1, <1>5, <1>6 DEF Replied, Ended

(* An answer from a response that was ended tells that of its body, or of  *)
(* the body that was dropped.                                              *)
LEMMA CompletedIs ==
  ASSUME NEW c, IsConnection(c), NEW d, NEW r, IsResponse(r), Lengths(r),
         Replied(d, c, Complete(r))
  PROVE  Ended(d, c, r) /\ Dropped(d, r)
<1> DEFINE q == Complete(r)
           a == AnswerOf(Finished(q, c.hosted), c.keep)
<1>1. /\ IsResponse(q) /\ q.completed /\ q.code = r.code /\ q.file = r.file
      /\ q.headers.allow = r.headers.allow
      /\ q.skip_body = r.skip_body
      /\ r.skip_body => q.body = 0 /\ q.headers.length = r.body /\ q.manual_length
      /\ ~r.skip_body => q.body = r.body /\ ~q.manual_length /\ q.headers = r.headers
  BY CompleteIs
<1> HIDE DEF q
<1>2. /\ a.code = Known(q.code)
      /\ a.allow = q.headers.allow
      /\ a.body = IF q.file THEN FileSize ELSE BodyOf(q)
      /\ a.length = IF q.headers.length # -1 \/ q.manual_length THEN q.headers.length
                    ELSE BodyOf(q)
  BY <1>1, AnswerIs
<1>3. d.sent = <<a>>
  BY DEF Replied, q
<1>4. FileSize \in Nat
  BY HttpExchangeAssumption
<1> HIDE DEF a
<1>5. ~r.skip_body => a.length = a.body
  BY <1>1, <1>2, <1>4 DEF Lengths
<1>6. d.sent[1] = a /\ One(d.sent)
  BY <1>3 DEF One
<1>7. Known(r.code) \in Nat
  BY KnownIsCode DEF IsResponse
<1>8. Dropped(d, r)
  BY <1>1, <1>2, <1>6, <1>7 DEF Dropped, BodyOf
<1>9. a.code = Known(r.code) /\ a.allow = r.headers.allow
  BY <1>1, <1>2
<1>10. /\ IsConnection(d) /\ SameManner(d, c)
       /\ d.stage \in {"writing", "answered", "over"}
       /\ d.stage # "writing" => Unused(d.res) /\ ~d.res.completed
       /\ ~d.res.handler
  BY DEF Replied
<1> QED BY <1>5, <1>6, <1>8, <1>9, <1>10 DEF Ended

(* A handler's response is sent when it is ended.                          *)
LEMMA EndSends ==
  ASSUME NEW c, IsConnection(c), c.res.handler, ~c.res.completed, c.sent = <<>>,
         Lengths(c.res)
  PROVE  Ended(End(c), c, c.res) /\ Dropped(End(c), c.res) /\ ~End(c).res.skip_body
<1>1. IsResponse(c.res)
  BY DEF IsConnection
<1>2. Replied(End(c), c, Complete(c.res)) /\ ~End(c).res.skip_body
  BY EndIs
<1> QED BY <1>1, <1>2, CompletedIs

(* One without a handler is sent by complete_request.                      *)
LEMMA QuietSends ==
  ASSUME NEW c, IsConnection(c), ~c.res.handler, c.sent = <<>>, Lengths(c.res)
  PROVE  Ended(CompleteRequest(End(c)), c, c.res)
<1> DEFINE e == End(c)
<1>1. IsResponse(c.res)
  BY DEF IsConnection
<1>2. CASE c.res.completed
  <2>1. End(c) = c
    BY <1>2 DEF End
  <2>2. Replied(CompleteRequest(c), c, c.res)
    BY CompleteRequestIs
  <2> QED BY <1>1, <2>1, <2>2, RepliedIs
<1>3. CASE ~c.res.completed
  <2>1. /\ IsConnection(e) /\ SameManner(e, c) /\ e.sent = c.sent
        /\ e.res = Complete(c.res)
    BY <1>3, EndQuiet
  <2> HIDE DEF e
  <2>2. Replied(CompleteRequest(e), e, e.res)
    BY <2>1, CompleteRequestIs
  <2>3. Replied(CompleteRequest(e), c, Complete(c.res))
    BY <2>1, <2>2 DEF Replied, SameManner
  <2>4. Ended(CompleteRequest(e), c, c.res)
    BY <1>1, <2>3, CompletedIs
  <2> QED BY <2>4 DEF e
<1> QED BY <1>2, <1>3

(* A new response put into the connection's.                               *)
Assigning(c, r) == [c EXCEPT !.res = Assign(c.res, r)]

Renewed(d, c, code, body, headers) ==
  /\ IsConnection(d) /\ SameManner(d, c) /\ d.sent = c.sent /\ d.stage = c.stage
  /\ d.res.code = code /\ d.res.body = body /\ d.res.headers = headers
  /\ ~d.res.file /\ ~d.res.completed /\ Lengths(d.res)
  /\ d.res.skip_body = c.res.skip_body /\ d.res.handler = c.res.handler

(* A response of a code and a body, with headers that tell no length.      *)
IsNew(r, code, body, headers) ==
  /\ code \in Nat /\ body \in Nat /\ IsHeaders(headers) /\ headers.length = -1
  /\ r = [code |-> code, body |-> body, headers |-> headers, completed |-> FALSE,
          file |-> FALSE]

(* The new response has its code, body and headers, and keeps skip_body    *)
(* and the handler.                                                        *)
LEMMA Assigned ==
  ASSUME NEW c, IsConnection(c), NEW r, NEW code, NEW body, NEW headers,
         IsNew(r, code, body, headers)
  PROVE  Renewed(Assigning(c, r), c, code, body, headers)
<1> DEFINE q == Assign(c.res, r)
           d == [c EXCEPT !.res = q]
<1>1. /\ IsResponse(q) /\ q.code = code /\ q.body = body /\ q.headers = headers
      /\ ~q.file /\ ~q.completed
      /\ q.skip_body = c.res.skip_body /\ q.handler = c.res.handler
  BY AssignIs DEF IsConnection, IsNew
<1>2. Assigning(c, r) = d
  BY DEF Assigning
<1> HIDE DEF q
<1>3. /\ IsConnection(d) /\ SameManner(d, c)
      /\ d.res = q /\ d.sent = c.sent /\ d.stage = c.stage
  BY <1>1, WithResponse
<1> HIDE DEF d
<1>4. headers.length = -1
  BY DEF IsNew
<1> QED BY <1>1, <1>2, <1>3, <1>4 DEF Lengths, Renewed

(* A response that was there is sent when a new one is put into its place  *)
(* and ended.                                                              *)
Served(d, c, code) ==
  /\ IsConnection(d) /\ SameManner(d, c)
  /\ One(d.sent)
  /\ d.stage \in {"writing", "answered", "over"}
  /\ d.stage # "writing" => Unused(d.res)
  /\ ~d.res.handler /\ ~d.res.skip_body
  /\ d.sent[1].code = code
  /\ ~c.res.skip_body => d.sent[1].length = d.sent[1].body

(* Ending a response that has a handler sends it.                          *)
LEMMA EndServes ==
  ASSUME NEW c, IsConnection(c), c.res.handler, ~c.res.completed, c.sent = <<>>,
         Lengths(c.res)
  PROVE  Served(End(c), c, Known(c.res.code))
BY EndSends DEF Ended, Served

(* A new response put into the place of one that has a handler, and ended, *)
(* is sent.                                                                *)
LEMMA RespondServes ==
  ASSUME NEW c, IsConnection(c), c.res.handler, c.sent = <<>>,
         NEW r, NEW code, NEW body, NEW headers, IsNew(r, code, body, headers)
  PROVE  /\ Served(Respond(c, r), c, Known(code))
         /\ c.res.skip_body /\ Known(code) < 400 =>
              Respond(c, r).sent[1].length = body /\ Respond(c, r).sent[1].body = 0
<1> DEFINE e == Assigning(c, r)
           d == End(e)
<1>1. Respond(c, r) = d
  BY DEF Respond, Assigning
<1> HIDE DEF e
<1>2. Renewed(e, c, code, body, headers)
  BY Assigned DEF e
<1>3. Served(d, e, Known(code)) /\ Dropped(d, e.res)
  BY <1>2, EndServes, EndSends DEF Renewed
<1> HIDE DEF d
<1>4. Served(d, c, Known(code))
  BY <1>2, <1>3 DEF Served, SameManner, Renewed
<1>5. c.res.skip_body /\ Known(code) < 400 => d.sent[1].length = body /\ d.sent[1].body = 0
  BY <1>2, <1>3 DEF Dropped, Renewed
<1> QED BY <1>1, <1>4, <1>5

(* The response of a code and a body.                                      *)
LEMMA ResponseIs ==
  ASSUME NEW code \in Nat, NEW body \in Nat
  PROVE  IsNew(Response(code, body), code, body, NoHeaders)
BY NoHeadersIs DEF Response, IsNew

(* The same for a response of a code and a body.                           *)
LEMMA ValueServes ==
  ASSUME NEW c, IsConnection(c), c.res.handler, c.sent = <<>>,
         NEW code \in Nat, NEW body \in Nat
  PROVE  LET d == Respond(c, Response(code, body))
         IN /\ Served(d, c, Known(code))
            /\ c.res.skip_body /\ Known(code) < 400 =>
                 d.sent[1].length = body /\ d.sent[1].body = 0
BY ResponseIs, RespondServes

(* Where there is no handler, nothing is sent.                             *)
Quiet(d, c) ==
  /\ IsConnection(d) /\ SameManner(d, c) /\ d.sent = c.sent /\ d.stage = c.stage
  /\ ~d.res.handler /\ d.res.skip_body = c.res.skip_body

(* A new response put into the place of one without a handler stays there. *)
LEMMA RespondQuiet ==
  ASSUME NEW c, IsConnection(c), ~c.res.handler,
         NEW r, NEW code, NEW body, NEW headers, IsNew(r, code, body, headers)
  PROVE  LET d == Respond(c, r)
         IN /\ Quiet(d, c)
            /\ ~c.res.skip_body => /\ d.res.code = code /\ d.res.body = body
                                   /\ d.res.headers = headers /\ ~d.res.file
<1> DEFINE e == Assigning(c, r)
           d == End(e)
<1>1. Respond(c, r) = d
  BY DEF Respond, Assigning
<1> HIDE DEF e
<1>2. Renewed(e, c, code, body, headers)
  BY Assigned DEF e
<1>3. /\ IsConnection(d) /\ SameManner(d, e)
      /\ d.sent = e.sent /\ d.stage = e.stage /\ d.res = Complete(e.res)
  BY <1>2, EndQuiet DEF Renewed
<1> HIDE DEF d
<1>4. /\ d.res.code = e.res.code /\ d.res.file = e.res.file
      /\ d.res.handler = e.res.handler /\ d.res.skip_body = e.res.skip_body
      /\ ~e.res.skip_body => d.res.body = e.res.body /\ d.res.headers = e.res.headers
  BY <1>2, <1>3, CompleteIs DEF IsConnection, Renewed
<1>5. SameManner(d, c)
  BY <1>2, <1>3 DEF SameManner, Renewed
<1> QED BY <1>1, <1>2, <1>3, <1>4, <1>5 DEF Quiet, Renewed

(* complete_request sends it then.                                         *)
Refused(d, c, code, allow) ==
  /\ IsConnection(d) /\ SameManner(d, c) /\ One(d.sent)
  /\ d.stage \in {"writing", "answered", "over"}
  /\ d.stage # "writing" => Unused(d.res)
  /\ ~d.res.handler
  /\ d.sent[1].code = code
  /\ d.sent[1].allow = allow
  /\ ~c.res.skip_body => d.sent[1].length = d.sent[1].body

(* A response without a handler, sent by complete_request, has its code    *)
(* and its headers.                                                        *)
LEMMA RespondThenSends ==
  ASSUME NEW c, IsConnection(c), ~c.res.handler, c.sent = <<>>,
         NEW r, NEW code, NEW body, NEW headers, IsNew(r, code, body, headers)
  PROVE  Refused(CompleteRequest(Respond(c, r)), c, Known(code), headers.allow)
<1> DEFINE e == Assigning(c, r)
           d == CompleteRequest(End(e))
<1>1. CompleteRequest(Respond(c, r)) = d
  BY DEF Respond, Assigning
<1> HIDE DEF e
<1>2. Renewed(e, c, code, body, headers)
  BY Assigned DEF e
<1>3. Ended(d, e, e.res)
  BY <1>2, QuietSends DEF Renewed
<1> HIDE DEF d
<1> QED BY <1>1, <1>2, <1>3 DEF Ended, SameManner, Renewed, Refused

(* The statuses that Crow itself gives.                                    *)
LEMMA OwnCodes ==
  /\ Known(200) = 200 /\ Known(204) = 204 /\ Known(301) = 301 /\ Known(307) = 307
  /\ Known(400) = 400 /\ Known(404) = 404 /\ Known(405) = 405 /\ Known(500) = 500
BY DEF Known, StatusCodes

----------------------------------------------------------------------------
(* What a handler does.                                                    *)

(* A response is sent with the code that the rule stands for, unless the   *)
(* handler keeps the response; an answer to a HEAD tells of the body a GET *)
(* would have had.                                                         *)
LEMMA HandleRuleIs ==
  ASSUME NEW c, IsConnection(c), c.res.handler, ~c.res.completed, Unused(c.res),
         c.sent = <<>>,
         NEW rule, rule.does \in Handlers \ {"nothing"}, rule.code \in Nat,
         rule.size \in Nat
  PROVE  LET d == HandleRule(c, rule)
         IN IF rule.does = "late"
            THEN d = [c EXCEPT !.stage = "handling"]
            ELSE /\ Served(d, c, CodeOf(rule))
                 /\ c.res.skip_body /\ CodeOf(rule) < 400 /\ rule.does = "value" =>
                      d.sent[1].length = rule.size /\ d.sent[1].body = 0
<1> DEFINE d == HandleRule(c, rule)
<1>1. CASE rule.does = "value"
  <2>1. d = Respond(c, Response(rule.code, rule.size)) /\ CodeOf(rule) = Known(rule.code)
    BY <1>1 DEF HandleRule, CodeOf
  <2> QED BY <1>1, <2>1, ValueServes
<1>2. CASE rule.does = "late"
  BY <1>2 DEF HandleRule
<1>3. CASE rule.does = "throws"
  <2>1. d = Respond(c, Response(500, 0)) /\ CodeOf(rule) = 500
    BY <1>3 DEF HandleRule, CodeOf
  <2> QED BY <1>3, <2>1, ValueServes, OwnCodes
<1>4. CASE rule.does = "endsThenThrows"
  <2> DEFINE e == Respond(c, Response(rule.code, rule.size))
             r == Response(500, 0)
  <2>1. d = Respond(e, r) /\ CodeOf(rule) = Known(rule.code)
    BY <1>4 DEF HandleRule, CodeOf
  <2>2. Served(e, c, CodeOf(rule))
    BY <2>1, ValueServes
  <2>3. IsNew(r, 500, 0, NoHeaders)
    BY ResponseIs
  <2> HIDE DEF d, e, r
  <2>4. IsConnection(e) /\ ~e.res.handler /\ ~e.res.skip_body
    BY <2>2 DEF Served
  <2>5. /\ Quiet(d, e) /\ d.res.code = 500 /\ d.res.body = 0
        /\ d.res.headers = NoHeaders /\ ~d.res.file
    BY <2>1, <2>3, <2>4, RespondQuiet
  <2>6. Unused(d.res)
    BY <2>5, NoHeadersIs DEF Unused
  <2>7. Served(d, c, CodeOf(rule))
    BY <2>2, <2>5, <2>6 DEF Served, SameManner, Quiet
  <2> QED BY <1>4, <2>7 DEF d
<1>5. CASE rule.does = "file"
  <2> DEFINE q == SetStaticFile(c.res, TRUE)
             h == [c.res.headers EXCEPT !.length = FileSize]
             e == [c EXCEPT !.res = q]
  <2>1. IsResponse(c.res)
    BY DEF IsConnection
  <2>2. Shaped(c.res)
    BY <2>1 DEF IsResponse, Shaped
  <2>3. h.length = FileSize /\ IsHeaders(h)
    BY <2>1 DEF IsResponse, IsHeaders
  <2>4. PICK yes \in BOOLEAN : yes = TRUE
    OBVIOUS
  <2>5. PICK f : f = [c.res EXCEPT !.file = yes]
    OBVIOUS
  <2>6. PICK g : g = [f EXCEPT !.code = 200]
    OBVIOUS
  <2>7. f = Put(c.res, c.res.code, c.res.headers, yes)
    BY <2>2, <2>5, PutNothing, PutFile
  <2>8. g = Put(c.res, 200, c.res.headers, yes)
    BY <2>6, <2>7, PutCode
  <2>9. q = [g EXCEPT !.headers.length = FileSize]
    BY <2>4, <2>5, <2>6 DEF SetStaticFile, Unused
  <2>10. d = End(e) /\ CodeOf(rule) = 200
    BY <1>5 DEF HandleRule, CodeOf
  <2> HIDE DEF q, h, d
  <2>11. q = Put(c.res, 200, h, yes)
    <3>1. g.headers = c.res.headers
      BY <2>8 DEF Put
    <3>2. q = [g EXCEPT !.headers = h]
      BY <2>9, <3>1 DEF h
    <3> QED BY <2>8, <3>2, PutHeaders
  <2>12. /\ IsResponse(q) /\ q.code = 200 /\ q.headers = h /\ q.file = yes
         /\ q.completed = c.res.completed /\ q.skip_body = c.res.skip_body
         /\ q.handler = c.res.handler
    <3>1. Putting(q, c.res, 200, h, yes)
      BY <2>1, <2>3, <2>4, <2>11 DEF Putting
    <3>2. HasPut(q, c.res, 200, h, yes)
      BY <3>1, PutIs
    <3> QED BY <3>2 DEF HasPut
  <2>13. Lengths(q)
    BY <2>3, <2>4, <2>12 DEF Lengths
  <2>14. /\ IsConnection(e) /\ SameManner(e, c)
         /\ e.res = q /\ e.sent = c.sent /\ e.stage = c.stage
    BY <2>12, WithResponse
  <2> HIDE DEF e
  <2>15. Served(d, e, Known(e.res.code))
    <3>1. e.res.handler /\ ~e.res.completed /\ e.sent = <<>> /\ Lengths(e.res)
      BY <2>12, <2>13, <2>14
    <3>2. Served(End(e), e, Known(e.res.code))
      BY <2>14, <3>1, EndServes
    <3> QED BY <2>10, <3>2
  <2>16. Served(d, c, CodeOf(rule))
    BY <2>10, <2>12, <2>14, <2>15, OwnCodes DEF Served, SameManner
  <2> QED BY <1>5, <2>16 DEF d
<1>6. CASE rule.does = "nofile"
  <2> DEFINE q == SetStaticFile(c.res, FALSE)
             e == [c EXCEPT !.res = q]
  <2>1. IsResponse(c.res) /\ IsHeaders(c.res.headers)
    BY DEF IsConnection, IsResponse
  <2>2. Shaped(c.res)
    BY <2>1 DEF IsResponse, Shaped
  <2>3. PICK no \in BOOLEAN : no = FALSE
    OBVIOUS
  <2>4. PICK f : f = [c.res EXCEPT !.code = 404]
    OBVIOUS
  <2>5. f = Put(c.res, 404, c.res.headers, c.res.file)
    BY <2>2, <2>4, PutNothing, PutCode
  <2>6. q = [f EXCEPT !.file = no]
    BY <2>3, <2>4 DEF SetStaticFile
  <2>7. d = End(e) /\ CodeOf(rule) = 404
    BY <1>6 DEF HandleRule, CodeOf
  <2> HIDE DEF q, d
  <2>8. q = Put(c.res, 404, c.res.headers, no)
    BY <2>5, <2>6, PutFile
  <2>9. /\ IsResponse(q) /\ q.code = 404 /\ q.headers = c.res.headers /\ q.file = no
        /\ q.completed = c.res.completed /\ q.skip_body = c.res.skip_body
        /\ q.handler = c.res.handler
    <3>1. Putting(q, c.res, 404, c.res.headers, no)
      BY <2>1, <2>3, <2>8 DEF Putting
    <3>2. HasPut(q, c.res, 404, c.res.headers, no)
      BY <3>1, PutIs
    <3> QED BY <3>2 DEF HasPut
  <2>10. Lengths(q)
    BY <2>3, <2>9 DEF Lengths, Unused
  <2>11. /\ IsConnection(e) /\ SameManner(e, c)
         /\ e.res = q /\ e.sent = c.sent /\ e.stage = c.stage
    BY <2>9, WithResponse
  <2> HIDE DEF e
  <2>12. Served(d, e, Known(e.res.code))
    <3>1. e.res.handler /\ ~e.res.completed /\ e.sent = <<>> /\ Lengths(e.res)
      BY <2>9, <2>10, <2>11
    <3>2. Served(End(e), e, Known(e.res.code))
      BY <2>11, <3>1, EndServes
    <3> QED BY <2>7, <3>2
  <2>13. Served(d, c, CodeOf(rule))
    BY <2>7, <2>9, <2>11, <2>12, OwnCodes DEF Served, SameManner
  <2> QED BY <1>6, <2>13 DEF d
<1>7. CASE rule.does = "redirects"
  <2> DEFINE e == [c EXCEPT !.res.code = 307, !.res.headers.location = "path"]
             h == [c.res.headers EXCEPT !.location = "path"]
  <2>1. IsResponse(c.res) /\ c.res.file \in BOOLEAN
    BY DEF IsConnection, IsResponse
  <2>2. Shaped(c.res)
    BY <2>1 DEF IsResponse, Shaped
  <2>3. h.length = -1 /\ IsHeaders(h)
    BY <2>1 DEF IsResponse, IsHeaders, Unused
  <2>4. PICK p : p = [c.res EXCEPT !.code = 307]
    OBVIOUS
  <2>5. PICK f : f = [c EXCEPT !.res = p]
    OBVIOUS
  <2>6. f.res = p
    BY <2>5 DEF IsConnection
  <2>7. PICK q : q = [p EXCEPT !.headers.location = "path"]
    OBVIOUS
  <2>8. e = [f EXCEPT !.res.headers.location = "path"]
    BY <2>4, <2>5
  <2>9. e = [f EXCEPT !.res = q]
    BY <2>6, <2>7, <2>8
  <2>10. d = End(e) /\ CodeOf(rule) = 307
    BY <1>7 DEF HandleRule, CodeOf
  <2> HIDE DEF e, h, d
  <2>11. e = [c EXCEPT !.res = q]
    BY <2>5, <2>9 DEF IsConnection
  <2>12. p = Put(c.res, 307, c.res.headers, c.res.file)
    BY <2>2, <2>4, PutNothing, PutCode
  <2>13. q = Put(c.res, 307, h, c.res.file)
    <3>1. p.headers = c.res.headers
      BY <2>12 DEF Put
    <3>2. q = [p EXCEPT !.headers = h]
      BY <2>7, <3>1 DEF h
    <3> QED BY <2>12, <3>2, PutHeaders
  <2>14. /\ IsResponse(q) /\ q.code = 307 /\ q.headers = h /\ q.file = c.res.file
         /\ q.completed = c.res.completed /\ q.skip_body = c.res.skip_body
         /\ q.handler = c.res.handler
    <3>1. Putting(q, c.res, 307, h, c.res.file)
      BY <2>1, <2>3, <2>13 DEF Putting
    <3>2. HasPut(q, c.res, 307, h, c.res.file)
      BY <3>1, PutIs
    <3> QED BY <3>2 DEF HasPut
  <2>15. Lengths(q)
    BY <2>3, <2>14 DEF Lengths, Unused
  <2>16. /\ IsConnection(e) /\ SameManner(e, c)
         /\ e.res = q /\ e.sent = c.sent /\ e.stage = c.stage
    BY <2>11, <2>14, WithResponse
  <2>17. Served(d, e, Known(e.res.code))
    <3>1. e.res.handler /\ ~e.res.completed /\ e.sent = <<>> /\ Lengths(e.res)
      BY <2>14, <2>15, <2>16
    <3>2. Served(End(e), e, Known(e.res.code))
      BY <2>16, <3>1, EndServes
    <3> QED BY <2>10, <3>2
  <2>18. Served(d, c, CodeOf(rule))
    BY <2>10, <2>14, <2>16, <2>17, OwnCodes DEF Served, SameManner
  <2> QED BY <1>7, <2>18 DEF d
<1>8. CASE rule.does = "socket"
  <2>1. d = Respond(c, Response(404, 0)) /\ CodeOf(rule) = 404
    BY <1>8 DEF HandleRule, CodeOf
  <2> QED BY <1>8, <2>1, ValueServes, OwnCodes
<1> QED BY <1>1, <1>2, <1>3, <1>4, <1>5, <1>6, <1>7, <1>8 DEF Handlers

----------------------------------------------------------------------------
(* The request is handled.                                                 *)

(* What every step leaves of a connection that has a request.              *)
Good(c) == IsConnection(c) /\ Staged(c) /\ Waiting(c) /\ Sound(c) /\ c.stage # "idle"

(* A connection that has sent nothing says nothing.                        *)
LEMMA SilentIsSound ==
  ASSUME NEW c, c.sent = <<>>
  PROVE  Sound(c)
BY NoneAtAll DEF Sound

(* What one answer to a request that was handled has to say.               *)
LEMMA AnswerIsSound ==
  ASSUME NEW c, One(c.sent), found.rule # 0,
         AnsweredWith(c.sent[1].code, c.hosted, c.left),
         request.method # "Head" => c.sent[1].length = c.sent[1].body \/ c.stale,
         request.method = "Head" /\ found.rule > 1 /\ c.sent[1].code < 400
           /\ RuleAt(found.method, found.rule).does \in {"value", "late"}
           => /\ c.sent[1].length = RuleAt(found.method, found.rule).size
              /\ c.sent[1].body = 0
  PROVE  Sound(c)
<1>1. PICK a : a = c.sent[1]
  OBVIOUS
<1>2. ToSet(c.sent) = {a}
  BY <1>1, OnlyOne DEF One
<1>3. Coded(a, c)
  BY <1>1 DEF Coded
<1>4. Told(a, c)
  BY <1>1 DEF Told
<1> QED BY <1>2, <1>3, <1>4 DEF Sound

(* A connection on which a rule's answer has been sent.                    *)
LEMMA ServedIsGood ==
  ASSUME NEW c, NEW d, NEW code, Served(d, c, code),
         found.rule # 0, AnsweredWith(code, c.hosted, c.left),
         c.res.skip_body <=> request.method = "Head" \/ c.stale,
         c.res.skip_body /\ found.rule > 1 /\ code < 400
           /\ RuleAt(found.method, found.rule).does \in {"value", "late"}
           => /\ d.sent[1].length = RuleAt(found.method, found.rule).size
              /\ d.sent[1].body = 0
  PROVE  Good(d)
<1>1. IsConnection(d) /\ One(d.sent) /\ d.sent[1].code = code
  BY DEF Served
<1>2. d.hosted = c.hosted /\ d.left = c.left /\ d.stale = c.stale
  BY DEF Served, SameManner
<1>3. Staged(d)
  BY DEF Served, Staged, Stages
<1>4. Waiting(d)
  BY DEF Served, Waiting
<1>5. request.method # "Head" => d.sent[1].length = d.sent[1].body \/ d.stale
  BY <1>2 DEF Served
<1>6. Sound(d)
  BY <1>1, <1>2, <1>5, AnswerIsSound
<1>7. d.stage # "idle"
  BY DEF Served
<1> QED BY <1>1, <1>3, <1>4, <1>6, <1>7 DEF Good

(* The rule that was found is one that was declared, with a handler.       *)
LEMMA RuleIs ==
  ASSUME Tables, Requested, phase = "running", conn.stage # "idle", found.rule # 0
  PROVE  /\ found.rule \in Nat /\ found.rule < MaxRules + 2
         /\ found.method \in Methods
         /\ found.rule > 1 =>
              LET rule == RuleAt(found.method, found.rule)
              IN /\ rule.does \in Handlers \ {"nothing"}
                 /\ rule.code \in Nat /\ rule.size \in Nat
<1> DEFINE v == Build(all_rules)
           mine == v.table[found.method].rules
<1>1. /\ Len(all_rules) \in 0 .. MaxRules /\ all_rules \in [1 .. Len(all_rules) -> Routes]
      /\ v.ok /\ per_methods = v.table
  BY DEF Tables
<1>2. /\ found.method \in Methods
      /\ found.rule = Search(v.table[found.method].trie, request.url).rule
      /\ request.url \in Urls
  BY <1>1, HttpExchangeAssumption DEF Requested, InitialRule, FoundBy, FindRule, NotFound
<1>3. /\ Len(mine) \in 2 .. (MaxRules + 2)
      /\ \A i \in 3 .. Len(mine) :
           mine[i].does # "nothing" /\ mine[i] \in {Upgraded(r) : r \in Routes}
      /\ found.rule \in 0 .. (Len(mine) - 1)
  BY <1>1, <1>2, RouterAssumption
<1>4. MaxRules \in Nat
  BY HttpExchangeAssumption
<1>5. ASSUME found.rule > 1
      PROVE  LET rule == RuleAt(found.method, found.rule)
             IN /\ rule.does \in Handlers \ {"nothing"}
                /\ rule.code \in Nat /\ rule.size \in Nat
  <2> DEFINE rule == RuleAt(found.method, found.rule)
  <2>1. rule = mine[found.rule + 1]
    BY <1>1 DEF RuleAt
  <2>2. found.rule + 1 \in 3 .. Len(mine)
    <3> HIDE DEF mine
    <3>1. Len(mine) \in Nat /\ found.rule \in 0 .. (Len(mine) - 1)
      BY <1>3, <1>4
    <3> QED BY <3>1, <1>5
  <2>3. PICK r \in Routes : rule = Upgraded(r)
    BY <1>3, <2>1, <2>2
  <2>4. r \in [url : Seq(STRING), methods : SUBSET Methods, does : Handlers, code : Nat,
               size : Nat]
    BY HttpExchangeAssumption
  <2>5. rule.does \in Handlers /\ rule.code \in Nat /\ rule.size \in Nat
    BY <2>3, <2>4 DEF Upgraded
  <2> QED BY <1>3, <2>1, <2>2, <2>5
<1> HIDE DEF mine
<1> QED BY <1>2, <1>3, <1>4, <1>5

(* The redirect to a trailing slash.                                       *)
RedirectTo(c) == [Response(301, 0) EXCEPT
                    !.headers.location = IF c.hosted THEN "full" ELSE "path"]

(* The redirect is a new response without a body.                          *)
LEMMA RedirectIs ==
  ASSUME NEW c
  PROVE  IsNew(RedirectTo(c), 301, 0, RedirectTo(c).headers)
<1> DEFINE p == IF c.hosted THEN "full" ELSE "path"
           h == [NoHeaders EXCEPT !.location = p]
           r == RedirectTo(c)
<1> HIDE DEF p
<1>1. PICK no : no = FALSE
  OBVIOUS
<1>2. PICK old : old = [length |-> -1, location |-> "none", allow |-> {}, connection |-> no]
  OBVIOUS
<1>3. old = NoHeaders
  BY <1>1, <1>2 DEF NoHeaders
<1>4. PICK q : q = [code |-> 301, body |-> 0, headers |-> old, completed |-> no, file |-> no]
  OBVIOUS
<1>5. q = Response(301, 0)
  BY <1>1, <1>3, <1>4 DEF Response
<1>6. r = [q EXCEPT !.headers.location = p]
  BY <1>5 DEF RedirectTo, p
<1>7. h = [old EXCEPT !.location = p]
  BY <1>3
<1> HIDE DEF r, h
<1>8. r = [code |-> 301, body |-> 0, headers |-> h, completed |-> no, file |-> no]
  BY <1>4, <1>6, <1>7
<1>9. IsHeaders(h) /\ h.length = -1
  BY <1>2, <1>7 DEF IsHeaders
<1>10. r.headers = h
  BY <1>8
<1>11. r = [code |-> 301, body |-> 0, headers |-> h, completed |-> FALSE, file |-> FALSE]
  BY <1>1, <1>8
<1> QED BY <1>9, <1>10, <1>11 DEF IsNew, r

(* A redirect is sent with a 301.                                          *)
LEMMA RedirectServes ==
  ASSUME NEW c, IsConnection(c), c.res.handler, c.sent = <<>>
  PROVE  Served(Redirect(c), c, 301)
<1>1. Redirect(c) = Respond(c, RedirectTo(c))
  BY DEF Redirect, RedirectTo
<1>2. Served(Respond(c, RedirectTo(c)), c, Known(301))
  BY RedirectIs, RespondServes
<1> QED BY <1>1, <1>2, OwnCodes

(* Keep-Alive is set on the response after the handler has run: of what it *)
(* does to the connection the invariant sees nothing.                      *)
LEMMA KeptIsGood ==
  ASSUME NEW c, Good(c)
  PROVE  Good(Kept(c))
<1>1. CASE ~c.keep
  BY <1>1 DEF Kept
<1>2. CASE c.keep
  <2> DEFINE q == [c.res EXCEPT !.headers.connection = TRUE]
             h == [c.res.headers EXCEPT !.connection = TRUE]
  <2>1. IsConnection(c) /\ IsResponse(c.res)
    BY DEF Good, IsConnection
  <2>2. Kept(c) = [c EXCEPT !.res = q]
    BY <1>2, <2>1 DEF Kept, IsConnection
  <2>3. q.headers = h
    BY <2>1 DEF IsResponse
  <2>4. IsHeaders(h) /\ h.length = c.res.headers.length
    <3>1. PICK t : t = TRUE
      OBVIOUS
    <3>2. PICK g : g = [c.res.headers EXCEPT !.connection = t]
      OBVIOUS
    <3>3. h = g
      BY <3>1, <3>2
    <3>4. IsHeaders(g) /\ g.length = c.res.headers.length
      BY <2>1, <3>2 DEF IsResponse, IsHeaders
    <3> QED BY <3>3, <3>4
  <2>5. PICK r : r = q
    OBVIOUS
  <2>6. r = [c.res EXCEPT !.headers.connection = TRUE] /\ r.headers = h
    BY <2>3, <2>5
  <2>7. PICK d : d = [c EXCEPT !.res = r]
    OBVIOUS
  <2>8. Kept(c) = d
    BY <2>2, <2>5, <2>7
  <2> HIDE DEF h, q
  <2>9. /\ r.code = c.res.code /\ r.file = c.res.file /\ r.body = c.res.body
        /\ r.completed = c.res.completed /\ r.skip_body = c.res.skip_body
        /\ r.manual_length = c.res.manual_length /\ r.handler = c.res.handler
    BY <2>1, <2>6 DEF IsResponse
  <2>10. Shaped(r)
    BY <2>1, <2>6 DEF IsResponse, Shaped
  <2>11. IsResponse(r)
    <3>1. /\ c.res.code \in Nat /\ c.res.body \in Nat
          /\ c.res.completed \in BOOLEAN /\ c.res.file \in BOOLEAN
          /\ c.res.skip_body \in BOOLEAN /\ c.res.manual_length \in BOOLEAN
          /\ c.res.handler \in BOOLEAN
          /\ c.res.manual_length => c.res.skip_body
      BY <2>1 DEF IsResponse
    <3>2. r.code \in Nat /\ r.body \in Nat /\ IsHeaders(r.headers)
      BY <3>1, <2>4, <2>6, <2>9
    <3>3. r.completed \in BOOLEAN /\ r.file \in BOOLEAN
      BY <3>1, <2>9
    <3>4. r.skip_body \in BOOLEAN /\ r.manual_length \in BOOLEAN
      BY <3>1, <2>9
    <3>5. r.handler \in BOOLEAN
      BY <3>1, <2>9
    <3>6. r.manual_length => r.skip_body
      BY <3>1, <2>9
    <3> QED BY <2>10, <3>2, <3>3, <3>4, <3>5, <3>6, ResponseLike
  <2>12. /\ IsConnection(d) /\ SameManner(d, c)
         /\ d.res = r /\ d.sent = c.sent /\ d.stage = c.stage
    BY <2>1, <2>7, <2>11, WithResponse
  <2>13. Unused(c.res) => Unused(r)
    BY <2>4, <2>6, <2>9 DEF Unused
  <2>14. Staged(d)
    BY <2>9, <2>12, <2>13 DEF Good, Staged, SameManner
  <2>15. Waiting(d)
    BY <2>9, <2>12 DEF Good, Waiting, SameManner
  <2>16. Sound(d)
    BY <2>12 DEF Good, Sound, SameManner, Coded, Told
  <2> QED BY <2>8, <2>12, <2>14, <2>15, <2>16 DEF Good
<1> QED BY <1>1, <1>2

(* A request to upgrade ends with the connection taken over: what is       *)
(* answered is never sent, for there is no handler to send it.             *)
LEMMA HandleUpgradeIsGood ==
  ASSUME NEW c, IsConnection(c), c.sent = <<>>, ~c.res.handler
  PROVE  Good(HandleUpgrade(c))
<1> DEFINE closed == [c EXCEPT !.close = TRUE, !.stage = "upgraded"]
           d == HandleUpgrade(c)
<1>1. PICK t : t = TRUE
  OBVIOUS
<1>2. PICK e : e = [c EXCEPT !.close = t, !.stage = "upgraded"]
  OBVIOUS
<1>3. closed = e
  BY <1>1, <1>2
<1>4. /\ e = [res |-> e.res, keep |-> e.keep, close |-> e.close, hosted |-> e.hosted,
              stale |-> e.stale, left |-> e.left, sent |-> e.sent, stage |-> e.stage]
      /\ e.res = c.res /\ e.keep = c.keep /\ e.close = t /\ e.hosted = c.hosted
      /\ e.stale = c.stale /\ e.left = c.left /\ e.sent = c.sent /\ e.stage = "upgraded"
  BY <1>2 DEF IsConnection
<1>5. IsConnection(e)
  <2>1. IsResponse(e.res)
    BY <1>4 DEF IsConnection
  <2>2. e.keep \in BOOLEAN /\ e.close \in BOOLEAN /\ e.hosted \in BOOLEAN
    BY <1>1, <1>4 DEF IsConnection
  <2>3. e.stale \in BOOLEAN /\ e.left \in BOOLEAN
    BY <1>4 DEF IsConnection
  <2> QED BY <1>4, <2>1, <2>2, <2>3 DEF IsConnection
<1>6. IsConnection(closed) /\ closed.sent = <<>> /\ closed.stage = "upgraded"
      /\ ~closed.res.handler
  BY <1>3, <1>4, <1>5
<1> HIDE DEF closed
<1>7. d \in {closed, Respond(closed, Response(405, 0)), Redirect(closed),
             Respond(closed, Response(404, 0))}
  BY DEF HandleUpgrade, closed
<1>8. ASSUME NEW f \in {Respond(closed, Response(405, 0)), Redirect(closed),
                        Respond(closed, Response(404, 0))}
      PROVE  Quiet(f, closed)
  <2>1. IsNew(Response(405, 0), 405, 0, NoHeaders) /\ IsNew(Response(404, 0), 404, 0, NoHeaders)
    BY ResponseIs
  <2>2. Redirect(closed) = Respond(closed, RedirectTo(closed))
    BY DEF Redirect, RedirectTo
  <2>3. IsNew(RedirectTo(closed), 301, 0, RedirectTo(closed).headers)
    BY RedirectIs
  <2>4. Quiet(Respond(closed, Response(405, 0)), closed)
    BY <1>6, <2>1, RespondQuiet
  <2>5. Quiet(Respond(closed, Response(404, 0)), closed)
    BY <1>6, <2>1, RespondQuiet
  <2>6. Quiet(Respond(closed, RedirectTo(closed)), closed)
    BY <1>6, <2>3, RespondQuiet
  <2> QED BY <2>2, <2>4, <2>5, <2>6
<1> HIDE DEF d
<1>9. IsConnection(d) /\ d.sent = <<>> /\ d.stage = "upgraded" /\ ~d.res.handler
  BY <1>6, <1>7, <1>8 DEF Quiet
<1>10. Staged(d)
  BY <1>9 DEF Staged, Stages
<1>11. Waiting(d)
  BY <1>9 DEF Waiting
<1>12. Sound(d)
  BY <1>9, SilentIsSound
<1> QED BY <1>9, <1>10, <1>11, <1>12 DEF Good, d

(* The rule's handler has run.                                             *)
LEMMA RouterHandleIsGood ==
  ASSUME Tables, Requested, phase = "running", conn.stage # "idle", found.rule # 0,
         NEW c, IsConnection(c), c.res.handler, ~c.res.completed, Unused(c.res),
         c.sent = <<>>, c.res.skip_body <=> request.method = "Head" \/ c.stale
  PROVE  Good(RouterHandle(c))
<1> DEFINE rule == RuleAt(found.method, found.rule)
           d == RouterHandle(c)
<1>1. /\ found.rule \in Nat
      /\ found.rule > 1 => /\ rule.does \in Handlers \ {"nothing"}
                           /\ rule.code \in Nat /\ rule.size \in Nat
  BY RuleIs
<1>2. CASE found.rule = RULE_SPECIAL_REDIRECT_SLASH
  <2>1. Served(d, c, 301)
    BY <1>2, RedirectServes DEF RouterHandle
  <2>2. AnsweredWith(301, c.hosted, c.left)
    BY <1>2 DEF AnsweredWith
  <2>3. ~(found.rule > 1)
    BY <1>2 DEF RULE_SPECIAL_REDIRECT_SLASH
  <2> QED BY <2>1, <2>2, <2>3, ServedIsGood
<1>3. CASE found.rule # RULE_SPECIAL_REDIRECT_SLASH
  <2>1. found.rule > 1 /\ d = HandleRule(c, rule)
    BY <1>1, <1>3 DEF RouterHandle, RULE_SPECIAL_REDIRECT_SLASH
  <2>2. /\ rule.does \in Handlers \ {"nothing"} /\ rule.code \in Nat /\ rule.size \in Nat
    BY <1>1, <2>1
  <2> HIDE DEF rule, d
  <2>3. CASE rule.does = "late"
    <3>1. d = [c EXCEPT !.stage = "handling"]
      BY <2>1, <2>2, <2>3, HandleRuleIs
    <3>2. /\ IsConnection(d) /\ d.res = c.res /\ d.stage = "handling" /\ d.sent = <<>>
          /\ d.stale = c.stale
      BY <3>1 DEF IsConnection
    <3>3. Staged(d)
      BY <3>2 DEF Staged, Stages
    <3>4. Waiting(d)
      BY <2>1, <2>3, <3>2 DEF Waiting, rule
    <3>5. Sound(d)
      BY <3>2, SilentIsSound
    <3> QED BY <3>2, <3>3, <3>4, <3>5 DEF Good, d
  <2>4. CASE rule.does # "late"
    <3>1. /\ Served(d, c, CodeOf(rule))
          /\ c.res.skip_body /\ CodeOf(rule) < 400 /\ rule.does = "value" =>
               d.sent[1].length = rule.size /\ d.sent[1].body = 0
      BY <2>1, <2>2, <2>4, HandleRuleIs
    <3>2. AnsweredWith(CodeOf(rule), c.hosted, c.left)
      BY <2>1 DEF AnsweredWith, rule
    <3>3. Good(d)
      BY <2>4, <3>1, <3>2, ServedIsGood DEF rule
    <3> QED BY <3>3 DEF d
  <2> QED BY <2>3, <2>4
<1> QED BY <1>2, <1>3

(* The request has been handled, whatever it was.                          *)
LEMMA HandledIsGood ==
  ASSUME Tables, Requested, phase = "running", conn.stage # "idle", found.rule # 0,
         NEW manner, NEW c, IsConnection(c), c.hosted = manner.host,
         ~c.res.handler, Unused(c.res), c.sent = <<>>, c.left = c.res.completed,
         c.res.skip_body <=> request.method = "Head" \/ c.stale
  PROVE  Good(Handled(c, manner))
<1> DEFINE d == Handled(c, manner)
<1>0. c.left \in BOOLEAN /\ c.res.completed \in BOOLEAN
  BY DEF IsConnection, IsResponse
<1>1. CASE manner.v11 /\ ~manner.host
  <2> DEFINE e == Assigning(c, Response(400, 0))
             f == CompleteRequest(e)
  <2>1. d = f
    BY <1>1 DEF Handled, Assigning
  <2>2. IsNew(Response(400, 0), 400, 0, NoHeaders)
    BY ResponseIs
  <2> HIDE DEF d, e
  <2>3. Renewed(e, c, 400, 0, NoHeaders)
    BY <2>2, Assigned DEF e
  <2>4. Replied(f, e, e.res)
    BY <2>3, CompleteRequestIs DEF Renewed
  <2> HIDE DEF f
  <2>5. Ended(f, e, e.res)
    BY <2>3, <2>4, RepliedIs DEF Renewed, IsConnection
  <2>6. /\ One(f.sent) /\ f.sent[1].code = 400
        /\ ~c.res.skip_body => f.sent[1].length = f.sent[1].body
        /\ f.hosted = c.hosted /\ f.stale = c.stale /\ f.left = c.left
    BY <2>3, <2>5, OwnCodes DEF Ended, Renewed, SameManner
  <2>7. ~f.hosted
    BY <1>1, <2>6
  <2>8. AnsweredWith(f.sent[1].code, f.hosted, f.left)
    BY <2>6, <2>7 DEF AnsweredWith
  <2>9. ~(f.sent[1].code < 400)
    BY <2>6
  <2>10. request.method # "Head" => f.sent[1].length = f.sent[1].body \/ f.stale
    BY <2>6
  <2>11. Sound(f)
    BY <2>6, <2>8, <2>9, <2>10, AnswerIsSound
  <2>12. Staged(f) /\ Waiting(f) /\ IsConnection(f) /\ f.stage # "idle"
    BY <2>5 DEF Ended, Staged, Waiting, Stages
  <2> QED BY <2>1, <2>11, <2>12 DEF Good, d
<1>2. CASE manner.v11 /\ manner.host /\ manner.upgrade
  <2>1. d = HandleUpgrade(c)
    BY <1>2 DEF Handled
  <2> QED BY <2>1, HandleUpgradeIsGood
<1>3. CASE ~(manner.v11 /\ (~manner.host \/ manner.upgrade)) /\ c.res.completed
  <2> DEFINE f == CompleteRequest(c)
  <2>1. d = f
    BY <1>3 DEF Handled
  <2>2. Replied(f, c, c.res)
    BY CompleteRequestIs
  <2> HIDE DEF f, d
  <2>3. Lengths(c.res) /\ IsResponse(c.res) /\ c.res.code = 500
    BY <1>3 DEF Unused, Lengths, IsConnection
  <2>4. Ended(f, c, c.res)
    BY <2>2, <2>3, RepliedIs
  <2>6. /\ One(f.sent) /\ f.sent[1].code = 500
        /\ ~c.res.skip_body => f.sent[1].length = f.sent[1].body
        /\ f.hosted = c.hosted /\ f.stale = c.stale /\ f.left = c.left
    BY <2>3, <2>4, OwnCodes DEF Ended, SameManner
  <2>7. f.left
    BY <1>3, <2>6
  <2>8. AnsweredWith(f.sent[1].code, f.hosted, f.left)
    BY <2>6, <2>7 DEF AnsweredWith
  <2>9. ~(f.sent[1].code < 400)
    BY <2>6
  <2>10. request.method # "Head" => f.sent[1].length = f.sent[1].body \/ f.stale
    BY <2>6
  <2>11. Sound(f)
    BY <2>6, <2>8, <2>9, <2>10, AnswerIsSound
  <2>12. Staged(f) /\ Waiting(f) /\ IsConnection(f) /\ f.stage # "idle"
    BY <2>4 DEF Ended, Staged, Waiting, Stages
  <2> QED BY <2>1, <2>11, <2>12 DEF Good, d
<1>4. CASE ~(manner.v11 /\ (~manner.host \/ manner.upgrade)) /\ ~c.res.completed
  <2> DEFINE e == [c EXCEPT !.res.handler = TRUE]
             r == [c.res EXCEPT !.handler = TRUE]
  <2>1. d = Kept(RouterHandle(e))
    BY <1>4 DEF Handled
  <2>2. PICK t : t = TRUE
    OBVIOUS
  <2>3. PICK q : q = [c.res EXCEPT !.handler = t]
    OBVIOUS
  <2>4. PICK f : f = [c EXCEPT !.res = q]
    OBVIOUS
  <2>5. e = f
    BY <2>2, <2>3, <2>4 DEF IsConnection
  <2>6. IsResponse(c.res)
    BY DEF IsConnection
  <2>7. /\ q.code = c.res.code /\ q.file = c.res.file /\ q.body = c.res.body
        /\ q.headers = c.res.headers
        /\ q.completed = c.res.completed /\ q.skip_body = c.res.skip_body
        /\ q.manual_length = c.res.manual_length /\ q.handler = t
    BY <2>3, <2>6 DEF IsResponse
  <2>8. Shaped(q)
    BY <2>3, <2>6 DEF IsResponse, Shaped
  <2>9. IsResponse(q)
    <3>1. /\ c.res.code \in Nat /\ c.res.body \in Nat /\ IsHeaders(c.res.headers)
          /\ c.res.completed \in BOOLEAN /\ c.res.file \in BOOLEAN
          /\ c.res.skip_body \in BOOLEAN /\ c.res.manual_length \in BOOLEAN
          /\ c.res.manual_length => c.res.skip_body
      BY <2>6 DEF IsResponse
    <3>2. q.code \in Nat /\ q.body \in Nat /\ IsHeaders(q.headers)
      BY <3>1, <2>7
    <3>3. q.completed \in BOOLEAN /\ q.file \in BOOLEAN
      BY <3>1, <2>7
    <3>4. q.skip_body \in BOOLEAN /\ q.manual_length \in BOOLEAN
      BY <3>1, <2>7
    <3>5. q.handler \in BOOLEAN
      BY <2>2, <2>7
    <3>6. q.manual_length => q.skip_body
      BY <3>1, <2>7
    <3> QED BY <2>8, <3>2, <3>3, <3>4, <3>5, <3>6, ResponseLike
  <2>10. /\ IsConnection(f) /\ SameManner(f, c)
         /\ f.res = q /\ f.sent = c.sent /\ f.stage = c.stage
    BY <2>4, <2>9, WithResponse
  <2>11. Unused(f.res) /\ f.res.handler /\ ~f.res.completed
    BY <1>4, <2>2, <2>7, <2>10 DEF Unused
  <2>12. f.res.skip_body <=> request.method = "Head" \/ f.stale
    BY <2>7, <2>10 DEF SameManner
  <2>13. Good(RouterHandle(f))
    BY <2>10, <2>11, <2>12, RouterHandleIsGood
  <2> QED BY <2>1, <2>5, <2>13, KeptIsGood
<1> QED BY <1>1, <1>2, <1>3, <1>4

----------------------------------------------------------------------------
(* The URL of a request is there.                                          *)

(* A request for which there is no rule is answered at once, as the router *)
(* has it (handle_initial, get_error).                                     *)
LEMMA InitialRefusal ==
  ASSUME NEW c, IsConnection(c), ~c.res.handler, c.sent = <<>>, Unused(c.res),
         NEW method, NEW url
  PROVE  \E allow :
           /\ Refused(CompleteRequest(InitialResponse(c, method, url, 0)), c,
                      RefusedWith(method, url), allow)
           /\ method = "Options" /\ RefusedWith(method, url) = 204 => allow = Allowed(url)
<1> DEFINE d == CompleteRequest(InitialResponse(c, method, url, 0))
<1>1. IsNew(Response(404, 0), 404, 0, NoHeaders)
  BY ResponseIs
<1>2. Refused(CompleteRequest(Respond(c, Response(404, 0))), c, 404, NoHeaders.allow)
  BY <1>1, RespondThenSends, OwnCodes
<1>3. CASE method = "Options" /\ (url = <<"/", "*">> \/ KnownBy(url) # {})
  <2> DEFINE r == [Response(204, 0) EXCEPT !.headers.allow = Allowed(url)]
             h == [NoHeaders EXCEPT !.allow = Allowed(url)]
  <2>1. d = CompleteRequest(Respond(c, r)) /\ RefusedWith(method, url) = 204
    BY <1>3 DEF InitialResponse, RefusedWith
  <2>2. PICK no : no = FALSE
    OBVIOUS
  <2>3. PICK set : set = Allowed(url)
    OBVIOUS
  <2>4. PICK old : old = [length |-> -1, location |-> "none", allow |-> {}, connection |-> no]
    OBVIOUS
  <2>5. old = NoHeaders
    BY <2>2, <2>4 DEF NoHeaders
  <2>6. PICK q : q = [code |-> 204, body |-> 0, headers |-> old, completed |-> no, file |-> no]
    OBVIOUS
  <2>7. q = Response(204, 0)
    BY <2>2, <2>5, <2>6 DEF Response
  <2>8. r = [q EXCEPT !.headers.allow = set]
    BY <2>3, <2>7
  <2>9. h = [old EXCEPT !.allow = set]
    BY <2>3, <2>5
  <2> HIDE DEF r, h, d
  <2>10. r = [code |-> 204, body |-> 0, headers |-> h, completed |-> no, file |-> no]
    BY <2>6, <2>8, <2>9
  <2>11. IsHeaders(h) /\ h.length = -1 /\ h.allow = set
    BY <2>4, <2>9 DEF IsHeaders
  <2>12. r = [code |-> 204, body |-> 0, headers |-> h, completed |-> FALSE, file |-> FALSE]
    BY <2>2, <2>10
  <2>13. IsNew(r, 204, 0, h)
    BY <2>11, <2>12 DEF IsNew
  <2>14. Refused(CompleteRequest(Respond(c, r)), c, 204, h.allow)
    BY <2>13, RespondThenSends, OwnCodes
  <2> QED BY <2>1, <2>3, <2>11, <2>14 DEF d
<1>4. CASE method = "Options" /\ ~(url = <<"/", "*">> \/ KnownBy(url) # {})
  <2>1. d = CompleteRequest(Respond(c, Response(404, 0))) /\ RefusedWith(method, url) = 404
    BY <1>4 DEF InitialResponse, RefusedWith
  <2> QED BY <1>2, <2>1
<1>5. CASE method = "Head"
  <2>1. d = CompleteRequest(Respond(c, Response(404, 0))) /\ RefusedWith(method, url) = 404
    BY <1>5 DEF InitialResponse, RefusedWith
  <2> QED BY <1>2, <1>5, <2>1
<1>6. CASE method \notin {"Options", "Head"}
  <2> DEFINE e == [c EXCEPT !.res.code = RefusedWith(method, url)]
  <2>1. d = CompleteRequest(End(e)) /\ RefusedWith(method, url) \in {404, 405}
    BY <1>6 DEF InitialResponse, RefusedWith
  <2>2. PICK code : code = RefusedWith(method, url)
    OBVIOUS
  <2>3. PICK q : q = [c.res EXCEPT !.code = code]
    OBVIOUS
  <2>4. IsResponse(c.res)
    BY DEF IsConnection
  <2>5. /\ q.code = code /\ q.file = c.res.file /\ q.body = c.res.body
        /\ q.headers = c.res.headers /\ q.skip_body = c.res.skip_body
        /\ q.handler = c.res.handler /\ IsResponse(q)
    BY <2>1, <2>2, <2>3, <2>4 DEF IsResponse
  <2>6. PICK f : f = [c EXCEPT !.res = q]
    OBVIOUS
  <2>7. e = f
    BY <2>2, <2>3, <2>6 DEF IsConnection
  <2> HIDE DEF e, d
  <2>8. /\ IsConnection(f) /\ SameManner(f, c)
        /\ f.res = q /\ f.sent = c.sent /\ f.stage = c.stage
    BY <2>5, <2>6, WithResponse
  <2>9. Lengths(f.res)
    BY <2>5, <2>8 DEF Lengths, Unused
  <2>10. Ended(CompleteRequest(End(f)), f, f.res)
    BY <2>5, <2>8, <2>9, QuietSends
  <2>11. Known(code) = code
    BY <2>1, <2>2, OwnCodes
  <2>12. Refused(d, c, code, c.res.headers.allow)
    BY <2>1, <2>5, <2>7, <2>8, <2>10, <2>11 DEF Ended, Refused, SameManner
  <2> QED BY <1>6, <2>2, <2>12 DEF d
<1> QED BY <1>3, <1>4, <1>5, <1>6

(* A request for which there is one goes on: its headers are read.         *)
Reading(c, method, url, rule) ==
  [InitialResponse(c, method, url, rule) EXCEPT !.stage = "reading"]

(* The headers of a request that a rule takes are read; after a HEAD the   *)
(* body of its answer will be dropped.                                     *)
LEMMA InitialReading ==
  ASSUME NEW c, IsConnection(c), ~c.res.handler, c.sent = <<>>, Unused(c.res),
         NEW method, method # "Options", NEW url, NEW rule, rule # 0,
         NEW d, d = Reading(c, method, url, rule)
  PROVE  /\ IsConnection(d) /\ SameManner(d, c) /\ d.sent = <<>> /\ d.stage = "reading"
         /\ ~d.res.handler /\ Unused(d.res) /\ d.res.completed = c.res.completed
         /\ d.res.skip_body <=> method = "Head" \/ c.res.skip_body
<1>1. IsResponse(c.res)
  BY DEF IsConnection
<1>2. CASE method # "Head"
  <2>1. d = [c EXCEPT !.stage = "reading"]
    BY <1>2 DEF InitialResponse, Reading
  <2> QED BY <1>2, <2>1 DEF IsConnection, SameManner
<1>3. CASE method = "Head"
  <2>1. PICK t : t = TRUE
    OBVIOUS
  <2>2. PICK q : q = [c.res EXCEPT !.skip_body = t]
    OBVIOUS
  <2>3. PICK f : f = [c EXCEPT !.res = q]
    OBVIOUS
  <2>4. d = [f EXCEPT !.stage = "reading"]
    BY <1>3, <2>1, <2>2, <2>3 DEF InitialResponse, IsConnection, Reading
  <2>5. /\ q.code = c.res.code /\ q.file = c.res.file /\ q.body = c.res.body
        /\ q.headers = c.res.headers
        /\ q.completed = c.res.completed /\ q.skip_body = t
        /\ q.manual_length = c.res.manual_length /\ q.handler = c.res.handler
    BY <2>2, <1>1 DEF IsResponse
  <2>6. Shaped(q)
    BY <2>2, <1>1 DEF IsResponse, Shaped
  <2>7. IsResponse(q)
    <3>1. /\ c.res.code \in Nat /\ c.res.body \in Nat /\ IsHeaders(c.res.headers)
          /\ c.res.completed \in BOOLEAN /\ c.res.file \in BOOLEAN
          /\ c.res.handler \in BOOLEAN /\ c.res.manual_length \in BOOLEAN
      BY <1>1 DEF IsResponse
    <3>2. q.code \in Nat /\ q.body \in Nat /\ IsHeaders(q.headers)
      BY <3>1, <2>5
    <3>3. q.completed \in BOOLEAN /\ q.file \in BOOLEAN
      BY <3>1, <2>5
    <3>4. q.skip_body \in BOOLEAN /\ q.skip_body
      BY <2>1, <2>5
    <3>5. q.handler \in BOOLEAN /\ q.manual_length \in BOOLEAN
      BY <3>1, <2>5
    <3> QED BY <2>6, <3>2, <3>3, <3>4, <3>5, ResponseLike
  <2>8. /\ IsConnection(f) /\ SameManner(f, c)
        /\ f.res = q /\ f.sent = c.sent /\ f.stage = c.stage
    BY <2>3, <2>7, WithResponse
  <2>9. IsConnection(d) /\ SameManner(d, f) /\ d.res = q /\ d.sent = f.sent
        /\ d.stage = "reading"
    BY <2>4, <2>8 DEF IsConnection, SameManner
  <2>10. SameManner(d, c) /\ d.sent = <<>>
    BY <2>8, <2>9 DEF SameManner
  <2>11. Unused(q) /\ ~q.handler /\ q.skip_body
    BY <2>1, <2>5 DEF Unused
  <2> QED BY <1>3, <2>5, <2>9, <2>10, <2>11
<1> QED BY <1>2, <1>3

----------------------------------------------------------------------------
(* Every step keeps the invariant.                                         *)

(* The connection of a new client.                                         *)
LEMMA NewConnectionIs ==
  /\ IsConnection(NewConnection) /\ NewConnection.stage = "idle" /\ NewConnection.sent = <<>>
  /\ ~NewConnection.res.handler /\ Unused(NewConnection.res)
  /\ ~NewConnection.stale /\ ~NewConnection.left
<1>1. IsHeaders(NoHeaders)
  BY NoHeadersIs
<1>2. IsResponse(NoResponse) /\ Unused(NoResponse) /\ ~NoResponse.handler
  BY <1>1, NoHeadersIs DEF NoResponse, IsResponse, Unused
<1> QED BY <1>2 DEF NewConnection, IsConnection

(* A new connection is idle and has said nothing.                          *)
LEMMA NewIsStaged == Staged(NewConnection) /\ Waiting(NewConnection) /\ Sound(NewConnection)
BY NewConnectionIs, SilentIsSound DEF Staged, Stages, Waiting

(* A connection with a request is on a server that runs.                   *)
LEMMA BusyRuns ==
  ASSUME Tables, conn.stage # "idle"
  PROVE  phase = "running"
BY NewConnectionIs DEF Tables

(* What has been said of a connection depends on no more than the request, *)
(* what was found and the tables.                                          *)
LEMMA StillGood ==
  ASSUME UNCHANGED <<per_methods, request, found>>, Good(conn')
  PROVE  (IsConnection(conn) /\ Staged(conn) /\ Waiting(conn) /\ Sound(conn)
            /\ conn.stage # "idle")'
<1>1. IsConnection(conn)' /\ Staged(conn)' /\ conn'.stage # "idle"
  BY DEF Good, IsConnection, Staged, IsResponse, IsHeaders, Stages, One, Unused
<1>2. Waiting(conn)'
  BY DEF Good, Waiting, RuleAt
<1>3. Sound(conn)'
  <2>1. \A url : KnownBy(url)' = KnownBy(url) /\ Allowed(url)' = Allowed(url)
    BY DEF Allowed, KnownBy, FindRule
  <2>2. \A method, index : RuleAt(method, index)' = RuleAt(method, index)
    BY DEF RuleAt
  <2>3. ASSUME NEW a, Coded(a, conn')
        PROVE  Coded(a, conn)'
    <3>1. CASE found.rule = 0
      BY <2>1, <2>3, <3>1 DEF Coded, RefusedWith, Allowed, KnownBy, FindRule
    <3>2. CASE found.rule # 0
      BY <2>3, <3>2 DEF Coded, AnsweredWith, RuleAt
    <3> QED BY <3>1, <3>2
  <2>4. ASSUME NEW a, Told(a, conn')
        PROVE  Told(a, conn)'
    BY <2>4 DEF Told, RuleAt
  <2> QED BY <2>3, <2>4 DEF Good, Sound
<1> QED BY <1>1, <1>2, <1>3

(* A step that serves the request in hand.                                 *)
LEMMA ServingKeeps ==
  ASSUME IInv, conn.stage # "idle", Good(conn'),
         UNCHANGED <<all_rules, phase, per_methods, request, found>>
  PROVE  IInv'
<1>1. phase = "running"
  BY BusyRuns DEF IInv
<1>2. Tables'
  BY <1>1 DEF IInv, Tables
<1>3. (IsConnection(conn) /\ Staged(conn) /\ Waiting(conn) /\ Sound(conn)
         /\ conn.stage # "idle")'
  BY StillGood
<1>4. Requested'
  BY <1>3 DEF IInv, Requested, InitialRule, FoundBy, FindRule, NotFound
<1> QED BY <1>2, <1>3, <1>4 DEF IInv

(* Handling a request keeps the invariant.                                 *)
LEMMA HandleKeeps ==
  ASSUME IInv, NEW manner \in Manners, Handle(manner)
  PROVE  IInv'
<1> DEFINE c == [conn EXCEPT !.keep = manner.keep, !.close = manner.close,
                             !.hosted = manner.host]
<1>1. conn.stage = "reading" /\ conn' = Handled(c, manner)
      /\ UNCHANGED <<all_rules, phase, per_methods, request, found>>
  BY DEF Handle
<1>2. IsConnection(conn) /\ Staged(conn) /\ Waiting(conn) /\ Tables /\ Requested
  BY DEF IInv
<1>3. manner.keep \in BOOLEAN /\ manner.close \in BOOLEAN /\ manner.host \in BOOLEAN
  BY HttpExchangeAssumption
<1>4. PICK f : f = c
  OBVIOUS
<1>5. /\ f.res = conn.res /\ f.sent = conn.sent /\ f.stage = conn.stage
      /\ f.stale = conn.stale /\ f.left = conn.left /\ f.hosted = manner.host
      /\ f.keep = manner.keep /\ f.close = manner.close
  BY <1>2, <1>4 DEF IsConnection
<1>6. f = [res |-> f.res, keep |-> f.keep, close |-> f.close, hosted |-> f.hosted,
           stale |-> f.stale, left |-> f.left, sent |-> f.sent, stage |-> f.stage]
  BY <1>2, <1>4 DEF IsConnection
<1> HIDE DEF c
<1>7. IsConnection(f)
  <2>1. IsResponse(f.res)
    BY <1>2, <1>5 DEF IsConnection
  <2>2. f.keep \in BOOLEAN /\ f.close \in BOOLEAN /\ f.hosted \in BOOLEAN
    BY <1>3, <1>5
  <2>3. f.stale \in BOOLEAN /\ f.left \in BOOLEAN
    BY <1>2, <1>5 DEF IsConnection
  <2> QED BY <1>6, <2>1, <2>2, <2>3 DEF IsConnection
<1>8. /\ ~f.res.handler /\ Unused(f.res) /\ f.sent = <<>>
      /\ found.rule # 0
  BY <1>1, <1>2, <1>5 DEF Staged, Waiting
<1>9. /\ f.left = f.res.completed
      /\ f.res.skip_body <=> request.method = "Head" \/ f.stale
  BY <1>1, <1>2, <1>5 DEF Waiting
<1>10. phase = "running" /\ conn.stage # "idle"
  BY <1>1, <1>2, BusyRuns
<1>11. Good(Handled(f, manner))
  BY <1>2, <1>5, <1>7, <1>8, <1>9, <1>10, HandledIsGood
<1> QED BY <1>1, <1>4, <1>10, <1>11, ServingKeeps

(* Ending a response that a handler kept keeps it.                         *)
LEMMA EndLateKeeps ==
  ASSUME IInv, EndLate
  PROVE  IInv'
<1> DEFINE rule == RuleAt(found.method, found.rule)
           d == Respond(conn, Response(rule.code, rule.size))
<1>1. conn.stage = "handling" /\ conn' = d
      /\ UNCHANGED <<all_rules, phase, per_methods, request, found>>
  BY DEF EndLate
<1>2. IsConnection(conn) /\ Staged(conn) /\ Waiting(conn) /\ Tables /\ Requested
  BY DEF IInv
<1>3. phase = "running" /\ conn.stage # "idle"
  BY <1>1, <1>2, BusyRuns
<1>4. /\ conn.res.handler /\ conn.sent = <<>>
      /\ found.rule > 1 /\ found.rule # 0 /\ rule.does = "late"
      /\ conn.res.skip_body <=> request.method = "Head" \/ conn.stale
  BY <1>1, <1>2 DEF Staged, Waiting
<1>5. rule.code \in Nat /\ rule.size \in Nat
  BY <1>2, <1>3, <1>4, RuleIs
<1> HIDE DEF rule
<1>6. /\ Served(d, conn, Known(rule.code))
      /\ conn.res.skip_body /\ Known(rule.code) < 400 =>
           d.sent[1].length = rule.size /\ d.sent[1].body = 0
  BY <1>2, <1>4, <1>5, ValueServes
<1>7. CodeOf(rule) = Known(rule.code)
  BY <1>4 DEF CodeOf
<1> HIDE DEF d
<1>8. AnsweredWith(Known(rule.code), conn.hosted, conn.left)
  BY <1>4, <1>7 DEF AnsweredWith, rule
<1>9. Good(d)
  BY <1>4, <1>6, <1>8, ServedIsGood DEF rule
<1> QED BY <1>1, <1>3, <1>9, ServingKeeps

(* The end of an asynchronous write keeps it.                              *)
LEMMA WrittenKeeps ==
  ASSUME IInv, Written
  PROVE  IInv'
<1> DEFINE q == Clear(conn.res)
           d == [conn EXCEPT !.res = q, !.stage = IF conn.close THEN "over" ELSE "answered"]
<1>1. conn.stage = "writing" /\ conn' = d
      /\ UNCHANGED <<all_rules, phase, per_methods, request, found>>
  BY DEF Written
<1>2. IsConnection(conn) /\ Staged(conn) /\ Sound(conn) /\ IsResponse(conn.res)
  BY DEF IInv, IsConnection
<1>3. IsResponse(q) /\ Unused(q) /\ q.handler = conn.res.handler
  BY <1>2, ClearIs
<1>4. PICK stage \in {"over", "answered"} :
        d = [conn EXCEPT !.res = q, !.stage = stage]
  OBVIOUS
<1>5. PICK f : f = [conn EXCEPT !.res = q]
  OBVIOUS
<1> HIDE DEF q
<1>6. /\ IsConnection(f) /\ SameManner(f, conn)
      /\ f.res = q /\ f.sent = conn.sent /\ f.stage = conn.stage
  BY <1>2, <1>3, <1>5, WithResponse
<1>7. d = [f EXCEPT !.stage = stage]
  BY <1>4, <1>5
<1> HIDE DEF d
<1>8. /\ IsConnection(d) /\ SameManner(d, f)
      /\ d.res = q /\ d.sent = f.sent /\ d.stage = stage
  BY <1>6, <1>7 DEF IsConnection, SameManner
<1>9. Staged(d)
  BY <1>1, <1>2, <1>3, <1>6, <1>8 DEF Staged, Stages
<1>10. Waiting(d)
  BY <1>8 DEF Waiting
<1>11. Sound(d)
  BY <1>2, <1>6, <1>8 DEF Sound, Coded, Told, SameManner
<1>12. Good(d)
  BY <1>8, <1>9, <1>10, <1>11 DEF Good
<1> QED BY <1>1, <1>12, ServingKeeps

(* An idle connection.                                                     *)
LEMMA IdleKeeps ==
  ASSUME Tables', IsConnection(conn'), conn'.stage = "idle", conn'.sent = <<>>,
         ~conn'.res.handler, Unused(conn'.res), ~conn'.stale, ~conn'.left,
         request' = [method |-> NoUrl, url |-> <<>>], found' = NotFound
  PROVE  IInv'
<1>1. Staged(conn)'
  BY DEF Staged, Stages, Unused, One
<1>2. Waiting(conn)'
  BY DEF Waiting
<1>3. Sound(conn)'
  BY NoneAtAll DEF Sound
<1>4. Requested'
  BY DEF Requested, NotFound, NoUrl
<1>5. IsConnection(conn)'
  BY DEF IsConnection, IsResponse, IsHeaders
<1> QED BY <1>1, <1>2, <1>3, <1>4, <1>5 DEF IInv

(* The next request on a connection starts from what the last one left of  *)
(* the response.                                                           *)
LEMMA ReceiveKeeps ==
  ASSUME IInv, Receive
  PROVE  IInv'
<1> DEFINE c == [conn EXCEPT !.stage = "idle", !.sent = <<>>, !.hosted = FALSE,
                             !.stale = FALSE, !.left = FALSE]
<1>1. conn.stage = "answered" /\ conn' = c
      /\ request' = [method |-> NoUrl, url |-> <<>>] /\ found' = NotFound
      /\ UNCHANGED <<all_rules, phase, per_methods>>
  BY DEF Receive
<1>2. IsConnection(conn) /\ Staged(conn) /\ Tables
  BY DEF IInv
<1>3. PICK no : no = FALSE
  OBVIOUS
<1>4. PICK d : d = [conn EXCEPT !.stage = "idle", !.sent = <<>>, !.hosted = no,
                                !.stale = no, !.left = no]
  OBVIOUS
<1>5. c = d
  BY <1>3, <1>4
<1> HIDE DEF c
<1>6. /\ d.res = conn.res /\ d.sent = <<>> /\ d.stage = "idle"
      /\ d.stale = no /\ d.left = no /\ d.hosted = no
      /\ d.keep = conn.keep /\ d.close = conn.close
  BY <1>2, <1>4 DEF IsConnection
<1>7. d = [res |-> d.res, keep |-> d.keep, close |-> d.close, hosted |-> d.hosted,
           stale |-> d.stale, left |-> d.left, sent |-> d.sent, stage |-> d.stage]
  BY <1>2, <1>4 DEF IsConnection
<1>8. IsConnection(d)
  <2>1. IsResponse(d.res)
    BY <1>2, <1>6 DEF IsConnection
  <2>2. d.keep \in BOOLEAN /\ d.close \in BOOLEAN
    BY <1>2, <1>6 DEF IsConnection
  <2>3. d.hosted \in BOOLEAN /\ d.stale \in BOOLEAN /\ d.left \in BOOLEAN
    BY <1>3, <1>6
  <2> QED BY <1>7, <2>1, <2>2, <2>3 DEF IsConnection
<1>9. ~d.res.handler /\ Unused(d.res) /\ ~d.stale /\ ~d.left
  BY <1>1, <1>2, <1>3, <1>6 DEF Staged
<1>10. phase = "running"
  BY <1>1, <1>2, BusyRuns
<1>11. Tables'
  BY <1>1, <1>2, <1>10 DEF Tables
<1> QED BY <1>1, <1>5, <1>6, <1>8, <1>9, <1>11, IdleKeeps

(* A new connection starts from a new response.                            *)
LEMMA ConnectKeeps ==
  ASSUME IInv, Connect
  PROVE  IInv'
<1>1. conn' = NewConnection /\ conn.stage # "idle"
      /\ request' = [method |-> NoUrl, url |-> <<>>] /\ found' = NotFound
      /\ UNCHANGED <<all_rules, phase, per_methods>>
  BY DEF Connect
<1>2. Tables'
  BY <1>1 DEF IInv, Tables
<1> QED BY <1>1, <1>2, NewConnectionIs, IdleKeeps

(* Declaring a rule keeps the invariant.                                   *)
LEMMA NewRuleKeeps ==
  ASSUME IInv, NEW rule \in Routes, NewRule(rule)
  PROVE  IInv'
<1>1. /\ phase = "declaring" /\ Len(all_rules) < MaxRules
      /\ all_rules' = Append(all_rules, rule)
      /\ UNCHANGED <<phase, per_methods, request, found, conn>>
  BY DEF NewRule
<1>2. Tables
  BY DEF IInv
<1>3. conn' = NewConnection
  BY <1>1, <1>2 DEF Tables
<1>4. /\ Len(all_rules) \in 0 .. MaxRules /\ all_rules \in [1 .. Len(all_rules) -> Routes]
  BY <1>2 DEF Tables
<1>5. MaxRules \in Nat
  BY HttpExchangeAssumption
<1>6. all_rules \in Seq(Routes)
  BY <1>4, <1>5 DEF Seq
<1>7. Len(all_rules') = Len(all_rules) + 1 /\ all_rules' \in [1 .. Len(all_rules') -> Routes]
  <2>1. all_rules' \in Seq(Routes) /\ Len(all_rules') = Len(all_rules) + 1
    BY <1>1, <1>6
  <2>2. ASSUME NEW s \in Seq(Routes)
        PROVE  s \in [1 .. Len(s) -> Routes]
    OBVIOUS
  <2> QED BY <2>1, <2>2
<1>8. Tables'
  BY <1>1, <1>3, <1>4, <1>5, <1>7 DEF Tables
<1>9. request' = [method |-> NoUrl, url |-> <<>>] /\ found' = NotFound
  BY <1>1, <1>3, NewConnectionIs DEF IInv, Requested
<1> QED BY <1>3, <1>8, <1>9, NewConnectionIs, IdleKeeps

(* Building the tables keeps it.                                           *)
LEMMA ValidateKeeps ==
  ASSUME IInv, Validate
  PROVE  IInv'
<1>1. /\ phase = "declaring"
      /\ phase' = IF Build(all_rules).ok THEN "running" ELSE "failed"
      /\ per_methods' = IF Build(all_rules).ok THEN Build(all_rules).table ELSE per_methods
      /\ UNCHANGED <<all_rules, request, found, conn>>
  BY DEF Validate
<1>2. Tables
  BY DEF IInv
<1>3. conn' = NewConnection
  BY <1>1, <1>2 DEF Tables
<1>4. Tables'
  BY <1>1, <1>2, <1>3 DEF Tables
<1>5. request' = [method |-> NoUrl, url |-> <<>>] /\ found' = NotFound
  BY <1>1, <1>3, NewConnectionIs DEF IInv, Requested
<1> QED BY <1>3, <1>4, <1>5, NewConnectionIs, IdleKeeps

(* A connection on which a request without a rule has been answered.       *)
LEMMA RefusedKeeps ==
  ASSUME IInv, NEW method \in Methods, NEW url \in Urls, NEW c, NEW allow,
         Refused(conn', c, RefusedWith(method, url), allow),
         method = "Options" /\ RefusedWith(method, url) = 204 => allow = Allowed(url),
         c.stale = c.res.skip_body,
         phase = "running", request' = [method |-> method, url |-> url],
         found' = InitialRule(method, url), found'.rule = 0,
         UNCHANGED <<all_rules, phase, per_methods>>
  PROVE  IInv'
<1>1. Tables'
  BY DEF IInv, Tables
<1>2. PICK a : a = conn'.sent[1]
  OBVIOUS
<1>3. ToSet(conn'.sent) = {a}
  BY <1>2, OnlyOne DEF Refused, One
<1>4. /\ RefusedWith(method, url)' = RefusedWith(method, url)
      /\ Allowed(url)' = Allowed(url)
      /\ InitialRule(method, url)' = InitialRule(method, url)
  BY DEF RefusedWith, Allowed, KnownBy, FindRule, InitialRule, FoundBy
<1>5. request'.method = method /\ request'.url = url
  OBVIOUS
<1>6. /\ a.code = RefusedWith(method, url) /\ a.allow = allow
      /\ ~c.res.skip_body => a.length = a.body
  BY <1>2 DEF Refused
<1>7. Coded(a, conn)'
  BY <1>5, <1>6 DEF Coded, RefusedWith, Allowed, KnownBy, FindRule
<1>8. a.length = a.body \/ conn'.stale
  <2>1. conn'.stale = c.res.skip_body
    BY DEF Refused, SameManner
  <2>2. CASE c.res.skip_body
    BY <2>1, <2>2
  <2>3. CASE ~c.res.skip_body
    BY <1>6, <2>3
  <2> QED BY <2>2, <2>3
<1>9. Told(a, conn)'
  BY <1>8 DEF Told
<1>10. Sound(conn)'
  BY <1>3, <1>7, <1>9 DEF Sound
<1>11. conn'.stage # "idle"
  BY DEF Refused
<1>12. Staged(conn)'
  BY DEF Refused, Staged, Stages, Unused, One
<1>13. Waiting(conn)'
  BY DEF Refused, Waiting
<1>14. IsConnection(conn)'
  BY DEF Refused, IsConnection, IsResponse, IsHeaders
<1>15. Requested'
  BY <1>4, <1>5, <1>11 DEF Requested
<1> QED BY <1>1, <1>10, <1>12, <1>13, <1>14, <1>15 DEF IInv

(* Taking up a request keeps it, whatever the last one left of the         *)
(* response.                                                               *)
LEMMA HandleUrlKeeps ==
  ASSUME IInv, NEW method \in Methods, NEW url \in Urls, HandleUrl(method, url)
  PROVE  IInv'
<1> DEFINE c0 == [conn EXCEPT !.stale = conn.res.skip_body, !.left = conn.res.completed]
<1>1. /\ phase = "running" /\ conn.stage = "idle"
      /\ request' = [method |-> method, url |-> url]
      /\ found' = InitialRule(method, url)
      /\ conn' = IF found'.rule = 0
                 THEN CompleteRequest(InitialResponse(c0, method, url, found'.rule))
                 ELSE [InitialResponse(c0, method, url, found'.rule) EXCEPT !.stage = "reading"]
      /\ UNCHANGED <<all_rules, phase, per_methods>>
  BY DEF HandleUrl
<1>2. IsConnection(conn) /\ Staged(conn) /\ Tables
  BY DEF IInv
<1>3. PICK c : c = c0
  OBVIOUS
<1>4. PICK skip : skip = conn.res.skip_body
  OBVIOUS
<1>5. PICK done : done = conn.res.completed
  OBVIOUS
<1>6. c = [conn EXCEPT !.stale = skip, !.left = done]
  BY <1>3, <1>4, <1>5
<1> HIDE DEF c0
<1>7. /\ c.res = conn.res /\ c.sent = conn.sent /\ c.stage = conn.stage
      /\ c.stale = skip /\ c.left = done /\ c.hosted = conn.hosted
      /\ c.keep = conn.keep /\ c.close = conn.close
  BY <1>2, <1>6 DEF IsConnection
<1>8. c = [res |-> c.res, keep |-> c.keep, close |-> c.close, hosted |-> c.hosted,
           stale |-> c.stale, left |-> c.left, sent |-> c.sent, stage |-> c.stage]
  BY <1>2, <1>6 DEF IsConnection
<1>9. IsConnection(c)
  <2>1. IsResponse(c.res)
    BY <1>2, <1>7 DEF IsConnection
  <2>2. c.keep \in BOOLEAN /\ c.close \in BOOLEAN /\ c.hosted \in BOOLEAN
    BY <1>2, <1>7 DEF IsConnection
  <2>3. skip \in BOOLEAN /\ done \in BOOLEAN
    BY <1>2, <1>4, <1>5 DEF IsConnection, IsResponse
  <2>4. c.stale \in BOOLEAN /\ c.left \in BOOLEAN
    BY <1>7, <2>3
  <2> QED BY <1>8, <2>1, <2>2, <2>4 DEF IsConnection
<1>10. ~c.res.handler /\ c.sent = <<>> /\ Unused(c.res)
  BY <1>1, <1>2, <1>7 DEF Staged
<1>11. c.stale = c.res.skip_body /\ c.left = c.res.completed
  BY <1>4, <1>5, <1>7
<1>12. CASE found'.rule = 0
  <2>1. conn' = CompleteRequest(InitialResponse(c, method, url, 0))
    BY <1>1, <1>3, <1>12
  <2>2. PICK allow :
          /\ Refused(conn', c, RefusedWith(method, url), allow)
          /\ method = "Options" /\ RefusedWith(method, url) = 204 => allow = Allowed(url)
    BY <1>9, <1>10, <2>1, InitialRefusal
  <2> QED BY <1>1, <1>11, <1>12, <2>2, RefusedKeeps
<1>13. CASE found'.rule # 0
  <2> DEFINE d == Reading(c, method, url, found'.rule)
  <2>1. conn' = d
    BY <1>1, <1>3, <1>13 DEF Reading
  <2>2. method # "Options"
    BY <1>1, <1>13 DEF InitialRule, NotFound
  <2>3. PICK e : e = d
    OBVIOUS
  <2>4. /\ IsConnection(e) /\ SameManner(e, c) /\ e.sent = <<>> /\ e.stage = "reading"
        /\ ~e.res.handler /\ Unused(e.res) /\ e.res.completed = c.res.completed
        /\ e.res.skip_body <=> method = "Head" \/ c.res.skip_body
    BY <1>9, <1>10, <1>13, <2>2, <2>3, InitialReading
  <2> HIDE DEF d
  <2>5. conn' = e
    BY <2>1, <2>3
  <2>6. Tables'
    BY <1>1, <1>2 DEF Tables
  <2>7. Staged(conn)'
    BY <2>4, <2>5 DEF Staged, Stages, Unused, One
  <2>8. e.left = e.res.completed
    BY <1>11, <2>4 DEF SameManner
  <2>9. e.res.skip_body <=> method = "Head" \/ e.stale
    BY <1>11, <2>4 DEF SameManner
  <2>10. request'.method = method /\ request'.url = url
    BY <1>1
  <2>11. Waiting(conn)'
    BY <1>13, <2>4, <2>5, <2>8, <2>9, <2>10 DEF Waiting
  <2>12. Sound(conn)'
    BY <2>4, <2>5, NoneAtAll DEF Sound
  <2>13. IsConnection(conn)'
    BY <2>4, <2>5 DEF IsConnection, IsResponse, IsHeaders
  <2>14. InitialRule(method, url)' = InitialRule(method, url)
    BY <1>1 DEF FindRule, InitialRule, FoundBy
  <2>15. Requested'
    BY <1>1, <2>4, <2>5, <2>10, <2>14 DEF Requested
  <2> QED BY <2>6, <2>7, <2>11, <2>12, <2>13, <2>15 DEF IInv
<1> QED BY <1>12, <1>13

(* The invariant holds at first.                                           *)
LEMMA InitHolds ==
  ASSUME Init
  PROVE  IInv
<1>1. /\ all_rules = <<>> /\ phase = "declaring" /\ conn = NewConnection
      /\ request = [method |-> NoUrl, url |-> <<>>] /\ found = NotFound
  BY DEF Init
<1>2. MaxRules \in Nat
  BY HttpExchangeAssumption
<1>3. Tables
  BY <1>1, <1>2 DEF Tables
<1>4. Requested
  BY <1>1, NewConnectionIs DEF Requested
<1> QED BY <1>1, <1>3, <1>4, NewConnectionIs, NewIsStaged DEF IInv

(* A step that changes nothing keeps it.                                   *)
LEMMA StutterKeeps ==
  ASSUME IInv, UNCHANGED vars
  PROVE  IInv'
<1>1. UNCHANGED <<all_rules, phase, per_methods, request, found, conn>>
  BY DEF vars
<1>2. IsConnection(conn) /\ Staged(conn) /\ Waiting(conn) /\ Sound(conn) /\ Tables /\ Requested
  BY DEF IInv
<1>3. CASE conn.stage # "idle"
  <2>1. Good(conn)
    BY <1>2, <1>3 DEF Good
  <2>2. Good(conn')
    BY <1>1, <2>1
  <2> QED BY <1>1, <1>3, <2>2, ServingKeeps
<1>4. CASE conn.stage = "idle"
  <2>1. /\ conn.sent = <<>> /\ ~conn.res.handler /\ Unused(conn.res)
        /\ ~conn.stale /\ ~conn.left
        /\ request = [method |-> NoUrl, url |-> <<>>] /\ found = NotFound
    BY <1>2, <1>4 DEF Staged, Requested
  <2>2. Tables'
    BY <1>1, <1>2 DEF Tables
  <2>3. IsConnection(conn') /\ Unused(conn'.res)
    BY <1>1, <1>2, <2>1
  <2> QED BY <1>1, <1>4, <2>1, <2>2, <2>3, IdleKeeps
<1> QED BY <1>3, <1>4

(* Every step keeps the invariant.                                         *)
LEMMA NextKeeps ==
  ASSUME IInv, [Next]_vars
  PROVE  IInv'
<1>1. ASSUME NEW r \in Routes, NewRule(r)
      PROVE  IInv'
  BY <1>1, NewRuleKeeps
<1>2. ASSUME NEW m \in Methods, NEW u \in Urls, HandleUrl(m, u)
      PROVE  IInv'
  BY <1>2, HandleUrlKeeps
<1>3. ASSUME NEW manner \in Manners, Handle(manner)
      PROVE  IInv'
  BY <1>3, HandleKeeps
<1> QED BY <1>1, <1>2, <1>3, ValidateKeeps, EndLateKeeps, WrittenKeeps, ReceiveKeeps,
           ConnectKeeps, StutterKeeps DEF Next

(* What is known of the one response object of a connection in each stage, *)
(* of the request in hand, of what was found for it, and of the answer     *)
(* that was sent, holds in every reachable state: the invariant from which *)
(* the properties follow.                                                  *)
THEOREM ExchangeInvariant == Spec => []IInv
<1>1. Init => IInv
  BY InitHolds
<1>2. IInv /\ [Next]_vars => IInv'
  BY NextKeeps
<1> QED BY <1>1, <1>2, PTL DEF Spec

----------------------------------------------------------------------------
(* The properties.                                                         *)

(* The types follow from the invariant.                                    *)
LEMMA TypesFollow ==
  ASSUME IInv
  PROVE  TypeOK
<1>1. IsConnection(conn) /\ Staged(conn) /\ Tables /\ Requested
  BY DEF IInv
<1>2. MaxRules \in Nat
  BY HttpExchangeAssumption
<1>3. ToSet(all_rules) \subseteq Routes /\ Len(all_rules) <= MaxRules
  BY <1>1, <1>2 DEF Tables, ToSet
<1>5. request.method \in Methods \cup {NoUrl} /\ request.url \in Urls \cup {<<>>}
  BY <1>1 DEF Requested, NoUrl
<1>6. found.rule \in 0 .. (MaxRules + 1) /\ found.method \in Methods \cup {"none"}
  <2>1. CASE found = NotFound
    BY <1>2, <2>1 DEF NotFound
  <2>2. CASE found # NotFound
    <3>1. conn.stage # "idle"
      BY <1>1, <2>2 DEF Requested
    <3>2. phase = "running"
      BY <1>1, <3>1, BusyRuns
    <3>3. found = InitialRule(request.method, request.url) /\ request.method \in Methods
      BY <1>1, <3>1 DEF Requested
    <3>4. found.method \in Methods
      BY <2>2, <3>3, HttpExchangeAssumption DEF InitialRule, FoundBy
    <3>5. CASE found.rule = 0
      BY <1>2, <3>4, <3>5
    <3>6. CASE found.rule # 0
      <4>1. found.rule \in Nat /\ found.rule < MaxRules + 2
        BY <1>1, <3>1, <3>2, <3>6, RuleIs
      <4> QED BY <1>2, <3>4, <4>1
    <3> QED BY <3>5, <3>6
  <2> QED BY <2>1, <2>2
<1>7. conn.stage \in {"idle", "reading", "handling", "writing", "answered", "over", "upgraded"}
  BY <1>1 DEF Staged, Stages
<1>8. conn.res.code \in Nat /\ conn.res.body \in Nat
  BY <1>1 DEF IsConnection, IsResponse
<1>9. conn.res.handler <=> conn.stage = "handling"
  BY <1>1 DEF Staged
<1>10. {conn.keep, conn.close, conn.hosted, conn.stale, conn.left} \subseteq BOOLEAN
  BY <1>1 DEF IsConnection
<1>11. phase \in {"declaring", "running", "failed"}
  BY <1>1 DEF Tables
<1> QED BY <1>3, <1>5, <1>6, <1>7, <1>8, <1>9, <1>10, <1>11 DEF TypeOK

(* The variables have their types in every reachable state                 *)
(* (http_connection.h:603-635).                                            *)
THEOREM TypesCorrect == Spec => []TypeOK
BY ExchangeInvariant, TypesFollow, PTL

(* One answer follows from the invariant.                                  *)
LEMMA OnceFollows ==
  ASSUME IInv
  PROVE  AnsweredOnce
<1>1. Staged(conn)
  BY DEF IInv
<1>2. CASE conn.stage \in {"writing", "answered", "over"}
  <2>1. PICK a : conn.sent = <<a>>
    BY <1>1, <1>2 DEF Staged, One
  <2> QED BY <1>2, <2>1 DEF AnsweredOnce
<1>3. CASE conn.stage \notin {"writing", "answered", "over"}
  <2>1. conn.sent = <<>>
    BY <1>1, <1>3 DEF Staged
  <2> QED BY <1>3, <2>1 DEF AnsweredOnce
<1> QED BY <1>2, <1>3

(* A request is answered exactly once, whatever its handler does, before   *)
(* the next one is taken up (response::end, http_response.h:237-255).      *)
THEOREM OneAnswer == Spec => []AnsweredOnce
BY ExchangeInvariant, OnceFollows, PTL

(* The length that is told follows from the invariant.                     *)
LEMMA LengthFollows ==
  ASSUME IInv
  PROVE  LengthTold
BY DEF IInv, Sound, Told, LengthTold

(* The Content-Length of an answer is the size of its body, and that of an *)
(* answer to a HEAD the size a GET's would have had; save after a HEAD that*)
(* was answered without a handler (http_response.h:242-247,                *)
(* http_connection.h:362-380).                                             *)
THEOREM LengthsTrue == Spec => []LengthTold
BY ExchangeInvariant, LengthFollows, PTL

(* The tables, once they are built, serve what the rules declare.          *)
Faithful ==
  phase = "running" =>
    \A m \in Methods :
      /\ per_methods[m].trie.children # <<>> <=> RulesOf(m) # <<>>
      /\ \A url \in Urls : Routed(m, url)

(* No step after the tables have been built changes them or the rules.     *)
LEMMA StaysFaithful ==
  ASSUME IInv, Faithful, [Next]_vars, RoutedAsDeclared'
  PROVE  Faithful'
<1>1. CASE UNCHANGED <<all_rules, phase, per_methods>>
  <2>1. \A m : RulesOf(m)' = RulesOf(m)
    BY <1>1 DEF RulesOf
  <2>2. \A m, url : FindRule(m, url)' = FindRule(m, url)
    BY <1>1 DEF FindRule
  <2>3. \A m, url : Redirects(m, url)' = Redirects(m, url)
    BY <1>1 DEF Redirects, RulesOf
  <2>4. \A m, url : Serves(m, url)' = Serves(m, url)
    BY <1>1 DEF Serves, Redirects, RulesOf
  <2>5. \A m, url : Routed(m, url)' = Routed(m, url)
    BY <1>1 DEF Routed, FindRule, RulesOf, RuleAt, Redirects, Serves
  <2> QED BY <1>1, <2>1, <2>5 DEF Faithful
<1>2. CASE phase' # "running"
  BY <1>2 DEF Faithful
<1>3. CASE Validate
  <2>1. conn' = NewConnection
    BY <1>3 DEF Validate, IInv, Tables
  <2> QED BY <2>1 DEF RoutedAsDeclared, Faithful, NewConnection
<1>4. \/ \E r \in Routes : NewRule(r)
      \/ Validate
      \/ UNCHANGED <<all_rules, phase, per_methods>>
  BY DEF Next, vars, HandleUrl, Handle, EndLate, Written, Receive, Connect
<1>5. ASSUME NEW r \in Routes, NewRule(r)
      PROVE  phase' # "running"
  BY <1>5 DEF NewRule
<1> QED BY <1>1, <1>2, <1>3, <1>4, <1>5

(* Once they are built, the tables find a rule for what is served.         *)
LEMMA FindsServed ==
  ASSUME Faithful, phase = "running", NEW m \in Methods, NEW url \in Urls
  PROVE  FindRule(m, url).rule # 0 <=> Serves(m, url)
<1>1. Routed(m, url)
  BY DEF Faithful
<1> QED BY <1>1 DEF Routed, Serves, RULE_SPECIAL_REDIRECT_SLASH

(* An answer has been sent to a request, on a server that runs.            *)
LEMMA Requesting ==
  ASSUME IInv, NEW a \in ToSet(conn.sent)
  PROVE  /\ conn.stage # "idle" /\ phase = "running"
         /\ request.method \in Methods /\ request.url \in Urls
         /\ found = InitialRule(request.method, request.url)
         /\ Coded(a, conn)
<1>1. conn.sent # <<>>
  BY NoneAtAll
<1>2. conn.stage # "idle"
  BY <1>1 DEF IInv, Staged
<1>3. phase = "running"
  BY <1>2, BusyRuns DEF IInv
<1> QED BY <1>2, <1>3 DEF IInv, Requested, Sound

(* The codes follow from the invariant, where the tables serve what was    *)
(* declared.                                                               *)
LEMMA CodesFollow ==
  ASSUME IInv, Faithful
  PROVE  CodesAgree
<1> SUFFICES ASSUME NEW a \in ToSet(conn.sent)
             PROVE  LET m == request.method
                        u == request.url
                        served == \E x \in Methods : Serves(x, u)
                        rule == RuleAt(found.method, found.rule)
                        refused == CASE m = "Options" ->
                                          IF served \/ u = <<"/", "*">> THEN 204 ELSE 404
                                     [] m = "Head"    -> 404
                                     [] OTHER         -> IF served THEN 405 ELSE 404
                    IN IF m = "Options" \/ ~(Serves(m, u) \/ (m = "Head" /\ Serves("Get", u)))
                       THEN a.code = refused
                       ELSE \/ a.code = 400 /\ ~conn.hosted
                            \/ a.code = 500 /\ conn.left
                            \/ found.rule = RULE_SPECIAL_REDIRECT_SLASH /\ a.code = 301
                            \/ found.rule > 1 /\ a.code = CodeOf(rule)
  BY DEF CodesAgree
<1> DEFINE m == request.method
           u == request.url
           served == \E x \in Methods : Serves(x, u)
           rule == RuleAt(found.method, found.rule)
<1>1. /\ phase = "running" /\ m \in Methods /\ u \in Urls
      /\ found = InitialRule(m, u) /\ Coded(a, conn)
  BY Requesting
<1>2. \A x \in Methods : FindRule(x, u).rule # 0 <=> Serves(x, u)
  BY <1>1, FindsServed
<1>3. served <=> KnownBy(u) # {}
  BY <1>2 DEF KnownBy
<1>4. "Get" \in Methods
  BY HttpExchangeAssumption
<1> HIDE DEF m, u, rule, served
<1>5. CASE m = "Options"
  <2>1. found.rule = 0
    BY <1>1, <1>5 DEF InitialRule, NotFound
  <2>2. a.code = IF served \/ u = <<"/", "*">> THEN 204 ELSE 404
    BY <1>1, <1>3, <1>5, <2>1 DEF Coded, RefusedWith, m, u
  <2> QED BY <1>5, <2>2 DEF m, u, served
<1>6. CASE m # "Options" /\ ~(Serves(m, u) \/ (m = "Head" /\ Serves("Get", u)))
  <2>1. found.rule = 0
    BY <1>1, <1>2, <1>4, <1>6 DEF InitialRule, FoundBy
  <2>2. CASE m = "Head"
    <3>1. a.code = 404
      BY <1>1, <2>1, <2>2 DEF Coded, RefusedWith, m, u
    <3> QED BY <1>6, <2>2, <3>1 DEF m, u
  <2>3. CASE m # "Head"
    <3>1. a.code = IF served THEN 405 ELSE 404
      BY <1>1, <1>3, <1>6, <2>1, <2>3 DEF Coded, RefusedWith, m, u
    <3> QED BY <1>6, <2>3, <3>1 DEF m, u, served
  <2> QED BY <2>2, <2>3
<1>7. CASE m # "Options" /\ (Serves(m, u) \/ (m = "Head" /\ Serves("Get", u)))
  <2>1. found.rule # 0
    BY <1>1, <1>2, <1>4, <1>7 DEF InitialRule, FoundBy
  <2>2. AnsweredWith(a.code, conn.hosted, conn.left)
    BY <1>1, <2>1 DEF Coded
  <2> QED BY <1>7, <2>2 DEF AnsweredWith, m, u
<1> QED BY <1>5, <1>6, <1>7

(* What OPTIONS allows follows from the invariant, where they do.          *)
LEMMA AllowFollows ==
  ASSUME IInv, Faithful
  PROVE  AllowTellsMethods
<1> SUFFICES ASSUME NEW a \in ToSet(conn.sent), request.method = "Options", a.code = 204,
                    NEW m \in Methods \ {"Options", "Head"}
             PROVE  m \in a.allow <=> IF request.url = <<"/", "*">> THEN RulesOf(m) # <<>>
                                      ELSE Serves(m, request.url)
  BY DEF AllowTellsMethods
<1>1. /\ phase = "running" /\ request.url \in Urls
      /\ found = InitialRule(request.method, request.url) /\ Coded(a, conn)
  BY Requesting
<1>2. found.rule = 0
  BY <1>1 DEF InitialRule, NotFound
<1>3. a.allow = Allowed(request.url)
  BY <1>1, <1>2 DEF Coded
<1>4. FindRule(m, request.url).rule # 0 <=> Serves(m, request.url)
  BY <1>1, FindsServed
<1>5. per_methods[m].trie.children # <<>> <=> RulesOf(m) # <<>>
  BY <1>1 DEF Faithful
<1> QED BY <1>3, <1>4, <1>5 DEF Allowed, KnownBy

(* Before the tables have been built nothing is said of them.              *)
LEMMA FaithfulAtFirst ==
  ASSUME Init
  PROVE  Faithful
BY DEF Init, Faithful

(* If the tables find what the rules declare when they have been built,    *)
(* they do so ever after.                                                  *)
LEMMA AlwaysFaithful == Spec /\ []RoutedAsDeclared => []Faithful
<1>1. Init => Faithful
  BY FaithfulAtFirst
<1>2. IInv /\ Faithful /\ [Next]_vars /\ RoutedAsDeclared' => Faithful'
  BY StaysFaithful
<1> QED BY <1>1, <1>2, ExchangeInvariant, PTL DEF Spec

(* Where the router finds what was declared, the code of every answer is   *)
(* what the rules make of the request, whatever the response object was    *)
(* used for before (routing.h:1562-1680, 1683-1723).                       *)
THEOREM CodesRight == Spec /\ []RoutedAsDeclared => []CodesAgree
<1>1. IInv /\ Faithful => CodesAgree
  BY CodesFollow
<1> QED BY <1>1, ExchangeInvariant, AlwaysFaithful, PTL

(* Where the router finds what was declared, the answer to OPTIONS allows  *)
(* the methods that would be served, and no other (routing.h:1597-1652).   *)
THEOREM AllowRight == Spec /\ []RoutedAsDeclared => []AllowTellsMethods
<1>1. IInv /\ Faithful => AllowTellsMethods
  BY AllowFollows
<1> QED BY <1>1, ExchangeInvariant, AlwaysFaithful, PTL

=============================================================================
