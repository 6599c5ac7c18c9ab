------------------------- MODULE HttpHandlers_proofs -------------------------
(***************************************************************************)
(* The inductive invariant of HttpServer, for every number of threads,     *)
(* connections, requests and ticks, and the lemmas that the handlers of    *)
(* one connection keep the part of it that is about that connection.       *)
(***************************************************************************)
EXTENDS HttpServer, SequenceTheorems, TLAPS

-----------------------------------------------------------------------------
(* The inductive invariant.  Its parts are about one connection: x is its  *)
(* record, y its io_service, q what waits to run there.                    *)

Data ==
  [what : {"general", "long", "static", "lost", "later", "upgrade", "throws",
           "part", "headers", "expect", "unrouted", "bad", "none", "aborted",
           "written"},
   close : BOOLEAN]

ReadyHandlers ==
  {h \in [kind : {"start", "read", "written", "end", "tick"},
          conn : Conns \cup {0}, data : Data] :
     h.kind = "read" => h.data.what \notin {"none", "written"}}

Connections ==
  [phase : {"unborn", "accepting", "started"}, service : Nat, open : BOOLEAN,
   reading : Nat, writing : Nat,
   parser : {"clear", "head", "half", "complete", "failed"}, close : BOOLEAN,
   continuing : BOOLEAN, pending : BOOLEAN, posted : BOOLEAN,
   resume : BOOLEAN, task_id : Nat]

IsService(y) ==
  /\ y \in [worker : {"starting", "running", "ended"}, stopped : BOOLEAN,
            ready : Seq(ReadyHandlers), tasks : {y.tasks}, highest : Nat,
            ticking : BOOLEAN]
  /\ DOMAIN y.tasks \subseteq 1 .. y.highest
  /\ y.tasks \in [DOMAIN y.tasks -> [conn : Conns, left : Nat]]

Types ==
  /\ Len(service) \in Nat \ {0} /\ DOMAIN service = 1 .. Len(service)
  /\ service = [s \in Services |-> service[s]]
  /\ \A s \in Services : IsService(service[s])
  /\ queue_length \in [Services -> Nat]
  /\ main \in {"initialising", "running", "stopped", "returned"}
  /\ accepting \in Conns \cup {0}
  /\ conn \in [Conns -> Connections]
  /\ inputs \in Nat

Is(h, c, kind) == h.conn = c /\ h.kind = kind
Reads(h, c) == Is(h, c, "start") \/ Is(h, c, "read")

(* What makes c read, or is what it has read, exists at most once, and not *)
(* at all once a request is bad or as long as one is pending.              *)
OneRead(x, q, c) ==
  /\ x.reading \in {0, 1}
  /\ x.reading = 1 => ~x.resume /\ ~x.pending /\ x.parser # "failed"
  /\ \A k \in 1 .. Len(q) : Reads(q[k], c) =>
       /\ x.reading = 0 /\ ~x.resume /\ ~x.pending /\ x.parser # "failed"
       /\ \A j \in 1 .. Len(q) : Reads(q[j], c) => j = k
       /\ Is(q[k], c, "start") => x.phase = "accepting"
       /\ Is(q[k], c, "read") /\ q[k].data.what \in {"headers", "expect"} =>
            x.parser \in {"clear", "head"}

(* A request that is answered later is answered once.                      *)
OneAnswer(x, q, c) ==
  /\ x.pending => x.parser = "complete"
  /\ \A k \in 1 .. Len(q) : Is(q[k], c, "end") =>
       /\ x.pending /\ x.posted
       /\ \A j \in 1 .. Len(q) : Is(q[j], c, "end") => j = k

(* At most n writes, with n at most 2, are under way.                      *)
Writes(x, q, c, n) ==
  /\ x.writing <= n
  /\ x.writing = n => \A k \in 1 .. Len(q) : ~Is(q[k], c, "written")
  /\ x.writing + 1 = n =>
       \A j, k \in 1 .. Len(q) :
         Is(q[j], c, "written") /\ Is(q[k], c, "written") => j = k
  /\ x.writing + 2 = n =>
       \A i, j, k \in 1 .. Len(q) :
         Is(q[i], c, "written") /\ Is(q[j], c, "written") /\ Is(q[k], c, "written")
           => i = j \/ j = k \/ i = k

(* Beside the 100 (Continue) only the answer of a complete request is      *)
(* being written; a 100 is sent before the next request is read, and       *)
(* nothing is written while headers are read.                              *)
Continued(x) == IF x.continuing THEN 1 ELSE 0

FewWrites(x, q, c) ==
  /\ x.parser \in {"clear", "half"} \/ x.pending => Writes(x, q, c, Continued(x))
  /\ x.parser = "head" => Writes(x, q, c, 0)
  /\ x.parser = "complete" => Writes(x, q, c, Continued(x) + 1)
  /\ x.parser = "clear" /\ x.continuing =>
       /\ x.writing = 0
       /\ \A j, k \in 1 .. Len(q) :
            Is(q[j], c, "read") /\ Is(q[k], c, "written") => k < j

(* A deadline of c is the one c keeps, and no request of c is pending.     *)
OwnDeadline(x, y, c) ==
  \A id \in DOMAIN y.tasks :
    y.tasks[id].conn = c => id = x.task_id /\ ~x.pending

Fresh(x, y, c) ==
  /\ x = NewConnection(x.phase, x.service)
  /\ \A k \in 1 .. Len(y.ready) : ~Is(y.ready[k], c, "read")
  /\ \A id \in DOMAIN y.tasks : y.tasks[id].conn # c

(* Nothing waits for the network at a connection that is closed.           *)
ClosedQuiet(x) == ~x.open => x.reading = 0 /\ x.writing = 0

ConnectionOK(x, y, c) ==
  /\ ClosedQuiet(x)
  /\ OneRead(x, y.ready, c)
  /\ OneAnswer(x, y.ready, c)
  /\ FewWrites(x, y.ready, c)
  /\ OwnDeadline(x, y, c)
  /\ x.phase # "started" => Fresh(x, y, c)

(* What waits to run, and what is timed, is so at the io_service of its    *)
(* connection.                                                             *)
Placed ==
  \A s \in Services :
    /\ \A k \in 1 .. Len(service[s].ready) :
         LET h == service[s].ready[k] IN
         \/ h.kind = "tick"
         \/ h.conn \in Conns /\ conn[h.conn].service = s
    /\ \A id \in DOMAIN service[s].tasks :
         conn[service[s].tasks[id].conn].service = s

(* Connections are created in order; the one a client is awaited for has   *)
(* been counted and has nothing to run yet.                                *)
InOrder ==
  /\ \A c \in Conns :
       IF conn[c].phase = "unborn" THEN conn[c] = NewConnection("unborn", 0)
                                   ELSE conn[c].service \in Services
  /\ main = "initialising" => accepting = 0 /\ \A c \in Conns : conn[c].phase = "unborn"
  /\ accepting # 0 =>
       /\ conn[accepting].phase = "accepting"
       /\ \A s \in Services : \A k \in 1 .. Len(service[s].ready) :
            ~Is(service[s].ready[k], accepting, "start")
       /\ queue_length[conn[accepting].service] > 0
       /\ \A c \in Conns : c > accepting => conn[c].phase = "unborn"

IInv ==
  /\ Types
  /\ Placed
  /\ InOrder
  /\ \A c \in Conns :
       conn[c].phase # "unborn" => ConnectionOK(conn[c], service[conn[c].service], c)

-----------------------------------------------------------------------------
(* What handlers do.                                                       *)

Typed(st) ==
  /\ st \in [c : Connections, s : {st.s}]
  /\ IsService(st.s)

(* The connection of a handler, while the handler runs.                    *)
Good(st, c) ==
  /\ Typed(st) /\ st.c.phase = "started" /\ ClosedQuiet(st.c)
  /\ OneRead(st.c, st.s.ready, c)
  /\ OneAnswer(st.c, st.s.ready, c)
  /\ FewWrites(st.c, st.s.ready, c)
  /\ OwnDeadline(st.c, st.s, c)

(* Nothing makes c read.                                                   *)
Idle(st, c) ==
  /\ st.c.reading = 0
  /\ \A k \in 1 .. Len(st.s.ready) : ~Reads(st.s.ready[k], c)

Untimed(st, c) == \A id \in DOMAIN st.s.tasks : st.s.tasks[id].conn # c

(* r is q and, after it, reads and writes of c that have ended.            *)
Extends(q, r, c) ==
  /\ Len(q) <= Len(r)
  /\ \A k \in 1 .. Len(q) : r[k] = q[k]
  /\ \A k \in Len(q) + 1 .. Len(r) :
       r[k].conn = c /\ r[k].kind \in {"read", "written"}

(* What a handler of c leaves alone.                                       *)
Others(st, t, c) ==
  /\ t.c.phase = st.c.phase /\ t.c.service = st.c.service
  /\ t.s.worker = st.s.worker /\ t.s.stopped = st.s.stopped
  /\ t.s.ticking = st.s.ticking
  /\ Extends(st.s.ready, t.s.ready, c)
  /\ \A id \in DOMAIN t.s.tasks :
       \/ t.s.tasks[id].conn = c
       \/ id \in DOMAIN st.s.tasks /\ t.s.tasks[id] = st.s.tasks[id]

(* What handlers append after one another is appended.                     *)
LEMMA ExtendsTransitive ==
  ASSUME NEW p, NEW q, NEW r, NEW c,
         Len(p) \in Nat, Len(q) \in Nat, Len(r) \in Nat,
         Extends(p, q, c), Extends(q, r, c)
  PROVE  Extends(p, r, c)
<1>1. \A k \in 1 .. Len(p) : r[k] = p[k]
  <2> TAKE k \in 1 .. Len(p)
  <2>1. k \in 1 .. Len(q)
    BY DEF Extends
  <2> QED
    BY <2>1 DEF Extends
<1>2. \A k \in Len(p) + 1 .. Len(r) :
        r[k].conn = c /\ r[k].kind \in {"read", "written"}
  <2> TAKE k \in Len(p) + 1 .. Len(r)
  <2>1. CASE k <= Len(q)
    <3>1. k \in 1 .. Len(q) /\ k \in Len(p) + 1 .. Len(q)
      BY <2>1
    <3> QED
      BY <3>1 DEF Extends
  <2>2. CASE k > Len(q)
    BY <2>2 DEF Extends
  <2> QED
    BY <2>1, <2>2
<1> QED
  BY <1>1, <1>2 DEF Extends

(* What leaves the other connections alone twice does so.                  *)
LEMMA OthersTransitive ==
  ASSUME NEW st, NEW t, NEW u, NEW c, Typed(st), Typed(t), Typed(u),
         Others(st, t, c), Others(t, u, c)
  PROVE  Others(st, u, c)
<1>1. Len(st.s.ready) \in Nat /\ Len(t.s.ready) \in Nat /\ Len(u.s.ready) \in Nat
  BY DEF Typed, IsService
<1>2. Extends(st.s.ready, u.s.ready, c)
  BY <1>1, ExtendsTransitive DEF Others
<1> QED
  BY <1>2 DEF Others

(* An io_service with other handlers, or with other tasks.                 *)
LEMMA ServiceReady ==
  ASSUME NEW y, IsService(y), NEW q \in Seq(ReadyHandlers)
  PROVE  IsService([y EXCEPT !.ready = q])
BY DEF IsService

(* An io_service with other deadlines, their ids given out.                *)
LEMMA ServiceTasks ==
  ASSUME NEW y, IsService(y), NEW h \in Nat,
         NEW f, DOMAIN f \subseteq 1 .. h,
         f \in [DOMAIN f -> [conn : Conns, left : Nat]]
  PROVE  /\ IsService([y EXCEPT !.highest = h, !.tasks = f])
         /\ h = y.highest => IsService([y EXCEPT !.tasks = f])
BY DEF IsService

(* Copies of a handler are n times that handler.                           *)
LEMMA CopiesProperties ==
  ASSUME NEW n \in Nat, NEW e \in ReadyHandlers
  PROVE  /\ Copies(n, e) \in Seq(ReadyHandlers)
         /\ Len(Copies(n, e)) = n
         /\ \A k \in 1 .. n : Copies(n, e)[k] = e
BY DEF Copies

(* The handlers that close() and the clock make ready are handlers.        *)
LEMMA EventType ==
  ASSUME NEW c \in Conns \cup {0}
  PROVE  /\ \A kind \in {"read", "written"} : Event(kind, c, Only("aborted")) \in ReadyHandlers
         /\ \A kind \in {"tick", "start"} : Event(kind, c, Only("none")) \in ReadyHandlers
         /\ Event("written", c, Only("written")) \in ReadyHandlers
BY DEF Event, Only, ReadyHandlers, Data

(* cancel_deadline_timer leaves c without a deadline.                      *)
LEMMA CancelGood ==
  ASSUME NEW st, NEW c \in Conns, Good(st, c)
  PROVE  LET t == Cancel(st) IN
         /\ Good(t, c) /\ Others(st, t, c) /\ Untimed(t, c)
         /\ t.c = st.c /\ t.s.ready = st.s.ready
<1> DEFINE f == Restrict(st.s.tasks, DOMAIN st.s.tasks \ {st.c.task_id})
           t == Cancel(st)
<1>1. /\ t \in [c : Connections, s : {t.s}] /\ t.c = st.c
      /\ t.s = [st.s EXCEPT !.tasks = f]
  BY DEF Cancel, Good, Typed
<1>2. /\ f = [id \in DOMAIN st.s.tasks \ {st.c.task_id} |-> st.s.tasks[id]]
      /\ DOMAIN f \subseteq 1 .. st.s.highest
      /\ f \in [DOMAIN f -> [conn : Conns, left : Nat]]
      /\ st.s.ready \in Seq(ReadyHandlers) /\ st.s.highest \in Nat
  BY DEF Good, Typed, IsService, Restrict
<1> HIDE DEF t, f
<1>3. IsService(t.s)
  <2>1. IsService([st.s EXCEPT !.tasks = f])
    BY <1>2, ServiceTasks, Zenon DEF Good, Typed
  <2> QED
    BY <1>1, <2>1
<1>4. /\ t.s.tasks = f /\ t.s.ready = st.s.ready /\ t.s.worker = st.s.worker
      /\ t.s.stopped = st.s.stopped /\ t.s.ticking = st.s.ticking
  BY <1>1 DEF Good, Typed, IsService
<1>5. Untimed(t, c)
  BY <1>2, <1>4 DEF Good, OwnDeadline, Untimed
<1>6. Others(st, t, c)
  BY <1>1, <1>2, <1>4 DEF Others, Extends, Good, Typed, IsService
<1> QED
  BY <1>1, <1>3, <1>4, <1>5, <1>6 DEF Good, Typed, OwnDeadline, Untimed, t

(* start_deadline gives c its one deadline.                                *)
LEMMA StartDeadlineGood ==
  ASSUME NEW st, NEW c \in Conns, Good(st, c), ~st.c.pending
  PROVE  LET t == StartDeadline(st, c) IN
         /\ Good(t, c) /\ Others(st, t, c)
         /\ t.c = [st.c EXCEPT !.task_id = t.c.task_id]
         /\ t.s.ready = st.s.ready
<1> DEFINE p == Cancel(st)
           id == p.s.highest + 1
           f == Insert(p.s.tasks, id, [conn |-> c, left |-> Timeout])
           t == StartDeadline(st, c)
<1>1. /\ Good(p, c) /\ Others(st, p, c) /\ Untimed(p, c)
      /\ p.c = st.c /\ p.s.ready = st.s.ready
  BY CancelGood
<1>2. t = [p EXCEPT !.s.highest = id, !.s.tasks = f, !.c.task_id = id]
  BY DEF StartDeadline
<1>3. /\ p \in [c : Connections, s : {p.s}] /\ IsService(p.s)
      /\ p.s.highest \in Nat /\ p.s.ready \in Seq(ReadyHandlers)
  BY <1>1 DEF Good, Typed, IsService
<1>4. /\ DOMAIN f = DOMAIN p.s.tasks \cup {id} /\ id \notin DOMAIN p.s.tasks
      /\ f[id] = [conn |-> c, left |-> Timeout]
      /\ \A j \in DOMAIN p.s.tasks : f[j] = p.s.tasks[j]
      /\ f \in [DOMAIN f -> [conn : Conns, left : Nat]]
      /\ DOMAIN f \subseteq 1 .. id /\ id \in Nat
  BY <1>3, ServerAssumption DEF IsService, Insert
<1> HIDE DEF p, f, t, id
<1>5. /\ t \in [c : Connections, s : {t.s}]
      /\ t.c = [st.c EXCEPT !.task_id = id]
      /\ t.s = [p.s EXCEPT !.highest = id, !.tasks = f]
  BY <1>1, <1>2, <1>3, <1>4 DEF Connections
<1>6. IsService(t.s)
  <2>1. IsService([p.s EXCEPT !.highest = id, !.tasks = f])
    BY <1>3, <1>4, ServiceTasks, Zenon
  <2> QED
    BY <1>5, <2>1
<1>7. /\ t.s.tasks = f /\ t.s.ready = st.s.ready /\ t.s.worker = p.s.worker
      /\ t.s.stopped = p.s.stopped /\ t.s.ticking = p.s.ticking
  BY <1>1, <1>3, <1>5 DEF IsService
<1>8. /\ t.c.phase = st.c.phase /\ t.c.service = st.c.service /\ t.c.open = st.c.open
      /\ t.c.reading = st.c.reading /\ t.c.writing = st.c.writing
      /\ t.c.parser = st.c.parser /\ t.c.continuing = st.c.continuing
      /\ t.c.pending = st.c.pending /\ t.c.posted = st.c.posted
      /\ t.c.resume = st.c.resume /\ t.c.task_id = id
  BY <1>1, <1>3, <1>5 DEF Connections
<1>9. OwnDeadline(t.c, t.s, c)
  BY <1>1, <1>4, <1>7, <1>8 DEF OwnDeadline, Untimed
<1>10. OneRead(t.c, t.s.ready, c) /\ OneAnswer(t.c, t.s.ready, c) /\ FewWrites(t.c, t.s.ready, c)
  BY <1>7, <1>8 DEF Good, OneRead, OneAnswer, FewWrites, Writes, Continued
<1>11. Good(t, c)
  BY <1>1, <1>5, <1>6, <1>8, <1>9, <1>10 DEF Good, Typed, ClosedQuiet
<1>12. Others(p, t, c)
  BY <1>1, <1>3, <1>4, <1>7, <1>8 DEF Others, Extends, IsService
<1>13. Others(st, t, c)
  BY <1>1, <1>11, <1>12, OthersTransitive DEF Good
<1> QED
  BY <1>5, <1>7, <1>8, <1>11, <1>13 DEF t

(* What a queue becomes when n reads and m writes end.                     *)
LEMMA ConcatCopies ==
  ASSUME NEW q \in Seq(ReadyHandlers), NEW n \in Nat, NEW e \in ReadyHandlers
  PROVE  LET r == q \o Copies(n, e) IN
         /\ r \in Seq(ReadyHandlers) /\ Len(r) = Len(q) + n
         /\ \A k \in 1 .. Len(q) : r[k] = q[k]
         /\ \A k \in Len(q) + 1 .. Len(q) + n : r[k] = e
<1> DEFINE a == Copies(n, e)
<1>1. a \in Seq(ReadyHandlers) /\ Len(a) = n /\ \A k \in 1 .. n : a[k] = e
  BY CopiesProperties
<1> HIDE DEF a
<1>2. Len(q) \in Nat
  OBVIOUS
<1>3. /\ (q \o a) \in Seq(ReadyHandlers) /\ Len(q \o a) = Len(q) + n
      /\ \A k \in 1 .. Len(q) + n :
           (q \o a)[k] = IF k <= Len(q) THEN q[k] ELSE a[k - Len(q)]
  BY <1>1, ConcatProperties
<1>4. \A k \in Len(q) + 1 .. Len(q) + n : (q \o a)[k] = e
  <2> TAKE k \in Len(q) + 1 .. Len(q) + n
  <2>1. k \in 1 .. Len(q) + n /\ ~(k <= Len(q)) /\ k - Len(q) \in 1 .. n
    BY <1>2
  <2> QED
    BY <1>1, <1>3, <2>1
<1>5. \A k \in 1 .. Len(q) : (q \o a)[k] = q[k]
  BY <1>2, <1>3
<1> QED
  BY <1>3, <1>4, <1>5 DEF a

(* r is q, then n reads and m writes of c that have ended.                 *)
WithEnded(q, r, n, m, c) ==
  /\ r \in Seq(ReadyHandlers) /\ Len(r) = Len(q) + n + m
  /\ \A k \in 1 .. Len(q) : r[k] = q[k]
  /\ \A k \in Len(q) + 1 .. Len(q) + n :
       Is(r[k], c, "read") /\ r[k].data.what = "aborted"
  /\ \A k \in Len(q) + n + 1 .. Len(q) + n + m : Is(r[k], c, "written")

(* What Close and WriteSync append: reads that end, then writes that end.  *)
LEMMA EndedQueue ==
  ASSUME NEW q \in Seq(ReadyHandlers), NEW n \in Nat, NEW m \in Nat,
         NEW c \in Conns, NEW result \in {"aborted", "written"}
  PROVE  WithEnded(q, (q \o Copies(n, Event("read", c, Only("aborted"))))
                        \o Copies(m, Event("written", c, Only(result))), n, m, c)
<1> DEFINE p == q \o Copies(n, Event("read", c, Only("aborted")))
           f == Event("written", c, Only(result))
           r == p \o Copies(m, f)
<1>1. Event("read", c, Only("aborted")) \in ReadyHandlers /\ f \in ReadyHandlers
  BY EventType
<1>2. /\ p \in Seq(ReadyHandlers) /\ Len(p) = Len(q) + n
      /\ \A k \in 1 .. Len(q) : p[k] = q[k]
      /\ \A k \in Len(q) + 1 .. Len(q) + n : p[k] = Event("read", c, Only("aborted"))
  BY <1>1, ConcatCopies
<1> HIDE DEF p
<1>3. /\ r \in Seq(ReadyHandlers) /\ Len(r) = Len(p) + m
      /\ \A k \in 1 .. Len(p) : r[k] = p[k]
      /\ \A k \in Len(p) + 1 .. Len(p) + m : r[k] = f
  BY <1>1, <1>2, ConcatCopies
<1> HIDE DEF r, f
<1>4. Len(q) \in Nat
  OBVIOUS
<1>5. \A k \in 1 .. Len(q) : r[k] = q[k]
  BY <1>2, <1>3, <1>4
<1>6. \A k \in Len(q) + 1 .. Len(q) + n : r[k] = Event("read", c, Only("aborted"))
  BY <1>2, <1>3, <1>4
<1>7. \A k \in Len(q) + n + 1 .. Len(q) + n + m : r[k] = f
  BY <1>2, <1>3
<1>8. WithEnded(q, r, n, m, c)
  <2>1. Is(f, c, "written")
    BY DEF Is, f, Event
  <2>2. LET e == Event("read", c, Only("aborted")) IN
        Is(e, c, "read") /\ e.data.what = "aborted"
    BY DEF Is, Event, Only
  <2> QED
    BY <1>2, <1>3, <1>5, <1>6, <1>7, <2>1, <2>2 DEF WithEnded
<1> QED
  BY <1>8 DEF p, r, f

(* r is q and, after it, handlers of other connections and at most n reads *)
(* and m writes of c that have ended: g numbers them.                      *)
Ends(q, r, g, n, m, c) ==
  /\ r \in Seq(ReadyHandlers) /\ Len(q) <= Len(r)
  /\ \A k \in 1 .. Len(q) : r[k] = q[k]
  /\ \A k \in Len(q) + 1 .. Len(r) : r[k].conn = c =>
       \/ r[k].kind = "read" /\ r[k].data.what = "aborted" /\ g[k] \in 1 .. n
       \/ r[k].kind = "written" /\ g[k] \in 1 .. m
  /\ \A j, k \in Len(q) + 1 .. Len(r) :
       Is(r[j], c, r[k].kind) /\ r[k].conn = c /\ g[j] = g[k] => j = k

(* n reads and m writes that x waits for, all or none, z does not.         *)
Waited(x, z, n, m) ==
  /\ z.reading = x.reading - n /\ n \in {0, x.reading}
  /\ z.writing = x.writing - m /\ m \in {0, x.writing}
  /\ z.parser = x.parser /\ z.continuing = x.continuing /\ z.phase = x.phase
  /\ z.pending = x.pending /\ z.posted = x.posted /\ z.resume = x.resume

(* The handlers that close() makes ready are the operations that waited.   *)
LEMMA EndsOK ==
  ASSUME NEW x \in Connections, NEW q \in Seq(ReadyHandlers), NEW c \in Conns,
         NEW r, NEW g, NEW z \in Connections, NEW n \in Nat, NEW m \in Nat,
         Ends(q, r, g, n, m, c), Waited(x, z, n, m)
  PROVE  /\ OneRead(x, q, c) => OneRead(z, r, c)
         /\ OneAnswer(x, q, c) => OneAnswer(z, r, c)
         /\ \A i \in {0, 1, 2} : Writes(x, q, c, i) => Writes(z, r, c, i)
         /\ FewWrites(x, q, c) => FewWrites(z, r, c)
<1> USE DEF Waited
<1>1. /\ Len(q) \in Nat /\ Len(r) \in Nat
      /\ x.reading \in Nat /\ x.writing \in Nat
      /\ z.reading \in Nat /\ z.writing \in Nat
  BY DEF Connections, Ends
<1>2. \A k \in 1 .. Len(r) :
        /\ Is(r[k], c, "start") => k \in 1 .. Len(q) /\ Is(q[k], c, "start")
        /\ Is(r[k], c, "end") => k \in 1 .. Len(q) /\ Is(q[k], c, "end")
        /\ Is(r[k], c, "read") =>
             \/ k \in 1 .. Len(q) /\ Is(q[k], c, "read") /\ r[k].data = q[k].data
             \/ k > Len(q) /\ g[k] \in 1 .. n /\ r[k].data.what = "aborted"
        /\ Is(r[k], c, "written") =>
             \/ k \in 1 .. Len(q) /\ Is(q[k], c, "written")
             \/ k > Len(q) /\ g[k] \in 1 .. m
  <2> TAKE k \in 1 .. Len(r)
  <2>1. CASE k \in 1 .. Len(q)
    BY <2>1 DEF Ends
  <2>2. CASE k \in Len(q) + 1 .. Len(r)
    BY <1>1, <2>2 DEF Ends, Is
  <2> QED
    BY <1>1, <2>1, <2>2
<1>3. \A j, k \in 1 .. Len(r) :
        /\ j > Len(q) /\ k > Len(q) /\ g[j] = g[k]
        /\ \/ Is(r[j], c, "read") /\ Is(r[k], c, "read")
           \/ Is(r[j], c, "written") /\ Is(r[k], c, "written")
        => j = k
  <2> TAKE j, k \in 1 .. Len(r)
  <2>1. j > Len(q) /\ k > Len(q) => j \in Len(q) + 1 .. Len(r) /\ k \in Len(q) + 1 .. Len(r)
    BY <1>1
  <2> QED
    BY <2>1 DEF Ends, Is
<1>4. /\ \A k \in 1 .. Len(q) : k \in 1 .. Len(r) /\ r[k] = q[k]
  BY <1>1 DEF Ends
<1>5. ASSUME OneRead(x, q, c) PROVE OneRead(z, r, c)
  <2>1. CASE n = 0
    <3>1. \A k \in 1 .. Len(r) : Reads(r[k], c) => k \in 1 .. Len(q) /\ r[k] = q[k]
      BY <1>1, <1>2, <1>4, <2>1 DEF Reads
    <3> QED
      BY <1>1, <1>5, <2>1, <3>1 DEF OneRead
  <2>2. CASE n = 1
    <3>1. x.reading = 1 /\ z.reading = 0
      BY <1>1, <1>5, <2>2 DEF OneRead
    <3>2. \A k \in 1 .. Len(q) : ~Reads(q[k], c)
      BY <1>5, <3>1 DEF OneRead
    <3>3. \A k \in 1 .. Len(r) : Reads(r[k], c) =>
            k > Len(q) /\ g[k] = 1 /\ Is(r[k], c, "read") /\ r[k].data.what = "aborted"
      BY <1>1, <1>2, <2>2, <3>2 DEF Reads
    <3>4. \A j, k \in 1 .. Len(r) : Reads(r[j], c) /\ Reads(r[k], c) => j = k
      BY <1>3, <3>3
    <3>5. \A k \in 1 .. Len(r) : ~Is(r[k], c, "start")
      BY <1>2, <3>2 DEF Reads
    <3> QED
      BY <1>1, <1>5, <3>1, <3>3, <3>4, <3>5 DEF OneRead
  <2> QED
    BY <1>1, <1>5, <2>1, <2>2 DEF OneRead
<1>6. OneAnswer(x, q, c) => OneAnswer(z, r, c)
  BY <1>1, <1>2 DEF OneAnswer
<1>7. ASSUME NEW i \in {0, 1, 2}, Writes(x, q, c, i) PROVE Writes(z, r, c, i)
  <2>1. CASE m = 0
    <3>1. \A k \in 1 .. Len(r) : Is(r[k], c, "written") => k \in 1 .. Len(q) /\ Is(q[k], c, "written")
      BY <1>2, <2>1
    <3> QED
      BY <1>1, <1>7, <2>1, <3>1 DEF Writes
  <2>2. CASE m = 1
    <3>1. x.writing = 1 /\ z.writing = 0
      BY <1>1, <2>2
    <3>2. \A k \in 1 .. Len(r) : Is(r[k], c, "written") =>
            \/ k \in 1 .. Len(q) /\ Is(q[k], c, "written")
            \/ k > Len(q) /\ g[k] = 1
      BY <1>1, <1>2, <2>2
    <3>3. CASE i = 1
      <4>1. \A k \in 1 .. Len(q) : ~Is(q[k], c, "written")
        BY <1>7, <3>1, <3>3 DEF Writes
      <4>2. \A j, k \in 1 .. Len(r) : Is(r[j], c, "written") /\ Is(r[k], c, "written") => j = k
        BY <1>3, <3>2, <4>1
      <4> QED
        BY <3>1, <3>3, <4>2 DEF Writes
    <3>4. CASE i = 2
      <4>1. \A j, k \in 1 .. Len(q) :
              Is(q[j], c, "written") /\ Is(q[k], c, "written") => j = k
        BY <1>7, <3>1, <3>4 DEF Writes
      <4>2. \A j, k, l \in 1 .. Len(r) :
              Is(r[j], c, "written") /\ Is(r[k], c, "written") /\ Is(r[l], c, "written")
                => j = k \/ k = l \/ j = l
        <5> HIDE DEF Waited
        <5> QED
          BY <1>3, <3>2, <4>1
      <4> QED
        BY <3>1, <3>4, <4>2 DEF Writes
    <3> QED
      BY <1>1, <1>7, <3>1, <3>3, <3>4 DEF Writes
  <2>3. CASE m = 2
    <3>1. x.writing = 2 /\ z.writing = 0 /\ i = 2
      BY <1>1, <1>7, <2>3 DEF Writes
    <3>2. \A k \in 1 .. Len(r) : Is(r[k], c, "written") => k > Len(q) /\ (g[k] = 1 \/ g[k] = 2)
      <4>1. \A k \in 1 .. Len(q) : ~Is(q[k], c, "written")
        BY <1>7, <3>1 DEF Writes
      <4> QED
        BY <1>2, <2>3, <4>1
    <3>3. \A j, k, l \in 1 .. Len(r) :
            Is(r[j], c, "written") /\ Is(r[k], c, "written") /\ Is(r[l], c, "written")
              => j = k \/ k = l \/ j = l
      <4> HIDE DEF Waited
      <4> QED
        BY <1>3, <3>2
    <3> QED
      BY <3>1, <3>3 DEF Writes
  <2> QED
    BY <1>1, <1>7, <2>1, <2>2, <2>3 DEF Writes
<1>8. ASSUME FewWrites(x, q, c) PROVE FewWrites(z, r, c)
  <2>1. Continued(z) = Continued(x) /\ Continued(x) \in {0, 1} /\ Continued(x) + 1 \in {0, 1, 2}
    BY DEF Continued
  <2>2. z.parser = "clear" /\ z.continuing =>
          /\ z.writing = 0
          /\ \A j, k \in 1 .. Len(r) : Is(r[j], c, "read") /\ Is(r[k], c, "written") => k < j
    <3> SUFFICES ASSUME z.parser = "clear", z.continuing
                 PROVE  /\ z.writing = 0
                        /\ \A j, k \in 1 .. Len(r) :
                             Is(r[j], c, "read") /\ Is(r[k], c, "written") => k < j
      OBVIOUS
    <3>1. x.writing = 0 /\ m = 0 /\ z.writing = 0
      BY <1>1, <1>8 DEF FewWrites
    <3>2. \A k \in 1 .. Len(r) : Is(r[k], c, "written") => k \in 1 .. Len(q) /\ Is(q[k], c, "written")
      BY <1>2, <3>1
    <3>3. \A j \in 1 .. Len(r) : Is(r[j], c, "read") =>
            \/ j \in 1 .. Len(q) /\ Is(q[j], c, "read")
            \/ j > Len(q)
      BY <1>2
    <3> QED
      BY <1>1, <1>8, <3>1, <3>2, <3>3 DEF FewWrites
  <2> QED
    BY <1>7, <1>8, <2>1, <2>2 DEF FewWrites
<1> QED
  BY <1>5, <1>6, <1>7, <1>8

(* The same, when nothing else has become ready in between.                *)
LEMMA EndedOK ==
  ASSUME NEW x \in Connections, NEW q \in Seq(ReadyHandlers), NEW c \in Conns,
         NEW r, NEW z \in Connections, NEW n \in Nat, NEW m \in Nat,
         WithEnded(q, r, n, m, c), Waited(x, z, n, m)
  PROVE  /\ OneRead(x, q, c) => OneRead(z, r, c)
         /\ OneAnswer(x, q, c) => OneAnswer(z, r, c)
         /\ \A i \in {0, 1, 2} : Writes(x, q, c, i) => Writes(z, r, c, i)
         /\ FewWrites(x, q, c) => FewWrites(z, r, c)
<1> DEFINE g == [k \in Len(q) + 1 .. Len(r) |->
                   IF k <= Len(q) + n THEN k - Len(q) ELSE k - Len(q) - n]
<1>1. Len(q) \in Nat /\ Len(r) \in Nat /\ Len(r) = Len(q) + n + m
  BY DEF WithEnded
<1>2. \A k \in Len(q) + 1 .. Len(r) :
        \/ r[k].kind = "read" /\ r[k].data.what = "aborted" /\ g[k] \in 1 .. n /\ g[k] = k - Len(q)
        \/ r[k].kind = "written" /\ g[k] \in 1 .. m /\ g[k] = k - Len(q) - n
  <2> TAKE k \in Len(q) + 1 .. Len(r)
  <2>1. CASE k \in Len(q) + 1 .. Len(q) + n
    <3>1. r[k].kind = "read" /\ r[k].data.what = "aborted"
      BY <2>1 DEF WithEnded, Is
    <3>2. g[k] = k - Len(q) /\ g[k] \in 1 .. n
      BY <1>1, <2>1
    <3> QED
      BY <3>1, <3>2
  <2>2. CASE k \in Len(q) + n + 1 .. Len(q) + n + m
    <3>1. r[k].kind = "written"
      BY <2>2 DEF WithEnded, Is
    <3>2. g[k] = k - Len(q) - n /\ g[k] \in 1 .. m
      BY <1>1, <2>2
    <3> QED
      BY <3>1, <3>2
  <2> QED
    BY <1>1, <2>1, <2>2
<1> HIDE DEF g
<1>3. \A j, k \in Len(q) + 1 .. Len(r) : r[j].kind = r[k].kind /\ g[j] = g[k] => j = k
  BY <1>1, <1>2
<1>4. Ends(q, r, g, n, m, c)
  BY <1>1, <1>2, <1>3 DEF WithEnded, Ends, Is
<1> QED
  BY <1>4, EndsOK

(* Without a read that has ended, nothing makes c read that did not.       *)
LEMMA EndedIdle ==
  ASSUME NEW q \in Seq(ReadyHandlers), NEW r, NEW m \in Nat, NEW c,
         WithEnded(q, r, 0, m, c), \A k \in 1 .. Len(q) : ~Reads(q[k], c)
  PROVE  \A k \in 1 .. Len(r) : ~Reads(r[k], c)
<1> TAKE k \in 1 .. Len(r)
<1>1. Len(q) \in Nat
  OBVIOUS
<1>2. CASE k \in 1 .. Len(q)
  BY <1>2 DEF WithEnded
<1>3. CASE k \in Len(q) + 0 + 1 .. Len(q) + 0 + m
  BY <1>1, <1>3 DEF WithEnded, Is, Reads
<1> QED
  BY <1>1, <1>2, <1>3 DEF WithEnded

(* What has ended is appended for its connection only.                     *)
LEMMA EndedExtends ==
  ASSUME NEW q \in Seq(ReadyHandlers), NEW r, NEW n \in Nat, NEW m \in Nat,
         NEW c, WithEnded(q, r, n, m, c)
  PROVE  Extends(q, r, c)
<1>1. Len(q) \in Nat
  OBVIOUS
<1>2. \A k \in Len(q) + 1 .. Len(r) : r[k].conn = c /\ r[k].kind \in {"read", "written"}
  <2> TAKE k \in Len(q) + 1 .. Len(r)
  <2>1. CASE k <= Len(q) + n
    BY <1>1, <2>1 DEF WithEnded, Is
  <2>2. CASE k > Len(q) + n
    BY <1>1, <2>2 DEF WithEnded, Is
  <2> QED
    BY <1>1, <2>1, <2>2
<1> QED
  BY <1>1, <1>2 DEF Extends, WithEnded

(* close() ends what waits for the network, with an error.                 *)
LEMMA CloseGood ==
  ASSUME NEW st, NEW c \in Conns, Good(st, c)
  PROVE  LET t == Close(st, c) IN
         /\ Good(t, c) /\ Others(st, t, c) /\ ~t.c.open
         /\ t.c = [st.c EXCEPT !.open = FALSE, !.reading = t.c.reading, !.writing = t.c.writing]
         /\ t.s.tasks = st.s.tasks /\ (Idle(st, c) => Idle(t, c))
         /\ \A n \in {0, 1, 2} : Writes(st.c, st.s.ready, c, n) => Writes(t.c, t.s.ready, c, n)
<1> DEFINE t == Close(st, c)
           q == st.s.ready
           r == (q \o Copies(st.c.reading, Event("read", c, Only("aborted"))))
                   \o Copies(st.c.writing, Event("written", c, Only("aborted")))
<1>1. CASE ~st.c.open
  <2>1. t = st
    BY <1>1 DEF Close
  <2>2. t.c = [st.c EXCEPT !.open = FALSE, !.reading = t.c.reading, !.writing = t.c.writing]
    BY <1>1, <2>1 DEF Good, Typed, Connections
  <2> QED
    BY <1>1, <2>1, <2>2 DEF Others, Extends, Good, Typed, IsService
<1>2. CASE st.c.open
  <2>1. t = [st EXCEPT !.c.open = FALSE, !.c.reading = 0, !.c.writing = 0, !.s.ready = r]
    BY <1>2 DEF Close
  <2>2. /\ st \in [c : Connections, s : {st.s}] /\ IsService(st.s)
        /\ st.c.reading \in Nat /\ st.c.writing \in Nat /\ q \in Seq(ReadyHandlers)
    BY DEF Good, Typed, IsService, Connections
  <2>3. WithEnded(q, r, st.c.reading, st.c.writing, c)
    <3>1. "aborted" \in {"aborted", "written"}
      OBVIOUS
    <3> QED
      BY <2>2, <3>1, EndedQueue
  <2> HIDE DEF t, q, r
  <2>4. /\ t \in [c : Connections, s : {t.s}]
        /\ t.c = [st.c EXCEPT !.open = FALSE, !.reading = 0, !.writing = 0]
        /\ t.s = [st.s EXCEPT !.ready = r]
    BY <2>1, <2>2 DEF Connections
  <2>5. IsService(t.s)
    <3>1. IsService([st.s EXCEPT !.ready = r])
      BY <2>2, <2>3, ServiceReady DEF WithEnded
    <3> QED
      BY <2>4, <3>1
  <2>6. /\ t.s.tasks = st.s.tasks /\ t.s.ready = r /\ t.s.worker = st.s.worker
        /\ t.s.stopped = st.s.stopped /\ t.s.ticking = st.s.ticking
    BY <2>2, <2>4 DEF IsService
  <2>7. /\ t.c \in Connections /\ t.c.open = FALSE
        /\ t.c.phase = st.c.phase /\ t.c.service = st.c.service
        /\ t.c.reading = 0 /\ t.c.writing = 0
        /\ t.c.parser = st.c.parser /\ t.c.continuing = st.c.continuing
        /\ t.c.pending = st.c.pending /\ t.c.posted = st.c.posted
        /\ t.c.resume = st.c.resume /\ t.c.task_id = st.c.task_id
    BY <2>2, <2>4 DEF Connections
  <2>8. Waited(st.c, t.c, st.c.reading, st.c.writing)
    BY <2>2, <2>7 DEF Waited
  <2>9. /\ OneRead(st.c, q, c) => OneRead(t.c, r, c)
        /\ OneAnswer(st.c, q, c) => OneAnswer(t.c, r, c)
        /\ \A i \in {0, 1, 2} : Writes(st.c, q, c, i) => Writes(t.c, r, c, i)
        /\ FewWrites(st.c, q, c) => FewWrites(t.c, r, c)
    <3>1. st.c \in Connections
      BY <2>2
    <3> QED
      BY <2>2, <2>3, <2>7, <2>8, <3>1, EndedOK
  <2>10. Extends(q, r, c)
    BY <2>2, <2>3, EndedExtends
  <2>11. Others(st, t, c)
    BY <2>6, <2>7, <2>10 DEF Others, q
  <2>12. Good(t, c)
    BY <2>4, <2>5, <2>6, <2>7, <2>9 DEF Good, Typed, OwnDeadline, ClosedQuiet, q
  <2>13. ASSUME Idle(st, c) PROVE Idle(t, c)
    <3>1. st.c.reading = 0 /\ \A k \in 1 .. Len(q) : ~Reads(q[k], c)
      BY <2>13 DEF Idle, q
    <3>2. WithEnded(q, r, 0, st.c.writing, c)
      BY <2>3, <3>1
    <3>3. \A k \in 1 .. Len(r) : ~Reads(r[k], c)
      BY <2>2, <3>1, <3>2, EndedIdle
    <3> QED
      BY <2>6, <2>7, <3>3 DEF Idle
  <2> QED
    BY <2>4, <2>6, <2>7, <2>9, <2>11, <2>12, <2>13 DEF t, q
<1> QED
  BY <1>1, <1>2 DEF Good, Typed, Connections

(* do_write_sync: what was being written is sent.                          *)
LEMMA WriteSyncGood ==
  ASSUME NEW st, NEW c \in Conns, Good(st, c)
  PROVE  LET t == WriteSync(st, c) IN
         /\ Good(t, c) /\ Others(st, t, c) /\ (Idle(st, c) => Idle(t, c))
         /\ t.c = [st.c EXCEPT !.writing = 0]
         /\ t.s.tasks = st.s.tasks
         /\ \A n \in {0, 1, 2} : Writes(st.c, st.s.ready, c, n) => Writes(t.c, t.s.ready, c, n)
<1> DEFINE t == WriteSync(st, c)
           q == st.s.ready
           e == Event("written", c, Only("written"))
           r == q \o Copies(st.c.writing, e)
<1>1. t = [st EXCEPT !.c.writing = 0, !.s.ready = r]
  BY DEF WriteSync
<1>2. /\ st \in [c : Connections, s : {st.s}] /\ IsService(st.s)
      /\ st.c.writing \in Nat /\ q \in Seq(ReadyHandlers) /\ st.c \in Connections
      /\ Len(q) \in Nat
  BY DEF Good, Typed, IsService, Connections
<1>3. WithEnded(q, r, 0, st.c.writing, c)
  <2>1. e \in ReadyHandlers /\ Is(e, c, "written")
    BY EventType DEF Is, Event
  <2> HIDE DEF q, e
  <2>2. /\ r \in Seq(ReadyHandlers) /\ Len(r) = Len(q) + st.c.writing
        /\ \A k \in 1 .. Len(q) : r[k] = q[k]
        /\ \A k \in Len(q) + 1 .. Len(q) + st.c.writing : r[k] = e
    BY <1>2, <2>1, ConcatCopies
  <2> HIDE DEF r
  <2> QED
    BY <1>2, <2>1, <2>2 DEF WithEnded
<1> HIDE DEF t, q, r
<1>4. /\ t \in [c : Connections, s : {t.s}]
      /\ t.c = [st.c EXCEPT !.writing = 0]
      /\ t.s = [st.s EXCEPT !.ready = r]
  BY <1>1, <1>2 DEF Connections
<1>5. IsService(t.s)
  <2>1. IsService([st.s EXCEPT !.ready = r])
    BY <1>2, <1>3, ServiceReady DEF WithEnded
  <2> QED
    BY <1>4, <2>1
<1>6. /\ t.s.tasks = st.s.tasks /\ t.s.ready = r /\ t.s.worker = st.s.worker
      /\ t.s.stopped = st.s.stopped /\ t.s.ticking = st.s.ticking
  BY <1>2, <1>4 DEF IsService
<1>7. /\ t.c \in Connections /\ t.c.open = st.c.open
      /\ t.c.phase = st.c.phase /\ t.c.service = st.c.service
      /\ t.c.reading = st.c.reading /\ t.c.writing = 0
      /\ t.c.parser = st.c.parser /\ t.c.continuing = st.c.continuing
      /\ t.c.pending = st.c.pending /\ t.c.posted = st.c.posted
      /\ t.c.resume = st.c.resume /\ t.c.task_id = st.c.task_id
  BY <1>2, <1>4 DEF Connections
<1>8. Waited(st.c, t.c, 0, st.c.writing)
  BY <1>2, <1>7 DEF Waited, Connections
<1>9. /\ OneRead(st.c, q, c) => OneRead(t.c, r, c)
      /\ OneAnswer(st.c, q, c) => OneAnswer(t.c, r, c)
      /\ \A i \in {0, 1, 2} : Writes(st.c, q, c, i) => Writes(t.c, r, c, i)
      /\ FewWrites(st.c, q, c) => FewWrites(t.c, r, c)
  <2>1. 0 \in Nat /\ t.c \in Connections /\ st.c \in Connections
    BY <1>2, <1>7
  <2>2. q \in Seq(ReadyHandlers) /\ st.c.writing \in Nat
    BY <1>2
  <2> QED
    BY <2>1, <2>2, <1>3, <1>8, EndedOK, ZenonT(30)
<1>10. Others(st, t, c)
  BY <1>2, <1>3, <1>6, <1>7, EndedExtends DEF Others, q
<1>11. Good(t, c)
  BY <1>4, <1>5, <1>6, <1>7, <1>9 DEF Good, Typed, OwnDeadline, ClosedQuiet, q
<1>12. ASSUME Idle(st, c) PROVE Idle(t, c)
  <2>1. st.c.reading = 0 /\ \A k \in 1 .. Len(q) : ~Reads(q[k], c)
    BY <1>12 DEF Idle, q
  <2>2. \A k \in 1 .. Len(r) : ~Reads(r[k], c)
    BY <1>2, <1>3, <2>1, EndedIdle
  <2> QED
    BY <1>6, <1>7, <2>1, <2>2 DEF Idle
<1> QED
  BY <1>4, <1>6, <1>9, <1>10, <1>11, <1>12 DEF t, q

(* A handler that has ended at once, as it does when the socket is closed. *)
LEMMA AppendEnded ==
  ASSUME NEW q \in Seq(ReadyHandlers), NEW c \in Conns
  PROVE  /\ WithEnded(q, Append(q, Event("read", c, Only("aborted"))), 1, 0, c)
         /\ WithEnded(q, Append(q, Event("written", c, Only("aborted"))), 0, 1, c)
<1> DEFINE e == Event("read", c, Only("aborted"))
           f == Event("written", c, Only("aborted"))
<1>1. /\ e \in ReadyHandlers /\ Is(e, c, "read") /\ e.data.what = "aborted"
      /\ f \in ReadyHandlers /\ Is(f, c, "written")
  BY EventType DEF Is, Event, Only
<1> HIDE DEF e, f
<1>2. Len(q) \in Nat
  OBVIOUS
<1>3. WithEnded(q, Append(q, e), 1, 0, c)
  BY <1>1, <1>2 DEF WithEnded
<1>4. WithEnded(q, Append(q, f), 0, 1, c)
  BY <1>1, <1>2 DEF WithEnded
<1> QED
  BY <1>3, <1>4 DEF e, f

(* do_read, when nothing else makes c read.                                *)
LEMMA DoReadGood ==
  ASSUME NEW st, NEW c \in Conns, Good(st, c), Idle(st, c),
         ~st.c.resume, ~st.c.pending, st.c.parser # "failed"
  PROVE  LET t == DoRead(st, c) IN Good(t, c) /\ Others(st, t, c)
<1> DEFINE t == DoRead(st, c)
           q == st.s.ready
           x == [st.c EXCEPT !.reading = 1]
<1>1. /\ st \in [c : Connections, s : {st.s}] /\ IsService(st.s)
      /\ st.c.writing \in Nat /\ q \in Seq(ReadyHandlers) /\ st.c \in Connections
      /\ Len(q) \in Nat /\ st.c.reading = 0
  BY DEF Good, Idle, Typed, IsService, Connections
<1>2. /\ x \in Connections /\ x.open = st.c.open
      /\ x.phase = st.c.phase /\ x.service = st.c.service
      /\ x.reading = 1 /\ x.writing = st.c.writing
      /\ x.parser = st.c.parser /\ x.continuing = st.c.continuing
      /\ x.pending = st.c.pending /\ x.posted = st.c.posted
      /\ x.resume = st.c.resume /\ x.task_id = st.c.task_id
  BY <1>1 DEF Connections
<1> HIDE DEF x
<1>3. /\ OneRead(x, q, c) /\ OneAnswer(x, q, c) /\ FewWrites(x, q, c)
      /\ OwnDeadline(x, st.s, c)
  BY <1>2 DEF Good, Idle, OneRead, OneAnswer, FewWrites, Writes, Continued, OwnDeadline
<1>4. CASE st.c.open
  <2>1. /\ t \in [c : Connections, s : {t.s}] /\ t.c = x /\ t.s = st.s
    BY <1>1, <1>2, <1>4 DEF DoRead, x, Connections
  <2> HIDE DEF t
  <2>2. Good(t, c)
    BY <1>1, <1>2, <1>3, <1>4, <2>1 DEF Good, Typed, ClosedQuiet
  <2>3. Others(st, t, c)
    BY <1>1, <1>2, <2>1 DEF Others, Extends
  <2> QED
    BY <2>2, <2>3 DEF t
<1>5. CASE ~st.c.open
  <2> DEFINE r == Append(q, Event("read", c, Only("aborted")))
  <2>1. /\ t = [st EXCEPT !.s.ready = r]
    BY <1>5 DEF DoRead, Post
  <2>2. WithEnded(q, r, 1, 0, c)
    BY <1>1, AppendEnded
  <2> HIDE DEF t, q, r
  <2>3. /\ t \in [c : Connections, s : {t.s}]
        /\ t.c = st.c /\ t.s = [st.s EXCEPT !.ready = r]
    BY <1>1, <2>1
  <2>4. IsService(t.s)
    <3>1. IsService([st.s EXCEPT !.ready = r])
      BY <1>1, <2>2, ServiceReady DEF WithEnded
    <3> QED
      BY <2>3, <3>1
  <2>5. /\ t.s.tasks = st.s.tasks /\ t.s.ready = r /\ t.s.worker = st.s.worker
        /\ t.s.stopped = st.s.stopped /\ t.s.ticking = st.s.ticking
    BY <1>1, <2>3 DEF IsService
  <2>6. Waited(x, st.c, 1, 0)
    BY <1>1, <1>2 DEF Waited
  <2>7. OneRead(st.c, r, c) /\ OneAnswer(st.c, r, c) /\ FewWrites(st.c, r, c)
    <3>1. 0 \in Nat /\ 1 \in Nat /\ x \in Connections /\ st.c \in Connections
      BY <1>1, <1>2
    <3>2. q \in Seq(ReadyHandlers)
      BY <1>1
    <3> QED
      BY <1>3, <2>2, <2>6, <3>1, <3>2, EndedOK, ZenonT(30)
  <2>8. Good(t, c)
    BY <2>3, <2>4, <2>5, <2>7 DEF Good, Typed, OwnDeadline
  <2>9. Extends(q, r, c)
    BY <1>1, <2>2, EndedExtends
  <2>10. Others(st, t, c)
    BY <2>3, <2>5, <2>9 DEF Others, q
  <2> QED
    BY <2>8, <2>10 DEF t
<1> QED
  BY <1>4, <1>5

(* do_write, of a 100 (Continue), or of the answer of a request.           *)
LEMMA DoWriteGood ==
  ASSUME NEW st, NEW c \in Conns, Good(st, c), ~st.c.pending,
         \/ st.c.parser = "failed"
         \/ /\ st.c.parser = "complete"
            /\ Writes(st.c, st.s.ready, c, Continued(st.c))
         \/ /\ st.c.parser = "half" /\ st.c.continuing
            /\ Writes(st.c, st.s.ready, c, 0)
  PROVE  LET t == DoWrite(st, c) IN
         /\ Good(t, c) /\ Others(st, t, c) /\ (Idle(st, c) => Idle(t, c))
         /\ t.c = [st.c EXCEPT !.writing = t.c.writing]
         /\ t.s.tasks = st.s.tasks
<1> DEFINE t == DoWrite(st, c)
           q == st.s.ready
           x == [st.c EXCEPT !.writing = @ + 1]
<1>1. /\ st \in [c : Connections, s : {st.s}] /\ IsService(st.s)
      /\ st.c.writing \in Nat /\ q \in Seq(ReadyHandlers) /\ st.c \in Connections
      /\ Len(q) \in Nat
  BY DEF Good, Typed, IsService, Connections
<1>2. /\ x \in Connections /\ x.open = st.c.open
      /\ x.phase = st.c.phase /\ x.service = st.c.service
      /\ x.reading = st.c.reading /\ x.writing = st.c.writing + 1
      /\ x.parser = st.c.parser /\ x.continuing = st.c.continuing
      /\ x.pending = st.c.pending /\ x.posted = st.c.posted
      /\ x.resume = st.c.resume /\ x.task_id = st.c.task_id
      /\ x = [st.c EXCEPT !.writing = x.writing]
  BY <1>1 DEF Connections
<1> HIDE DEF x
<1>3. OneRead(x, q, c) /\ OneAnswer(x, q, c) /\ OwnDeadline(x, st.s, c)
  BY <1>2 DEF Good, OneRead, OneAnswer, OwnDeadline
<1>4. ASSUME NEW n \in {0, 1}, Writes(st.c, q, c, n)
      PROVE  Writes(x, q, c, n + 1)
  BY <1>1, <1>2, <1>4 DEF Writes
<1>5. FewWrites(x, q, c)
  <2>1. Continued(x) = Continued(st.c) /\ Continued(x) \in {0, 1}
    BY <1>2 DEF Continued
  <2>2. CASE st.c.parser = "failed"
    BY <1>2, <2>2 DEF FewWrites
  <2>3. CASE st.c.parser = "complete" /\ Writes(st.c, q, c, Continued(st.c))
    BY <1>2, <1>4, <2>1, <2>3 DEF FewWrites
  <2>4. CASE st.c.parser = "half" /\ st.c.continuing /\ Writes(st.c, q, c, 0)
    <3>1. Writes(x, q, c, 0 + 1) /\ Continued(x) = 0 + 1
      BY <1>2, <1>4, <2>4 DEF Continued
    <3> QED
      BY <1>2, <2>4, <3>1 DEF FewWrites
  <2> QED
    BY <2>2, <2>3, <2>4
<1>6. CASE st.c.open
  <2>1. /\ t \in [c : Connections, s : {t.s}] /\ t.c = x /\ t.s = st.s
    BY <1>1, <1>2, <1>6 DEF DoWrite, x, Connections
  <2> HIDE DEF t
  <2>2. Good(t, c)
    BY <1>1, <1>2, <1>3, <1>5, <1>6, <2>1 DEF Good, Typed, ClosedQuiet
  <2>3. Others(st, t, c)
    BY <1>1, <1>2, <2>1 DEF Others, Extends
  <2>4. Idle(st, c) => Idle(t, c)
    BY <1>2, <2>1 DEF Idle
  <2> QED
    BY <1>2, <2>1, <2>2, <2>3, <2>4 DEF t
<1>7. CASE ~st.c.open
  <2> DEFINE r == Append(q, Event("written", c, Only("aborted")))
  <2>1. /\ t = [st EXCEPT !.s.ready = r]
    BY <1>7 DEF DoWrite, Post
  <2>2. WithEnded(q, r, 0, 1, c)
    BY <1>1, AppendEnded
  <2> HIDE DEF t, q, r
  <2>3. /\ t \in [c : Connections, s : {t.s}]
        /\ t.c = st.c /\ t.s = [st.s EXCEPT !.ready = r]
        /\ t.c = [st.c EXCEPT !.writing = t.c.writing]
    BY <1>1, <2>1 DEF Connections
  <2>4. IsService(t.s)
    <3>1. IsService([st.s EXCEPT !.ready = r])
      BY <1>1, <2>2, ServiceReady DEF WithEnded
    <3> QED
      BY <2>3, <3>1
  <2>5. /\ t.s.tasks = st.s.tasks /\ t.s.ready = r /\ t.s.worker = st.s.worker
        /\ t.s.stopped = st.s.stopped /\ t.s.ticking = st.s.ticking
    BY <1>1, <2>3 DEF IsService
  <2>6. Waited(x, st.c, 0, 1)
    BY <1>1, <1>2, <1>7 DEF Waited, Good, ClosedQuiet, Connections
  <2>7. OneRead(st.c, r, c) /\ OneAnswer(st.c, r, c) /\ FewWrites(st.c, r, c)
    <3>1. 0 \in Nat /\ 1 \in Nat /\ x \in Connections /\ st.c \in Connections
      BY <1>1, <1>2
    <3>2. q \in Seq(ReadyHandlers)
      BY <1>1
    <3> QED
      BY <1>3, <1>5, <2>2, <2>6, <3>1, <3>2, EndedOK, ZenonT(60)
  <2>8. Good(t, c)
    BY <2>3, <2>4, <2>5, <2>7 DEF Good, Typed, OwnDeadline
  <2>9. Extends(q, r, c)
    BY <1>1, <2>2, EndedExtends
  <2>10. Others(st, t, c)
    BY <2>3, <2>5, <2>9 DEF Others, q
  <2>11. ASSUME Idle(st, c) PROVE Idle(t, c)
    <3>1. st.c.reading = 0 /\ \A k \in 1 .. Len(q) : ~Reads(q[k], c)
      BY <2>11 DEF Idle, q
    <3>2. \A k \in 1 .. Len(r) : ~Reads(r[k], c)
      BY <1>1, <2>2, <3>1, EndedIdle
    <3> QED
      BY <2>3, <2>5, <3>1, <3>2 DEF Idle
  <2> QED
    BY <2>3, <2>5, <2>8, <2>10, <2>11 DEF t
<1> QED
  BY <1>6, <1>7

(* A handler that changes its connection only.                             *)
LEMMA ConnectionChanged ==
  ASSUME NEW st, NEW c \in Conns, Typed(st), NEW t,
         t \in [c : Connections, s : {t.s}], t.s = st.s,
         t.c.phase = "started", st.c.phase = "started",
         t.c.service = st.c.service, ClosedQuiet(t.c),
         OneRead(t.c, st.s.ready, c), OneAnswer(t.c, st.s.ready, c),
         FewWrites(t.c, st.s.ready, c), OwnDeadline(t.c, st.s, c)
  PROVE  Good(t, c) /\ Others(st, t, c)
<1>1. Good(t, c)
  BY DEF Good, Typed
<1>2. Len(st.s.ready) \in Nat
  BY DEF Typed, IsService
<1>3. Extends(st.s.ready, t.s.ready, c)
  BY <1>2 DEF Extends
<1>4. Others(st, t, c)
  BY <1>3 DEF Others
<1> QED
  BY <1>1, <1>4

(* With one write fewer under way there is room for one more.              *)
LEMMA WritesMore ==
  ASSUME NEW x \in Connections, NEW q, NEW c, NEW n \in {0, 1}, Writes(x, q, c, n)
  PROVE  Writes(x, q, c, n + 1)
<1>1. x.writing \in Nat
  BY DEF Connections
<1> QED
  BY <1>1 DEF Writes

(* HTTPParser::clear keeps the connection in order between requests.       *)
LEMMA ClearParserGood ==
  ASSUME NEW st, NEW c \in Conns, Good(st, c), ~st.c.pending,
         \/ st.c.parser = "failed"
         \/ /\ Writes(st.c, st.s.ready, c, Continued(st.c))
            /\ st.c.continuing => st.c.writing = 0 /\ Idle(st, c)
  PROVE  LET t == ClearParser(st) IN
         /\ Good(t, c) /\ Others(st, t, c)
         /\ t.c = [st.c EXCEPT !.parser = t.c.parser]
         /\ t.s = st.s
         /\ t.c.parser = IF st.c.parser = "failed" THEN "failed" ELSE "clear"
<1> DEFINE t == ClearParser(st)
           p == IF st.c.parser = "failed" THEN "failed" ELSE "clear"
<1>1. st \in [c : Connections, s : {st.s}] /\ st.c \in Connections
  BY DEF Good, Typed
<1>2. /\ t \in [c : Connections, s : {t.s}] /\ t.s = st.s
      /\ t.c = [st.c EXCEPT !.parser = p]
  BY <1>1 DEF ClearParser, Connections
<1>3. p \in {"clear", "failed"} /\ (p = "failed" <=> st.c.parser = "failed")
  OBVIOUS
<1> HIDE DEF t, p
<1>4. /\ t.c \in Connections /\ t.c.open = st.c.open
      /\ t.c.phase = st.c.phase /\ t.c.service = st.c.service
      /\ t.c.reading = st.c.reading /\ t.c.writing = st.c.writing
      /\ t.c.parser = p /\ t.c.continuing = st.c.continuing
      /\ t.c.pending = st.c.pending /\ t.c.posted = st.c.posted
      /\ t.c.resume = st.c.resume /\ t.c.task_id = st.c.task_id
  BY <1>1, <1>2 DEF Connections
<1>5. FewWrites(t.c, st.s.ready, c)
  <2>1. CASE p = "failed"
    BY <1>4, <2>1 DEF FewWrites
  <2>2. CASE p = "clear"
    <3>1. Writes(t.c, st.s.ready, c, Continued(t.c))
      BY <1>3, <1>4, <2>2 DEF Writes, Continued
    <3>2. t.c.continuing => t.c.writing = 0 /\ \A k \in 1 .. Len(st.s.ready) : ~Reads(st.s.ready[k], c)
      BY <1>3, <1>4, <2>2 DEF Idle
    <3> QED
      BY <1>4, <2>2, <3>1, <3>2 DEF FewWrites, Reads
  <2> QED
    BY <1>3, <2>1, <2>2
<1>6. /\ OneRead(t.c, st.s.ready, c) /\ OneAnswer(t.c, st.s.ready, c)
      /\ OwnDeadline(t.c, st.s, c) /\ ClosedQuiet(t.c)
  BY <1>3, <1>4 DEF Good, OneRead, OneAnswer, OwnDeadline, ClosedQuiet
<1>7. Good(t, c) /\ Others(st, t, c)
  BY <1>2, <1>4, <1>5, <1>6, ConnectionChanged DEF Good
<1> QED
  BY <1>2, <1>4, <1>7 DEF t, p

(* The connection is closed when the client asked for that.                *)
LEMMA CloseIfAskedGood ==
  ASSUME NEW st, NEW c \in Conns, Good(st, c)
  PROVE  LET t == CloseIfAsked(st, c) IN
         /\ Good(t, c) /\ Others(st, t, c)
         /\ t.c.parser = st.c.parser /\ t.c.continuing = st.c.continuing
         /\ t.c.pending = st.c.pending /\ t.c.resume = st.c.resume
         /\ t.c.writing \in {0, st.c.writing}
         /\ Idle(st, c) => Idle(t, c)
         /\ \A n \in {0, 1, 2} : Writes(st.c, st.s.ready, c, n) => Writes(t.c, t.s.ready, c, n)
<1> DEFINE t == CloseIfAsked(st, c)
<1>1. CASE ~st.c.close
  <2>1. t = st
    BY <1>1 DEF CloseIfAsked
  <2> HIDE DEF t
  <2>2. Others(st, t, c)
    BY <2>1 DEF Others, Extends, Good, Typed, IsService
  <2> QED
    BY <2>1, <2>2 DEF t
<1>2. CASE st.c.close
  <2>1. t = Close(st, c)
    BY <1>2 DEF CloseIfAsked
  <2> HIDE DEF t
  <2>2. /\ Good(t, c) /\ Others(st, t, c) /\ ~t.c.open
        /\ t.c = [st.c EXCEPT !.open = FALSE, !.reading = t.c.reading, !.writing = t.c.writing]
        /\ Idle(st, c) => Idle(t, c)
        /\ \A n \in {0, 1, 2} : Writes(st.c, st.s.ready, c, n) => Writes(t.c, t.s.ready, c, n)
    <3>1. LET u == Close(st, c) IN
          /\ Good(u, c) /\ Others(st, u, c) /\ ~u.c.open
          /\ u.c = [st.c EXCEPT !.open = FALSE, !.reading = u.c.reading, !.writing = u.c.writing]
          /\ Idle(st, c) => Idle(u, c)
          /\ \A n \in {0, 1, 2} : Writes(st.c, st.s.ready, c, n) => Writes(u.c, u.s.ready, c, n)
      BY CloseGood, Zenon
    <3> QED
      BY <2>1, <3>1
  <2>3. st.c \in Connections
    BY DEF Good, Typed
  <2>4. /\ t.c.parser = st.c.parser /\ t.c.continuing = st.c.continuing
        /\ t.c.pending = st.c.pending /\ t.c.resume = st.c.resume
    BY <2>2, <2>3 DEF Connections
  <2>5. t.c.writing = 0
    BY <2>2 DEF Good, ClosedQuiet
  <2> QED
    BY <2>2, <2>4, <2>5 DEF t
<1> QED
  BY <1>1, <1>2

(* A handler that leaves a connection nothing makes read.                  *)
Settled(st, t, c) ==
  Good(t, c) /\ Others(st, t, c) /\ Idle(t, c) /\ t.c.resume = st.c.resume

(* An answer that is written at once.                                      *)
LEMMA WriteStaticGood ==
  ASSUME NEW st, NEW c \in Conns, Good(st, c), Idle(st, c), ~st.c.pending,
         \/ st.c.parser = "failed"
         \/ Writes(st.c, st.s.ready, c, Continued(st.c))
  PROVE  Settled(st, WriteStatic(st, c), c) /\ ~WriteStatic(st, c).c.pending
<1> DEFINE t == WriteSync(st, c)
           u == CloseIfAsked(t, c)
           v == ClearParser(u)
<1>1. v = WriteStatic(st, c)
  BY DEF WriteStatic
<1>2. /\ Good(t, c) /\ Others(st, t, c) /\ Idle(t, c)
      /\ t.c = [st.c EXCEPT !.writing = 0]
      /\ \A n \in {0, 1, 2} : Writes(st.c, st.s.ready, c, n) => Writes(t.c, t.s.ready, c, n)
  BY WriteSyncGood
<1> HIDE DEF t
<1>3. st.c \in Connections
  BY DEF Good, Typed
<1>4. /\ t.c.writing = 0 /\ t.c.parser = st.c.parser
      /\ t.c.continuing = st.c.continuing /\ t.c.pending = st.c.pending
      /\ t.c.resume = st.c.resume
  BY <1>2, <1>3 DEF Connections
<1>5. /\ Good(u, c) /\ Others(t, u, c) /\ Idle(u, c)
      /\ u.c.parser = t.c.parser /\ u.c.continuing = t.c.continuing
      /\ u.c.pending = t.c.pending /\ u.c.resume = t.c.resume
      /\ u.c.writing \in {0, t.c.writing}
      /\ \A n \in {0, 1, 2} : Writes(t.c, t.s.ready, c, n) => Writes(u.c, u.s.ready, c, n)
  BY <1>2, CloseIfAskedGood
<1> HIDE DEF u
<1>6. \/ u.c.parser = "failed"
      \/ Writes(u.c, u.s.ready, c, Continued(u.c))
  <2>1. Continued(st.c) \in {0, 1, 2} /\ Continued(u.c) = Continued(st.c)
    BY <1>4, <1>5 DEF Continued
  <2> QED
    BY <1>2, <1>4, <1>5, <2>1
<1>7. /\ Good(v, c) /\ Others(u, v, c)
      /\ v.c = [u.c EXCEPT !.parser = v.c.parser]
      /\ v.s = u.s
  <2>1. u.c.writing = 0 /\ ~u.c.pending
    BY <1>4, <1>5
  <2> QED
    BY <1>5, <1>6, <2>1, ClearParserGood
<1> HIDE DEF v
<1>8. Others(st, v, c)
  <2>1. Others(st, u, c)
    BY <1>2, <1>5, OthersTransitive DEF Good
  <2> QED
    BY <1>5, <1>7, <2>1, OthersTransitive DEF Good
<1>9. u.c \in Connections
  BY <1>5 DEF Good, Typed
<1>10. v.c.pending = u.c.pending /\ v.c.resume = u.c.resume /\ v.c.reading = u.c.reading
  BY <1>7, <1>9 DEF Connections
<1>11. Idle(v, c)
  BY <1>5, <1>7, <1>10 DEF Idle
<1> QED
  BY <1>1, <1>4, <1>5, <1>7, <1>8, <1>10, <1>11 DEF Settled

(* do_write_general, for a request that is complete or could not be read.  *)
LEMMA WriteGeneralGood ==
  ASSUME NEW st, NEW c \in Conns, NEW data, Good(st, c), Idle(st, c),
         ~st.c.pending,
         \/ st.c.parser = "failed" /\ ~st.c.resume
         \/ /\ st.c.parser = "complete"
            /\ Writes(st.c, st.s.ready, c, Continued(st.c))
  PROVE  LET t == WriteGeneral(st, c, data) IN
         /\ Good(t, c) /\ Others(st, t, c) /\ ~t.c.pending
         /\ ~st.c.resume => Settled(st, t, c)
<1>1. CASE data.what # "general"
  <2> DEFINE p == Cancel(st)
  <2>1. WriteGeneral(st, c, data) = WriteStatic(p, c)
    BY <1>1 DEF WriteGeneral, WriteStatic
  <2>2. Good(p, c) /\ Others(st, p, c) /\ p.c = st.c /\ p.s.ready = st.s.ready
    BY CancelGood
  <2> HIDE DEF p
  <2>3. Settled(p, WriteStatic(p, c), c) /\ ~WriteStatic(p, c).c.pending
    <3>1. Idle(p, c)
      BY <2>2 DEF Idle
    <3> QED
      BY <2>2, <3>1, WriteStaticGood
  <2>4. Others(st, WriteStatic(p, c), c)
    BY <2>2, <2>3, OthersTransitive DEF Good, Settled
  <2> QED
    BY <2>1, <2>2, <2>3, <2>4 DEF Settled
<1>2. CASE data.what = "general"
  <2> DEFINE w == DoWrite(st, c)
             x == [w EXCEPT !.c.resume = FALSE]
             y == StartDeadline(x, c)
             t == WriteGeneral(st, c, data)
  <2>1. t = IF w.c.resume THEN DoRead(y, c) ELSE w
    BY <1>2 DEF WriteGeneral
  <2>2. /\ Good(w, c) /\ Others(st, w, c) /\ Idle(w, c)
        /\ w.c = [st.c EXCEPT !.writing = w.c.writing]
    BY DoWriteGood
  <2> HIDE DEF w, t
  <2>3. st.c \in Connections /\ w \in [c : Connections, s : {w.s}]
    BY <2>2 DEF Good, Typed
  <2>4. /\ w.c.parser = st.c.parser /\ w.c.pending = st.c.pending
        /\ w.c.resume = st.c.resume
    BY <2>2, <2>3 DEF Connections
  <2>5. CASE ~w.c.resume
    BY <2>1, <2>2, <2>4, <2>5 DEF Settled, t
  <2>6. CASE w.c.resume
    <3>1. /\ x \in [c : Connections, s : {x.s}] /\ x.s = w.s
          /\ x.c = [w.c EXCEPT !.resume = FALSE]
      BY <2>3 DEF Connections
    <3> HIDE DEF x
    <3>2. /\ x.c \in Connections /\ x.c.open = w.c.open
          /\ x.c.phase = w.c.phase /\ x.c.service = w.c.service
          /\ x.c.reading = w.c.reading /\ x.c.writing = w.c.writing
          /\ x.c.parser = w.c.parser /\ x.c.continuing = w.c.continuing
          /\ x.c.pending = w.c.pending /\ x.c.posted = w.c.posted
          /\ ~x.c.resume /\ x.c.task_id = w.c.task_id
      BY <2>3, <3>1 DEF Connections
    <3>3. /\ OneRead(x.c, w.s.ready, c) /\ OneAnswer(x.c, w.s.ready, c)
          /\ FewWrites(x.c, w.s.ready, c) /\ OwnDeadline(x.c, w.s, c)
          /\ ClosedQuiet(x.c)
      BY <2>2, <3>2 DEF Good, Idle, OneRead, OneAnswer, FewWrites, Writes,
                        Continued, OwnDeadline, ClosedQuiet
    <3>4. Good(x, c) /\ Others(w, x, c)
      BY <2>2, <3>1, <3>2, <3>3, ConnectionChanged DEF Good
    <3>5. /\ Good(y, c) /\ Others(x, y, c)
          /\ y.c = [x.c EXCEPT !.task_id = y.c.task_id]
          /\ y.s.ready = x.s.ready
      BY <2>4, <3>2, <3>4, StartDeadlineGood
    <3> HIDE DEF y
    <3>6. /\ y.c.parser = x.c.parser /\ y.c.pending = x.c.pending
          /\ y.c.reading = x.c.reading /\ y.c.resume = x.c.resume
      BY <3>2, <3>5 DEF Connections
    <3>7. Idle(y, c)
      BY <2>2, <3>1, <3>2, <3>5, <3>6 DEF Idle
    <3>8. Good(DoRead(y, c), c) /\ Others(y, DoRead(y, c), c)
      BY <2>4, <2>6, <3>2, <3>5, <3>6, <3>7, DoReadGood
    <3>9. Others(st, DoRead(y, c), c)
      <4>1. Others(st, x, c)
        BY <2>2, <3>4, OthersTransitive DEF Good
      <4>2. Others(st, y, c)
        BY <3>4, <3>5, <4>1, OthersTransitive DEF Good
      <4> QED
        BY <3>5, <3>8, <4>2, OthersTransitive DEF Good
    <3>10. ~DoRead(y, c).c.pending
      <4>1. y \in [c : Connections, s : {y.s}]
        BY <3>5 DEF Good, Typed
      <4>2. DoRead(y, c).c.pending = y.c.pending
        BY <4>1 DEF DoRead, Post, Connections
      <4> QED
        BY <2>4, <3>2, <3>6, <4>2
    <3> QED
      BY <2>1, <2>4, <2>6, <3>8, <3>9, <3>10 DEF t
  <2> QED
    BY <2>5, <2>6 DEF t
<1> QED
  BY <1>1, <1>2

(* complete_request, when no other answer to the request is to come.       *)
LEMMA CompleteRequestGood ==
  ASSUME NEW st, NEW c \in Conns, NEW data, Good(st, c), Idle(st, c),
         \A k \in 1 .. Len(st.s.ready) : ~Is(st.s.ready[k], c, "end"),
         \/ st.c.parser = "failed" /\ ~st.c.resume
         \/ /\ st.c.parser = "complete"
            /\ Writes(st.c, st.s.ready, c, Continued(st.c))
  PROVE  LET t == CompleteRequest(st, c, data) IN
         /\ Good(t, c) /\ Others(st, t, c) /\ ~t.c.pending
         /\ ~st.c.resume => Settled(st, t, c)
<1> DEFINE x == [st EXCEPT !.c.pending = FALSE, !.c.posted = FALSE]
           t == CompleteRequest(st, c, data)
<1>1. /\ data.what = "static" => t = WriteStatic(x, c)
      /\ data.what = "lost" => t = x
      /\ data.what \notin {"static", "lost"} => t = WriteGeneral(x, c, data)
  BY DEF CompleteRequest
<1>2. st \in [c : Connections, s : {st.s}] /\ st.c \in Connections
  BY DEF Good, Typed
<1>3. /\ x \in [c : Connections, s : {x.s}] /\ x.s = st.s
      /\ x.c = [st.c EXCEPT !.pending = FALSE, !.posted = FALSE]
  BY <1>2 DEF Connections
<1> HIDE DEF x, t
<1>4. /\ x.c \in Connections /\ x.c.open = st.c.open
      /\ x.c.phase = st.c.phase /\ x.c.service = st.c.service
      /\ x.c.reading = st.c.reading /\ x.c.writing = st.c.writing
      /\ x.c.parser = st.c.parser /\ x.c.continuing = st.c.continuing
      /\ ~x.c.pending /\ ~x.c.posted
      /\ x.c.resume = st.c.resume /\ x.c.task_id = st.c.task_id
  BY <1>2, <1>3 DEF Connections
<1>5. \A n \in {0, 1, 2} : Writes(st.c, st.s.ready, c, n) => Writes(x.c, x.s.ready, c, n)
  BY <1>3, <1>4 DEF Writes
<1>6. Continued(x.c) = Continued(st.c) /\ Continued(st.c) \in {0, 1}
  BY <1>4 DEF Continued
<1>7. FewWrites(x.c, st.s.ready, c)
  <2>1. CASE st.c.parser = "failed"
    BY <1>4, <2>1 DEF FewWrites
  <2>2. CASE st.c.parser = "complete" /\ Writes(st.c, st.s.ready, c, Continued(st.c))
    <3>1. Writes(x.c, st.s.ready, c, Continued(x.c))
      BY <1>3, <1>5, <1>6, <2>2
    <3>2. Writes(x.c, st.s.ready, c, Continued(x.c) + 1)
      BY <1>4, <1>6, <3>1, WritesMore
    <3> QED
      BY <1>4, <2>2, <3>2 DEF FewWrites
  <2> QED
    BY <2>1, <2>2
<1>8. OneRead(x.c, st.s.ready, c) /\ OneAnswer(x.c, st.s.ready, c)
  BY <1>4 DEF Good, Idle, OneRead, OneAnswer
<1>9. OwnDeadline(x.c, st.s, c) /\ ClosedQuiet(x.c)
  BY <1>4 DEF Good, OwnDeadline, ClosedQuiet
<1>10. Good(x, c) /\ Others(st, x, c)
  BY <1>3, <1>4, <1>7, <1>8, <1>9, ConnectionChanged DEF Good
<1>11. Idle(x, c)
  BY <1>3, <1>4 DEF Idle
<1>12. \/ x.c.parser = "failed" /\ ~x.c.resume
       \/ /\ x.c.parser = "complete"
          /\ Writes(x.c, x.s.ready, c, Continued(x.c))
  BY <1>4, <1>5, <1>6
<1>13. Good(t, c) /\ Others(x, t, c) /\ ~t.c.pending
       /\ (~st.c.resume => Settled(x, t, c))
  <2>1. CASE data.what = "static"
    <3>1. Settled(x, WriteStatic(x, c), c) /\ ~WriteStatic(x, c).c.pending
      BY <1>4, <1>10, <1>11, <1>12, WriteStaticGood
    <3> QED
      BY <1>1, <2>1, <3>1 DEF Settled
  <2>2. CASE data.what = "lost"
    <3>1. Good(x, c) /\ Others(x, x, c)
      BY <1>10 DEF Good, Typed, IsService, Others, Extends
    <3>2. ~st.c.resume => Settled(x, x, c)
      BY <1>4, <1>11, <3>1 DEF Settled
    <3> QED
      BY <1>1, <1>4, <2>2, <3>1, <3>2
  <2>3. CASE data.what \notin {"static", "lost"}
    <3>1. LET u == WriteGeneral(x, c, data) IN
          /\ Good(u, c) /\ Others(x, u, c) /\ ~u.c.pending
          /\ ~x.c.resume => Settled(x, u, c)
      BY <1>4, <1>10, <1>11, <1>12, WriteGeneralGood
    <3> QED
      BY <1>1, <1>4, <2>3, <3>1
  <2> QED
    BY <2>1, <2>2, <2>3
<1>14. Others(st, t, c)
  BY <1>10, <1>13, OthersTransitive DEF Good
<1> QED
  BY <1>4, <1>13, <1>14 DEF Settled, t

(* A connection nothing makes read, with another close, parser or flags.   *)
LEMMA HandleGood ==
  ASSUME NEW st, NEW c \in Conns, NEW r \in Data, Good(st, c), Idle(st, c),
         ~st.c.pending, ~st.c.resume, st.c.parser \in {"clear", "head", "half"},
         r.what \in {"general", "long", "static", "lost", "later", "upgrade",
                     "throws"}
  PROVE  Settled(st, Handle(st, c, r), c)
<1> DEFINE x == [st EXCEPT !.c.parser = "complete", !.c.close = r.close]
           t == Cancel(x)
           u == [t EXCEPT !.c.pending = TRUE]
           v == [t EXCEPT !.c.close = TRUE]
<1>1. st \in [c : Connections, s : {st.s}] /\ st.c \in Connections /\ r.close \in BOOLEAN
  BY DEF Good, Typed, Data
<1>2. /\ x \in [c : Connections, s : {x.s}] /\ x.s = st.s
      /\ x.c = [st.c EXCEPT !.parser = "complete", !.close = r.close]
  BY <1>1 DEF Connections
<1>3. /\ r.what \in {"general", "long", "static", "lost"} => Handle(st, c, r) = CompleteRequest(t, c, r)
      /\ r.what = "later" => Handle(st, c, r) = u
      /\ r.what = "upgrade" => Handle(st, c, r) = v
      /\ r.what = "throws" => Handle(st, c, r) = t
  BY DEF Handle
<1> HIDE DEF x
<1>4. /\ x.c \in Connections /\ x.c.open = st.c.open
      /\ x.c.phase = st.c.phase /\ x.c.service = st.c.service
      /\ x.c.reading = st.c.reading /\ x.c.writing = st.c.writing
      /\ x.c.parser = "complete" /\ x.c.continuing = st.c.continuing
      /\ x.c.pending = st.c.pending /\ x.c.posted = st.c.posted
      /\ x.c.resume = st.c.resume /\ x.c.task_id = st.c.task_id
  BY <1>1, <1>2 DEF Connections
<1>5. Writes(x.c, st.s.ready, c, Continued(x.c)) /\ Continued(x.c) \in {0, 1}
  <2>1. Continued(x.c) = Continued(st.c) /\ Continued(x.c) \in {0, 1}
    BY <1>4 DEF Continued
  <2>2. \A n \in {0, 1} : Writes(st.c, st.s.ready, c, n) => Writes(x.c, st.s.ready, c, n)
    BY <1>4 DEF Writes
  <2>3. CASE st.c.parser = "head"
    <3>1. Writes(x.c, st.s.ready, c, 0)
      BY <2>2, <2>3 DEF Good, FewWrites
    <3>2. Writes(x.c, st.s.ready, c, 0 + 1)
      BY <1>4, <3>1, WritesMore
    <3> QED
      BY <2>1, <3>1, <3>2
  <2> QED
    BY <2>1, <2>2, <2>3 DEF Good, FewWrites
<1>6. FewWrites(x.c, st.s.ready, c)
  <2>1. Writes(x.c, st.s.ready, c, Continued(x.c) + 1)
    BY <1>4, <1>5, WritesMore
  <2> QED
    BY <1>4, <2>1 DEF FewWrites
<1>7. OneRead(x.c, st.s.ready, c) /\ OneAnswer(x.c, st.s.ready, c)
  BY <1>4 DEF Good, Idle, OneRead, OneAnswer
<1>8. OwnDeadline(x.c, st.s, c) /\ ClosedQuiet(x.c)
  BY <1>4 DEF Good, OwnDeadline, ClosedQuiet
<1>9. Good(x, c) /\ Others(st, x, c)
  BY <1>2, <1>4, <1>6, <1>7, <1>8, ConnectionChanged DEF Good
<1>10. /\ Good(t, c) /\ Others(x, t, c) /\ Untimed(t, c)
       /\ t.c = x.c /\ t.s.ready = st.s.ready
  BY <1>2, <1>9, CancelGood
<1> HIDE DEF t
<1>11. /\ Others(st, t, c) /\ Idle(t, c)
       /\ Writes(t.c, t.s.ready, c, Continued(t.c))
       /\ t \in [c : Connections, s : {t.s}]
  BY <1>4, <1>5, <1>9, <1>10, OthersTransitive DEF Good, Typed, Idle
<1>12. CASE r.what \in {"general", "long", "static", "lost"}
  <2>1. \A k \in 1 .. Len(t.s.ready) : ~Is(t.s.ready[k], c, "end")
    BY <1>10 DEF Good, OneAnswer
  <2>2. LET w == CompleteRequest(t, c, r) IN
        /\ Good(w, c) /\ Others(t, w, c) /\ ~w.c.pending
        /\ ~t.c.resume => Settled(t, w, c)
    BY <1>4, <1>10, <1>11, <2>1, CompleteRequestGood
  <2>3. Others(st, CompleteRequest(t, c, r), c)
    BY <1>10, <1>11, <2>2, OthersTransitive DEF Good
  <2> QED
    BY <1>3, <1>4, <1>10, <1>12, <2>2, <2>3 DEF Settled
<1>13. CASE r.what = "later"
  <2>1. /\ u \in [c : Connections, s : {u.s}] /\ u.s = t.s
        /\ u.c = [t.c EXCEPT !.pending = TRUE]
    BY <1>11 DEF Connections
  <2> HIDE DEF u
  <2>2. /\ u.c \in Connections /\ u.c.open = t.c.open
        /\ u.c.phase = t.c.phase /\ u.c.service = t.c.service
        /\ u.c.reading = t.c.reading /\ u.c.writing = t.c.writing
        /\ u.c.parser = "complete" /\ u.c.continuing = t.c.continuing
        /\ u.c.pending /\ u.c.posted = t.c.posted
        /\ u.c.resume = t.c.resume /\ u.c.task_id = t.c.task_id
    BY <1>4, <1>10, <2>1, Zenon DEF Connections
  <2>3. FewWrites(u.c, t.s.ready, c)
    <3>1. Writes(u.c, t.s.ready, c, Continued(u.c)) /\ Continued(u.c) \in {0, 1}
      BY <1>4, <1>10, <1>11, <2>2 DEF Writes, Continued
    <3>2. Writes(u.c, t.s.ready, c, Continued(u.c) + 1)
      BY <2>2, <3>1, WritesMore
    <3> QED
      BY <2>2, <3>1, <3>2 DEF FewWrites
  <2>4. OneRead(u.c, t.s.ready, c) /\ OneAnswer(u.c, t.s.ready, c)
    BY <1>4, <1>10, <1>11, <2>2 DEF Good, Idle, OneRead, OneAnswer
  <2>5. OwnDeadline(u.c, t.s, c) /\ ClosedQuiet(u.c)
    BY <1>10, <2>2 DEF Good, Untimed, OwnDeadline, ClosedQuiet
  <2>6. Good(u, c) /\ Others(t, u, c)
    BY <1>10, <2>1, <2>2, <2>3, <2>4, <2>5, ConnectionChanged DEF Good
  <2>7. Others(st, u, c)
    BY <1>10, <1>11, <2>6, OthersTransitive, <1>9 DEF Good
  <2>8. Idle(u, c) /\ u.c.resume = st.c.resume
    BY <1>4, <1>10, <1>11, <2>1, <2>2 DEF Idle
  <2> QED
    BY <1>3, <1>13, <2>6, <2>7, <2>8 DEF Settled
<1>14. CASE r.what = "upgrade"
  <2>1. /\ v \in [c : Connections, s : {v.s}] /\ v.s = t.s
        /\ v.c = [t.c EXCEPT !.close = TRUE]
    BY <1>11 DEF Connections
  <2> HIDE DEF v
  <2>2. /\ v.c \in Connections /\ v.c.open = t.c.open
        /\ v.c.phase = t.c.phase /\ v.c.service = t.c.service
        /\ v.c.reading = t.c.reading /\ v.c.writing = t.c.writing
        /\ v.c.parser = t.c.parser /\ v.c.continuing = t.c.continuing
        /\ v.c.pending = t.c.pending /\ v.c.posted = t.c.posted
        /\ v.c.resume = t.c.resume /\ v.c.task_id = t.c.task_id
    BY <1>11, <2>1 DEF Connections
  <2>3. /\ OneRead(v.c, t.s.ready, c) /\ OneAnswer(v.c, t.s.ready, c)
        /\ FewWrites(v.c, t.s.ready, c) /\ OwnDeadline(v.c, t.s, c)
        /\ ClosedQuiet(v.c)
    BY <1>10, <2>2 DEF Good, OneRead, OneAnswer, FewWrites, Writes, Continued,
                       OwnDeadline, ClosedQuiet
  <2>4. Good(v, c) /\ Others(t, v, c)
    BY <1>10, <2>1, <2>2, <2>3, ConnectionChanged DEF Good
  <2>5. Others(st, v, c)
    BY <1>10, <1>11, <2>4, OthersTransitive, <1>9 DEF Good
  <2>6. Idle(v, c) /\ v.c.resume = st.c.resume
    BY <1>4, <1>10, <1>11, <2>1, <2>2 DEF Idle
  <2> QED
    BY <1>3, <1>14, <2>4, <2>5, <2>6 DEF Settled
<1>15. CASE r.what = "throws"
  BY <1>3, <1>4, <1>10, <1>11, <1>15 DEF Settled
<1> QED
  BY <1>12, <1>13, <1>14, <1>15

(* Part of a request has been read.                                        *)
LEMMA PartRead ==
  ASSUME NEW st, NEW c \in Conns, Good(st, c), Idle(st, c),
         ~st.c.pending, ~st.c.resume, st.c.parser \notin {"complete", "failed"},
         st.c.parser = "clear" => Writes(st.c, st.s.ready, c, 0),
         NEW p \in {"head", "half"}, p = "head" => st.c.parser # "half"
  PROVE  Settled(st, [st EXCEPT !.c.parser = p], c)
<1> DEFINE u == [st EXCEPT !.c.parser = p]
           q == st.s.ready
           x == u.c
           n == Continued(st.c)
<1>1. st \in [c : Connections, s : {st.s}] /\ st.c \in Connections
  BY DEF Good, Typed
<1>2. /\ u \in [c : Connections, s : {u.s}] /\ u.s = st.s
      /\ x = [st.c EXCEPT !.parser = p]
  BY <1>1 DEF Connections
<1> HIDE DEF u
<1>3. /\ x \in Connections /\ x.open = st.c.open
      /\ x.phase = st.c.phase /\ x.service = st.c.service
      /\ x.reading = st.c.reading /\ x.writing = st.c.writing
      /\ x.parser = p /\ x.continuing = st.c.continuing
      /\ x.pending = st.c.pending /\ x.posted = st.c.posted
      /\ x.resume = st.c.resume /\ x.task_id = st.c.task_id
  BY <1>1, <1>2 DEF Connections
<1>4. st.c.parser \in {"clear", "head", "half"}
  BY <1>1 DEF Connections
<1> HIDE DEF x, q
<1>5. Continued(x) = n /\ n \in {0, 1}
  BY <1>3 DEF Continued
<1>6. st.c.parser # "half" => Writes(x, q, c, 0)
  BY <1>3, <1>4 DEF Good, FewWrites, Writes, q
<1>7. Writes(x, q, c, n)
  <2>1. CASE st.c.parser = "half"
    <3>1. Writes(st.c, q, c, n)
      BY <2>1 DEF Good, FewWrites, q
    <3> QED
      BY <1>3, <3>1 DEF Writes
  <2>2. CASE st.c.parser # "half"
    <3> HIDE DEF n
    <3>1. Writes(x, q, c, 0)
      BY <1>6, <2>2
    <3>2. Writes(x, q, c, 0 + 1)
      BY <1>3, <3>1, WritesMore
    <3>3. n = 0 \/ n = 0 + 1
      BY <1>5
    <3> QED
      BY <3>1, <3>2, <3>3
  <2> QED
    BY <2>1, <2>2
<1>8. FewWrites(x, q, c)
  <2>1. p = "head" => Writes(x, q, c, 0)
    BY <1>6
  <2> QED
    BY <1>3, <1>5, <1>7, <2>1, Zenon DEF FewWrites
<1>9. OneRead(x, q, c) /\ OneAnswer(x, q, c)
  BY <1>3 DEF Good, Idle, OneRead, OneAnswer, q
<1>10. OwnDeadline(x, st.s, c) /\ ClosedQuiet(x)
  BY <1>3 DEF Good, OwnDeadline, ClosedQuiet
<1>11. Good(u, c) /\ Others(st, u, c)
  BY <1>2, <1>3, <1>8, <1>9, <1>10, ConnectionChanged DEF Good, q, x
<1>12. Idle(u, c)
  BY <1>2, <1>3 DEF Idle, q, x
<1> QED
  BY <1>3, <1>11, <1>12 DEF Settled, u, x

(* What has been read is fed to the parser.                                *)
LEMMA FeedGood ==
  ASSUME NEW st, NEW c \in Conns, NEW data \in Data, Good(st, c), Idle(st, c),
         ~st.c.pending, ~st.c.resume, st.c.parser # "failed",
         data.what \notin {"none", "written", "aborted"},
         data.what \in {"headers", "expect"} =>
           st.c.parser \in {"clear", "head", "complete"},
         st.c.parser = "clear" => Writes(st.c, st.s.ready, c, 0)
  PROVE  Settled(st, Feed(st, c, data), c)
<1> DEFINE t == Feed(st, c, data)
           x(p) == [st EXCEPT !.c.parser = p]
           y == [st EXCEPT !.c.parser = "half", !.c.continuing = TRUE]
           z == [st EXCEPT !.c.parser = "failed"]
<1>1. st \in [c : Connections, s : {st.s}] /\ st.c \in Connections
  BY DEF Good, Typed
<1>2. CASE st.c.parser = "complete"
  <2>1. t = st
    BY <1>2 DEF Feed
  <2> QED
    BY <2>1 DEF Settled, Good, Others, Extends, Typed, IsService
<1>11. st.c.parser \in {"clear", "head"} => Writes(st.c, st.s.ready, c, 0)
  BY DEF Good, FewWrites
<1>12. \A p \in {"head", "half"} :
         st.c.parser # "complete" /\ (p = "head" => st.c.parser # "half")
           => Settled(st, x(p), c)
  BY PartRead
<1>3. CASE st.c.parser # "complete" /\ data.what = "part"
  <2>1. CASE st.c.parser = "half"
    <3>1. t = x("half")
      BY <1>3, <2>1 DEF Feed
    <3> QED
      BY <1>3, <1>12, <3>1
  <2>2. CASE st.c.parser # "half"
    <3>1. t = x("head")
      BY <1>3, <2>2 DEF Feed
    <3> QED
      BY <1>3, <1>12, <2>2, <3>1
  <2> QED
    BY <2>1, <2>2
<1>13. CASE st.c.parser # "complete" /\ data.what = "headers"
  <2>1. t = x("half")
    BY <1>13 DEF Feed
  <2> QED
    BY <1>12, <1>13, <2>1
<1>4. CASE st.c.parser # "complete" /\ data.what = "expect"
  <2>1. t = DoWrite(y, c)
    BY <1>4 DEF Feed
  <2>2. /\ y \in [c : Connections, s : {y.s}] /\ y.s = st.s
        /\ y.c = [st.c EXCEPT !.parser = "half", !.continuing = TRUE]
    BY <1>1 DEF Connections
  <2> HIDE DEF y
  <2>3. /\ y.c \in Connections /\ y.c.open = st.c.open
        /\ y.c.phase = st.c.phase /\ y.c.service = st.c.service
        /\ y.c.reading = st.c.reading /\ y.c.writing = st.c.writing
        /\ y.c.parser = "half" /\ y.c.continuing
        /\ y.c.pending = st.c.pending /\ y.c.posted = st.c.posted
        /\ y.c.resume = st.c.resume /\ y.c.task_id = st.c.task_id
    BY <1>1, <2>2 DEF Connections
  <2>4. Writes(y.c, st.s.ready, c, 0)
    BY <1>4, <1>11, <2>3 DEF Writes
  <2>5. FewWrites(y.c, st.s.ready, c)
    <3>1. Continued(y.c) = 0 + 1
      BY <2>3 DEF Continued
    <3>2. Writes(y.c, st.s.ready, c, 0 + 1)
      BY <2>3, <2>4, WritesMore
    <3> QED
      BY <2>3, <3>1, <3>2 DEF FewWrites
  <2>6. OneRead(y.c, st.s.ready, c) /\ OneAnswer(y.c, st.s.ready, c)
    BY <2>3 DEF Good, Idle, OneRead, OneAnswer
  <2>7. OwnDeadline(y.c, st.s, c) /\ ClosedQuiet(y.c)
    BY <2>3 DEF Good, OwnDeadline, ClosedQuiet
  <2>8. Good(y, c) /\ Others(st, y, c)
    BY <2>2, <2>3, <2>5, <2>6, <2>7, ConnectionChanged DEF Good
  <2>9. Idle(y, c)
    BY <2>2, <2>3 DEF Idle
  <2>10. LET u == DoWrite(y, c) IN
         /\ Good(u, c) /\ Others(y, u, c) /\ (Idle(y, c) => Idle(u, c))
         /\ u.c = [y.c EXCEPT !.writing = u.c.writing]
    BY <2>2, <2>3, <2>4, <2>8, DoWriteGood, Zenon
  <2>11. Others(st, DoWrite(y, c), c)
    BY <2>8, <2>10, OthersTransitive DEF Good
  <2>12. DoWrite(y, c).c.resume = st.c.resume
    BY <2>3, <2>10 DEF Connections
  <2> QED
    BY <2>1, <2>9, <2>10, <2>11, <2>12 DEF Settled
<1>5. /\ z \in [c : Connections, s : {z.s}] /\ z.s = st.s
      /\ z.c = [st.c EXCEPT !.parser = "failed"]
  BY <1>1 DEF Connections
<1>6. /\ z.c \in Connections /\ z.c.open = st.c.open
      /\ z.c.phase = st.c.phase /\ z.c.service = st.c.service
      /\ z.c.reading = st.c.reading /\ z.c.writing = st.c.writing
      /\ z.c.parser = "failed" /\ z.c.continuing = st.c.continuing
      /\ z.c.pending = st.c.pending /\ z.c.posted = st.c.posted
      /\ z.c.resume = st.c.resume /\ z.c.task_id = st.c.task_id
  <2> HIDE DEF z
  <2> QED
    BY <1>1, <1>5 DEF Connections
<1>7. Settled(st, z, c)
  <2> HIDE DEF z
  <2>1. OneRead(z.c, st.s.ready, c) /\ OneAnswer(z.c, st.s.ready, c)
    BY <1>6 DEF Good, Idle, OneRead, OneAnswer
  <2>2. OwnDeadline(z.c, st.s, c) /\ ClosedQuiet(z.c) /\ FewWrites(z.c, st.s.ready, c)
    BY <1>6 DEF Good, OwnDeadline, ClosedQuiet, FewWrites
  <2>3. Good(z, c) /\ Others(st, z, c)
    BY <1>5, <1>6, <2>1, <2>2, ConnectionChanged DEF Good
  <2> QED
    BY <1>5, <1>6, <2>3 DEF Settled, Idle
<1>8. CASE st.c.parser # "complete" /\ data.what = "bad"
  <2>1. t = z
    BY <1>8 DEF Feed
  <2> QED
    BY <1>7, <2>1
<1>9. CASE st.c.parser # "complete" /\ data.what = "unrouted"
  <2>1. t = CompleteRequest(z, c, Only("general"))
    BY <1>9 DEF Feed
  <2> HIDE DEF z, t
  <2>2. \A k \in 1 .. Len(z.s.ready) : ~Is(z.s.ready[k], c, "end")
    BY <1>5 DEF Good, OneAnswer
  <2>3. LET u == CompleteRequest(z, c, Only("general")) IN
        /\ Good(u, c) /\ Others(z, u, c) /\ ~u.c.pending
        /\ ~z.c.resume => Settled(z, u, c)
    BY <1>6, <1>7, <2>2, CompleteRequestGood DEF Settled
  <2>4. Others(st, t, c)
    BY <1>7, <2>1, <2>3, OthersTransitive DEF Good, Settled
  <2> QED
    BY <1>6, <2>1, <2>3, <2>4 DEF Settled, t
<1>10. CASE /\ st.c.parser # "complete"
            /\ data.what \in {"general", "long", "static", "lost", "later",
                              "upgrade", "throws"}
  <2>1. t = Handle(st, c, data)
    BY <1>10 DEF Feed
  <2>2. st.c.parser \in {"clear", "head", "half"}
    BY <1>1, <1>10 DEF Connections
  <2> QED
    BY <1>10, <2>1, <2>2, HandleGood
<1> QED
  BY <1>2, <1>3, <1>4, <1>8, <1>9, <1>10, <1>13 DEF Data

(* do_read's callback, after the read it was for.                          *)
LEMMA ReadCallbackGood ==
  ASSUME NEW st, NEW c \in Conns, NEW data \in Data, Good(st, c), Idle(st, c),
         ~st.c.pending, ~st.c.resume, st.c.parser # "failed",
         data.what \notin {"none", "written"},
         data.what \in {"headers", "expect"} =>
           st.c.parser \in {"clear", "head", "complete"},
         st.c.parser = "clear" => Writes(st.c, st.s.ready, c, 0)
  PROVE  LET t == ReadCallback(st, c, data) IN Good(t, c) /\ Others(st, t, c)
<1> DEFINE t == ReadCallback(st, c, data)
           fed == Feed(st, c, data)
           p == Cancel(fed)
           d == StartDeadline(fed, c)
           u == [fed EXCEPT !.c.resume = TRUE]
           throws == data.what = "throws" /\ st.c.parser # "complete"
<1>1. CASE data.what = "aborted"
  <2>1. t = Close(Cancel(st), c)
    BY <1>1 DEF ReadCallback
  <2>2. Good(Cancel(st), c) /\ Others(st, Cancel(st), c)
    BY CancelGood
  <2>3. Good(Close(Cancel(st), c), c) /\ Others(Cancel(st), Close(Cancel(st), c), c)
    BY <2>2, CloseGood, Zenon
  <2>4. Others(st, Close(Cancel(st), c), c)
    BY <2>2, <2>3, OthersTransitive DEF Good
  <2> QED
    BY <2>1, <2>3, <2>4
<1>2. CASE data.what # "aborted"
  <2>1. Good(fed, c) /\ Others(st, fed, c) /\ Idle(fed, c) /\ ~fed.c.resume
    BY <1>2, FeedGood DEF Settled
  <2>2. t = IF throws THEN fed ELSE
            IF fed.c.parser = "failed" \/ ~fed.c.open THEN Close(p, c) ELSE
            IF fed.c.close THEN p ELSE
            IF fed.c.pending THEN u ELSE DoRead(d, c)
    BY <1>2 DEF ReadCallback
  <2> HIDE DEF t, fed, throws
  <2>3. Good(p, c) /\ Others(fed, p, c) /\ Others(st, p, c)
    BY <2>1, CancelGood, OthersTransitive DEF Good
  <2>4. CASE throws
    BY <2>1, <2>2, <2>4 DEF t
  <2>5. CASE ~throws /\ (fed.c.parser = "failed" \/ ~fed.c.open)
    <3>1. Good(Close(p, c), c) /\ Others(p, Close(p, c), c)
      BY <2>3, CloseGood, Zenon
    <3>2. Others(st, Close(p, c), c)
      BY <2>3, <3>1, OthersTransitive DEF Good
    <3> QED
      BY <2>2, <2>5, <3>1, <3>2 DEF t
  <2>6. CASE ~throws /\ fed.c.parser # "failed" /\ fed.c.open /\ fed.c.close
    BY <2>2, <2>3, <2>6 DEF t
  <2>7. CASE ~throws /\ fed.c.parser # "failed" /\ fed.c.open /\ ~fed.c.close /\ fed.c.pending
    <3>1. fed \in [c : Connections, s : {fed.s}] /\ fed.c \in Connections
      BY <2>1 DEF Good, Typed
    <3>2. /\ u \in [c : Connections, s : {u.s}] /\ u.s = fed.s
          /\ u.c = [fed.c EXCEPT !.resume = TRUE]
      BY <3>1 DEF Connections
    <3> HIDE DEF u
    <3>3. /\ u.c \in Connections /\ u.c.open = fed.c.open
          /\ u.c.phase = fed.c.phase /\ u.c.service = fed.c.service
          /\ u.c.reading = fed.c.reading /\ u.c.writing = fed.c.writing
          /\ u.c.parser = fed.c.parser /\ u.c.continuing = fed.c.continuing
          /\ u.c.pending = fed.c.pending /\ u.c.posted = fed.c.posted
          /\ u.c.resume /\ u.c.task_id = fed.c.task_id
      BY <3>1, <3>2 DEF Connections
    <3>4. /\ OneAnswer(u.c, fed.s.ready, c) /\ FewWrites(u.c, fed.s.ready, c)
          /\ OwnDeadline(u.c, fed.s, c) /\ ClosedQuiet(u.c)
      BY <2>1, <3>3 DEF Good, OneAnswer, FewWrites, Writes, Continued,
                        OwnDeadline, ClosedQuiet
    <3>5. OneRead(u.c, fed.s.ready, c)
      BY <2>1, <3>3 DEF Idle, OneRead
    <3>6. Good(u, c) /\ Others(fed, u, c)
      BY <2>1, <3>2, <3>3, <3>4, <3>5, ConnectionChanged DEF Good
    <3>7. Others(st, u, c)
      BY <2>1, <3>6, OthersTransitive DEF Good
    <3> QED
      BY <2>2, <2>7, <3>6, <3>7 DEF t
  <2>8. CASE ~throws /\ fed.c.parser # "failed" /\ fed.c.open /\ ~fed.c.close /\ ~fed.c.pending
    <3>1. /\ Good(d, c) /\ Others(fed, d, c)
          /\ d.c = [fed.c EXCEPT !.task_id = d.c.task_id]
          /\ d.s.ready = fed.s.ready
      BY <2>1, <2>8, StartDeadlineGood
    <3> HIDE DEF d
    <3>2. fed.c \in Connections
      BY <2>1 DEF Good, Typed
    <3>3. /\ d.c.parser = fed.c.parser /\ d.c.pending = fed.c.pending
          /\ d.c.resume = fed.c.resume /\ d.c.reading = fed.c.reading
      BY <3>1, <3>2 DEF Connections
    <3>4. Idle(d, c)
      BY <2>1, <3>1, <3>3 DEF Idle
    <3>5. Good(DoRead(d, c), c) /\ Others(d, DoRead(d, c), c)
      BY <2>1, <2>8, <3>1, <3>3, <3>4, DoReadGood
    <3>6. Others(st, d, c)
      BY <2>1, <3>1, OthersTransitive DEF Good
    <3>7. Others(st, DoRead(d, c), c)
      BY <3>1, <3>5, <3>6, OthersTransitive DEF Good
    <3> QED
      BY <2>2, <2>8, <3>5, <3>7 DEF t
  <2> QED
    BY <2>4, <2>5, <2>6, <2>7, <2>8
<1> QED
  BY <1>1, <1>2

(* do_write's callback, after the write it was for: that was the 100       *)
(* (Continue) unless the parser is complete and no answer is pending.      *)
LEMMA WriteCallbackGood ==
  ASSUME NEW st, NEW c \in Conns, NEW data, Good(st, c),
         st.c.parser # "head",
         st.c.parser \in {"clear", "half"} \/ st.c.pending
           => st.c.continuing /\ Writes(st.c, st.s.ready, c, 0),
         st.c.parser = "complete" => Writes(st.c, st.s.ready, c, Continued(st.c))
  PROVE  LET t == WriteCallback(st, c, data) IN
         /\ Good(t, c) /\ Others(st, t, c)
         /\ st.c.parser = "half" => t.c.parser = "half"
<1> DEFINE x == [st EXCEPT !.c.continuing = FALSE]
           p == IF st.c.continuing THEN x ELSE ClearParser(st)
           t == WriteCallback(st, c, data)
<1>1. t = IF data.what = "written" THEN CloseIfAsked(p, c) ELSE p
  BY DEF WriteCallback
<1>2. st \in [c : Connections, s : {st.s}] /\ st.c \in Connections
  BY DEF Good, Typed
<1>3. Good(p, c) /\ Others(st, p, c) /\ (st.c.parser = "half" => p.c.parser = "half")
  <2>1. CASE st.c.continuing
    <3>1. /\ x \in [c : Connections, s : {x.s}] /\ x.s = st.s
          /\ x.c = [st.c EXCEPT !.continuing = FALSE]
      BY <1>2 DEF Connections
    <3> HIDE DEF x
    <3>2. /\ x.c \in Connections /\ x.c.open = st.c.open
          /\ x.c.phase = st.c.phase /\ x.c.service = st.c.service
          /\ x.c.reading = st.c.reading /\ x.c.writing = st.c.writing
          /\ x.c.parser = st.c.parser /\ ~x.c.continuing
          /\ x.c.pending = st.c.pending /\ x.c.posted = st.c.posted
          /\ x.c.resume = st.c.resume /\ x.c.task_id = st.c.task_id
      BY <1>2, <3>1 DEF Connections
    <3>3. FewWrites(x.c, st.s.ready, c)
      <4>1. Continued(x.c) = 0 /\ Continued(st.c) = 1
        BY <2>1, <3>2 DEF Continued
      <4>2. x.c.parser \in {"clear", "half"} \/ x.c.pending => Writes(x.c, st.s.ready, c, 0)
        BY <3>2 DEF Writes
      <4>3. x.c.parser = "complete" => Writes(x.c, st.s.ready, c, 0 + 1)
        BY <3>2, <4>1 DEF Writes
      <4> QED
        BY <3>2, <4>1, <4>2, <4>3 DEF FewWrites
    <3>4. /\ OneRead(x.c, st.s.ready, c) /\ OneAnswer(x.c, st.s.ready, c)
          /\ OwnDeadline(x.c, st.s, c) /\ ClosedQuiet(x.c)
      BY <3>2 DEF Good, OneRead, OneAnswer, OwnDeadline, ClosedQuiet
    <3>5. Good(x, c) /\ Others(st, x, c)
      BY <3>1, <3>2, <3>3, <3>4, ConnectionChanged DEF Good
    <3> QED
      BY <2>1, <3>2, <3>5
  <2>2. CASE ~st.c.continuing
    <3>1. ~st.c.pending /\ st.c.parser \in {"complete", "failed"}
      BY <1>2, <2>2 DEF Connections
    <3>2. Good(ClearParser(st), c) /\ Others(st, ClearParser(st), c)
      BY <2>2, <3>1, ClearParserGood
    <3> QED
      BY <2>2, <3>1, <3>2
  <2> QED
    BY <2>1, <2>2
<1> HIDE DEF p, t
<1>4. CASE data.what = "written"
  <2>1. /\ Good(CloseIfAsked(p, c), c) /\ Others(p, CloseIfAsked(p, c), c)
        /\ CloseIfAsked(p, c).c.parser = p.c.parser
    BY <1>3, CloseIfAskedGood
  <2>2. Others(st, CloseIfAsked(p, c), c)
    BY <1>3, <2>1, OthersTransitive DEF Good
  <2> QED
    BY <1>1, <1>3, <1>4, <2>1, <2>2 DEF t
<1>5. CASE data.what # "written"
  BY <1>1, <1>3, <1>5 DEF t
<1> QED
  BY <1>4, <1>5

(* Connection::start, of a connection that nothing has happened to.        *)
LEMMA StartGood ==
  ASSUME NEW st, NEW c \in Conns, NEW data, NEW n \in Nat, Typed(st),
         st.c = NewConnection("accepting", n), Untimed(st, c),
         \A k \in 1 .. Len(st.s.ready) :
           st.s.ready[k].kind = "tick" \/ st.s.ready[k].conn # c
  PROVE  LET t == Start(st, c, data) IN
         /\ Good(t, c) /\ t.c.service = n
         /\ Others([st EXCEPT !.c.phase = "started"], t, c)
<1> DEFINE x == [st EXCEPT !.c.phase = "started"]
           d == StartDeadline(x, c)
           p == ClearParser(d)
<1>1. Start(st, c, data) = DoRead(p, c)
  BY DEF Start
<1>2. st \in [c : Connections, s : {st.s}] /\ st.c \in Connections
  BY DEF Typed
<1>3. /\ x \in [c : Connections, s : {x.s}] /\ x.s = st.s
      /\ x.c = [NewConnection("accepting", n) EXCEPT !.phase = "started"]
  BY <1>2 DEF Connections
<1> HIDE DEF x
<1>4. /\ x.c \in Connections /\ x.c.open /\ x.c.phase = "started" /\ x.c.service = n
      /\ x.c.reading = 0 /\ x.c.writing = 0 /\ x.c.parser = "clear"
      /\ ~x.c.continuing /\ ~x.c.pending /\ ~x.c.posted /\ ~x.c.resume
      /\ x.c.task_id = 0
  BY <1>3 DEF Connections, NewConnection
<1>5. Good(x, c)
  <2>1. /\ OneRead(x.c, x.s.ready, c) /\ OneAnswer(x.c, x.s.ready, c)
        /\ OwnDeadline(x.c, x.s, c) /\ ClosedQuiet(x.c)
    BY <1>3, <1>4 DEF OneRead, Reads, OneAnswer, Untimed, OwnDeadline, ClosedQuiet, Is
  <2>2. FewWrites(x.c, x.s.ready, c)
    BY <1>3, <1>4 DEF FewWrites, Writes, Continued, Is
  <2> QED
    BY <1>3, <1>4, <2>1, <2>2 DEF Good, Typed
<1>6. /\ Good(d, c) /\ Others(x, d, c)
      /\ d.c = [x.c EXCEPT !.task_id = d.c.task_id]
      /\ d.s.ready = x.s.ready
  BY <1>4, <1>5, StartDeadlineGood
<1> HIDE DEF d
<1>7. /\ d.c.reading = 0 /\ ~d.c.continuing /\ ~d.c.pending /\ ~d.c.resume
      /\ d.c.parser = "clear" /\ d.c.service = n
  BY <1>4, <1>6 DEF Connections
<1>8. Idle(d, c)
  BY <1>3, <1>6, <1>7 DEF Idle, Reads, Is
<1>9. /\ Good(p, c) /\ Others(d, p, c)
      /\ p.c = [d.c EXCEPT !.parser = p.c.parser] /\ p.s = d.s
      /\ p.c.parser = "clear"
  <2>1. Writes(d.c, d.s.ready, c, Continued(d.c))
    BY <1>6, <1>7 DEF Good, FewWrites
  <2> QED
    BY <1>6, <1>7, <2>1, ClearParserGood
<1> HIDE DEF p
<1>10. /\ p.c.reading = 0 /\ ~p.c.pending /\ ~p.c.resume /\ p.c.service = n
  <2>1. d.c \in Connections
    BY <1>6 DEF Good, Typed
  <2> QED
    BY <1>7, <1>9, <2>1 DEF Connections
<1>11. Idle(p, c)
  BY <1>8, <1>9, <1>10 DEF Idle
<1>12. Good(DoRead(p, c), c) /\ Others(p, DoRead(p, c), c)
  BY <1>9, <1>10, <1>11, DoReadGood
<1>13. Others(x, DoRead(p, c), c)
  <2>1. Others(x, p, c)
    BY <1>5, <1>6, <1>9, OthersTransitive DEF Good
  <2> QED
    BY <1>5, <1>9, <1>12, <2>1, OthersTransitive DEF Good
<1> QED
  BY <1>1, <1>10, <1>12, <1>13 DEF x, Others

=============================================================================
