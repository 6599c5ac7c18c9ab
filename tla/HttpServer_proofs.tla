-------------------------- MODULE HttpServer_proofs --------------------------
(***************************************************************************)
(* Theorems about HttpServer, for every number of threads, connections,    *)
(* requests and ticks: every step keeps the invariant of                   *)
(* HttpHandlers_proofs, which implies what the server promises.            *)
(***************************************************************************)
EXTENDS HttpHandlers_proofs, LeastElements
-----------------------------------------------------------------------------
(* The other connections.                                                  *)

(* What is ready for c in r is so in q, in the same order: n places later. *)
Shifted(q, r, n, c) ==
  \A k \in 1 .. Len(r) : r[k].conn = c => k + n \in 1 .. Len(q) /\ r[k] = q[k + n]

(* Where the handlers of c stand in the queue does not matter to c.        *)
LEMMA ShiftedOK ==
  ASSUME NEW x, NEW q, NEW r, NEW n \in {0, 1}, NEW c,
         Len(r) \in Nat, Shifted(q, r, n, c)
  PROVE  /\ OneRead(x, q, c) => OneRead(x, r, c)
         /\ OneAnswer(x, q, c) => OneAnswer(x, r, c)
         /\ FewWrites(x, q, c) => FewWrites(x, r, c)
<1>1. \A kind : \A k \in 1 .. Len(r) : Is(r[k], c, kind) =>
        k + n \in 1 .. Len(q) /\ r[k] = q[k + n] /\ Is(q[k + n], c, kind)
  BY DEF Shifted, Is
<1>2. \A j, k \in 1 .. Len(r) : j + n = k + n => j = k
  OBVIOUS
<1>3. \A j, k \in 1 .. Len(r) : j + n < k + n => j < k
  OBVIOUS
<1>4. \A k \in 1 .. Len(r) : Reads(r[k], c) =>
        k + n \in 1 .. Len(q) /\ r[k] = q[k + n] /\ Reads(q[k + n], c)
  BY <1>1 DEF Reads
<1>5. OneRead(x, q, c) => OneRead(x, r, c)
  BY <1>1, <1>2, <1>4 DEF OneRead
<1>6. OneAnswer(x, q, c) => OneAnswer(x, r, c)
  BY <1>1, <1>2 DEF OneAnswer
<1>7. ASSUME NEW i, Writes(x, q, c, i) PROVE Writes(x, r, c, i)
  <2>1. x.writing = i => \A k \in 1 .. Len(r) : ~Is(r[k], c, "written")
    BY <1>1, <1>7 DEF Writes
  <2>2. x.writing + 1 = i => \A j, k \in 1 .. Len(r) :
          Is(r[j], c, "written") /\ Is(r[k], c, "written") => j = k
    BY <1>1, <1>2, <1>7 DEF Writes
  <2>3. x.writing + 2 = i => \A h, j, k \in 1 .. Len(r) :
          Is(r[h], c, "written") /\ Is(r[j], c, "written") /\ Is(r[k], c, "written")
            => h = j \/ j = k \/ h = k
    <3> SUFFICES ASSUME x.writing + 2 = i, NEW h \in 1 .. Len(r), NEW j \in 1 .. Len(r),
                        NEW k \in 1 .. Len(r), Is(r[h], c, "written"),
                        Is(r[j], c, "written"), Is(r[k], c, "written")
                 PROVE  h = j \/ j = k \/ h = k
      OBVIOUS
    <3>1. /\ h + n \in 1 .. Len(q) /\ j + n \in 1 .. Len(q) /\ k + n \in 1 .. Len(q)
          /\ Is(q[h + n], c, "written") /\ Is(q[j + n], c, "written") /\ Is(q[k + n], c, "written")
      BY <1>1
    <3>2. h + n = j + n \/ j + n = k + n \/ h + n = k + n
      BY <1>7, <3>1 DEF Writes
    <3> QED
      BY <1>2, <3>2
  <2> QED
    BY <1>7, <2>1, <2>2, <2>3 DEF Writes
<1>8. FewWrites(x, q, c) => FewWrites(x, r, c)
  <2> SUFFICES ASSUME FewWrites(x, q, c) PROVE FewWrites(x, r, c)
    OBVIOUS
  <2>1. x.parser = "clear" /\ x.continuing =>
          /\ x.writing = 0
          /\ \A j, k \in 1 .. Len(r) :
               Is(r[j], c, "read") /\ Is(r[k], c, "written") => k < j
    <3> SUFFICES ASSUME x.parser = "clear", x.continuing
                 PROVE  /\ x.writing = 0
                        /\ \A j, k \in 1 .. Len(r) :
                             Is(r[j], c, "read") /\ Is(r[k], c, "written") => k < j
      OBVIOUS
    <3>1. \A j, k \in 1 .. Len(q) :
            Is(q[j], c, "read") /\ Is(q[k], c, "written") => k < j
      BY DEF FewWrites
    <3>2. ASSUME NEW j \in 1 .. Len(r), NEW k \in 1 .. Len(r),
                 Is(r[j], c, "read"), Is(r[k], c, "written")
          PROVE  k < j
      <4>1. /\ j + n \in 1 .. Len(q) /\ Is(q[j + n], c, "read")
            /\ k + n \in 1 .. Len(q) /\ Is(q[k + n], c, "written")
        BY <1>1, <3>2
      <4>2. k + n < j + n
        BY <3>1, <4>1
      <4> QED
        BY <4>2
    <3> QED
      BY <3>2 DEF FewWrites
  <2> QED
    BY <1>7, <2>1 DEF FewWrites
<1> QED
  BY <1>5, <1>6, <1>8

(* A connection none of whose handlers runs.                               *)
LEMMA OtherOK ==
  ASSUME NEW x, NEW y, NEW z, NEW n \in {0, 1}, NEW c,
         Len(z.ready) \in Nat, ConnectionOK(x, y, c),
         Shifted(y.ready, z.ready, n, c),
         \A id \in DOMAIN z.tasks : z.tasks[id].conn = c =>
           id \in DOMAIN y.tasks /\ y.tasks[id].conn = c
  PROVE  ConnectionOK(x, z, c)
<1>1. /\ OneRead(x, z.ready, c) /\ OneAnswer(x, z.ready, c) /\ FewWrites(x, z.ready, c)
  BY ShiftedOK DEF ConnectionOK
<1>2. OwnDeadline(x, z, c)
  BY DEF ConnectionOK, OwnDeadline
<1>3. Fresh(x, y, c) => Fresh(x, z, c)
  BY DEF Fresh, Shifted, Is
<1> QED
  BY <1>1, <1>2, <1>3 DEF ConnectionOK

(* When the first handler is taken the others move up by one.              *)
LEMMA TailShifted ==
  ASSUME NEW q \in Seq(ReadyHandlers), q # <<>>
  PROVE  /\ Tail(q) \in Seq(ReadyHandlers)
         /\ Len(Tail(q)) = Len(q) - 1 /\ Len(q) \in Nat /\ Len(Tail(q)) \in Nat
         /\ Head(q) = q[1] /\ 1 \in 1 .. Len(q)
         /\ \A k \in 1 .. Len(Tail(q)) : k + 1 \in 1 .. Len(q) /\ Tail(q)[k] = q[k + 1]
         /\ \A c : Shifted(q, Tail(q), 1, c)
BY DEF Shifted

(* A handler that is about to run.                                         *)
Popped(s) ==
  [c |-> conn[Head(service[s].ready).conn],
   s |-> [service[s] EXCEPT !.ready = Tail(@)]]

(* A handler that runs is one of a connection of its io_service.           *)
LEMMA PoppedOK ==
  ASSUME IInv, NEW s \in Services, Running(s), Head(service[s].ready).kind # "tick"
  PROVE  LET e == Head(service[s].ready)
             q == service[s].ready
         IN /\ e \in ReadyHandlers /\ e.conn \in Conns /\ conn[e.conn] \in Connections
            /\ conn[e.conn].service = s /\ conn[e.conn].phase # "unborn"
            /\ ConnectionOK(conn[e.conn], service[s], e.conn)
            /\ Typed(Popped(s)) /\ Popped(s).c = conn[e.conn]
            /\ Popped(s).s.ready = Tail(q) /\ Popped(s).s.tasks = service[s].tasks
            /\ ConnectionOK(Popped(s).c, Popped(s).s, e.conn)
            /\ q \in Seq(ReadyHandlers) /\ q # <<>> /\ s \in Nat
<1> DEFINE e == Head(service[s].ready)
           q == service[s].ready
           y == [service[s] EXCEPT !.ready = Tail(@)]
<1>1. q \in Seq(ReadyHandlers) /\ q # <<>> /\ IsService(service[s]) /\ s \in Nat
  BY DEF IInv, Types, IsService, Running, Services
<1>2. e = q[1] /\ 1 \in 1 .. Len(q) /\ Tail(q) \in Seq(ReadyHandlers)
      /\ Len(Tail(q)) \in Nat /\ \A c : Shifted(q, Tail(q), 1, c)
  BY <1>1, TailShifted
<1>3. e.conn \in Conns /\ conn[e.conn].service = s
  BY <1>2 DEF IInv, Placed
<1>4. e \in ReadyHandlers /\ conn[e.conn] \in Connections
  BY <1>1, <1>2, <1>3 DEF IInv, Types
<1>5. conn[e.conn].phase # "unborn"
  BY <1>1, <1>3 DEF IInv, InOrder, NewConnection, Types, Services
<1>6. ConnectionOK(conn[e.conn], service[s], e.conn)
  BY <1>3, <1>5 DEF IInv
<1>7. IsService(y) /\ y.ready = Tail(q) /\ y.tasks = service[s].tasks
  <2>1. IsService([service[s] EXCEPT !.ready = Tail(q)])
    BY <1>1, <1>2, ServiceReady
  <2> QED
    BY <1>1, <2>1 DEF IsService
<1>8. ConnectionOK(conn[e.conn], y, e.conn)
  <2> HIDE DEF y, e, q
  <2>1. service[s].ready = q
    BY DEF q
  <2>2. /\ 1 \in {0, 1} /\ Len(y.ready) \in Nat
        /\ Shifted(service[s].ready, y.ready, 1, e.conn)
    BY <1>2, <1>7, <2>1
  <2>3. \A id \in DOMAIN y.tasks : y.tasks[id].conn = e.conn =>
          id \in DOMAIN service[s].tasks /\ service[s].tasks[id].conn = e.conn
    BY <1>7
  <2> QED
    BY <1>6, <2>2, <2>3, OtherOK
<1>9. Popped(s) = [c |-> conn[e.conn], s |-> y]
  BY DEF Popped
<1>10. Popped(s).c = conn[e.conn] /\ Popped(s).s = y /\ Typed(Popped(s))
  <2> HIDE DEF y, e, q
  <2> QED
    BY <1>4, <1>7, <1>9 DEF Typed
<1> QED
  BY <1>1, <1>3, <1>4, <1>5, <1>6, <1>7, <1>8, <1>10

(* A handler that keeps its own connection in order keeps all of them so.  *)
LEMMA HandlerStep ==
  ASSUME IInv, NEW s \in Services, Running(s), Head(service[s].ready).kind # "tick",
         NEW t, Good(t, Head(service[s].ready).conn), t.c.service = s,
         Extends(Tail(service[s].ready), t.s.ready, Head(service[s].ready).conn),
         \A id \in DOMAIN t.s.tasks :
           \/ t.s.tasks[id].conn = Head(service[s].ready).conn
           \/ id \in DOMAIN service[s].tasks /\ t.s.tasks[id] = service[s].tasks[id],
         conn' = [conn EXCEPT ![Head(service[s].ready).conn] = t.c],
         service' = [service EXCEPT ![s] = t.s],
         accepting # Head(service[s].ready).conn,
         UNCHANGED <<queue_length, main, accepting, inputs>>
  PROVE  IInv'
<1> DEFINE c == Head(service[s].ready).conn
           q == Tail(service[s].ready)
           r == t.s.ready
<1>1. /\ c \in Conns /\ conn[c].service = s /\ conn[c].phase # "unborn"
      /\ service[s].ready \in Seq(ReadyHandlers) /\ service[s].ready # <<>>
      /\ s \in Nat
  BY PoppedOK
<1>2. /\ Len(q) \in Nat
      /\ \A k \in 1 .. Len(q) : k + 1 \in 1 .. Len(service[s].ready) /\ q[k] = service[s].ready[k + 1]
  BY <1>1, TailShifted
<1>3. /\ r \in Seq(ReadyHandlers) /\ Len(r) \in Nat /\ IsService(t.s) /\ t.c \in Connections
      /\ t.c.phase = "started"
  BY DEF Good, Typed, IsService
<1>4. \A k \in 1 .. Len(r) :
        \/ /\ k + 1 \in 1 .. Len(service[s].ready)
           /\ r[k] = service[s].ready[k + 1]
        \/ r[k].conn = c /\ r[k].kind \in {"read", "written"}
  BY <1>2, <1>3 DEF Extends
<1>5. /\ service \in [Services -> {service[j] : j \in Services}] /\ Services' = Services
      /\ service'[s] = t.s /\ \A j \in Services : j # s => service'[j] = service[j]
  BY DEF IInv, Types, Services
<1>6. /\ conn \in [Conns -> Connections] /\ conn'[c] = t.c
      /\ \A d \in Conns : d # c => conn'[d] = conn[d]
      /\ \A d \in Conns : conn'[d].service = conn[d].service
  BY <1>1 DEF IInv, Types
<1> HIDE DEF c, q, r
<1>7. Types'
  <2>1. service' = [j \in Services' |-> service'[j]] /\ Len(service') \in Nat \ {0}
        /\ DOMAIN service' = 1 .. Len(service')
    <3>1. service \in Seq({service[j] : j \in Services}) /\ Len(service) \in Nat
      BY DEF IInv, Types, Services
    <3>2. service' = [j \in 1 .. Len(service) |-> IF j = s THEN t.s ELSE service[j]]
      BY DEF IInv, Types, Services
    <3>3. Len(service') = Len(service)
      BY <3>1, <3>2
    <3> QED
      BY <1>5, <3>2, <3>3 DEF IInv, Types, Services
  <2>2. \A j \in Services' : IsService(service'[j])
    BY <1>3, <1>5 DEF IInv, Types
  <2>3. conn' \in [Conns -> Connections]
    BY <1>1, <1>3, <1>6 DEF c
  <2> QED
    BY <1>5, <2>1, <2>2, <2>3 DEF IInv, Types
<1>8. Placed'
  <2> SUFFICES ASSUME NEW j \in Services'
               PROVE  /\ \A k \in 1 .. Len(service'[j].ready) :
                           \/ service'[j].ready[k].kind = "tick"
                           \/ /\ service'[j].ready[k].conn \in Conns
                              /\ conn'[service'[j].ready[k].conn].service = j
                      /\ \A id \in DOMAIN service'[j].tasks :
                           conn'[service'[j].tasks[id].conn].service = j
    BY Zenon DEF Placed
  <2>1. CASE j # s
    <3>1. \A id \in DOMAIN service[j].tasks : service[j].tasks[id].conn \in Conns
      <4>1. IsService(service[j])
        BY <1>5 DEF IInv, Types
      <4> QED
        BY <4>1 DEF IsService
    <3> QED
      BY <1>5, <1>6, <2>1, <3>1 DEF IInv, Placed
  <2>2. CASE j = s
    <3>1. \A k \in 1 .. Len(r) :
            \/ r[k].kind = "tick"
            \/ r[k].conn \in Conns /\ conn'[r[k].conn].service = s
      <4>1. \A k \in 1 .. Len(service[s].ready) :
              \/ service[s].ready[k].kind = "tick"
              \/ /\ service[s].ready[k].conn \in Conns
                 /\ conn[service[s].ready[k].conn].service = s
        BY DEF IInv, Placed
      <4> QED
        BY <1>1, <1>4, <1>6, <4>1
    <3>2. \A id \in DOMAIN t.s.tasks : conn'[t.s.tasks[id].conn].service = s
      <4>1. \A id \in DOMAIN service[s].tasks : conn[service[s].tasks[id].conn].service = s
        BY DEF IInv, Placed
      <4>2. \A id \in DOMAIN t.s.tasks : t.s.tasks[id].conn \in Conns
        BY <1>3 DEF IsService
      <4> QED
        BY <1>1, <1>6, <4>1, <4>2 DEF c
    <3> QED
      BY <1>5, <2>2, <3>1, <3>2 DEF r
  <2> QED
    BY <2>1, <2>2, Zenon
<1>9. InOrder'
  <2>1. \A d \in Conns :
          IF conn'[d].phase = "unborn" THEN conn'[d] = NewConnection("unborn", 0)
                                       ELSE conn'[d].service \in Services'
    BY <1>1, <1>3, <1>5, <1>6 DEF IInv, InOrder, c
  <2>2. main # "initialising"
    BY <1>1 DEF IInv, InOrder, c
  <2>3. ASSUME accepting # 0
        PROVE  /\ conn'[accepting].phase = "accepting"
               /\ \A j \in Services' : \A k \in 1 .. Len(service'[j].ready) :
                    ~Is(service'[j].ready[k], accepting, "start")
               /\ queue_length[conn'[accepting].service] > 0
               /\ \A d \in Conns : d > accepting => conn'[d].phase = "unborn"
    <3>1. accepting \in Conns /\ accepting # c
      BY <2>3 DEF IInv, Types, c
    <3>2. \A k \in 1 .. Len(r) : ~Is(r[k], accepting, "start")
      BY <1>4, <2>3 DEF IInv, InOrder, Is
    <3>3. \A j \in Services' : \A k \in 1 .. Len(service'[j].ready) :
            ~Is(service'[j].ready[k], accepting, "start")
      BY <1>5, <2>3, <3>2 DEF IInv, InOrder, r
    <3>4. ~(c > accepting)
      BY <1>1, <2>3 DEF IInv, InOrder, c
    <3> QED
      BY <1>6, <2>3, <3>1, <3>3, <3>4 DEF IInv, InOrder
  <2> QED
    BY <2>1, <2>2, <2>3 DEF InOrder
<1>10. ASSUME NEW d \in Conns, conn'[d].phase # "unborn"
       PROVE  ConnectionOK(conn'[d], service'[conn'[d].service], d)
  <2>1. CASE d = c
    <3>1. conn'[d] = t.c /\ service'[conn'[d].service] = t.s
      BY <1>5, <1>6, <2>1
    <3> QED
      BY <1>3, <2>1, <3>1, Zenon DEF Good, ConnectionOK, c
  <2>2. CASE d # c /\ conn[d].service # s
    <3>1. conn'[d] = conn[d] /\ conn[d].service \in Services
      BY <1>6, <1>10, <2>2 DEF IInv, InOrder
    <3> QED
      BY <1>5, <1>10, <2>2, <3>1 DEF IInv
  <2>3. CASE d # c /\ conn[d].service = s
    <3>1. conn'[d] = conn[d] /\ ConnectionOK(conn[d], service[s], d)
      BY <1>6, <1>10, <2>3 DEF IInv
    <3>2. Shifted(service[s].ready, t.s.ready, 1, d)
      BY <1>4, <2>3 DEF Shifted, r
    <3>3. 1 \in {0, 1} /\ Len(t.s.ready) \in Nat
      BY <1>3 DEF r
    <3>4. \A id \in DOMAIN t.s.tasks : t.s.tasks[id].conn = d =>
            id \in DOMAIN service[s].tasks /\ service[s].tasks[id].conn = d
      BY <2>3 DEF c
    <3>5. ConnectionOK(conn[d], t.s, d)
      BY <3>1, <3>2, <3>3, <3>4, OtherOK
    <3> QED
      BY <1>5, <2>3, <3>1, <3>5
  <2> QED
    BY <2>1, <2>2, <2>3
<1> QED
  BY <1>7, <1>8, <1>9, <1>10 DEF IInv

(* Nothing has been read or is to be answered of a connection that has not *)
(* started.                                                                *)
LEMMA StartedFirst ==
  ASSUME IInv, NEW s \in Services, Running(s),
         Head(service[s].ready).kind \in {"read", "written", "end"}
  PROVE  Good(Popped(s), Head(service[s].ready).conn)
<1> DEFINE e == Head(service[s].ready)
           q == service[s].ready
           c == e.conn
<1>1. /\ ConnectionOK(conn[c], service[s], c) /\ conn[c] \in Connections
      /\ Typed(Popped(s)) /\ Popped(s).c = conn[c] /\ ConnectionOK(Popped(s).c, Popped(s).s, c)
      /\ q \in Seq(ReadyHandlers) /\ q # <<>>
  BY PoppedOK
<1>2. e = q[1] /\ 1 \in 1 .. Len(q)
  BY <1>1, TailShifted
<1> HIDE DEF q
<1>3. conn[c].phase = "started"
  <2> SUFFICES ASSUME conn[c].phase # "started" PROVE FALSE
    OBVIOUS
  <2>1. Fresh(conn[c], service[s], c)
    BY <1>1, Zenon DEF ConnectionOK
  <2>2. conn[c].parser = "clear" /\ ~conn[c].pending /\ conn[c].writing = 0 /\ ~conn[c].continuing
    BY <2>1 DEF Fresh, NewConnection
  <2>3. CASE e.kind = "read"
    BY <1>2, <2>1, <2>3 DEF Fresh, Is, q
  <2>4. CASE e.kind = "end"
    BY <1>1, <1>2, <2>2, <2>4, Zenon DEF ConnectionOK, OneAnswer, Is, q
  <2>5. CASE e.kind = "written"
    <3>1. Writes(conn[c], q, c, 0)
      BY <1>1, <2>2, Zenon DEF ConnectionOK, FewWrites, Continued, q
    <3> QED
      BY <1>2, <2>2, <2>5, <3>1 DEF Writes, Is
  <2> QED
    BY <2>3, <2>4, <2>5
<1> QED
  BY <1>1, <1>3, Zenon DEF Good, ConnectionOK

(* No handler runs for the connection a client is awaited for.             *)
LEMMA NotAccepting ==
  ASSUME IInv, NEW s \in Services, Running(s), Head(service[s].ready).kind # "tick",
         \/ Head(service[s].ready).kind = "start"
         \/ conn[Head(service[s].ready).conn].phase = "started"
  PROVE  accepting # Head(service[s].ready).conn
<1> DEFINE e == Head(service[s].ready)
           q == service[s].ready
<1>1. e.conn \in Conns /\ q \in Seq(ReadyHandlers) /\ q # <<>>
  BY PoppedOK
<1>2. e = q[1] /\ 1 \in 1 .. Len(q)
  BY <1>1, TailShifted
<1>3. SUFFICES ASSUME accepting = e.conn PROVE FALSE
  OBVIOUS
<1>4. accepting # 0
  BY <1>1, <1>3, ServerAssumption
<1>5. conn[accepting].phase = "accepting" /\ ~Is(q[1], accepting, "start")
  BY <1>2, <1>4 DEF IInv, InOrder
<1> QED
  BY <1>2, <1>3, <1>5 DEF Is

(* A read that has ended keeps the invariant.                              *)
LEMMA ReadStep ==
  ASSUME IInv, NEW s \in Services, HasRead(s)
  PROVE  IInv'
<1> DEFINE e == Head(service[s].ready)
           q == service[s].ready
           c == e.conn
           x == conn[c]
           st == Popped(s)
           t == ReadCallback(st, c, e.data)
<1>1. /\ Running(s) /\ e.kind = "read"
      /\ conn' = [conn EXCEPT ![c] = t.c] /\ service' = [service EXCEPT ![s] = t.s]
      /\ UNCHANGED <<queue_length, main, accepting, inputs>>
  BY DEF HasRead, Runs, Popped
<1>2. /\ e \in ReadyHandlers /\ c \in Conns /\ x.service = s
      /\ ConnectionOK(x, service[s], c)
      /\ st.c = x /\ st.s.ready = Tail(q) /\ st.s.tasks = service[s].tasks
      /\ q \in Seq(ReadyHandlers) /\ q # <<>>
  BY <1>1, PoppedOK
<1>3. e.data \in Data /\ e.data.what \notin {"none", "written"}
  BY <1>1, <1>2 DEF ReadyHandlers
<1>4. Good(st, c)
  BY <1>1, StartedFirst
<1>5. /\ e = q[1] /\ 1 \in 1 .. Len(q) /\ Len(Tail(q)) \in Nat
      /\ \A k \in 1 .. Len(Tail(q)) : k + 1 \in 1 .. Len(q) /\ Tail(q)[k] = q[k + 1]
  BY <1>2, TailShifted
<1> HIDE DEF q, st, t
<1>6. /\ x.reading = 0 /\ ~x.resume /\ ~x.pending /\ x.parser # "failed"
      /\ \A j \in 1 .. Len(q) : Reads(q[j], c) => j = 1
      /\ e.data.what \in {"headers", "expect"} => x.parser \in {"clear", "head"}
  <2>1. Is(q[1], c, "read") /\ Reads(q[1], c)
    BY <1>1, <1>5 DEF Is, Reads
  <2>2. OneRead(x, q, c)
    BY <1>2, Zenon DEF ConnectionOK, q
  <2> QED
    BY <1>5, <2>1, <2>2, Zenon DEF OneRead
<1>7. Idle(st, c)
  <2>1. \A k \in 1 .. Len(Tail(q)) : ~Reads(Tail(q)[k], c)
    <3> TAKE k \in 1 .. Len(Tail(q))
    <3>1. k + 1 \in 1 .. Len(q) /\ Tail(q)[k] = q[k + 1] /\ k + 1 # 1
      BY <1>5
    <3> QED
      BY <1>6, <3>1
  <2> QED
    BY <1>2, <1>6, <2>1 DEF Idle
<1>8. x.parser = "clear" => Writes(st.c, st.s.ready, c, 0)
  <2> SUFFICES ASSUME x.parser = "clear" PROVE Writes(x, Tail(q), c, 0)
    BY <1>2
  <2>1. CASE ~x.continuing
    BY <1>2, <1>4, <2>1, Zenon DEF Good, FewWrites, Continued
  <2>2. CASE x.continuing
    <3>1. /\ x.writing = 0
          /\ \A j, k \in 1 .. Len(q) : Is(q[j], c, "read") /\ Is(q[k], c, "written") => k < j
      BY <1>2, <2>2, Zenon DEF ConnectionOK, FewWrites, q
    <3>2. Is(q[1], c, "read")
      BY <1>1, <1>5 DEF Is
    <3>3. \A k \in 1 .. Len(q) : ~Is(q[k], c, "written")
      BY <1>5, <3>1, <3>2
    <3> QED
      BY <1>5, <3>1, <3>3 DEF Writes
  <2> QED
    BY <2>1, <2>2
<1>9. Good(t, c) /\ Others(st, t, c)
  BY <1>2, <1>3, <1>4, <1>6, <1>7, <1>8, ReadCallbackGood, Zenon DEF t
<1>10. accepting # c
  BY <1>1, <1>2, <1>4, NotAccepting, Zenon DEF Good
<1>11. /\ Extends(Tail(q), t.s.ready, c)
       /\ \A id \in DOMAIN t.s.tasks :
            \/ t.s.tasks[id].conn = c
            \/ id \in DOMAIN service[s].tasks /\ t.s.tasks[id] = service[s].tasks[id]
       /\ t.c.service = s
  BY <1>2, <1>9 DEF Others
<1> QED
  BY <1>1, <1>9, <1>10, <1>11, HandlerStep DEF q

(* A write that has ended keeps the invariant, and half-read requests.     *)
LEMMA WrittenStep ==
  ASSUME IInv, NEW s \in Services, HasWritten(s)
  PROVE  /\ IInv'
         /\ \A d \in Conns :
              conn[d].parser \in {"head", "half"} => conn'[d].parser = conn[d].parser
<1> DEFINE e == Head(service[s].ready)
           q == service[s].ready
           c == e.conn
           x == conn[c]
           st == Popped(s)
           t == WriteCallback(st, c, e.data)
<1>1. /\ Running(s) /\ e.kind = "written"
      /\ conn' = [conn EXCEPT ![c] = t.c] /\ service' = [service EXCEPT ![s] = t.s]
      /\ UNCHANGED <<queue_length, main, accepting, inputs>>
  BY DEF HasWritten, Runs, Popped
<1>2. /\ e \in ReadyHandlers /\ c \in Conns /\ x \in Connections /\ x.service = s
      /\ ConnectionOK(x, service[s], c)
      /\ st.c = x /\ st.s.ready = Tail(q) /\ st.s.tasks = service[s].tasks
      /\ q \in Seq(ReadyHandlers) /\ q # <<>>
  BY <1>1, PoppedOK
<1>3. Good(st, c)
  BY <1>1, StartedFirst
<1>4. /\ e = q[1] /\ 1 \in 1 .. Len(q) /\ Len(Tail(q)) \in Nat
      /\ \A k \in 1 .. Len(Tail(q)) : k + 1 \in 1 .. Len(q) /\ Tail(q)[k] = q[k + 1]
  BY <1>2, TailShifted
<1> HIDE DEF q, st, t
<1>5. Is(q[1], c, "written") /\ FewWrites(x, q, c) /\ x.writing \in Nat
  BY <1>1, <1>2, <1>4, Zenon DEF Is, ConnectionOK, q, Connections
<1>6. \A k \in 1 .. Len(Tail(q)) : Is(Tail(q)[k], c, "written") =>
        k + 1 \in 1 .. Len(q) /\ Is(q[k + 1], c, "written") /\ k + 1 # 1
  BY <1>4
<1>7. ~Writes(x, q, c, 0)
  BY <1>4, <1>5 DEF Writes
<1>8. Writes(x, q, c, 1) => Writes(x, Tail(q), c, 0)
  <2> SUFFICES ASSUME Writes(x, q, c, 1) PROVE Writes(x, Tail(q), c, 0)
    OBVIOUS
  <2>1. x.writing = 0
    <3>1. x.writing <= 1
      BY DEF Writes
    <3>2. x.writing # 1
      BY <1>4, <1>5 DEF Writes
    <3> QED
      BY <1>5, <3>1, <3>2
  <2>2. \A k \in 1 .. Len(q) : Is(q[k], c, "written") => k = 1
    <3>1. x.writing + 1 = 1
      BY <2>1
    <3> QED
      BY <1>4, <1>5, <3>1 DEF Writes
  <2>3. \A k \in 1 .. Len(Tail(q)) : ~Is(Tail(q)[k], c, "written")
    BY <1>6, <2>2
  <2> QED
    BY <2>1, <2>3 DEF Writes
<1>9. Writes(x, q, c, 2) => Writes(x, Tail(q), c, 1)
  <2> SUFFICES ASSUME Writes(x, q, c, 2) PROVE Writes(x, Tail(q), c, 1)
    OBVIOUS
  <2>1. CASE x.writing = 0
    <3>1. \A j, k \in 1 .. Len(Tail(q)) :
            Is(Tail(q)[j], c, "written") /\ Is(Tail(q)[k], c, "written") => j = k
      <4> TAKE j, k \in 1 .. Len(Tail(q))
      <4> HAVE Is(Tail(q)[j], c, "written") /\ Is(Tail(q)[k], c, "written")
      <4>1. /\ j + 1 \in 1 .. Len(q) /\ Is(q[j + 1], c, "written") /\ j + 1 # 1
            /\ k + 1 \in 1 .. Len(q) /\ Is(q[k + 1], c, "written") /\ k + 1 # 1
        BY <1>6
      <4>2. 1 = j + 1 \/ j + 1 = k + 1 \/ 1 = k + 1
        BY <1>4, <1>5, <2>1, <4>1 DEF Writes
      <4> QED
        BY <4>1, <4>2
    <3> QED
      BY <2>1, <3>1 DEF Writes
  <2>2. CASE x.writing = 1
    <3>1. \A k \in 1 .. Len(q) : Is(q[k], c, "written") => k = 1
      BY <1>4, <1>5, <2>2 DEF Writes
    <3>2. \A k \in 1 .. Len(Tail(q)) : ~Is(Tail(q)[k], c, "written")
      BY <1>6, <3>1
    <3>3. x.writing <= 1 /\ x.writing + 1 # 1 /\ x.writing + 2 # 1
      BY <2>2
    <3> QED
      BY <3>2, <3>3, Zenon DEF Writes
  <2>3. x.writing # 2 /\ x.writing <= 2
    BY <1>4, <1>5 DEF Writes
  <2>4. x.writing = 0 \/ x.writing = 1
    BY <1>5, <2>3
  <2> QED
    BY <2>1, <2>2, <2>4
<1>10. x.parser \in {"clear", "half"} \/ x.pending
         => x.continuing /\ Writes(x, Tail(q), c, 0)
  BY <1>5, <1>7, <1>8 DEF FewWrites, Continued
<1>16. x.parser # "head"
  BY <1>5, <1>7 DEF FewWrites
<1>11. x.parser = "complete" => Writes(x, Tail(q), c, Continued(x))
  <2>1. CASE x.continuing
    <3>1. Continued(x) = 1 /\ Continued(x) + 1 = 2
      BY <2>1 DEF Continued
    <3> QED
      BY <1>5, <1>9, <3>1 DEF FewWrites
  <2>2. CASE ~x.continuing
    <3>1. Continued(x) = 0 /\ Continued(x) + 1 = 1
      BY <2>2 DEF Continued
    <3> QED
      BY <1>5, <1>8, <3>1 DEF FewWrites
  <2> QED
    BY <2>1, <2>2
<1>12. LET u == WriteCallback(st, c, e.data) IN
       /\ Good(u, c) /\ Others(st, u, c)
       /\ st.c.parser = "half" => u.c.parser = "half"
  <2>1. Good(st, c) /\ st.c.parser # "head"
    BY <1>2, <1>3, <1>16
  <2>2. st.c.parser \in {"clear", "half"} \/ st.c.pending
          => st.c.continuing /\ Writes(st.c, st.s.ready, c, 0)
    BY <1>2, <1>10
  <2>3. st.c.parser = "complete" => Writes(st.c, st.s.ready, c, Continued(st.c))
    BY <1>2, <1>11
  <2> HIDE DEF st
  <2> QED
    BY <1>2, <2>1, <2>2, <2>3, WriteCallbackGood, Zenon
<1>13. accepting # c
  BY <1>1, <1>2, <1>3, NotAccepting, Zenon DEF Good
<1>14. IInv'
  <2>1. /\ Extends(Tail(q), t.s.ready, c)
        /\ \A id \in DOMAIN t.s.tasks :
             \/ t.s.tasks[id].conn = c
             \/ id \in DOMAIN service[s].tasks /\ t.s.tasks[id] = service[s].tasks[id]
        /\ t.c.service = s /\ Good(t, c)
    BY <1>2, <1>12, Zenon DEF Others, t
  <2> QED
    BY <1>1, <1>13, <2>1, HandlerStep DEF q
<1>15. ASSUME NEW d \in Conns, conn[d].parser \in {"head", "half"}
       PROVE  conn'[d].parser = conn[d].parser
  <2>1. CASE d = c
    <3>1. x.parser = "half"
      BY <1>15, <1>16, <2>1
    <3>2. st.c.parser = "half" => t.c.parser = "half"
      BY <1>12, Zenon DEF t
    <3>3. conn'[c] = t.c
      <4>1. conn' = [conn EXCEPT ![c] = t.c] /\ c \in Conns
        BY <1>1, <1>2
      <4>2. conn \in [Conns -> Connections]
        BY DEF IInv, Types
      <4> QED
        BY <4>1, <4>2
    <3> QED
      BY <1>2, <2>1, <3>1, <3>2, <3>3
  <2>2. CASE d # c
    BY <1>1, <2>2, Zenon DEF IInv, Types
  <2> QED
    BY <2>1, <2>2
<1> QED
  BY <1>14, <1>15

(* An answer that comes later keeps the invariant.                         *)
LEMMA CompletedStep ==
  ASSUME IInv, NEW s \in Services, CompletedLater(s)
  PROVE  IInv'
<1> DEFINE e == Head(service[s].ready)
           q == service[s].ready
           c == e.conn
           x == conn[c]
           st == Popped(s)
           t == CompleteRequest(st, c, e.data)
<1>1. /\ Running(s) /\ e.kind = "end"
      /\ conn' = [conn EXCEPT ![c] = t.c] /\ service' = [service EXCEPT ![s] = t.s]
      /\ UNCHANGED <<queue_length, main, accepting, inputs>>
  BY DEF CompletedLater, Runs, Popped
<1>2. /\ e \in ReadyHandlers /\ c \in Conns /\ x \in Connections /\ x.service = s
      /\ ConnectionOK(x, service[s], c)
      /\ st.c = x /\ st.s.ready = Tail(q) /\ st.s.tasks = service[s].tasks
      /\ q \in Seq(ReadyHandlers) /\ q # <<>>
  BY <1>1, PoppedOK
<1>3. Good(st, c)
  BY <1>1, StartedFirst
<1>4. /\ e = q[1] /\ 1 \in 1 .. Len(q) /\ Len(Tail(q)) \in Nat
      /\ \A k \in 1 .. Len(Tail(q)) : k + 1 \in 1 .. Len(q) /\ Tail(q)[k] = q[k + 1]
  BY <1>2, TailShifted
<1> HIDE DEF q, st, t
<1>5. /\ Is(q[1], c, "end") /\ OneAnswer(x, q, c) /\ OneRead(x, q, c)
      /\ FewWrites(x, q, c) /\ x.reading \in Nat
  BY <1>1, <1>2, <1>4, Zenon DEF Is, ConnectionOK, q, Connections
<1>6. /\ x.pending /\ x.parser = "complete"
      /\ \A j \in 1 .. Len(q) : Is(q[j], c, "end") => j = 1
  BY <1>4, <1>5, Zenon DEF OneAnswer
<1>7. \A k \in 1 .. Len(Tail(q)) : ~Is(Tail(q)[k], c, "end")
  <2> TAKE k \in 1 .. Len(Tail(q))
  <2>1. k + 1 \in 1 .. Len(q) /\ Tail(q)[k] = q[k + 1] /\ k + 1 # 1
    BY <1>4
  <2> QED
    BY <1>6, <2>1
<1>8. Idle(st, c)
  <2>1. x.reading = 0 /\ \A k \in 1 .. Len(q) : ~Reads(q[k], c)
    BY <1>5, <1>6, Zenon DEF OneRead
  <2>2. \A k \in 1 .. Len(Tail(q)) : ~Reads(Tail(q)[k], c)
    BY <1>4, <2>1
  <2> QED
    BY <1>2, <2>1, <2>2 DEF Idle
<1>9. Writes(st.c, st.s.ready, c, Continued(st.c)) /\ st.c.parser = "complete"
  BY <1>2, <1>3, <1>6, Zenon DEF Good, FewWrites
<1>10. Good(t, c) /\ Others(st, t, c)
  BY <1>2, <1>3, <1>7, <1>8, <1>9, CompleteRequestGood, Zenon DEF t
<1>11. accepting # c
  BY <1>1, <1>2, <1>3, NotAccepting, Zenon DEF Good
<1>12. /\ Extends(Tail(q), t.s.ready, c)
       /\ \A id \in DOMAIN t.s.tasks :
            \/ t.s.tasks[id].conn = c
            \/ id \in DOMAIN service[s].tasks /\ t.s.tasks[id] = service[s].tasks[id]
       /\ t.c.service = s
  BY <1>2, <1>10 DEF Others
<1> QED
  BY <1>1, <1>10, <1>11, <1>12, HandlerStep DEF q

(* Connection::start keeps the invariant.                                  *)
LEMMA StartedStep ==
  ASSUME IInv, NEW s \in Services, Started(s)
  PROVE  IInv'
<1> DEFINE e == Head(service[s].ready)
           q == service[s].ready
           c == e.conn
           x == conn[c]
           st == Popped(s)
           t == Start(st, c, e.data)
<1>1. /\ Running(s) /\ e.kind = "start"
      /\ conn' = [conn EXCEPT ![c] = t.c] /\ service' = [service EXCEPT ![s] = t.s]
      /\ UNCHANGED <<queue_length, main, accepting, inputs>>
  BY DEF Started, Runs, Popped
<1>2. /\ e \in ReadyHandlers /\ c \in Conns /\ x \in Connections /\ x.service = s
      /\ ConnectionOK(x, service[s], c) /\ s \in Nat /\ Typed(st)
      /\ st.c = x /\ st.s.ready = Tail(q) /\ st.s.tasks = service[s].tasks
      /\ q \in Seq(ReadyHandlers) /\ q # <<>>
  BY <1>1, PoppedOK
<1>3. /\ e = q[1] /\ 1 \in 1 .. Len(q) /\ Len(Tail(q)) \in Nat
      /\ Tail(q) \in Seq(ReadyHandlers)
      /\ \A k \in 1 .. Len(Tail(q)) : k + 1 \in 1 .. Len(q) /\ Tail(q)[k] = q[k + 1]
  BY <1>2, TailShifted
<1> HIDE DEF q, st, t
<1>4. Is(q[1], c, "start") /\ Reads(q[1], c)
  BY <1>1, <1>3 DEF Is, Reads
<1>5. /\ x.phase = "accepting"
      /\ \A j \in 1 .. Len(q) : Reads(q[j], c) => j = 1
  <2>1. OneRead(x, q, c)
    BY <1>2, Zenon DEF ConnectionOK, q
  <2> QED
    BY <1>3, <1>4, <2>1 DEF OneRead
<1>6. Fresh(x, service[s], c)
  BY <1>2, <1>5, Zenon DEF ConnectionOK
<1>7. x = NewConnection("accepting", s) /\ Untimed(st, c)
  BY <1>2, <1>5, <1>6 DEF Fresh, Untimed
<1>8. \A k \in 1 .. Len(q) : ~Is(q[k], c, "end") /\ ~Is(q[k], c, "written")
  <2>1. ~x.pending /\ x.parser = "clear" /\ x.writing = 0 /\ ~x.continuing
    BY <1>7 DEF NewConnection
  <2>2. OneAnswer(x, q, c) /\ Writes(x, q, c, 0)
    BY <1>2, <2>1, Zenon DEF ConnectionOK, FewWrites, Continued, q
  <2> QED
    BY <2>1, <2>2 DEF OneAnswer, Writes
<1>9. \A k \in 1 .. Len(st.s.ready) : st.s.ready[k].kind = "tick" \/ st.s.ready[k].conn # c
  <2> SUFFICES ASSUME NEW k \in 1 .. Len(Tail(q)), Tail(q)[k].conn = c
               PROVE  Tail(q)[k].kind = "tick"
    BY <1>2
  <2>1. k + 1 \in 1 .. Len(q) /\ Tail(q)[k] = q[k + 1] /\ k + 1 # 1
    BY <1>3
  <2>2. ~Reads(Tail(q)[k], c) /\ ~Is(Tail(q)[k], c, "end") /\ ~Is(Tail(q)[k], c, "written")
    BY <1>5, <1>8, <2>1
  <2>3. Tail(q)[k] \in ReadyHandlers
    BY <1>3
  <2>4. Tail(q)[k].kind \in {"start", "read", "written", "end", "tick"}
    BY <2>3 DEF ReadyHandlers
  <2> QED
    BY <2>2, <2>4 DEF Reads, Is
<1> DEFINE y == [st EXCEPT !.c.phase = "started"]
<1>10. Good(t, c) /\ t.c.service = s /\ Others(y, t, c)
  <2>1. Typed(st) /\ c \in Conns /\ st.c = NewConnection("accepting", s) /\ s \in Nat
        /\ Untimed(st, c)
    BY <1>2, <1>7
  <2> QED
    BY <1>9, <2>1, StartGood, Zenon DEF t, y
<1>13. y.s.ready = Tail(q) /\ y.s.tasks = service[s].tasks
  BY <1>2 DEF Typed
<1> HIDE DEF y
<1>11. /\ Extends(Tail(q), t.s.ready, c)
       /\ \A id \in DOMAIN t.s.tasks :
            \/ t.s.tasks[id].conn = c
            \/ id \in DOMAIN service[s].tasks /\ t.s.tasks[id] = service[s].tasks[id]
  <2>1. /\ Extends(y.s.ready, t.s.ready, c)
        /\ \A id \in DOMAIN t.s.tasks :
             \/ t.s.tasks[id].conn = c
             \/ id \in DOMAIN y.s.tasks /\ t.s.tasks[id] = y.s.tasks[id]
    BY <1>10, Zenon DEF Others
  <2> QED
    BY <1>13, <2>1
<1>12. accepting # c
  BY <1>1, <1>2, NotAccepting
<1> QED
  BY <1>1, <1>10, <1>11, <1>12, HandlerStep DEF q
-----------------------------------------------------------------------------
(* The tick.                                                               *)

(* The deadlines that are due end finitely many operations.                *)
LEMMA EndedFinite ==
  ASSUME IInv, NEW s \in Services, NEW due \in SUBSET DOMAIN service[s].tasks
  PROVE  IsFiniteSet(Ended(s, due))
<1> DEFINE f == [id \in due |-> {id} \X Waiting(service[s].tasks[id].conn)]
           S == {{id} \X Waiting(service[s].tasks[id].conn) : id \in due}
<1>1. IsService(service[s])
  BY DEF IInv, Types
<1>2. IsFiniteSet(due)
  <2>1. due \in SUBSET (1 .. service[s].highest) /\ service[s].highest \in Nat
    BY <1>1 DEF IsService
  <2>2. 1 \in Int /\ service[s].highest \in Int
    BY <2>1
  <2>3. IsFiniteSet(1 .. service[s].highest)
    BY <2>2, FS_Interval
  <2> QED
    BY <2>1, <2>3, FS_Subset
<1>3. IsFiniteSet(S)
  <2>1. f \in Surjection(due, S)
    BY DEF Surjection
  <2> HIDE DEF f, S
  <2> QED
    BY <1>2, <2>1, FS_Surjection DEF ExistsSurjection
<1>4. ASSUME NEW id \in due
      PROVE  IsFiniteSet({id} \X Waiting(service[s].tasks[id].conn))
  <2> DEFINE d == service[s].tasks[id].conn
  <2>1. d \in Conns
    BY <1>1 DEF IsService
  <2>2. conn[d].reading \in Nat /\ conn[d].writing \in Nat
    BY <2>1 DEF IInv, Types, Connections
  <2> HIDE DEF d
  <2>3. IsFiniteSet(1 .. conn[d].reading) /\ IsFiniteSet(1 .. conn[d].writing)
    <3>1. 1 \in Int /\ conn[d].reading \in Int /\ conn[d].writing \in Int
      BY <2>2
    <3> QED
      BY <3>1, FS_Interval
  <2>4. IsFiniteSet({"read"}) /\ IsFiniteSet({"written"}) /\ IsFiniteSet({id})
    BY FS_Singleton
  <2>5. /\ IsFiniteSet({"read"} \X (1 .. conn[d].reading))
        /\ IsFiniteSet({"written"} \X (1 .. conn[d].writing))
    BY <2>3, <2>4, FS_Product
  <2>6. IsFiniteSet(Waiting(d))
    BY <2>5, FS_Union DEF Waiting
  <2> QED
    BY <2>4, <2>6, FS_Product DEF d
<1>5. IsFiniteSet(UNION S)
  BY <1>3, <1>4, FS_UNION
<1> QED
  BY <1>5 DEF Ended

(* What ends when the tasks of due close their connections.                *)
EndedIn(s, due, q, a) ==
  /\ a \in Seq(ReadyHandlers) /\ Len(a) \in Nat
  /\ \A k \in 1 .. Len(a) :
       \E id \in due, kind \in {"read", "written"} : \E n \in Nat :
         LET c == service[s].tasks[id].conn IN
         /\ q[k] = <<id, <<kind, n>>>> /\ c \in Conns
         /\ n \in 1 .. IF kind = "read" THEN conn[c].reading ELSE conn[c].writing
         /\ a[k] = Event(kind, c, Only("aborted"))
  /\ \A j, k \in 1 .. Len(a) : q[j] = q[k] => j = k

(* Each operation that is ended is so once, in the order of EndsFirst.     *)
LEMMA AbortedProperties ==
  ASSUME IInv, NEW s \in Services, NEW due \in SUBSET DOMAIN service[s].tasks,
         NEW q \in SetToSeqs(Ended(s, due))
  PROVE  EndedIn(s, due, q, Aborted(s, q))
<1> DEFINE n == Cardinality(Ended(s, due))
           a == Aborted(s, q)
<1>1. n \in Nat
  BY EndedFinite, FS_CardinalityType
<1>2. q \in [1 .. n -> Ended(s, due)] /\ \A j, k \in 1 .. n : q[j] = q[k] => j = k
  BY DEF SetToSeqs
<1> HIDE DEF n
<1>3. IsService(service[s])
  BY DEF IInv, Types
<1>4. ASSUME NEW w \in Ended(s, due)
      PROVE  \E id \in due, kind \in {"read", "written"} : \E m \in Nat :
               LET c == service[s].tasks[id].conn IN
               /\ w = <<id, <<kind, m>>>> /\ c \in Conns
               /\ m \in 1 .. IF kind = "read" THEN conn[c].reading ELSE conn[c].writing
  <2>1. PICK id \in due : w \in {id} \X Waiting(service[s].tasks[id].conn)
    BY DEF Ended
  <2> DEFINE c == service[s].tasks[id].conn
  <2>2. c \in Conns
    BY <1>3 DEF IsService
  <2>3. PICK v \in Waiting(c) : w = <<id, v>>
    BY <2>1
  <2>4. CASE v \in {"read"} \X (1 .. conn[c].reading)
    <3>1. PICK m \in 1 .. conn[c].reading : v = <<"read", m>>
      BY <2>4
    <3> QED
      BY <2>2, <2>3, <3>1
  <2>5. CASE v \in {"written"} \X (1 .. conn[c].writing)
    <3>1. PICK m \in 1 .. conn[c].writing : v = <<"written", m>>
      BY <2>5
    <3> QED
      BY <2>2, <2>3, <3>1
  <2> QED
    BY <2>3, <2>4, <2>5, Zenon DEF Waiting
<1>5. /\ DOMAIN a = 1 .. n
      /\ \A k \in 1 .. n :
           a[k] = Event(q[k][2][1], service[s].tasks[q[k][1]].conn, Only("aborted"))
      /\ a = [k \in 1 .. n |-> a[k]]
  BY <1>2 DEF Aborted
<1> HIDE DEF a
<1>6. ASSUME NEW k \in 1 .. n
      PROVE  \E id \in due, kind \in {"read", "written"} : \E m \in Nat :
               LET c == service[s].tasks[id].conn IN
               /\ q[k] = <<id, <<kind, m>>>> /\ c \in Conns
               /\ m \in 1 .. IF kind = "read" THEN conn[c].reading ELSE conn[c].writing
               /\ a[k] = Event(kind, c, Only("aborted"))
  <2>1. q[k] \in Ended(s, due)
    BY <1>2
  <2>2. PICK id \in due, kind \in {"read", "written"} : \E m \in Nat :
               LET c == service[s].tasks[id].conn IN
               /\ q[k] = <<id, <<kind, m>>>> /\ c \in Conns
               /\ m \in 1 .. IF kind = "read" THEN conn[c].reading ELSE conn[c].writing
    BY <1>4, <2>1
  <2>3. PICK m \in Nat :
               LET c == service[s].tasks[id].conn IN
               /\ q[k] = <<id, <<kind, m>>>> /\ c \in Conns
               /\ m \in 1 .. IF kind = "read" THEN conn[c].reading ELSE conn[c].writing
    BY <2>2
  <2>4. q[k][1] = id /\ q[k][2][1] = kind
    BY <2>3
  <2> QED
    BY <1>5, <2>3, <2>4
<1>7. \A k \in 1 .. n : a[k] \in ReadyHandlers
  <2> TAKE k \in 1 .. n
  <2>1. \E kind \in {"read", "written"}, c \in Conns : a[k] = Event(kind, c, Only("aborted"))
    BY <1>6
  <2> QED
    BY <2>1, EventType
<1>8. a \in Seq(ReadyHandlers) /\ Len(a) = n
  BY <1>1, <1>5, <1>7
<1> QED
  BY <1>1, <1>2, <1>6, <1>8 DEF a, EndedIn

(* tick_handler keeps the connections in order: what it ends is what its   *)
(* tasks close.                                                            *)
LEMMA TickStep ==
  ASSUME IInv, NEW s \in Services, Tick(s)
  PROVE  IInv'
<1>1. PICK due \in SUBSET DOMAIN service[s].tasks :
        /\ \A id \in DOMAIN service[s].tasks :
             /\ service[s].tasks[id].left = 0 => id \in due
             /\ id \in due => service[s].tasks[id].left <= 1
        /\ \E q \in SetToSeqs(Ended(s, due)) :
             service' = [service EXCEPT
               ![s].ready = Tail(@) \o Aborted(s, q),
               ![s].tasks = [id \in DOMAIN service[s].tasks \ due |->
                               [service[s].tasks[id] EXCEPT !.left = @ - 1]],
               ![s].highest = HighestAfter(DOMAIN service[s].tasks \ due, @),
               ![s].ticking = FALSE]
        /\ conn' = [c \in Conns |->
             IF \E id \in due : service[s].tasks[id].conn = c
               THEN [conn[c] EXCEPT !.open = FALSE, !.reading = 0, !.writing = 0]
               ELSE conn[c]]
  BY Zenon DEF Tick
<1>2. PICK q \in SetToSeqs(Ended(s, due)) :
        service' = [service EXCEPT
          ![s].ready = Tail(@) \o Aborted(s, q),
          ![s].tasks = [id \in DOMAIN service[s].tasks \ due |->
                          [service[s].tasks[id] EXCEPT !.left = @ - 1]],
          ![s].highest = HighestAfter(DOMAIN service[s].tasks \ due, @),
          ![s].ticking = FALSE]
  BY <1>1, Zenon
<1>3. UNCHANGED <<queue_length, main, accepting, inputs>> /\ Running(s)
  BY Zenon DEF Tick
<1> DEFINE y == service[s]
           z == service'[s]
           a == Aborted(s, q)
           p == Tail(y.ready)
           tasks == [id \in DOMAIN y.tasks \ due |-> [y.tasks[id] EXCEPT !.left = @ - 1]]
           highest == HighestAfter(DOMAIN y.tasks \ due, y.highest)
           Closes(c) == \E id \in due : y.tasks[id].conn = c
<1>4. /\ y \in [worker : {"starting", "running", "ended"}, stopped : BOOLEAN,
                ready : Seq(ReadyHandlers), tasks : {y.tasks}, highest : Nat,
                ticking : BOOLEAN]
      /\ DOMAIN y.tasks \subseteq 1 .. y.highest
      /\ y.tasks \in [DOMAIN y.tasks -> [conn : Conns, left : Nat]]
      /\ y.ready # <<>>
  BY <1>3 DEF IInv, Types, IsService, Running
<1>5. /\ z = [y EXCEPT !.ready = p \o a, !.tasks = tasks, !.highest = highest, !.ticking = FALSE]
      /\ \A j \in Services : j # s => service'[j] = service[j]
      /\ service' = [j \in 1 .. Len(service) |-> IF j = s THEN z ELSE service[j]]
  BY <1>2, Zenon DEF IInv, Types, Services
<1>6. /\ a \in Seq(ReadyHandlers) /\ Len(a) \in Nat
      /\ \A k \in 1 .. Len(a) :
           \E id \in due, kind \in {"read", "written"} : \E n \in Nat :
             LET c == y.tasks[id].conn IN
             /\ q[k] = <<id, <<kind, n>>>> /\ c \in Conns
             /\ n \in 1 .. IF kind = "read" THEN conn[c].reading ELSE conn[c].writing
             /\ a[k] = Event(kind, c, Only("aborted"))
      /\ \A j, k \in 1 .. Len(a) : q[j] = q[k] => j = k
  <2>1. due \in SUBSET DOMAIN service[s].tasks /\ q \in SetToSeqs(Ended(s, due))
    OBVIOUS
  <2>2. EndedIn(s, due, q, Aborted(s, q))
    BY <2>1, AbortedProperties
  <2> QED
    BY <2>2 DEF EndedIn
<1> HIDE DEF a
<1>7. /\ p \in Seq(ReadyHandlers) /\ Len(p) \in Nat
      /\ \A k \in 1 .. Len(p) : k + 1 \in 1 .. Len(y.ready) /\ p[k] = y.ready[k + 1]
      /\ \A c : Shifted(y.ready, p, 1, c)
  BY <1>4, TailShifted
<1> HIDE DEF p
<1> DEFINE r == p \o a
<1>8. /\ r \in Seq(ReadyHandlers) /\ Len(r) = Len(p) + Len(a) /\ Len(r) \in Nat
      /\ \A k \in 1 .. Len(p) : r[k] = p[k]
      /\ \A k \in Len(p) + 1 .. Len(r) : k - Len(p) \in 1 .. Len(a) /\ r[k] = a[k - Len(p)]
  <2>1. /\ r \in Seq(ReadyHandlers) /\ Len(r) = Len(p) + Len(a)
        /\ \A k \in 1 .. Len(p) + Len(a) :
             r[k] = IF k <= Len(p) THEN p[k] ELSE a[k - Len(p)]
    BY <1>6, <1>7, ConcatProperties
  <2> HIDE DEF r
  <2> QED
    BY <1>6, <1>7, <2>1
<1> HIDE DEF r
<1>9. /\ DOMAIN tasks = DOMAIN y.tasks \ due
      /\ \A id \in DOMAIN tasks : tasks[id].conn = y.tasks[id].conn
      /\ tasks \in [DOMAIN tasks -> [conn : Conns, left : Nat]]
      /\ highest \in Nat /\ DOMAIN tasks \subseteq 1 .. highest
  <2>1. \A id \in DOMAIN y.tasks \ due : y.tasks[id].left \in Nat /\ y.tasks[id].left # 0
                                         /\ y.tasks[id] \in [conn : Conns, left : Nat]
    BY <1>1, <1>4, Zenon
  <2>2. \A id \in DOMAIN y.tasks \ due : y.tasks[id].left - 1 \in Nat
    BY <2>1
  <2>3. highest \in Nat /\ DOMAIN y.tasks \ due \subseteq 1 .. highest
    BY <1>4 DEF HighestAfter
  <2> QED
    BY <2>1, <2>2, <2>3
<1> HIDE DEF tasks, highest
<1>10. IsService(z) /\ z.ready = r /\ z.tasks = tasks
  <2>1. /\ z.worker = y.worker /\ z.stopped = y.stopped /\ z.ready = r
        /\ z.tasks = tasks /\ z.highest = highest /\ z.ticking = FALSE
    BY <1>4, <1>5 DEF r
  <2>2. z \in [worker : {"starting", "running", "ended"}, stopped : BOOLEAN,
               ready : Seq(ReadyHandlers), tasks : {z.tasks}, highest : Nat,
               ticking : BOOLEAN]
    BY <1>4, <1>5, <1>8, <1>9 DEF r
  <2> QED
    BY <1>9, <2>1, <2>2 DEF IsService
<1> HIDE DEF y, z
<1>11. /\ \A c \in Conns : ~Closes(c) => conn'[c] = conn[c]
       /\ \A c \in Conns : Closes(c) =>
            conn'[c] = [conn[c] EXCEPT !.open = FALSE, !.reading = 0, !.writing = 0]
       /\ conn \in [Conns -> Connections] /\ conn' \in [Conns -> Connections]
  <2>1. conn \in [Conns -> Connections]
    BY DEF IInv, Types
  <2>2. \A c \in Conns :
          [conn[c] EXCEPT !.open = FALSE, !.reading = 0, !.writing = 0] \in Connections
    <3>1. ASSUME NEW x \in Connections
          PROVE  [x EXCEPT !.open = FALSE, !.reading = 0, !.writing = 0] \in Connections
      BY DEF Connections
    <3> QED
      BY <2>1, <3>1, Zenon
  <2> QED
    BY <1>1, <2>1, <2>2, Zenon DEF y
<1>12. \A c \in Conns : conn'[c].service = conn[c].service /\ conn'[c].phase = conn[c].phase
  <2> TAKE c \in Conns
  <2>1. conn[c] \in Connections
    BY <1>11, Zenon
  <2>2. [conn[c] EXCEPT !.open = FALSE, !.reading = 0, !.writing = 0].service = conn[c].service
        /\ [conn[c] EXCEPT !.open = FALSE, !.reading = 0, !.writing = 0].phase = conn[c].phase
    BY <2>1 DEF Connections
  <2> QED
    BY <1>11, <2>2, Zenon
<1>13. \A c \in Conns : Closes(c) =>
         /\ conn[c].service = s /\ conn[c].phase = "started"
         /\ \E id \in due : id = conn[c].task_id /\ y.tasks[id].conn = c
         /\ \A id \in DOMAIN y.tasks : y.tasks[id].conn = c => id = conn[c].task_id
         /\ ConnectionOK(conn[c], y, c)
  <2> TAKE c \in Conns
  <2> HAVE Closes(c)
  <2>1. PICK id \in due : y.tasks[id].conn = c
    OBVIOUS
  <2>2. conn[c].service = s
    BY <1>1, <2>1, Zenon DEF IInv, Placed, y
  <2>3. conn[c].phase # "unborn"
    BY <2>2 DEF IInv, InOrder, NewConnection, Types, Services
  <2>4. ConnectionOK(conn[c], y, c)
    BY <2>2, <2>3 DEF IInv, y
  <2>5. conn[c].phase = "started"
    BY <1>1, <2>1, <2>4, Zenon DEF ConnectionOK, Fresh, y
  <2>6. \A j \in DOMAIN y.tasks : y.tasks[j].conn = c => j = conn[c].task_id
    BY <2>4 DEF ConnectionOK, OwnDeadline
  <2>7. id \in DOMAIN y.tasks
    BY <1>1, Zenon DEF y
  <2> QED
    BY <2>1, <2>2, <2>4, <2>5, <2>6, <2>7
<1>14. \A k \in Len(p) + 1 .. Len(r) :
         /\ r[k].kind \in {"read", "written"} /\ r[k].conn \in Conns /\ Closes(r[k].conn)
         /\ \E id \in due : \E n \in Nat :
              /\ q[k - Len(p)] = <<id, <<r[k].kind, n>>>> /\ y.tasks[id].conn = r[k].conn
              /\ n \in 1 .. IF r[k].kind = "read" THEN conn[r[k].conn].reading
                                                  ELSE conn[r[k].conn].writing
         /\ r[k].data.what = "aborted"
  <2> TAKE k \in Len(p) + 1 .. Len(r)
  <2>1. k - Len(p) \in 1 .. Len(a) /\ r[k] = a[k - Len(p)]
    BY <1>8
  <2>2. PICK id \in due, kind \in {"read", "written"} : \E n \in Nat :
             LET c == y.tasks[id].conn IN
             /\ q[k - Len(p)] = <<id, <<kind, n>>>> /\ c \in Conns
             /\ n \in 1 .. IF kind = "read" THEN conn[c].reading ELSE conn[c].writing
             /\ a[k - Len(p)] = Event(kind, c, Only("aborted"))
    BY <1>6, <2>1
  <2>3. r[k].kind = kind /\ r[k].conn = y.tasks[id].conn /\ r[k].data.what = "aborted"
    BY <2>1, <2>2 DEF Event, Only
  <2> QED
    BY <2>2, <2>3
<1>15. Types'
  <2>1. Len(service') = Len(service) /\ Services' = Services
        /\ DOMAIN service' = 1 .. Len(service')
        /\ service' = [j \in Services' |-> service'[j]]
    BY <1>5 DEF IInv, Types, Services
  <2>2. \A j \in Services' : IsService(service'[j])
    BY <1>5, <1>10, <2>1 DEF IInv, Types, z
  <2> QED
    BY <1>3, <1>11, <2>1, <2>2, Zenon DEF IInv, Types
<1>16. Services' = Services
  BY <1>5 DEF IInv, Types, Services
<1>17. Placed'
  <2> SUFFICES ASSUME NEW j \in Services'
               PROVE  /\ \A k \in 1 .. Len(service'[j].ready) :
                           \/ service'[j].ready[k].kind = "tick"
                           \/ /\ service'[j].ready[k].conn \in Conns
                              /\ conn'[service'[j].ready[k].conn].service = j
                      /\ \A id \in DOMAIN service'[j].tasks :
                           conn'[service'[j].tasks[id].conn].service = j
    BY DEF Placed
  <2>1. CASE j # s
    <3>1. \A id \in DOMAIN service[j].tasks : service[j].tasks[id].conn \in Conns
      <4>1. IsService(service[j])
        BY <1>16 DEF IInv, Types
      <4> QED
        BY <4>1 DEF IsService
    <3> QED
      BY <1>5, <1>12, <1>16, <2>1, <3>1 DEF IInv, Placed
  <2>2. CASE j = s
    <3>1. \A k \in 1 .. Len(p) :
            \/ p[k].kind = "tick"
            \/ p[k].conn \in Conns /\ conn[p[k].conn].service = s
      BY <1>7 DEF IInv, Placed, y
    <3>2. \A k \in 1 .. Len(r) :
            \/ r[k].kind = "tick"
            \/ r[k].conn \in Conns /\ conn'[r[k].conn].service = s
      <4> TAKE k \in 1 .. Len(r)
      <4>1. CASE k \in 1 .. Len(p)
        BY <1>8, <1>12, <3>1, <4>1
      <4>2. CASE k \in Len(p) + 1 .. Len(r)
        BY <1>12, <1>13, <1>14, <4>2
      <4> QED
        BY <1>7, <1>8, <4>1, <4>2
    <3>3. \A id \in DOMAIN tasks : conn'[tasks[id].conn].service = s
      <4>1. \A id \in DOMAIN y.tasks : y.tasks[id].conn \in Conns
        BY <1>4
      <4> QED
        BY <1>9, <1>12, <4>1 DEF IInv, Placed, y
    <3> QED
      BY <1>10, <2>2, <3>2, <3>3 DEF z
  <2> QED
    BY <2>1, <2>2
<1>18. InOrder'
  <2>1. \A c \in Conns :
          IF conn'[c].phase = "unborn" THEN conn'[c] = NewConnection("unborn", 0)
                                       ELSE conn'[c].service \in Services'
    <3> TAKE c \in Conns
    <3>1. CASE Closes(c)
      BY <1>12, <1>13, <1>16, <3>1
    <3>2. CASE ~Closes(c)
      BY <1>11, <1>16, <3>2, Zenon DEF IInv, InOrder
    <3> QED
      BY <3>1, <3>2
  <2>2. ASSUME accepting # 0
        PROVE  \A j \in Services' : \A k \in 1 .. Len(service'[j].ready) :
                 ~Is(service'[j].ready[k], accepting, "start")
    <3>1. \A j \in Services : \A k \in 1 .. Len(service[j].ready) :
            ~Is(service[j].ready[k], accepting, "start")
      BY <2>2 DEF IInv, InOrder
    <3>2. \A k \in 1 .. Len(p) : ~Is(p[k], accepting, "start")
      BY <1>7, <3>1 DEF y
    <3>3. \A k \in 1 .. Len(r) : ~Is(r[k], accepting, "start")
      <4> TAKE k \in 1 .. Len(r)
      <4>1. CASE k \in 1 .. Len(p)
        BY <1>8, <3>2, <4>1
      <4>2. CASE k \in Len(p) + 1 .. Len(r)
        BY <1>14, <4>2 DEF Is
      <4> QED
        BY <1>7, <1>8, <4>1, <4>2
    <3> QED
      BY <1>5, <1>10, <1>16, <3>1, <3>3 DEF z
  <2>3. /\ queue_length' = queue_length /\ main' = main /\ accepting' = accepting
        /\ accepting # 0 => accepting \in Conns
    BY <1>3 DEF IInv, Types
  <2> QED
    BY <1>12, <2>1, <2>2, <2>3 DEF IInv, InOrder
<1>19. ASSUME NEW c \in Conns, conn'[c].phase # "unborn"
       PROVE  ConnectionOK(conn'[c], service'[conn'[c].service], c)
  <2>1. CASE conn[c].service # s
    <3>1. conn'[c] = conn[c] /\ conn[c].service \in Services
      BY <1>11, <1>12, <1>13, <1>19, <2>1, Zenon DEF IInv, InOrder
    <3> QED
      BY <1>5, <1>19, <2>1, <3>1 DEF IInv
  <2>2. CASE conn[c].service = s /\ ~Closes(c)
    <3>1. conn'[c] = conn[c] /\ ConnectionOK(conn[c], y, c)
      BY <1>11, <1>12, <1>19, <2>2, Zenon DEF IInv, y
    <3>2. Shifted(y.ready, z.ready, 1, c)
      <4> SUFFICES ASSUME NEW k \in 1 .. Len(r), r[k].conn = c
                   PROVE  k + 1 \in 1 .. Len(y.ready) /\ r[k] = y.ready[k + 1]
        BY <1>10 DEF Shifted
      <4>1. k \in 1 .. Len(p)
        <5>1. k \notin Len(p) + 1 .. Len(r)
          BY <1>14, <2>2
        <5> QED
          BY <1>7, <1>8, <5>1
      <4> QED
        BY <1>7, <1>8, <4>1
    <3>3. 1 \in {0, 1} /\ Len(z.ready) \in Nat
      BY <1>8, <1>10
    <3>4. \A id \in DOMAIN z.tasks : z.tasks[id].conn = c =>
            id \in DOMAIN y.tasks /\ y.tasks[id].conn = c
      BY <1>9, <1>10
    <3>5. ConnectionOK(conn[c], z, c)
      BY <3>1, <3>2, <3>3, <3>4, OtherOK
    <3> QED
      BY <2>2, <3>1, <3>5 DEF z
  <2>3. CASE conn[c].service = s /\ Closes(c)
    <3> DEFINE x == conn[c]
               u == conn'[c]
               g == [k \in 1 .. Len(r) |-> q[k - Len(p)][2][2]]
    <3>1. /\ x \in Connections /\ u \in Connections /\ ~u.open
          /\ u.phase = x.phase /\ u.service = x.service
          /\ u.reading = 0 /\ u.writing = 0
          /\ u.parser = x.parser /\ u.continuing = x.continuing
          /\ u.pending = x.pending /\ u.posted = x.posted
          /\ u.resume = x.resume /\ u.task_id = x.task_id
          /\ x.reading \in Nat /\ x.writing \in Nat
      <4>1. x \in Connections /\ u \in Connections
            /\ u = [x EXCEPT !.open = FALSE, !.reading = 0, !.writing = 0]
        BY <1>11, <2>3, Zenon
      <4> HIDE DEF x, u
      <4> QED
        BY <4>1 DEF Connections
    <3>2. /\ x.phase = "started" /\ ConnectionOK(x, y, c)
          /\ \A id \in due : y.tasks[id].conn = c => id = x.task_id
      BY <1>1, <1>13, <2>3, Zenon DEF y
    <3> HIDE DEF x, u
    <3>3. Ends(p, r, g, x.reading, x.writing, c)
      <4>1. ASSUME NEW k \in Len(p) + 1 .. Len(r), r[k].conn = c
            PROVE  /\ q[k - Len(p)] = <<x.task_id, <<r[k].kind, g[k]>>>>
                   /\ r[k].data.what = "aborted"
                   /\ \/ r[k].kind = "read" /\ g[k] \in 1 .. x.reading
                      \/ r[k].kind = "written" /\ g[k] \in 1 .. x.writing
        <5>1. PICK id \in due : \E n \in Nat :
                 /\ q[k - Len(p)] = <<id, <<r[k].kind, n>>>> /\ y.tasks[id].conn = c
                 /\ n \in 1 .. IF r[k].kind = "read" THEN x.reading ELSE x.writing
          BY <1>14, <4>1 DEF x
        <5>2. PICK n \in Nat :
                 /\ q[k - Len(p)] = <<id, <<r[k].kind, n>>>> /\ y.tasks[id].conn = c
                 /\ n \in 1 .. IF r[k].kind = "read" THEN x.reading ELSE x.writing
          BY <5>1
        <5>3. id = x.task_id
          BY <3>2, <5>2
        <5>4. k \in 1 .. Len(r)
          BY <1>7, <1>8
        <5>5. g[k] = n
          BY <5>2, <5>4
        <5> QED
          BY <1>14, <4>1, <5>2, <5>3, <5>5
      <4>2. ASSUME NEW j \in Len(p) + 1 .. Len(r), NEW k \in Len(p) + 1 .. Len(r),
                   r[j].conn = c, r[k].conn = c, r[j].kind = r[k].kind, g[j] = g[k]
            PROVE  j = k
        <5> HIDE DEF g
        <5>1. q[j - Len(p)] = q[k - Len(p)]
          BY <4>1, <4>2
        <5>2. j - Len(p) \in 1 .. Len(a) /\ k - Len(p) \in 1 .. Len(a)
          BY <1>8
        <5>3. j - Len(p) = k - Len(p)
          BY <1>6, <5>1, <5>2
        <5> QED
          BY <1>7, <1>8, <5>3
      <4> HIDE DEF g
      <4>3. Len(p) <= Len(r)
        BY <1>6, <1>7, <1>8
      <4> QED
        BY <1>8, <4>1, <4>2, <4>3 DEF Ends, Is
    <3> HIDE DEF g
    <3>4. Waited(x, u, x.reading, x.writing)
      BY <3>1 DEF Waited
    <3>5. OneRead(x, p, c) /\ OneAnswer(x, p, c) /\ FewWrites(x, p, c)
      <4>1. Shifted(y.ready, p, 1, c) /\ 1 \in {0, 1}
        BY <1>7
      <4> QED
        BY <1>7, <3>2, <4>1, ShiftedOK DEF ConnectionOK
    <3>6. OneRead(u, r, c) /\ OneAnswer(u, r, c) /\ FewWrites(u, r, c)
      BY <1>7, <3>1, <3>3, <3>4, <3>5, EndsOK
    <3>7. OwnDeadline(u, z, c)
      BY <1>9, <1>10, <3>1, <3>2 DEF ConnectionOK, OwnDeadline
    <3>8. ConnectionOK(u, z, c)
      BY <1>10, <3>1, <3>2, <3>6, <3>7 DEF ConnectionOK, ClosedQuiet
    <3> QED
      BY <1>12, <2>3, <3>8 DEF u, z
  <2> QED
    BY <2>1, <2>2, <2>3
<1> QED
  BY <1>15, <1>17, <1>18, <1>19 DEF IInv
-----------------------------------------------------------------------------
(* What becomes ready, and new connections.                                *)

(* One more handler is ready; the others keep their places.                *)
LEMMA AppendReady ==
  ASSUME NEW q \in Seq(ReadyHandlers), NEW e \in ReadyHandlers
  PROVE  LET r == Append(q, e) IN
         /\ r \in Seq(ReadyHandlers) /\ Len(q) \in Nat /\ Len(r) = Len(q) + 1 /\ Len(r) \in Nat
         /\ \A k \in 1 .. Len(q) : k \in 1 .. Len(r) /\ r[k] = q[k]
         /\ r[Len(q) + 1] = e /\ Len(q) + 1 \in 1 .. Len(r)
         /\ \A k \in 1 .. Len(r) : k \in 1 .. Len(q) \/ k = Len(q) + 1
         /\ \A c : c # e.conn => Shifted(q, r, 0, c)
<1> DEFINE r == Append(q, e)
<1>1. /\ r \in Seq(ReadyHandlers) /\ Len(q) \in Nat /\ Len(r) = Len(q) + 1 /\ Len(r) \in Nat
      /\ \A k \in 1 .. Len(q) : k \in 1 .. Len(r) /\ r[k] = q[k]
      /\ r[Len(q) + 1] = e /\ Len(q) + 1 \in 1 .. Len(r)
  OBVIOUS
<1> HIDE DEF r
<1>2. \A k \in 1 .. Len(r) : k \in 1 .. Len(q) \/ k = Len(q) + 1
  BY <1>1
<1>3. ASSUME NEW c, c # e.conn PROVE Shifted(q, r, 0, c)
  <2> SUFFICES ASSUME NEW k \in 1 .. Len(r), r[k].conn = c
               PROVE  k + 0 \in 1 .. Len(q) /\ r[k] = q[k + 0]
    BY DEF Shifted
  <2>1. k \in 1 .. Len(q)
    BY <1>1, <1>2, <1>3
  <2> QED
    BY <1>1, <2>1
<1> QED
  BY <1>1, <1>2, <1>3 DEF r

(* y, with one more handler.                                               *)
OneMore(y, z, e) ==
  IsService(z) /\ z.ready = Append(y.ready, e) /\ z.tasks = y.tasks

(* A handler that becomes ready does not matter to other connections.      *)
LEMMA PostedOK ==
  ASSUME IInv, NEW s \in Services, NEW e \in ReadyHandlers, NEW z,
         OneMore(service[s], z, e),
         NEW x, NEW c \in Conns, e.conn # c, ConnectionOK(x, service[s], c)
  PROVE  ConnectionOK(x, z, c)
<1>1. IsService(service[s]) /\ service[s].ready \in Seq(ReadyHandlers)
  BY DEF IInv, Types, IsService
<1>2. Shifted(service[s].ready, z.ready, 0, c) /\ Len(z.ready) \in Nat /\ 0 \in {0, 1}
  BY <1>1, AppendReady DEF OneMore
<1> QED
  BY <1>2, OtherOK DEF OneMore

(* Something becomes ready: for c, or a tick.                              *)
LEMMA PostStep ==
  ASSUME IInv, NEW s \in Services, NEW e \in ReadyHandlers, e.kind # "start",
         NEW z, OneMore(service[s], z, e), service' = [service EXCEPT ![s] = z],
         conn' \in [Conns -> Connections],
         \A d \in Conns : conn'[d].service = conn[d].service /\ conn'[d].phase = conn[d].phase,
         \A d \in Conns : d # e.conn => conn'[d] = conn[d],
         \/ e.kind = "tick" /\ e.conn \notin Conns
         \/ /\ e.conn \in Conns /\ conn[e.conn].service = s /\ conn[e.conn].phase = "started"
            /\ ConnectionOK(conn'[e.conn], z, e.conn),
         UNCHANGED <<queue_length, main, accepting>>, inputs' \in Nat
  PROVE  IInv'
<1>1. IsService(service[s]) /\ service[s].ready \in Seq(ReadyHandlers)
  BY DEF IInv, Types, IsService
<1>2. /\ Len(service[s].ready) \in Nat /\ Len(z.ready) = Len(service[s].ready) + 1
      /\ \A k \in 1 .. Len(z.ready) :
           \/ k \in 1 .. Len(service[s].ready) /\ z.ready[k] = service[s].ready[k]
           \/ z.ready[k] = e
  BY <1>1, AppendReady DEF OneMore
<1>3. /\ Services' = Services /\ service'[s] = z
      /\ \A j \in Services : j # s => service'[j] = service[j]
  BY DEF IInv, Types, Services
<1>4. Types'
  <2>1. Len(service') = Len(service) /\ DOMAIN service' = 1 .. Len(service')
        /\ service' = [j \in Services' |-> service'[j]]
    <3>1. service \in Seq({service[j] : j \in Services}) /\ Len(service) \in Nat
      BY DEF IInv, Types, Services
    <3>2. service' = [j \in 1 .. Len(service) |-> IF j = s THEN z ELSE service[j]]
      BY DEF IInv, Types, Services
    <3>3. Len(service') = Len(service)
      BY <3>1, <3>2
    <3> QED
      BY <1>3, <3>2, <3>3 DEF IInv, Types, Services
  <2>2. \A j \in Services' : IsService(service'[j])
    BY <1>3 DEF IInv, Types, OneMore
  <2> QED
    BY <1>3, <2>1, <2>2 DEF IInv, Types
<1>5. Placed'
  <2> SUFFICES ASSUME NEW j \in Services'
               PROVE  /\ \A k \in 1 .. Len(service'[j].ready) :
                           \/ service'[j].ready[k].kind = "tick"
                           \/ /\ service'[j].ready[k].conn \in Conns
                              /\ conn'[service'[j].ready[k].conn].service = j
                      /\ \A id \in DOMAIN service'[j].tasks :
                           conn'[service'[j].tasks[id].conn].service = j
    BY DEF Placed
  <2>1. \A k \in 1 .. Len(service[j].ready) :
          \/ service[j].ready[k].kind = "tick"
          \/ /\ service[j].ready[k].conn \in Conns
             /\ conn'[service[j].ready[k].conn].service = j
    BY <1>3 DEF IInv, Placed
  <2>2. \A id \in DOMAIN service[j].tasks : conn'[service[j].tasks[id].conn].service = j
    <3>1. IsService(service[j])
      BY <1>3 DEF IInv, Types
    <3>2. \A id \in DOMAIN service[j].tasks : service[j].tasks[id].conn \in Conns
      BY <3>1 DEF IsService
    <3> QED
      BY <1>3, <3>2 DEF IInv, Placed
  <2>3. CASE j # s
    BY <1>3, <2>1, <2>2, <2>3
  <2>4. CASE j = s
    <3>1. \/ e.kind = "tick"
          \/ e.conn \in Conns /\ conn'[e.conn].service = j
      BY <2>4
    <3>2. \A k \in 1 .. Len(z.ready) :
            \/ z.ready[k].kind = "tick"
            \/ z.ready[k].conn \in Conns /\ conn'[z.ready[k].conn].service = j
      BY <1>2, <2>1, <2>4, <3>1
    <3>3. z.tasks = service[j].tasks /\ service'[j] = z
      BY <1>3, <2>4 DEF OneMore
    <3> QED
      BY <2>2, <3>2, <3>3
  <2> QED
    BY <2>3, <2>4
<1>6. InOrder'
  <2>1. \A d \in Conns :
          IF conn'[d].phase = "unborn" THEN conn'[d] = NewConnection("unborn", 0)
                                       ELSE conn'[d].service \in Services'
    BY <1>3 DEF IInv, InOrder
  <2>2. ASSUME accepting # 0
        PROVE  \A j \in Services' : \A k \in 1 .. Len(service'[j].ready) :
                 ~Is(service'[j].ready[k], accepting, "start")
    <3>1. \A j \in Services : \A k \in 1 .. Len(service[j].ready) :
            ~Is(service[j].ready[k], accepting, "start")
      BY <2>2 DEF IInv, InOrder
    <3>2. \A k \in 1 .. Len(z.ready) : ~Is(z.ready[k], accepting, "start")
      BY <1>2, <3>1 DEF Is
    <3> QED
      BY <1>3, <3>1, <3>2
  <2>3. accepting # 0 => accepting \in Conns
    BY DEF IInv, Types
  <2> QED
    BY <2>1, <2>2, <2>3 DEF IInv, InOrder
<1>7. ASSUME NEW d \in Conns, conn'[d].phase # "unborn"
      PROVE  ConnectionOK(conn'[d], service'[conn'[d].service], d)
  <2>1. CASE d = e.conn
    BY <1>3, <2>1
  <2>2. CASE d # e.conn
    <3>1. conn'[d] = conn[d] /\ conn[d].service \in Services
          /\ ConnectionOK(conn[d], service[conn[d].service], d)
      BY <1>7, <2>2 DEF IInv, InOrder
    <3>2. CASE conn[d].service # s
      BY <1>3, <3>1, <3>2
    <3>3. CASE conn[d].service = s
      <4>1. ConnectionOK(conn[d], z, d)
        BY <2>2, <3>1, <3>3, PostedOK
      <4> QED
        BY <1>3, <3>1, <3>3, <4>1
    <3> QED
      BY <3>2, <3>3
  <2> QED
    BY <2>1, <2>2
<1> QED
  BY <1>4, <1>5, <1>6, <1>7 DEF IInv

(* What the network or another handler posts is one more handler.          *)
LEMMA PostsOneMore ==
  ASSUME IInv, NEW s \in Services, NEW e \in ReadyHandlers, Posts(s, e)
  PROVE  \E z : OneMore(service[s], z, e) /\ service' = [service EXCEPT ![s] = z]
<1> DEFINE z == [service[s] EXCEPT !.ready = Append(service[s].ready, e)]
<1>1. IsService(service[s]) /\ service[s].ready \in Seq(ReadyHandlers)
  BY DEF IInv, Types, IsService
<1>2. service' = [service EXCEPT ![s] = z]
  BY DEF Posts
<1>3. IsService(z)
  <2>1. Append(service[s].ready, e) \in Seq(ReadyHandlers)
    BY <1>1
  <2> QED
    BY <1>1, <2>1, ServiceReady
<1>4. z.ready = Append(service[s].ready, e) /\ z.tasks = service[s].tasks
  BY <1>1 DEF IsService
<1> QED
  BY <1>2, <1>3, <1>4 DEF OneMore

(* A connection that waits for the network or for an answer has started.   *)
LEMMA WaitingStarted ==
  ASSUME IInv, NEW c \in Conns,
         conn[c].reading > 0 \/ conn[c].writing > 0 \/ conn[c].pending
  PROVE  /\ conn[c].phase = "started" /\ conn[c].service \in Services
         /\ conn[c] \in Connections
         /\ ConnectionOK(conn[c], service[conn[c].service], c)
         /\ service[conn[c].service].ready \in Seq(ReadyHandlers)
<1>1. conn[c].phase # "unborn"
  BY DEF IInv, InOrder, NewConnection
<1>2. ConnectionOK(conn[c], service[conn[c].service], c) /\ conn[c].service \in Services
  BY <1>1 DEF IInv, InOrder
<1>3. conn[c].phase = "started"
  BY <1>2 DEF ConnectionOK, Fresh, NewConnection
<1>4. conn[c] \in Connections
  BY DEF IInv, Types
<1>5. IsService(service[conn[c].service])
  BY <1>2 DEF IInv, Types
<1> QED
  BY <1>2, <1>3, <1>4, <1>5 DEF IsService

(* Data that arrives keeps the invariant: the read it ends is the only     *)
(* one.                                                                    *)
LEMMA ArrivesStep ==
  ASSUME IInv, NEW c \in Conns, Arrives(c)
  PROVE  IInv'
<1> DEFINE x == conn[c]
           s == x.service
           u == conn'[c]
           q == service[s].ready
<1>1. /\ x.reading > 0 /\ inputs' = inputs + 1
      /\ conn' = [conn EXCEPT ![c].reading = @ - 1]
      /\ UNCHANGED <<queue_length, main, accepting>>
  BY DEF Arrives
<1>2. PICK data \in Requests \cup Fragments(x.parser) \cup {Only("aborted")} :
        Posts(s, Event("read", c, data))
  BY DEF Arrives
<1> DEFINE e == Event("read", c, data)
<1>3. /\ data \in Data /\ data.what \notin {"none", "written"}
      /\ data.what \in {"headers", "expect"} => x.parser \in {"clear", "head"}
  <2>1. CASE data \in Requests
    BY <2>1, ServerAssumption DEF Data
  <2>2. CASE data \in Fragments(x.parser)
    <3>1. /\ data.close \in BOOLEAN /\ data = [what |-> data.what, close |-> data.close]
          /\ data.what \in {"part", "headers", "expect", "unrouted", "bad"}
          /\ data.what \in {"headers", "expect"} => x.parser \in {"clear", "head"}
      BY <2>2 DEF Fragments
    <3> QED
      BY <3>1 DEF Data
  <2>3. CASE data = Only("aborted")
    BY <2>3 DEF Data, Only
  <2> QED
    BY <1>2, <2>1, <2>2, <2>3
<1>4. e \in ReadyHandlers /\ e.conn = c /\ e.kind = "read" /\ e.data = data
  BY <1>3 DEF Event, ReadyHandlers
<1>5. /\ x.phase = "started" /\ s \in Services /\ x \in Connections
      /\ ConnectionOK(x, service[s], c) /\ q \in Seq(ReadyHandlers)
  BY <1>1, WaitingStarted
<1> HIDE DEF e
<1>6. PICK z : OneMore(service[s], z, e) /\ service' = [service EXCEPT ![s] = z]
  BY <1>2, <1>4, <1>5, PostsOneMore DEF e
<1>7. conn \in [Conns -> Connections] /\ inputs \in Nat
  BY DEF IInv, Types
<1>8. OneRead(x, q, c) /\ OneAnswer(x, q, c) /\ FewWrites(x, q, c) /\ OwnDeadline(x, service[s], c)
      /\ ClosedQuiet(x)
  BY <1>5 DEF ConnectionOK
<1>9. x.reading = 1
  BY <1>1, <1>8 DEF OneRead
<1>10. /\ u = [x EXCEPT !.reading = 0] /\ \A d \in Conns : d # c => conn'[d] = conn[d]
       /\ u \in Connections /\ conn' \in [Conns -> Connections]
  <2>1. u = [x EXCEPT !.reading = x.reading - 1]
    BY <1>1, <1>7
  <2>2. x.reading - 1 = 0
    BY <1>9
  <2>3. u = [x EXCEPT !.reading = 0]
    BY <2>1, <2>2
  <2>4. ASSUME NEW w \in Connections PROVE [w EXCEPT !.reading = 0] \in Connections
    BY DEF Connections
  <2>5. u \in Connections
    BY <1>5, <2>3, <2>4
  <2> HIDE DEF u, x
  <2>6. conn' = [conn EXCEPT ![c] = u] 
    BY <1>1, <1>7 DEF u, x
  <2> QED
    BY <1>7, <2>3, <2>5, <2>6
<1> HIDE DEF x, u, q
<1>11. /\ u.open = x.open /\ u.phase = x.phase /\ u.service = x.service
       /\ u.reading = 0 /\ u.writing = x.writing
       /\ u.parser = x.parser /\ u.continuing = x.continuing
       /\ u.pending = x.pending /\ u.posted = x.posted
       /\ u.resume = x.resume /\ u.task_id = x.task_id
  BY <1>5, <1>10 DEF Connections
<1> DEFINE r == z.ready
<1>12. /\ Len(q) \in Nat /\ Len(r) = Len(q) + 1
       /\ \A k \in 1 .. Len(q) : r[k] = q[k]
       /\ \A k \in 1 .. Len(r) : k \in 1 .. Len(q) \/ k = Len(q) + 1
       /\ r[Len(q) + 1] = e
  BY <1>4, <1>5, <1>6, AppendReady DEF OneMore, q
<1> HIDE DEF r
<1>13. OneRead(u, r, c)
  <2>1. \A k \in 1 .. Len(q) : ~Reads(q[k], c)
    BY <1>8, <1>9 DEF OneRead
  <2>2. \A k \in 1 .. Len(r) : Reads(r[k], c) => k = Len(q) + 1
    BY <1>12, <2>1
  <2>3. /\ ~Is(e, c, "start")
        /\ e.data.what \in {"headers", "expect"} => u.parser \in {"clear", "head"}
    BY <1>3, <1>4, <1>11 DEF Is
  <2> QED
    BY <1>8, <1>9, <1>11, <1>12, <2>2, <2>3 DEF OneRead
<1>14. \A k \in 1 .. Len(r) : Is(r[k], c, "written") \/ Is(r[k], c, "end") => k \in 1 .. Len(q)
  BY <1>4, <1>12 DEF Is
<1>15. OneAnswer(u, r, c)
  BY <1>8, <1>11, <1>12, <1>14 DEF OneAnswer
<1>16. FewWrites(u, r, c)
  <2>1. ASSUME NEW n, Writes(x, q, c, n) PROVE Writes(u, r, c, n)
    BY <1>11, <1>12, <1>14, <2>1 DEF Writes
  <2>2. u.parser = "clear" /\ u.continuing =>
          /\ u.writing = 0
          /\ \A j, k \in 1 .. Len(r) : Is(r[j], c, "read") /\ Is(r[k], c, "written") => k < j
    <3> SUFFICES ASSUME u.parser = "clear", u.continuing
                 PROVE  /\ u.writing = 0
                        /\ \A j, k \in 1 .. Len(r) :
                             Is(r[j], c, "read") /\ Is(r[k], c, "written") => k < j
      OBVIOUS
    <3>1. \A j \in 1 .. Len(r) : Is(r[j], c, "read") => j = Len(q) + 1
      <4>1. \A k \in 1 .. Len(q) : ~Reads(q[k], c)
        BY <1>8, <1>9 DEF OneRead
      <4> QED
        BY <1>12, <4>1 DEF Reads
    <3>2. \A j, k \in 1 .. Len(r) : Is(r[j], c, "read") /\ Is(r[k], c, "written") => k < j
      BY <1>12, <1>14, <3>1
    <3> QED
      BY <1>8, <1>11, <3>2 DEF FewWrites
  <2>3. Continued(u) = Continued(x)
    BY <1>11 DEF Continued
  <2> QED
    BY <1>8, <1>11, <2>1, <2>2, <2>3 DEF FewWrites
<1>17. OwnDeadline(u, z, c) /\ ClosedQuiet(u)
  BY <1>6, <1>8, <1>11 DEF OwnDeadline, ClosedQuiet, OneMore
<1>18. ConnectionOK(u, z, c)
  BY <1>5, <1>11, <1>13, <1>15, <1>16, <1>17 DEF ConnectionOK, r
<1>19. \A d \in Conns : conn'[d].service = conn[d].service /\ conn'[d].phase = conn[d].phase
  BY <1>10, <1>11 DEF u, x
<1>20. inputs' \in Nat
  BY <1>1, <1>7
<1> QED
  BY <1>1, <1>4, <1>5, <1>6, <1>10, <1>18, <1>19, <1>20, PostStep DEF u, x

(* A write that is done keeps the invariant.                               *)
LEMMA SentStep ==
  ASSUME IInv, NEW c \in Conns, Sent(c)
  PROVE  IInv'
<1> DEFINE x == conn[c]
           s == x.service
           u == conn'[c]
           q == service[s].ready
<1>1. /\ x.writing > 0
      /\ conn' = [conn EXCEPT ![c].writing = @ - 1]
      /\ UNCHANGED <<queue_length, main, accepting, inputs>>
  BY DEF Sent
<1>2. PICK result \in {"written", "aborted"} :
        Posts(s, Event("written", c, Only(result)))
  BY DEF Sent
<1> DEFINE e == Event("written", c, Only(result))
<1>3. e \in ReadyHandlers /\ e.conn = c /\ e.kind = "written"
  BY DEF Event, Only, ReadyHandlers, Data
<1>4. /\ x.phase = "started" /\ s \in Services /\ x \in Connections
      /\ ConnectionOK(x, service[s], c) /\ q \in Seq(ReadyHandlers)
  BY <1>1, WaitingStarted
<1> HIDE DEF e
<1>5. PICK z : OneMore(service[s], z, e) /\ service' = [service EXCEPT ![s] = z]
  BY <1>2, <1>3, <1>4, PostsOneMore DEF e
<1>6. conn \in [Conns -> Connections] /\ inputs \in Nat
  BY DEF IInv, Types
<1>7. OneRead(x, q, c) /\ OneAnswer(x, q, c) /\ FewWrites(x, q, c) /\ OwnDeadline(x, service[s], c)
      /\ ClosedQuiet(x)
  BY <1>4 DEF ConnectionOK
<1>8. /\ u = [x EXCEPT !.writing = x.writing - 1] /\ \A d \in Conns : d # c => conn'[d] = conn[d]
      /\ u \in Connections /\ conn' \in [Conns -> Connections]
  <2>1. u = [x EXCEPT !.writing = x.writing - 1]
    BY <1>1, <1>6
  <2>2. x.writing - 1 \in Nat
    BY <1>1, <1>4 DEF Connections
  <2>3. ASSUME NEW w \in Connections, NEW n \in Nat PROVE [w EXCEPT !.writing = n] \in Connections
    BY DEF Connections
  <2>4. u \in Connections
    BY <1>4, <2>1, <2>2, <2>3
  <2> HIDE DEF u, x
  <2>5. conn' = [conn EXCEPT ![c] = u]
    BY <1>1, <1>6 DEF u, x
  <2> QED
    BY <1>6, <2>1, <2>4, <2>5
<1> HIDE DEF x, u, q
<1>9. /\ u.open = x.open /\ u.phase = x.phase /\ u.service = x.service
      /\ u.reading = x.reading /\ u.writing = x.writing - 1 /\ x.writing \in Nat
      /\ u.parser = x.parser /\ u.continuing = x.continuing
      /\ u.pending = x.pending /\ u.posted = x.posted
      /\ u.resume = x.resume /\ u.task_id = x.task_id
  BY <1>4, <1>8 DEF Connections
<1> DEFINE r == z.ready
<1>10. /\ Len(q) \in Nat /\ Len(r) = Len(q) + 1
       /\ \A k \in 1 .. Len(q) : r[k] = q[k]
       /\ \A k \in 1 .. Len(r) : k \in 1 .. Len(q) \/ k = Len(q) + 1
       /\ r[Len(q) + 1] = e
  BY <1>3, <1>4, <1>5, AppendReady DEF OneMore, q
<1> HIDE DEF r
<1>11. \A k \in 1 .. Len(r) : Reads(r[k], c) \/ Is(r[k], c, "end") => k \in 1 .. Len(q)
  BY <1>3, <1>10 DEF Is, Reads
<1>12. OneRead(u, r, c)
  BY <1>7, <1>9, <1>10, <1>11 DEF OneRead
<1>13. OneAnswer(u, r, c)
  BY <1>7, <1>9, <1>10, <1>11 DEF OneAnswer
<1>14. ~(x.parser = "clear" /\ x.continuing)
  BY <1>1, <1>7 DEF FewWrites, x
<1>15. ASSUME NEW n \in {0, 1, 2}, Writes(x, q, c, n) PROVE Writes(u, r, c, n)
  <2>1. x.writing <= n /\ x.writing > 0 /\ u.writing = x.writing - 1 /\ x.writing \in Nat
    BY <1>1, <1>9, <1>15 DEF Writes, x
  <2>2. u.writing <= n /\ u.writing # n
    BY <2>1
  <2>3. ASSUME u.writing + 1 = n,
               NEW j \in 1 .. Len(r), NEW k \in 1 .. Len(r),
               Is(r[j], c, "written"), Is(r[k], c, "written")
        PROVE  j = k
    <3>1. x.writing = n
      BY <2>1, <2>3
    <3>2. \A i \in 1 .. Len(q) : ~Is(q[i], c, "written")
      BY <1>15, <3>1 DEF Writes
    <3> QED
      BY <1>10, <2>3, <3>2
  <2>4. ASSUME u.writing + 2 = n,
               NEW i \in 1 .. Len(r), NEW j \in 1 .. Len(r), NEW k \in 1 .. Len(r),
               Is(r[i], c, "written"), Is(r[j], c, "written"), Is(r[k], c, "written")
        PROVE  i = j \/ j = k \/ i = k
    <3>1. x.writing + 1 = n
      <4>1. u.writing + 2 = x.writing + 1
        BY <2>1
      <4> QED
        BY <2>4, <4>1
    <3>2. \A l, m \in 1 .. Len(q) :
            Is(q[l], c, "written") /\ Is(q[m], c, "written") => l = m
      BY <1>15, <3>1 DEF Writes
    <3> QED
      BY <1>10, <2>4, <3>2
  <2> QED
    BY <2>2, <2>3, <2>4 DEF Writes
<1>16. FewWrites(u, r, c)
  <2>1. Continued(u) = Continued(x) /\ Continued(x) \in {0, 1, 2} /\ Continued(x) + 1 \in {0, 1, 2}
    BY <1>9 DEF Continued
  <2> QED
    BY <1>7, <1>9, <1>14, <1>15, <2>1 DEF FewWrites
<1>17. OwnDeadline(u, z, c) /\ ClosedQuiet(u)
  <2>1. ClosedQuiet(u)
    BY <1>1, <1>7, <1>9 DEF ClosedQuiet, x
  <2> QED
    BY <1>5, <1>7, <1>9, <2>1 DEF OwnDeadline, OneMore
<1>18. ConnectionOK(u, z, c)
  BY <1>4, <1>9, <1>12, <1>13, <1>16, <1>17 DEF ConnectionOK, r
<1>19. \A d \in Conns : conn'[d].service = conn[d].service /\ conn'[d].phase = conn[d].phase
  BY <1>8, <1>9 DEF u, x
<1>20. inputs' \in Nat
  BY <1>1, <1>6
<1> QED
  BY <1>1, <1>3, <1>4, <1>5, <1>8, <1>18, <1>19, <1>20, PostStep DEF u, x

(* The answer to a pending request is posted once.                         *)
LEMMA CompletesStep ==
  ASSUME IInv, NEW c \in Conns, Completes(c)
  PROVE  IInv'
<1> DEFINE x == conn[c]
           s == x.service
           u == conn'[c]
           q == service[s].ready
<1>1. /\ x.pending /\ ~x.posted
      /\ conn' = [conn EXCEPT ![c].posted = TRUE]
      /\ UNCHANGED <<queue_length, main, accepting, inputs>>
  BY DEF Completes
<1>2. PICK kind \in {"general", "long", "static", "lost"} :
        Posts(s, Event("end", c, Only(kind)))
  BY DEF Completes
<1> DEFINE e == Event("end", c, Only(kind))
<1>3. e \in ReadyHandlers /\ e.conn = c /\ e.kind = "end"
  BY DEF Event, Only, ReadyHandlers, Data
<1>4. /\ x.phase = "started" /\ s \in Services /\ x \in Connections
      /\ ConnectionOK(x, service[s], c) /\ q \in Seq(ReadyHandlers)
  BY <1>1, WaitingStarted
<1> HIDE DEF e
<1>5. PICK z : OneMore(service[s], z, e) /\ service' = [service EXCEPT ![s] = z]
  BY <1>2, <1>3, <1>4, PostsOneMore DEF e
<1>6. conn \in [Conns -> Connections] /\ inputs \in Nat
  BY DEF IInv, Types
<1>7. OneRead(x, q, c) /\ OneAnswer(x, q, c) /\ FewWrites(x, q, c) /\ OwnDeadline(x, service[s], c)
      /\ ClosedQuiet(x)
  BY <1>4 DEF ConnectionOK
<1>8. /\ u = [x EXCEPT !.posted = TRUE] /\ \A d \in Conns : d # c => conn'[d] = conn[d]
      /\ u \in Connections /\ conn' \in [Conns -> Connections]
  <2>1. u = [x EXCEPT !.posted = TRUE]
    BY <1>1, <1>6
  <2>2. ASSUME NEW w \in Connections PROVE [w EXCEPT !.posted = TRUE] \in Connections
    BY DEF Connections
  <2>3. u \in Connections
    BY <1>4, <2>1, <2>2
  <2> HIDE DEF u, x
  <2>4. conn' = [conn EXCEPT ![c] = u]
    BY <1>1, <1>6 DEF u, x
  <2> QED
    BY <1>6, <2>1, <2>3, <2>4
<1> HIDE DEF x, u, q
<1>9. /\ u.open = x.open /\ u.phase = x.phase /\ u.service = x.service
      /\ u.reading = x.reading /\ u.writing = x.writing
      /\ u.parser = x.parser /\ u.continuing = x.continuing
      /\ u.pending = x.pending /\ u.posted /\ u.pending
      /\ u.resume = x.resume /\ u.task_id = x.task_id
  BY <1>1, <1>4, <1>8 DEF Connections, x
<1> DEFINE r == z.ready
<1>10. /\ Len(q) \in Nat /\ Len(r) = Len(q) + 1
       /\ \A k \in 1 .. Len(q) : r[k] = q[k]
       /\ \A k \in 1 .. Len(r) : k \in 1 .. Len(q) \/ k = Len(q) + 1
       /\ r[Len(q) + 1] = e
  BY <1>3, <1>4, <1>5, AppendReady DEF OneMore, q
<1> HIDE DEF r
<1>11. \A k \in 1 .. Len(r) : Reads(r[k], c) \/ Is(r[k], c, "written") => k \in 1 .. Len(q)
  BY <1>3, <1>10 DEF Is, Reads
<1>12. OneRead(u, r, c)
  BY <1>7, <1>9, <1>10, <1>11 DEF OneRead
<1>13. OneAnswer(u, r, c)
  <2>1. \A k \in 1 .. Len(q) : ~Is(q[k], c, "end")
    BY <1>1, <1>7 DEF OneAnswer, x
  <2>2. \A k \in 1 .. Len(r) : Is(r[k], c, "end") => k = Len(q) + 1
    BY <1>10, <2>1
  <2> QED
    BY <1>7, <1>9, <2>2 DEF OneAnswer
<1>14. FewWrites(u, r, c)
  <2>1. ASSUME NEW n, Writes(x, q, c, n) PROVE Writes(u, r, c, n)
    BY <1>9, <1>10, <1>11, <2>1 DEF Writes
  <2>2. Continued(u) = Continued(x)
    BY <1>9 DEF Continued
  <2>3. x.parser = "complete"
    BY <1>1, <1>7 DEF OneAnswer, x
  <2> QED
    BY <1>7, <1>9, <2>1, <2>2, <2>3 DEF FewWrites
<1>15. OwnDeadline(u, z, c) /\ ClosedQuiet(u)
  BY <1>5, <1>7, <1>9 DEF OwnDeadline, ClosedQuiet, OneMore
<1>16. ConnectionOK(u, z, c)
  BY <1>4, <1>9, <1>12, <1>13, <1>14, <1>15 DEF ConnectionOK, r
<1>17. \A d \in Conns : conn'[d].service = conn[d].service /\ conn'[d].phase = conn[d].phase
  BY <1>8, <1>9 DEF u, x
<1>18. inputs' \in Nat
  BY <1>1, <1>6
<1> QED
  BY <1>1, <1>3, <1>4, <1>5, <1>8, <1>16, <1>17, <1>18, PostStep DEF u, x

(* A tick becomes ready for no connection.                                 *)
LEMMA TimerStep ==
  ASSUME IInv, NEW s \in Services, TimerExpires(s)
  PROVE  IInv'
<1> DEFINE e == Event("tick", 0, Only("none"))
           y == service[s]
           z == [y EXCEPT !.ticking = TRUE, !.ready = Append(y.ready, e)]
<1>1. e \in ReadyHandlers /\ e.conn = 0 /\ e.kind = "tick"
  BY DEF Event, Only, ReadyHandlers, Data
<1>2. IsService(y) /\ y.ready \in Seq(ReadyHandlers)
  BY DEF IInv, Types, IsService
<1>3. 0 \notin Conns
  BY ServerAssumption
<1> HIDE DEF e
<1>4. service' = [service EXCEPT ![s] = z]
  BY DEF TimerExpires, IInv, Types, e
<1>5. OneMore(y, z, e)
  <2> DEFINE a == Append(y.ready, e)
  <2>1. a \in Seq(ReadyHandlers)
    BY <1>1, <1>2
  <2> HIDE DEF y, a
  <2>2. LET w == [y EXCEPT !.ticking = TRUE, !.ready = a]
        IN IsService(w) /\ w.ready = a /\ w.tasks = y.tasks
    BY <1>2, <2>1 DEF IsService
  <2> QED
    BY <2>2 DEF OneMore, a
<1> HIDE DEF z, y
<1>6. inputs' \in Nat /\ conn' \in [Conns -> Connections] /\ conn' = conn
      /\ UNCHANGED <<queue_length, main, accepting>>
  BY DEF TimerExpires, IInv, Types
<1> QED
  BY <1>1, <1>3, <1>4, <1>5, <1>6, PostStep DEF y

(* A step of a thread or of run that leaves what waits to run alone.       *)
LEMMA ThreadStep ==
  ASSUME IInv,
         service' = [s \in Services |-> service'[s]],
         \A s \in Services :
           /\ IsService(service'[s])
           /\ service'[s].ready = service[s].ready
           /\ service'[s].tasks = service[s].tasks,
         main' \in {"initialising", "running", "stopped", "returned"},
         main' = "initialising" => main = "initialising",
         UNCHANGED <<queue_length, accepting, conn, inputs>>
  PROVE  IInv'
<1>1. Services' = Services /\ Len(service') = Len(service)
  <2>1. service' \in Seq({service'[s] : s \in Services}) /\ Len(service) \in Nat
    BY DEF IInv, Types, Services
  <2>2. DOMAIN service' = 1 .. Len(service)
    BY DEF IInv, Types, Services
  <2> QED
    BY <2>1, <2>2 DEF IInv, Types, Services
<1>2. Types'
  BY <1>1 DEF IInv, Types, Services
<1>3. Placed'
  BY <1>1 DEF IInv, Placed
<1>4. InOrder'
  BY <1>1 DEF IInv, InOrder
<1>5. ASSUME NEW c \in Conns, conn[c].phase # "unborn"
      PROVE  ConnectionOK(conn[c], service'[conn[c].service], c)
  <2>1. conn[c].service \in Services /\ ConnectionOK(conn[c], service[conn[c].service], c)
    BY <1>5 DEF IInv, InOrder
  <2> QED
    BY <2>1 DEF ConnectionOK, OwnDeadline, Fresh
<1> QED
  BY <1>2, <1>3, <1>4, <1>5 DEF IInv

(* What threads change of an io_service leaves its queue and tasks.        *)
LEMMA ThreadFields ==
  ASSUME NEW y, IsService(y), NEW w \in {"starting", "running", "ended"}
  PROVE  /\ LET z == [y EXCEPT !.worker = w]
            IN IsService(z) /\ z.ready = y.ready /\ z.tasks = y.tasks
         /\ LET z == [y EXCEPT !.stopped = TRUE]
            IN IsService(z) /\ z.ready = y.ready /\ z.tasks = y.tasks
BY DEF IsService

(* A thread that starts or ends keeps the invariant.                       *)
LEMMA WorkerThreadStep ==
  ASSUME IInv, NEW s \in Services, WorkerStarts(s) \/ WorkerEnds(s)
  PROVE  IInv'
<1>1. PICK w \in {"running", "ended"} :
        service' = [service EXCEPT ![s] = [service[s] EXCEPT !.worker = w]]
  BY DEF WorkerStarts, WorkerEnds
<1>2. \A j \in Services : IsService(service[j])
  BY DEF IInv, Types
<1>3. LET z == [service[s] EXCEPT !.worker = w]
      IN IsService(z) /\ z.ready = service[s].ready /\ z.tasks = service[s].tasks
  BY <1>2, ThreadFields
<1> DEFINE z == [service[s] EXCEPT !.worker = w]
<1>4. IsService(z) /\ z.ready = service[s].ready /\ z.tasks = service[s].tasks
  BY <1>3
<1>5. service' = [service EXCEPT ![s] = z]
  BY <1>1
<1> HIDE DEF z
<1>6. \A j \in Services :
        /\ IsService(service'[j])
        /\ service'[j].ready = service[j].ready
        /\ service'[j].tasks = service[j].tasks
  BY <1>2, <1>4, <1>5 DEF Services
<1>7. service' = [j \in Services |-> service'[j]]
  BY <1>5 DEF IInv, Types, Services
<1>8. main' = main /\ main \in {"initialising", "running", "stopped", "returned"}
      /\ UNCHANGED <<queue_length, accepting, conn, inputs>>
  BY DEF WorkerStarts, WorkerEnds, IInv, Types
<1> QED
  BY <1>6, <1>7, <1>8, ThreadStep

(* stop() keeps the invariant.                                             *)
LEMMA StopStep ==
  ASSUME IInv, Stop
  PROVE  IInv'
<1>1. service' = [s \in Services |-> [service[s] EXCEPT !.stopped = TRUE]]
  BY DEF Stop
<1>2. ASSUME NEW s \in Services
      PROVE  /\ IsService(service'[s])
             /\ service'[s].ready = service[s].ready
             /\ service'[s].tasks = service[s].tasks
  <2>1. IsService(service[s])
    BY DEF IInv, Types
  <2>2. LET z == [service[s] EXCEPT !.stopped = TRUE]
        IN IsService(z) /\ z.ready = service[s].ready /\ z.tasks = service[s].tasks
    BY <2>1, ThreadFields
  <2> QED
    BY <1>1, <2>2
<1>3. service' = [s \in Services |-> service'[s]]
  BY <1>1
<1> QED
  BY <1>2, <1>3, ThreadStep DEF Stop

(* run's return keeps the invariant.                                       *)
LEMMA ReturnStep ==
  ASSUME IInv, Return
  PROVE  IInv'
<1>1. \A s \in Services :
        /\ IsService(service'[s])
        /\ service'[s].ready = service[s].ready
        /\ service'[s].tasks = service[s].tasks
  BY DEF Return, IInv, Types
<1>2. service' = [s \in Services |-> service'[s]]
  BY DEF Return, IInv, Types
<1> QED
  BY <1>1, <1>2, ThreadStep DEF Return

-----------------------------------------------------------------------------
(* The io_service that is picked has the fewest connections.               *)

(* pick_io_service_idx finds an io_service that has the fewest.            *)
LEMMA Picked ==
  ASSUME NEW n \in Nat \ {0}, NEW queue \in [1 .. n -> Nat]
  PROVE  LET s == PickIoService(queue) IN
         s \in 1 .. n /\ \A j \in 1 .. n : queue[s] <= queue[j]
<1> DEFINE L == {queue[j] : j \in 1 .. n}
<1>1. L \in SUBSET Nat /\ L # {}
  <2>1. queue[1] \in L
    OBVIOUS
  <2> QED
    BY <2>1
<1>2. PICK m \in L : \A y \in L : m <= y
  BY <1>1, LeastNat
<1> DEFINE S == {j \in 1 .. n : queue[j] = m}
<1>3. S \in SUBSET Nat /\ S # {}
  OBVIOUS
<1>4. PICK s \in S : \A j \in S : s <= j
  BY <1>3, LeastNat
<1>5. /\ s \in DOMAIN queue
      /\ \A j \in DOMAIN queue : queue[s] <= queue[j]
      /\ \A j \in 1 .. s - 1 : queue[s] < queue[j]
  <2>1. s \in 1 .. n /\ queue[s] = m /\ DOMAIN queue = 1 .. n /\ m \in Nat
    BY <1>1
  <2>2. \A j \in 1 .. n : m <= queue[j]
    BY <1>2
  <2>3. ASSUME NEW j \in 1 .. s - 1 PROVE queue[s] < queue[j]
    <3>1. j \in 1 .. n /\ ~(s <= j)
      BY <2>1
    <3>2. j \notin S
      BY <1>4, <3>1
    <3>3. queue[j] # m /\ m <= queue[j] /\ queue[j] \in Nat
      BY <2>2, <3>1, <3>2
    <3> QED
      BY <2>1, <3>3
  <2> QED
    BY <2>1, <2>2, <2>3
<1> QED
  BY <1>5 DEF PickIoService

-----------------------------------------------------------------------------
(* New connections.  A connection has nothing to run and no deadline until *)
(* it has been accepted.                                                   *)

Quiet(y, c) ==
  /\ \A k \in 1 .. Len(y.ready) : y.ready[k].conn = c => y.ready[k].kind = "tick"
  /\ \A id \in DOMAIN y.tasks : y.tasks[id].conn # c

(* Nothing is ready or timed for a connection before it is accepted.       *)
LEMMA NotAcceptedQuiet ==
  ASSUME IInv, NEW c \in Conns, conn[c].phase = "unborn" \/ c = accepting,
         NEW s \in Services
  PROVE  Quiet(service[s], c)
<1> DEFINE q == service[s].ready
<1>1. /\ \A k \in 1 .. Len(q) : q[k].conn = c /\ q[k].kind # "tick" => conn[c].service = s
      /\ \A id \in DOMAIN service[s].tasks :
           service[s].tasks[id].conn = c => conn[c].service = s
  BY DEF IInv, Placed
<1>2. IsService(service[s]) /\ q \in Seq(ReadyHandlers) /\ s \in Nat /\ s # 0
  BY DEF IInv, Types, IsService, Services
<1>3. Len(q) \in Nat /\ \A k \in 1 .. Len(q) : q[k] \in ReadyHandlers
  BY <1>2
<1>4. CASE conn[c].phase = "unborn"
  <2>1. conn[c].service = 0
    BY <1>4 DEF IInv, InOrder, NewConnection
  <2> QED
    BY <1>1, <1>2, <2>1 DEF Quiet
<1>5. CASE c = accepting
  <2>1. conn[c].phase = "accepting"
    <3>1. accepting # 0
      BY <1>5, ServerAssumption
    <3> QED
      BY <1>5, <3>1 DEF IInv, InOrder
  <2>2. CASE conn[c].service # s
    BY <1>1, <2>2 DEF Quiet
  <2>3. CASE conn[c].service = s
    <3>1. ConnectionOK(conn[c], service[s], c) /\ Fresh(conn[c], service[s], c)
      BY <2>1, <2>3 DEF IInv, ConnectionOK
    <3>2. conn[c] = NewConnection("accepting", s)
      BY <2>1, <2>3, <3>1 DEF Fresh
    <3>3. /\ ~conn[c].pending /\ conn[c].writing = 0 /\ conn[c].parser = "clear"
          /\ ~conn[c].continuing
      BY <3>2 DEF NewConnection
    <3>4. \A k \in 1 .. Len(q) : ~Is(q[k], c, "start")
      <4>1. accepting # 0
        BY <1>5, ServerAssumption
      <4> QED
        BY <1>5, <4>1 DEF IInv, InOrder
    <3>5. \A k \in 1 .. Len(q) : ~Is(q[k], c, "end")
      BY <3>1, <3>3 DEF ConnectionOK, OneAnswer
    <3>6. \A k \in 1 .. Len(q) : ~Is(q[k], c, "written")
      <4>1. Writes(conn[c], q, c, 0)
        BY <3>1, <3>3 DEF ConnectionOK, FewWrites, Continued
      <4> QED
        BY <3>3, <4>1 DEF Writes
    <3>7. \A k \in 1 .. Len(q) : ~Is(q[k], c, "read")
      BY <3>1 DEF Fresh
    <3>8. \A id \in DOMAIN service[s].tasks : service[s].tasks[id].conn # c
      BY <3>1 DEF Fresh
    <3>9. \A k \in 1 .. Len(q) : q[k].kind \in {"start", "read", "written", "end", "tick"}
      BY <1>3 DEF ReadyHandlers
    <3> QED
      BY <3>4, <3>5, <3>6, <3>7, <3>8, <3>9 DEF Quiet, Is
  <2> QED
    BY <2>2, <2>3
<1> QED
  BY <1>4, <1>5

(* A Connection as constructed is in order.                                *)
LEMMA NewConnectionOK ==
  ASSUME NEW y, NEW c \in Conns, Quiet(y, c), NEW s
  PROVE  ConnectionOK(NewConnection("accepting", s), y, c)
<1> DEFINE x == NewConnection("accepting", s)
<1>1. /\ x.phase = "accepting" /\ x.open /\ x.reading = 0 /\ x.writing = 0
      /\ x.parser = "clear" /\ ~x.continuing /\ ~x.pending /\ ~x.resume
      /\ x = NewConnection(x.phase, x.service)
  BY DEF NewConnection
<1> HIDE DEF x
<1>2. \A k \in 1 .. Len(y.ready) : \A kind : kind # "tick" => ~Is(y.ready[k], c, kind)
  BY DEF Quiet, Is
<1>3. \A k \in 1 .. Len(y.ready) :
        /\ ~Is(y.ready[k], c, "read") /\ ~Is(y.ready[k], c, "start")
        /\ ~Is(y.ready[k], c, "written") /\ ~Is(y.ready[k], c, "end")
  BY <1>2
<1>4. ClosedQuiet(x) /\ OneRead(x, y.ready, c) /\ OneAnswer(x, y.ready, c)
  BY <1>1, <1>3 DEF ClosedQuiet, OneRead, OneAnswer, Reads
<1>5. FewWrites(x, y.ready, c)
  <2>1. Continued(x) = 0
    BY <1>1 DEF Continued
  <2>2. Writes(x, y.ready, c, 0)
    BY <1>1, <1>3 DEF Writes
  <2> QED
    BY <1>1, <1>3, <2>1, <2>2 DEF FewWrites
<1>6. OwnDeadline(x, y, c) /\ Fresh(x, y, c)
  BY <1>1, <1>3 DEF OwnDeadline, Fresh, Quiet
<1> QED
  BY <1>4, <1>5, <1>6 DEF ConnectionOK, x

(* A client has connected: the start of its connection is posted.          *)
LEMMA AcceptedOK ==
  ASSUME NEW y, NEW z, NEW c \in Conns, Quiet(y, c), IsService(y), NEW s,
         NEW e \in ReadyHandlers, e = Event("start", c, Only("none")), OneMore(y, z, e)
  PROVE  ConnectionOK(NewConnection("accepting", s), z, c)
<1> DEFINE x == NewConnection("accepting", s)
           q == y.ready
           r == z.ready
<1>1. /\ x.phase = "accepting" /\ x.open /\ x.reading = 0 /\ x.writing = 0
      /\ x.parser = "clear" /\ ~x.continuing /\ ~x.pending /\ ~x.resume
      /\ x = NewConnection(x.phase, x.service)
  BY DEF NewConnection
<1> HIDE DEF x
<1>2. y.ready \in Seq(ReadyHandlers)
  BY DEF IsService
<1>3. /\ Len(q) \in Nat /\ Len(r) = Len(q) + 1
      /\ \A k \in 1 .. Len(q) : r[k] = q[k]
      /\ \A k \in 1 .. Len(r) : k \in 1 .. Len(q) \/ k = Len(q) + 1
      /\ r[Len(q) + 1] = e
  BY <1>2, AppendReady DEF OneMore
<1>4. e.conn = c /\ e.kind = "start"
  BY DEF Event
<1> HIDE DEF r
<1>5. \A k \in 1 .. Len(q) : q[k].conn # c \/ q[k].kind = "tick"
  BY DEF Quiet
<1>6. /\ \A k \in 1 .. Len(r) :
           ~Is(r[k], c, "read") /\ ~Is(r[k], c, "written") /\ ~Is(r[k], c, "end")
      /\ \A k \in 1 .. Len(r) : Is(r[k], c, "start") => k = Len(q) + 1
  BY <1>3, <1>4, <1>5 DEF Is
<1>7. ClosedQuiet(x) /\ OneRead(x, r, c) /\ OneAnswer(x, r, c)
  BY <1>1, <1>6 DEF ClosedQuiet, OneRead, OneAnswer, Reads
<1>8. FewWrites(x, r, c)
  <2>1. Continued(x) = 0
    BY <1>1 DEF Continued
  <2>2. Writes(x, r, c, 0)
    BY <1>1, <1>6 DEF Writes
  <2> QED
    BY <1>1, <1>6, <2>1, <2>2 DEF FewWrites
<1>9. OwnDeadline(x, z, c) /\ Fresh(x, z, c)
  BY <1>1, <1>6 DEF OwnDeadline, Fresh, Quiet, OneMore, r
<1> QED
  BY <1>7, <1>8, <1>9 DEF ConnectionOK, x, r

(* The next client is awaited at b, or none is when b is 0.                *)
LEMMA AwaitedStep ==
  ASSUME IInv, NEW b \in Conns \cup {0}, accepting' = b, inputs' = inputs,
         main' = "running",
         service' = [s \in Services |-> service'[s]], Services' = Services,
         \A s \in Services :
           /\ IsService(service'[s])
           /\ service'[s].tasks = service[s].tasks
           /\ \A k \in 1 .. Len(service'[s].ready) :
                LET h == service'[s].ready[k] IN
                \/ h.kind = "tick"
                \/ h.conn \in Conns /\ conn[h.conn].service = s,
         queue_length' \in [Services -> Nat], conn' \in [Conns -> Connections],
         \A c \in Conns : c # b => conn'[c] = conn[c],
         b # 0 =>
           /\ \A c \in Conns : c > b => conn[c].phase = "unborn"
           /\ \A s \in Services : Quiet(service'[s], b)
           /\ \E s \in Services :
                conn'[b] = NewConnection("accepting", s) /\ queue_length'[s] > 0,
         \A c \in Conns : c # b /\ conn[c].phase # "unborn" =>
           ConnectionOK(conn[c], service'[conn[c].service], c)
  PROVE  IInv'
<1>1. 0 \notin Conns
  BY ServerAssumption
<1>2. Types'
  <2>1. Len(service') = Len(service)
    <3>1. service' \in Seq({service'[s] : s \in Services}) /\ Len(service) \in Nat
      BY DEF IInv, Types, Services
    <3>2. DOMAIN service' = 1 .. Len(service)
      BY DEF IInv, Types, Services
    <3> QED
      BY <3>1, <3>2
  <2> QED
    BY <2>1 DEF IInv, Types, Services
<1>3. Placed'
  <2> SUFFICES ASSUME NEW s \in Services
               PROVE  /\ \A k \in 1 .. Len(service'[s].ready) :
                           \/ service'[s].ready[k].kind = "tick"
                           \/ /\ service'[s].ready[k].conn \in Conns
                              /\ conn'[service'[s].ready[k].conn].service = s
                      /\ \A id \in DOMAIN service'[s].tasks :
                           conn'[service'[s].tasks[id].conn].service = s
    BY DEF Placed
  <2>1. b # 0 => Quiet(service'[s], b)
    OBVIOUS
  <2>2. \A id \in DOMAIN service[s].tasks : service[s].tasks[id].conn \in Conns
    <3>1. IsService(service[s])
      BY DEF IInv, Types
    <3> QED
      BY <3>1 DEF IsService
  <2>3. \A k \in 1 .. Len(service'[s].ready) :
          \/ service'[s].ready[k].kind = "tick"
          \/ /\ service'[s].ready[k].conn \in Conns
             /\ conn'[service'[s].ready[k].conn].service = s
    <3> SUFFICES ASSUME NEW k \in 1 .. Len(service'[s].ready),
                        service'[s].ready[k].kind # "tick"
                 PROVE  /\ service'[s].ready[k].conn \in Conns
                        /\ conn'[service'[s].ready[k].conn].service = s
      OBVIOUS
    <3> DEFINE d == service'[s].ready[k].conn
    <3>1. d \in Conns /\ conn[d].service = s
      OBVIOUS
    <3>2. d # b
      BY <1>1, <2>1, <3>1 DEF Quiet
    <3> HIDE DEF d
    <3>3. conn'[d] = conn[d]
      BY <3>1, <3>2
    <3> QED
      BY <3>1, <3>3 DEF d
  <2>4. \A id \in DOMAIN service[s].tasks :
          conn[service[s].tasks[id].conn].service = s
    BY DEF IInv, Placed
  <2>5. \A id \in DOMAIN service'[s].tasks :
          conn'[service'[s].tasks[id].conn].service = s
    <3> SUFFICES ASSUME NEW id \in DOMAIN service'[s].tasks
                 PROVE  conn'[service'[s].tasks[id].conn].service = s
      OBVIOUS
    <3> DEFINE d == service'[s].tasks[id].conn
    <3>1. d \in Conns /\ conn[d].service = s
      BY <2>2, <2>4
    <3>2. d # b
      BY <1>1, <2>1, <3>1 DEF Quiet
    <3> HIDE DEF d
    <3>3. conn'[d] = conn[d]
      BY <3>1, <3>2
    <3> QED
      BY <3>1, <3>3 DEF d
  <2> QED
    BY <2>3, <2>5
<1>4. InOrder'
  <2>1. \A c \in Conns :
          IF conn'[c].phase = "unborn" THEN conn'[c] = NewConnection("unborn", 0)
                                       ELSE conn'[c].service \in Services'
    <3> SUFFICES ASSUME NEW c \in Conns
                 PROVE  IF conn'[c].phase = "unborn" THEN conn'[c] = NewConnection("unborn", 0)
                                                     ELSE conn'[c].service \in Services'
      OBVIOUS
    <3>1. CASE c = b
      BY <1>1, <3>1 DEF NewConnection
    <3>2. CASE c # b
      BY <3>2 DEF IInv, InOrder
    <3> QED
      BY <3>1, <3>2
  <2>2. ASSUME b # 0
        PROVE  /\ conn'[b].phase = "accepting"
               /\ queue_length'[conn'[b].service] > 0
               /\ \A c \in Conns : c > b => conn'[c].phase = "unborn"
    <3>1. conn'[b].phase = "accepting" /\ queue_length'[conn'[b].service] > 0
      <4>1. PICK s \in Services :
              conn'[b] = NewConnection("accepting", s) /\ queue_length'[s] > 0
        BY <2>2
      <4>2. conn'[b].phase = "accepting" /\ conn'[b].service = s
        BY <4>1 DEF NewConnection
      <4> QED
        BY <4>1, <4>2
    <3>2. \A c \in Conns : c > b => c # b
      BY <2>2, ServerAssumption
    <3> QED
      BY <2>2, <3>1, <3>2
  <2>3. ASSUME b # 0
        PROVE  \A s \in Services' : \A k \in 1 .. Len(service'[s].ready) :
                 ~Is(service'[s].ready[k], b, "start")
    BY <2>3 DEF Quiet, Is
  <2> QED
    BY <2>1, <2>2, <2>3 DEF InOrder
<1>5. ASSUME NEW c \in Conns, conn'[c].phase # "unborn"
      PROVE  ConnectionOK(conn'[c], service'[conn'[c].service], c)
  <2>1. CASE c # b
    BY <1>5, <2>1
  <2>2. CASE c = b
    <3>1. PICK s \in Services : conn'[b] = NewConnection("accepting", s)
      BY <1>1, <2>2
    <3>2. conn'[b].service = s /\ Quiet(service'[s], b)
      BY <1>1, <2>2, <3>1 DEF NewConnection
    <3> QED
      BY <2>2, <3>1, <3>2, NewConnectionOK
  <2> QED
    BY <2>1, <2>2
<1> QED
  BY <1>2, <1>3, <1>4, <1>5 DEF IInv

(* do_accept makes a connection at an io_service, and counts it there.     *)
LEMMA DoAcceptStep ==
  ASSUME IInv, NEW c \in Conns, NEW queue \in [Services -> Nat], DoAccept(c, queue)
  PROVE  /\ accepting' = c
         /\ queue_length' \in [Services -> Nat] /\ conn' \in [Conns -> Connections]
         /\ \A d \in Conns : d # c => conn'[d] = conn[d]
         /\ \E s \in Services :
              conn'[c] = NewConnection("accepting", s) /\ queue_length'[s] > 0
<1> DEFINE s == PickIoService(queue)
<1>1. s \in Services
  BY Picked DEF IInv, Types, Services
<1> HIDE DEF s
<1>2. /\ accepting' = c
      /\ conn' = [conn EXCEPT ![c] = NewConnection("accepting", s)]
      /\ queue_length' = [queue EXCEPT ![s] = queue[s] + 1]
  BY DEF DoAccept, s
<1>3. NewConnection("accepting", s) \in Connections /\ s \in Nat
  <2>1. s \in Nat
    BY <1>1 DEF IInv, Types, Services
  <2> QED
    BY <2>1 DEF NewConnection, Connections
<1>4. conn \in [Conns -> Connections]
  BY DEF IInv, Types
<1>5. queue[s] \in Nat /\ queue[s] + 1 \in Nat /\ queue[s] + 1 > 0
  BY <1>1
<1>6. queue_length' \in [Services -> Nat] /\ queue_length'[s] > 0
  BY <1>1, <1>2, <1>5
<1>7. conn' \in [Conns -> Connections] /\ conn'[c] = NewConnection("accepting", s)
      /\ \A d \in Conns : d # c => conn'[d] = conn[d]
  BY <1>2, <1>3, <1>4
<1> QED
  BY <1>1, <1>2, <1>6, <1>7

(* Nothing becomes ready when a client is awaited.                         *)
LEMMA NothingPosted ==
  ASSUME IInv, service' = service
  PROVE  /\ service' = [s \in Services |-> service'[s]] /\ Services' = Services
         /\ \A s \in Services :
              /\ IsService(service'[s])
              /\ service'[s].tasks = service[s].tasks
              /\ \A k \in 1 .. Len(service'[s].ready) :
                   LET h == service'[s].ready[k] IN
                   \/ h.kind = "tick"
                   \/ h.conn \in Conns /\ conn[h.conn].service = s
         /\ \A c \in Conns : conn[c].phase # "unborn" =>
              ConnectionOK(conn[c], service'[conn[c].service], c)
<1>1. /\ service' = [s \in Services |-> service'[s]] /\ Services' = Services
      /\ \A s \in Services : IsService(service'[s])
  <2>1. Services' = Services
    BY DEF Services
  <2> QED
    BY <2>1 DEF IInv, Types
<1>2. ASSUME NEW s \in Services, NEW k \in 1 .. Len(service'[s].ready)
      PROVE  LET h == service'[s].ready[k] IN
             \/ h.kind = "tick"
             \/ h.conn \in Conns /\ conn[h.conn].service = s
  BY DEF IInv, Placed
<1>3. \A c \in Conns : conn[c].phase # "unborn" =>
        ConnectionOK(conn[c], service'[conn[c].service], c)
  BY DEF IInv
<1> QED
  BY <1>1, <1>2, <1>3

(* The first do_accept keeps the invariant.                                *)
LEMMA BeginStep ==
  ASSUME IInv, Begin
  PROVE  IInv'
<1>1. /\ main = "initialising" /\ main' = "running" /\ DoAccept(1, queue_length)
      /\ service' = service /\ inputs' = inputs
  BY DEF Begin
<1>2. 1 \in Conns /\ 1 # 0
  BY ServerAssumption
<1>3. queue_length \in [Services -> Nat]
  BY DEF IInv, Types
<1>4. \A c \in Conns : conn[c].phase = "unborn"
  BY <1>1 DEF IInv, InOrder
<1>5. /\ accepting' = 1
      /\ queue_length' \in [Services -> Nat] /\ conn' \in [Conns -> Connections]
      /\ \A d \in Conns : d # 1 => conn'[d] = conn[d]
      /\ \E s \in Services :
           conn'[1] = NewConnection("accepting", s) /\ queue_length'[s] > 0
  BY <1>1, <1>2, <1>3, DoAcceptStep
<1>6. \A s \in Services : Quiet(service'[s], 1)
  BY <1>1, <1>2, <1>4, NotAcceptedQuiet
<1> QED
  BY <1>1, <1>2, <1>4, <1>5, <1>6, NothingPosted, AwaitedStep

(* An accept that fails keeps the invariant.                               *)
LEMMA AcceptFailsStep ==
  ASSUME IInv, AcceptFails
  PROVE  IInv'
<1> DEFINE a == accepting
           n == queue_length[conn[a].service] - 1
           queue == [queue_length EXCEPT ![conn[a].service] = n]
<1>1. /\ main = "running" /\ main' = main /\ a # 0 /\ DoAccept(a, queue)
      /\ service' = service /\ inputs' = inputs
  BY DEF AcceptFails
<1>2. /\ a \in Conns /\ conn[a].phase = "accepting" /\ conn[a].service \in Services
      /\ queue_length[conn[a].service] > 0 /\ queue_length \in [Services -> Nat]
      /\ \A c \in Conns : c > a => conn[c].phase = "unborn"
  BY <1>1 DEF IInv, Types, InOrder
<1>3. n \in Nat
  BY <1>2
<1>4. queue \in [Services -> Nat]
  BY <1>2, <1>3
<1> HIDE DEF queue, a
<1>5. /\ accepting' = a
      /\ queue_length' \in [Services -> Nat] /\ conn' \in [Conns -> Connections]
      /\ \A d \in Conns : d # a => conn'[d] = conn[d]
      /\ \E s \in Services :
           conn'[a] = NewConnection("accepting", s) /\ queue_length'[s] > 0
  BY <1>1, <1>2, <1>4, DoAcceptStep
<1>6. \A s \in Services : Quiet(service'[s], a)
  BY <1>1, <1>2, NotAcceptedQuiet DEF a
<1> QED
  BY <1>1, <1>2, <1>5, <1>6, NothingPosted, AwaitedStep

(* A client that connects, and the next do_accept, keep the invariant.     *)
LEMMA AcceptStep ==
  ASSUME IInv, Accept
  PROVE  IInv'
<1> DEFINE a == accepting
           s == conn[a].service
           e == Event("start", a, Only("none"))
           z == [service[s] EXCEPT !.ready = Append(service[s].ready, e)]
<1>1. /\ main = "running" /\ main' = main /\ a # 0 /\ inputs' = inputs
      /\ service' = [service EXCEPT ![s].ready = Append(@, e)]
      /\ IF a + 1 \in Conns THEN DoAccept(a + 1, queue_length)
                            ELSE accepting' = 0 /\ UNCHANGED <<conn, queue_length>>
  BY DEF Accept
<1>2. /\ a \in Conns /\ conn[a].phase = "accepting" /\ s \in Services
      /\ queue_length \in [Services -> Nat]
      /\ \A c \in Conns : c > a => conn[c].phase = "unborn"
      /\ conn \in [Conns -> Connections]
  BY <1>1 DEF IInv, Types, InOrder
<1>3. e \in ReadyHandlers /\ e.conn = a /\ e.kind = "start"
  BY <1>2 DEF Event, Only, ReadyHandlers, Data
<1>4. IsService(service[s]) /\ service[s].ready \in Seq(ReadyHandlers)
  BY <1>2 DEF IInv, Types, IsService
<1> HIDE DEF e
<1>5. OneMore(service[s], z, e)
  <2>1. Append(service[s].ready, e) \in Seq(ReadyHandlers)
    BY <1>3, <1>4
  <2>2. IsService(z)
    BY <1>4, <2>1, ServiceReady
  <2> QED
    BY <1>4, <2>2 DEF OneMore, IsService
<1>6. service' = [service EXCEPT ![s] = z]
  BY <1>1, <1>2 DEF IInv, Types
<1> HIDE DEF z, s, a
<1>7. /\ Services' = Services /\ service' = [j \in Services |-> service'[j]]
      /\ service'[s] = z /\ \A j \in Services : j # s => service'[j] = service[j]
  BY <1>2, <1>6 DEF IInv, Types, Services
<1>8. /\ Len(service[s].ready) \in Nat /\ Len(z.ready) = Len(service[s].ready) + 1
      /\ \A k \in 1 .. Len(z.ready) :
           \/ k \in 1 .. Len(service[s].ready) /\ z.ready[k] = service[s].ready[k]
           \/ z.ready[k] = e
  BY <1>3, <1>4, <1>5, AppendReady DEF OneMore
<1>9. ASSUME NEW j \in Services
      PROVE  /\ IsService(service'[j])
             /\ service'[j].tasks = service[j].tasks
             /\ \A k \in 1 .. Len(service'[j].ready) :
                  LET h == service'[j].ready[k] IN
                  \/ h.kind = "tick"
                  \/ h.conn \in Conns /\ conn[h.conn].service = j
  <2>1. CASE j # s
    BY <1>7, <2>1, NothingPosted DEF IInv, Types, Placed
  <2>2. CASE j = s
    <3>1. IsService(service'[j]) /\ service'[j].tasks = service[j].tasks
      BY <1>5, <1>7, <2>2 DEF OneMore
    <3>2. e.conn \in Conns /\ conn[e.conn].service = j
      BY <1>2, <1>3, <2>2 DEF s
    <3>3. \A k \in 1 .. Len(service[j].ready) :
            \/ service[j].ready[k].kind = "tick"
            \/ /\ service[j].ready[k].conn \in Conns
               /\ conn[service[j].ready[k].conn].service = j
      BY DEF IInv, Placed
    <3> QED
      BY <1>7, <1>8, <2>2, <3>1, <3>2, <3>3
  <2> QED
    BY <2>1, <2>2
<1>10. ASSUME NEW c \in Conns, conn[c].phase # "unborn"
       PROVE  ConnectionOK(conn[c], service'[conn[c].service], c)
  <2>1. conn[c].service \in Services /\ ConnectionOK(conn[c], service[conn[c].service], c)
    BY <1>10 DEF IInv, InOrder
  <2>2. CASE c = a
    <3>1. Quiet(service[s], a)
      BY <1>2, NotAcceptedQuiet DEF a
    <3>2. conn[a] = NewConnection("accepting", s)
      BY <1>2, <2>1, <2>2 DEF ConnectionOK, Fresh, s
    <3>3. e = Event("start", a, Only("none"))
      BY DEF e
    <3>4. ConnectionOK(conn[a], z, a)
      BY <1>2, <1>3, <1>4, <1>5, <3>1, <3>2, <3>3, AcceptedOK
    <3> QED
      BY <1>7, <2>2, <3>4 DEF s
  <2>3. CASE c # a /\ conn[c].service = s
    <3>1. ConnectionOK(conn[c], z, c)
      BY <1>2, <1>3, <1>5, <2>1, <2>3, PostedOK
    <3> QED
      BY <1>7, <2>3, <3>1
  <2>4. CASE conn[c].service # s
    BY <1>7, <2>1, <2>4
  <2> QED
    BY <2>2, <2>3, <2>4
<1>11. CASE a + 1 \notin Conns
  <2>1. /\ accepting' = 0 /\ conn' = conn /\ queue_length' = queue_length
        /\ 0 \in Conns \cup {0}
    BY <1>1, <1>11 DEF a
  <2> DEFINE b == 0
  <2>2. b \in Conns \cup {0} /\ accepting' = b /\ b = 0
    BY <2>1
  <2> HIDE DEF b
  <2> QED
    BY <1>1, <1>2, <1>7, <1>9, <1>10, <2>1, <2>2, AwaitedStep
<1>12. CASE a + 1 \in Conns
  <2> DEFINE b == a + 1
  <2>1. b \in Conns /\ b # 0 /\ b # a /\ (\A c \in Conns : c > b => c > a) /\ b > a
    BY <1>2, <1>12, ServerAssumption
  <2>2. DoAccept(b, queue_length)
    BY <1>1, <1>12
  <2> HIDE DEF b
  <2>3. /\ accepting' = b
        /\ queue_length' \in [Services -> Nat] /\ conn' \in [Conns -> Connections]
        /\ \A d \in Conns : d # b => conn'[d] = conn[d]
        /\ \E j \in Services :
             conn'[b] = NewConnection("accepting", j) /\ queue_length'[j] > 0
    BY <1>2, <2>1, <2>2, DoAcceptStep
  <2>4. \A c \in Conns : c > b => conn[c].phase = "unborn"
    BY <1>2, <2>1
  <2>5. \A j \in Services : Quiet(service[j], b)
    BY <1>2, <2>1, NotAcceptedQuiet
  <2>6. ASSUME NEW j \in Services PROVE Quiet(service'[j], b)
    <3>1. CASE j # s
      BY <1>7, <2>5, <3>1
    <3>2. CASE j = s
      BY <1>3, <1>5, <1>7, <1>8, <2>1, <2>5, <3>2 DEF Quiet, OneMore
    <3> QED
      BY <3>1, <3>2
  <2>7. b \in Conns \cup {0} /\ inputs' = inputs /\ main' = "running"
    BY <1>1, <2>1
  <2> QED
    BY <1>7, <1>9, <1>10, <2>1, <2>3, <2>4, <2>6, <2>7, AwaitedStep
<1> QED
  BY <1>11, <1>12

-----------------------------------------------------------------------------
(* Every step.                                                             *)

(* The invariant holds at first.                                           *)
LEMMA InitStep ==
  ASSUME Init
  PROVE  IInv
<1>1. PICK n \in Concurrencies :
        /\ service = [s \in 1 .. n |-> NewService]
        /\ queue_length = [s \in 1 .. n |-> 0]
  BY DEF Init
<1>2. /\ main = "initialising" /\ accepting = 0 /\ inputs = 0
      /\ conn = [c \in Conns |-> NewConnection("unborn", 0)]
  BY DEF Init
<1>3. n \in Nat \ {0} /\ Services = 1 .. n
  BY <1>1, ServerAssumption DEF Services
<1>4. IsService(NewService)
  <2>1. <<>> \in Seq(ReadyHandlers) /\ DOMAIN <<>> = {}
    OBVIOUS
  <2>2. {} \subseteq 1 .. 0 /\ <<>> \in [{} -> [conn : Conns, left : Nat]]
    OBVIOUS
  <2> QED
    BY <2>1, <2>2 DEF IsService, NewService
<1>5. NewService.ready = <<>> /\ NewService.tasks = <<>>
  BY DEF NewService
<1>6. Types
  <2>1. Len(service) = n
    <3>1. service \in Seq({NewService})
      BY <1>1, <1>3
    <3> QED
      BY <1>1, <1>3, <3>1
  <2>2. NewConnection("unborn", 0) \in Connections
    BY DEF NewConnection, Connections
  <2>3. service = [s \in Services |-> service[s]] /\ queue_length \in [Services -> Nat]
    BY <1>1, <1>3
  <2>4. \A s \in Services : IsService(service[s])
    BY <1>1, <1>3, <1>4
  <2>5. conn \in [Conns -> Connections]
    BY <1>2, <2>2
  <2> QED
    BY <1>2, <1>3, <2>1, <2>3, <2>4, <2>5 DEF Types, Services
<1>7. Placed
  BY <1>1, <1>3, <1>5 DEF Placed
<1>8. \A c \in Conns : conn[c].phase = "unborn" /\ conn[c] = NewConnection("unborn", 0)
  BY <1>2 DEF NewConnection
<1>9. InOrder
  BY <1>2, <1>8 DEF InOrder
<1> QED
  BY <1>6, <1>7, <1>8, <1>9 DEF IInv

(* Every step keeps the invariant.                                         *)
LEMMA NextStep ==
  ASSUME IInv, [Next]_vars
  PROVE  IInv'
<1>1. ASSUME NEW s \in Services, Worker(s) PROVE IInv'
  BY <1>1, WorkerThreadStep, StartedStep, ReadStep, WrittenStep, CompletedStep, TickStep
     DEF Worker
<1>2. ASSUME NEW s \in Services, TimerExpires(s) PROVE IInv'
  BY <1>2, TimerStep
<1>3. CASE Begin
  BY <1>3, BeginStep
<1>4. CASE Accept
  BY <1>4, AcceptStep
<1>5. CASE AcceptFails
  BY <1>5, AcceptFailsStep
<1>6. CASE Stop
  BY <1>6, StopStep
<1>7. CASE Return
  BY <1>7, ReturnStep
<1>8. ASSUME NEW c \in Conns, Arrives(c) \/ Sent(c) \/ Completes(c) PROVE IInv'
  BY <1>8, ArrivesStep, SentStep, CompletesStep
<1>9. CASE UNCHANGED vars
  BY <1>9 DEF vars, IInv, Types, Placed, InOrder, Services
<1> QED
  BY <1>1, <1>2, <1>3, <1>4, <1>5, <1>6, <1>7, <1>8, <1>9 DEF Next

(* What is ready and what is timed is so at the connection's own           *)
(* io_service, and nothing is for connections that do not exist yet.       *)
LEMMA OwnService ==
  ASSUME IInv, NEW c \in Conns, NEW s \in Services
  PROVE  /\ \A k \in DOMAIN service[s].ready :
              Is(service[s].ready[k], c, "read") =>
                /\ s = conn[c].service /\ ConnectionOK(conn[c], service[s], c)
                /\ k \in 1 .. Len(service[s].ready)
         /\ \A id \in DOMAIN service[s].tasks : service[s].tasks[id].conn = c =>
              s = conn[c].service /\ ConnectionOK(conn[c], service[s], c)
<1>1. IsService(service[s]) /\ service[s].ready \in Seq(ReadyHandlers) /\ s \in Nat \ {0}
  BY DEF IInv, Types, IsService, Services
<1>2. DOMAIN service[s].ready = 1 .. Len(service[s].ready)
  BY <1>1
<1>3. conn[c].service = s => ConnectionOK(conn[c], service[s], c)
  BY <1>1 DEF IInv, InOrder, NewConnection
<1> QED
  BY <1>2, <1>3 DEF IInv, Placed, Is

-----------------------------------------------------------------------------
(* The theorems.                                                           *)

(* The invariant holds whatever the threads, the clients, the network and  *)
(* the clock do, and in whatever order.                                    *)
THEOREM ServerInvariant == Spec => []IInv
<1>1. Init => IInv
  BY InitStep
<1>2. IInv /\ [Next]_vars => IInv'
  BY NextStep
<1> QED
  BY <1>1, <1>2, PTL DEF Spec

(* The state stays within its types; ids of deadlines have been given out, *)
(* and nothing waits for the network at a closed connection.               *)
THEOREM TypesCorrect == Spec => []TypeOK
<1>1. IInv => TypeOK
  <2> SUFFICES ASSUME IInv PROVE TypeOK
    OBVIOUS
  <2>1. \A s \in Services :
          /\ service[s].worker \in {"starting", "running", "ended"}
          /\ DOMAIN service[s].tasks \subseteq 1 .. service[s].highest
          /\ queue_length[s] \in Nat
    <3> SUFFICES ASSUME NEW s \in Services
                 PROVE  /\ service[s].worker \in {"starting", "running", "ended"}
                        /\ DOMAIN service[s].tasks \subseteq 1 .. service[s].highest
                        /\ queue_length[s] \in Nat
      OBVIOUS
    <3>1. IsService(service[s]) /\ queue_length[s] \in Nat
      BY DEF IInv, Types
    <3> QED
      BY <3>1 DEF IsService
  <2>2. ASSUME NEW c \in Conns
        PROVE  /\ conn[c].parser \in {"clear", "head", "half", "complete", "failed"}
               /\ conn[c].reading \in Nat /\ conn[c].writing \in Nat
               /\ ~conn[c].open => conn[c].reading + conn[c].writing = 0
    <3>1. conn[c] \in Connections
      BY DEF IInv, Types
    <3>2. ClosedQuiet(conn[c])
      <4>1. CASE conn[c].phase = "unborn"
        BY <4>1 DEF IInv, InOrder, NewConnection, ClosedQuiet
      <4>2. CASE conn[c].phase # "unborn"
        BY <4>2 DEF IInv, ConnectionOK
      <4> QED
        BY <4>1, <4>2
    <3> QED
      BY <3>1, <3>2 DEF Connections, ClosedQuiet
  <2> QED
    BY <2>1, <2>2 DEF TypeOK, IInv, Types
<1> QED
  BY <1>1, ServerInvariant, PTL

(* A connection never has a deadline beside the one whose id it keeps, so  *)
(* that cancelling that one leaves none that could close it: start_deadline*)
(* cancels first, and an id is not given out again while it is in use.     *)
THEOREM DeadlinesOwned == Spec => []OneDeadline
<1>1. IInv => OneDeadline
  <2> SUFFICES ASSUME IInv, NEW c \in Conns, NEW d \in Deadlines(c)
               PROVE  d = <<conn[c].service, conn[c].task_id>>
    BY DEF OneDeadline
  <2>1. PICK s \in Services : \E id \in DOMAIN service[s].tasks :
          d = <<s, id>> /\ service[s].tasks[id].conn = c
    BY DEF Deadlines
  <2>2. PICK id \in DOMAIN service[s].tasks :
          d = <<s, id>> /\ service[s].tasks[id].conn = c
    BY <2>1
  <2>3. s = conn[c].service /\ ConnectionOK(conn[c], service[s], c)
    BY <2>2, OwnService
  <2> QED
    BY <2>2, <2>3 DEF ConnectionOK, OwnDeadline
<1> QED
  BY <1>1, ServerInvariant, PTL

(* Reads of a connection never overlap, however an answer that comes later *)
(* and the end of the read before it are ordered: buffer_ is not shared.   *)
THEOREM ReadsAlone == Spec => []ReadOnce
<1>1. IInv => ReadOnce
  <2> SUFFICES ASSUME IInv, NEW c \in Conns
               PROVE  /\ conn[c].reading <= 1
                      /\ \A e, f \in Events(c, "read") : e = f /\ conn[c].reading = 0
    BY DEF ReadOnce
  <2>1. conn[c].reading <= 1
    <3>1. CASE conn[c].phase = "unborn"
      BY <3>1 DEF IInv, InOrder, NewConnection
    <3>2. CASE conn[c].phase # "unborn"
      BY <3>2 DEF IInv, ConnectionOK, OneRead
    <3> QED
      BY <3>1, <3>2
  <2>2. ASSUME NEW e \in Events(c, "read"), NEW f \in Events(c, "read")
        PROVE  e = f /\ conn[c].reading = 0
    <3>1. PICK s \in Services : \E j \in DOMAIN service[s].ready :
            e = <<s, j>> /\ Is(service[s].ready[j], c, "read")
      BY DEF Events, Is
    <3>2. PICK j \in DOMAIN service[s].ready :
            e = <<s, j>> /\ Is(service[s].ready[j], c, "read")
      BY <3>1
    <3>3. PICK t \in Services : \E k \in DOMAIN service[t].ready :
            f = <<t, k>> /\ Is(service[t].ready[k], c, "read")
      BY DEF Events, Is
    <3>4. PICK k \in DOMAIN service[t].ready :
            f = <<t, k>> /\ Is(service[t].ready[k], c, "read")
      BY <3>3
    <3>5. /\ s = conn[c].service /\ t = s
          /\ OneRead(conn[c], service[s].ready, c)
          /\ j \in 1 .. Len(service[s].ready) /\ k \in 1 .. Len(service[s].ready)
      BY <3>2, <3>4, OwnService DEF ConnectionOK
    <3> QED
      BY <3>2, <3>4, <3>5, Zenon DEF OneRead, Reads
  <2> QED
    BY <2>1, <2>2
<1> QED
  BY <1>1, ServerInvariant, PTL

(* No deadline runs while the answer to a request is awaited, in whichever *)
(* order the request was read, its deadline cancelled and a read resumed.  *)
THEOREM HandledUntimed == Spec => []NotTimedWhileHandled
<1>1. IInv => NotTimedWhileHandled
  <2> SUFFICES ASSUME IInv, NEW c \in Conns, conn[c].pending, NEW d \in Deadlines(c)
               PROVE  FALSE
    BY DEF NotTimedWhileHandled
  <2>1. PICK s \in Services : \E id \in DOMAIN service[s].tasks :
          d = <<s, id>> /\ service[s].tasks[id].conn = c
    BY DEF Deadlines
  <2>2. PICK id \in DOMAIN service[s].tasks :
          d = <<s, id>> /\ service[s].tasks[id].conn = c
    BY <2>1
  <2>3. ConnectionOK(conn[c], service[s], c)
    BY <2>2, OwnService
  <2> QED
    BY <2>2, <2>3 DEF ConnectionOK, OwnDeadline
<1> QED
  BY <1>1, ServerInvariant, PTL

(* The end of a write never clears the parser of a request that is half    *)
(* read.                                                                   *)
THEOREM RequestsLeft == Spec => WritesLeaveRequests
<1>1. IInv /\ [Next]_vars =>
        [\A s \in Services, c \in Conns :
           HasWritten(s) /\ conn[c].parser \in {"head", "half"} =>
             conn'[c].parser = conn[c].parser]_vars
  BY WrittenStep
<1> QED
  BY <1>1, ServerInvariant, PTL DEF Spec, WritesLeaveRequests

-----------------------------------------------------------------------------
(* Connections are spread over the threads.                                *)

(* One more connection, on the io_service that is picked.                  *)
LEMMA PickedEvenly ==
  ASSUME IInv, SpreadEvenly, Services' = Services, NEW c, DoAccept(c, queue_length)
  PROVE  SpreadEvenly'
<1> DEFINE p == PickIoService(queue_length)
<1>1. queue_length \in [Services -> Nat]
  BY DEF IInv, Types
<1>2. p \in Services /\ \A s \in Services : queue_length[p] <= queue_length[s]
  BY <1>1, Picked DEF IInv, Types, Services
<1>3. queue_length' = [queue_length EXCEPT ![p] = queue_length[p] + 1]
  BY DEF DoAccept
<1> HIDE DEF p
<1>4. ASSUME NEW s \in Services, NEW t \in Services
      PROVE  queue_length'[s] <= queue_length'[t] + 1
  <2>1. /\ queue_length[p] \in Nat /\ queue_length[s] \in Nat /\ queue_length[t] \in Nat
        /\ queue_length[s] <= queue_length[t] + 1 /\ queue_length[p] <= queue_length[t]
    BY <1>1, <1>2 DEF SpreadEvenly
  <2>2. /\ queue_length'[s] = IF s = p THEN queue_length[p] + 1 ELSE queue_length[s]
        /\ queue_length'[t] = IF t = p THEN queue_length[p] + 1 ELSE queue_length[t]
    BY <1>1, <1>2, <1>3
  <2> QED
    BY <2>1, <2>2
<1> QED
  BY <1>4 DEF SpreadEvenly

(* A connection that failed to be accepted is counted anew.                *)
LEMMA PickedAgainEvenly ==
  ASSUME IInv, SpreadEvenly, Services' = Services, AcceptFails
  PROVE  SpreadEvenly'
<1> DEFINE a == conn[accepting].service
           n == queue_length[a] - 1
           queue == [queue_length EXCEPT ![a] = n]
           p == PickIoService(queue)
<1>1. queue_length \in [Services -> Nat]
  BY DEF IInv, Types
<1>2. a \in Services /\ queue_length[a] \in Nat /\ queue_length[a] > 0
  <2>1. accepting \in Conns /\ conn[accepting].phase = "accepting" /\ queue_length[a] > 0
    BY DEF IInv, Types, InOrder, AcceptFails
  <2>2. a \in Services
    BY <2>1 DEF IInv, InOrder
  <2> QED
    BY <1>1, <2>1, <2>2
<1>3. n \in Nat /\ queue_length[a] = n + 1
  BY <1>2
<1>4. queue_length' = [queue EXCEPT ![p] = queue[p] + 1]
  BY DEF AcceptFails, DoAccept
<1> HIDE DEF n, a
<1>5. queue \in [Services -> Nat]
  BY <1>1, <1>3
<1> HIDE DEF queue
<1>6. p \in Services /\ \A s \in Services : queue[p] <= queue[s]
  BY <1>5, Picked DEF IInv, Types, Services
<1> HIDE DEF p
<1>7. \A s \in Services : /\ queue[s] = (IF s = a THEN n ELSE queue_length[s])
                          /\ queue_length'[s] = (IF s = p THEN queue[p] + 1 ELSE queue[s])
  BY <1>1, <1>2, <1>4, <1>5, <1>6 DEF queue
<1>8. ASSUME NEW s \in Services, NEW t \in Services
      PROVE  queue_length'[s] <= queue_length'[t] + 1
  <2>1. /\ queue_length[s] \in Nat /\ queue_length[t] \in Nat /\ queue_length[p] \in Nat
        /\ queue_length[s] <= queue_length[t] + 1
    BY <1>1, <1>6 DEF SpreadEvenly
  <2>2. CASE p = a
    BY <1>2, <1>3, <1>6, <1>7, <2>1, <2>2
  <2>3. CASE p # a
    <3>1. queue_length[p] <= n
      BY <1>2, <1>6, <1>7, <2>3
    <3>2. queue_length[a] <= queue_length[p] + 1
      BY <1>2, <1>6 DEF SpreadEvenly
    <3>3. queue_length[p] = n
      BY <1>3, <2>1, <3>1, <3>2
    <3>4. queue_length[s] <= n + 1
      BY <1>6, <3>3 DEF SpreadEvenly
    <3>5. t # a => queue_length[t] >= n
      <4>1. queue[p] = queue_length[p]
        BY <1>6, <1>7, <2>3
      <4> QED
        BY <1>6, <1>7, <3>3, <4>1
    <3>6. queue_length'[s] <= n + 1
      BY <1>3, <1>6, <1>7, <2>1, <2>3, <3>3, <3>4
    <3>7. queue_length'[t] >= n
      BY <1>3, <1>6, <1>7, <2>1, <2>3, <3>3, <3>5
    <3>8. queue_length'[t] \in Nat
      BY <1>3, <1>6, <1>7, <2>1
    <3>9. queue_length'[s] \in Nat
      BY <1>3, <1>6, <1>7, <2>1
    <3> QED
      BY <1>3, <3>6, <3>7, <3>8, <3>9
  <2> QED
    BY <2>2, <2>3
<1> QED
  BY <1>8 DEF SpreadEvenly

(* The numbers of connections of two io_services differ by one at most,    *)
(* whether accepting succeeds or fails and how many threads there are:     *)
(* pick_io_service_idx finds one that has the fewest.                      *)
THEOREM Spread == Spec => []SpreadEvenly
<1>1. Init => SpreadEvenly
  BY ServerAssumption DEF Init, SpreadEvenly, Services
<1>2. IInv /\ IInv' /\ SpreadEvenly /\ [Next]_vars => SpreadEvenly'
  <2> SUFFICES ASSUME IInv, IInv', SpreadEvenly, [Next]_vars PROVE SpreadEvenly'
    OBVIOUS
  <2>1. /\ queue_length \in [Services -> Nat] /\ queue_length' \in [Services' -> Nat]
    BY DEF IInv, Types
  <2>2. CASE queue_length' = queue_length
    <3>1. Services' = Services
      BY <2>1, <2>2
    <3> QED
      BY <2>2, <3>1 DEF SpreadEvenly
  <2>3. ASSUME NEW c, DoAccept(c, queue_length) PROVE SpreadEvenly'
    <3>1. DOMAIN queue_length' = DOMAIN queue_length
      BY <2>3 DEF DoAccept
    <3>2. Services' = Services
      BY <2>1, <3>1
    <3> QED
      BY <2>3, <3>2, PickedEvenly
  <2>4. CASE AcceptFails
    <3>1. Services' = Services
      BY <2>4 DEF AcceptFails, Services
    <3> QED
      BY <2>4, <3>1, PickedAgainEvenly
  <2>5. queue_length' = queue_length \/ AcceptFails \/ \E c : DoAccept(c, queue_length)
    <3>1. ASSUME NEW s \in Services, Worker(s) \/ TimerExpires(s)
          PROVE  queue_length' = queue_length
      <4>1. ASSUME Started(s) PROVE queue_length' = queue_length
        BY <4>1 DEF Started, Runs
      <4>2. ASSUME HasRead(s) PROVE queue_length' = queue_length
        BY <4>2 DEF HasRead, Runs
      <4>3. ASSUME HasWritten(s) PROVE queue_length' = queue_length
        BY <4>3 DEF HasWritten, Runs
      <4>4. ASSUME CompletedLater(s) PROVE queue_length' = queue_length
        BY <4>4 DEF CompletedLater, Runs
      <4>5. ASSUME Tick(s) PROVE queue_length' = queue_length
        <5>1. UNCHANGED <<queue_length, main, accepting, inputs>>
          BY <4>5, ZenonT(60) DEF Tick
        <5> QED
          BY <5>1
      <4>6. ASSUME WorkerStarts(s) \/ WorkerEnds(s) \/ TimerExpires(s)
            PROVE  queue_length' = queue_length
        BY <4>6 DEF WorkerStarts, WorkerEnds, TimerExpires
      <4> QED
        BY <3>1, <4>1, <4>2, <4>3, <4>4, <4>5, <4>6 DEF Worker
    <3>2. ASSUME NEW c \in Conns, Arrives(c) \/ Sent(c) \/ Completes(c)
          PROVE  queue_length' = queue_length
      BY <3>2 DEF Arrives, Sent, Completes
    <3>3. ASSUME Stop \/ Return \/ UNCHANGED vars PROVE queue_length' = queue_length
      BY <3>3 DEF Stop, Return, vars
    <3>4. ASSUME Begin \/ Accept
          PROVE  queue_length' = queue_length \/ \E c : DoAccept(c, queue_length)
      BY <3>4 DEF Begin, Accept
    <3> QED
      BY <3>1, <3>2, <3>3, <3>4 DEF Next
  <2> QED
    BY <2>2, <2>3, <2>4, <2>5
<1> QED
  BY <1>1, <1>2, ServerInvariant, PTL DEF Spec

=============================================================================
