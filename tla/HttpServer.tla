----------------------------- MODULE HttpServer -----------------------------
(***************************************************************************)
(* The HTTP server that answers the API: Server (http_server.h) with its   *)
(* pool of io_services, one worker thread each; Connection                 *)
(* (http_connection.h) with its reads, writes and flags; and task_timer    *)
(* (task_timer.h), which closes connections that have been idle.           *)
(*                                                                         *)
(* A connection is served by one io_service, whose handlers its thread     *)
(* runs one at a time, in the order in which they became ready: a handler  *)
(* is one action.  What makes them ready (clients, the network, the clock) *)
(* happens at any time in between.  Of the bytes that are read only what   *)
(* they make of the request is kept: HttpParser models the rest.           *)
(***************************************************************************)
EXTENDS Integers, SequencesExt

CONSTANTS
  Concurrencies,  \* numbers of worker threads (concurrency_ - 1)
  Conns,          \* 1 .. n: connections, in the order they are created
  MaxInputs,      \* how often data arrives, at most, by number of threads
  Timeout,        \* timeout_, in ticks
  Requests        \* [what, close]: what answers the requests that clients make

ASSUME ServerAssumption ==
  /\ Concurrencies \subseteq Nat \ {0}
  /\ Cardinality(Conns) \in Nat \ {0} /\ Conns = 1 .. Cardinality(Conns)
  /\ MaxInputs \in [Concurrencies -> Nat] /\ Timeout \in Nat \ {0}
  /\ Requests \subseteq [what : {"general", "long", "static", "lost", "later",
                                 "upgrade", "throws"}, close : BOOLEAN]

VARIABLES
  service,        \* the io_services, each with its task_timer and its thread
  queue_length,   \* task_queue_length_pool_
  main,           \* the thread of Server::run, and shutting_down_
  accepting,      \* the connection async_accept waits for, or 0
  conn,           \* the connections
  inputs          \* how often data has arrived

vars == <<service, queue_length, main, accepting, conn, inputs>>

Services == DOMAIN service

NewService ==
  [worker |-> "starting", stopped |-> FALSE, ready |-> <<>>, tasks |-> <<>>,
   highest |-> 0, ticking |-> FALSE]

(* A Connection as constructed.  reading and writing count the operations  *)
(* that wait for the network.                                              *)
NewConnection(phase, s) ==
  [phase |-> phase, service |-> s, open |-> TRUE, reading |-> 0, writing |-> 0,
   parser |-> "clear", close |-> FALSE, continuing |-> FALSE,
   pending |-> FALSE, posted |-> FALSE, resume |-> FALSE, task_id |-> 0]

Init ==
  /\ \E n \in Concurrencies :
       /\ service = [s \in 1 .. n |-> NewService]
       /\ queue_length = [s \in 1 .. n |-> 0]
  /\ main = "initialising"
  /\ accepting = 0
  /\ conn = [c \in Conns |-> NewConnection("unborn", 0)]
  /\ inputs = 0

-----------------------------------------------------------------------------
(* What handlers do.  st is [c, s]: the connection and its io_service.     *)

Event(kind, c, data) == [kind |-> kind, conn |-> c, data |-> data]
Only(what) == [what |-> what, close |-> FALSE]
Post(st, e) == [st EXCEPT !.s.ready = Append(@, e)]
Copies(n, e) == [k \in 1 .. n |-> e]

(* cancel_deadline_timer: whatever has the id is erased.                   *)
Cancel(st) ==
  [st EXCEPT !.s.tasks = Restrict(@, DOMAIN @ \ {st.c.task_id})]

(* std::map::insert: nothing happens when the id is taken.                 *)
Insert(tasks, id, task) ==
  [k \in DOMAIN tasks \cup {id} |-> IF k \in DOMAIN tasks THEN tasks[k] ELSE task]

(* Mutant: the deadline that is running is left alone.                     *)
StartDeadlineTwice(st, c) ==
  [st EXCEPT !.s.highest = @ + 1,
             !.s.tasks = Insert(@, st.s.highest + 1, [conn |-> c, left |-> Timeout]),
             !.c.task_id = st.s.highest + 1]

(* start_deadline, and task_timer::schedule.                               *)
StartDeadline(st, c) ==
  LET t == Cancel(st)
      id == t.s.highest + 1
  IN [t EXCEPT !.s.highest = id,
               !.s.tasks = Insert(@, id, [conn |-> c, left |-> Timeout]),
               !.c.task_id = id]

(* close(): what waits for the socket ends with an error.                  *)
Close(st, c) ==
  IF ~st.c.open THEN st
  ELSE [st EXCEPT
          !.c.open = FALSE, !.c.reading = 0, !.c.writing = 0,
          !.s.ready = @ \o Copies(st.c.reading, Event("read", c, Only("aborted")))
                        \o Copies(st.c.writing, Event("written", c, Only("aborted")))]

DoRead(st, c) ==
  IF st.c.open THEN [st EXCEPT !.c.reading = @ + 1]
               ELSE Post(st, Event("read", c, Only("aborted")))

DoWrite(st, c) ==
  IF st.c.open THEN [st EXCEPT !.c.writing = @ + 1]
               ELSE Post(st, Event("written", c, Only("aborted")))

(* HTTPParser::clear.  (It does not clear http_errno.)                     *)
ClearParser(st) ==
  [st EXCEPT !.c.parser = IF @ = "failed" THEN @ ELSE "clear"]

CloseIfAsked(st, c) == IF st.c.close THEN Close(st, c) ELSE st

(* A write that returns when all is sent: what was under way is sent too.  *)
WriteSync(st, c) ==
  [st EXCEPT !.c.writing = 0,
             !.s.ready = @ \o Copies(st.c.writing, Event("written", c, Only("written")))]

(* do_write_static: a file.                                                *)
WriteStatic(st, c) == ClearParser(CloseIfAsked(WriteSync(st, c), c))

(* Mutant: every answer starts a read.                                     *)
WriteGeneralReading(st, c, data) ==
  IF data.what = "general"
    THEN DoRead(StartDeadline(DoWrite([st EXCEPT !.c.resume = FALSE], c), c), c)
    ELSE ClearParser(CloseIfAsked(WriteSync(Cancel(st), c), c))

(* do_write_general: a short body is written asynchronously, and a read    *)
(* that waited for the answer starts; a long one is written here.          *)
WriteGeneral(st, c, data) ==
  IF data.what = "general"
    THEN LET w == DoWrite(st, c) IN
         IF w.c.resume
           THEN DoRead(StartDeadline([w EXCEPT !.c.resume = FALSE], c), c)
           ELSE w
    ELSE ClearParser(CloseIfAsked(WriteSync(Cancel(st), c), c))

(* complete_request.  An answer is lost when its client has gone and a     *)
(* write that is done here throws: nothing that follows the write is done. *)
CompleteRequest(st, c, data) ==
  LET t == [st EXCEPT !.c.pending = FALSE, !.c.posted = FALSE] IN
  CASE data.what = "static" -> WriteStatic(t, c)
    [] data.what = "lost" -> t
    [] OTHER -> WriteGeneral(t, c, data)

(* Mutant: the deadline runs on while the request is handled.              *)
HandleTimed(st, c, r) ==
  LET t == [st EXCEPT !.c.parser = "complete", !.c.close = r.close] IN
  CASE r.what \in {"general", "long", "static", "lost"} -> CompleteRequest(t, c, r)
    [] r.what = "later" -> [t EXCEPT !.c.pending = TRUE]
    [] r.what = "upgrade" -> [t EXCEPT !.c.close = TRUE]
    [] r.what = "throws" -> t

(* handle: the request is answered at once or later, or it asks for an     *)
(* upgrade that its rule does not answer, or the client has gone and       *)
(* remote_endpoint throws.  (What a write throws ends in Router::handle,   *)
(* which answers once more: but the response is completed already.)        *)
Handle(st, c, r) ==
  LET t == Cancel([st EXCEPT !.c.parser = "complete", !.c.close = r.close]) IN
  CASE r.what \in {"general", "long", "static", "lost"} -> CompleteRequest(t, c, r)
    [] r.what = "later" -> [t EXCEPT !.c.pending = TRUE]
    [] r.what = "upgrade" -> [t EXCEPT !.c.close = TRUE]
    [] r.what = "throws" -> t

(* What data may be, after what has been read before: part of a request,   *)
(* the end of its headers, which may expect a 100 (Continue), a URL        *)
(* without a rule or a bad request.  (head does not tell whether the URL   *)
(* has been looked up: one without a rule may come late here.)             *)
Fragments(parser) ==
  [what : {"part", "bad"} \cup
            IF parser \in {"clear", "head"} THEN {"headers", "expect", "unrouted"}
                                           ELSE {},
   close : {FALSE}]

Feed(st, c, data) ==
  IF st.c.parser = "complete" THEN st ELSE
  CASE data.what = "part" ->
         [st EXCEPT !.c.parser = IF @ = "half" THEN "half" ELSE "head"]
    [] data.what = "headers" -> [st EXCEPT !.c.parser = "half"]
    [] data.what = "expect" ->
         DoWrite([st EXCEPT !.c.parser = "half", !.c.continuing = TRUE], c)
    [] data.what = "bad" -> [st EXCEPT !.c.parser = "failed"]
    [] data.what = "unrouted" ->
         CompleteRequest([st EXCEPT !.c.parser = "failed"], c, Only("general"))
    [] OTHER -> Handle(st, c, data)

(* do_read's callback.                                                     *)
ReadCallback(st, c, data) ==
  LET fed == Feed(st, c, data)
      throws == data.what = "throws" /\ st.c.parser # "complete"
  IN CASE data.what = "aborted" -> Close(Cancel(st), c)
       [] throws -> fed
       [] OTHER ->
            CASE fed.c.parser = "failed" \/ ~fed.c.open ->
                   Close(Cancel(fed), c)
              [] fed.c.parser # "failed" /\ fed.c.open /\ fed.c.close ->
                   Cancel(fed)
              [] OTHER ->
                   IF fed.c.pending
                     THEN [fed EXCEPT !.c.resume = TRUE]
                     ELSE DoRead(StartDeadline(fed, c), c)

(* Mutant: the answer to Expect: 100-continue ends the request.            *)
WriteCallbackClearing(st, c, result) ==
  LET t == ClearParser(st)
  IN IF result.what = "written" THEN CloseIfAsked(t, c) ELSE t

(* do_write's callback.                                                    *)
WriteCallback(st, c, result) ==
  LET t == IF st.c.continuing THEN [st EXCEPT !.c.continuing = FALSE]
                              ELSE ClearParser(st)
  IN IF result.what = "written" THEN CloseIfAsked(t, c) ELSE t

-----------------------------------------------------------------------------
(* Worker threads.                                                         *)

(* A thread has filled its slots of the pools.                             *)
WorkerStarts(s) ==
  /\ service[s].worker = "starting"
  /\ service' = [service EXCEPT ![s].worker = "running"]
  /\ UNCHANGED <<queue_length, main, accepting, conn, inputs>>

(* io_service::run has returned, and returns 0 when called again.          *)
WorkerEnds(s) ==
  /\ service[s].worker = "running" /\ service[s].stopped
  /\ service' = [service EXCEPT ![s].worker = "ended"]
  /\ UNCHANGED <<queue_length, main, accepting, conn, inputs>>

Running(s) ==
  service[s].worker = "running" /\ ~service[s].stopped /\ service[s].ready # <<>>

(* The first ready handler of s runs: it does Do to its connection.        *)
Runs(s, kind, Do(_, _, _)) ==
  /\ Running(s)
  /\ Head(service[s].ready).kind = kind
  /\ LET e  == Head(service[s].ready)
         st == [c |-> conn[e.conn],
                s |-> [service[s] EXCEPT !.ready = Tail(@)]]
         t  == Do(st, e.conn, e.data)
     IN /\ conn' = [conn EXCEPT ![e.conn] = t.c]
        /\ service' = [service EXCEPT ![s] = t.s]
  /\ UNCHANGED <<queue_length, main, accepting, inputs>>

(* Connection::start.                                                      *)
Start(st, c, data) ==
  DoRead(ClearParser(StartDeadline([st EXCEPT !.c.phase = "started"], c)), c)

Started(s) == Runs(s, "start", Start)
HasRead(s) == Runs(s, "read", ReadCallback)
HasWritten(s) == Runs(s, "written", WriteCallback)

(* A response is completed later, from another handler of the thread.      *)
CompletedLater(s) == Runs(s, "end", CompleteRequest)

(* The operations of c that wait for the network: close() ends them.       *)
Waiting(c) ==
  ({"read"} \X (1 .. conn[c].reading)) \cup ({"written"} \X (1 .. conn[c].writing))

(* Those of the connections that the tasks of due close; and which of two  *)
(* ends first: the tasks run in the order of their ids.                    *)
Ended(s, due) ==
  UNION {{id} \X Waiting(service[s].tasks[id].conn) : id \in due}
EndsFirst(a, b) ==
  \/ a[1] < b[1]
  \/ a[1] = b[1] /\ a[2][1] = "read" /\ b[2][1] = "written"
  \/ a[1] = b[1] /\ a[2][1] = b[2][1] /\ a[2][2] < b[2][2]
Aborted(s, q) ==
  [k \in DOMAIN q |-> Event(q[k][2][1], service[s].tasks[q[k][1]].conn, Only("aborted"))]

(* Mutant: the ids begin again although tasks are left.                    *)
HighestReset(rest, highest) == 0

(* The ids begin again when no task is left.                               *)
HighestAfter(rest, highest) == IF rest = {} THEN 0 ELSE highest

(* tick_handler and process_tasks.  A tick is at least a second: a task    *)
(* may be due a tick before its number of ticks has passed.                *)
Tick(s) ==
  /\ Running(s)
  /\ Head(service[s].ready).kind = "tick"
  /\ \E due \in SUBSET DOMAIN service[s].tasks :
       LET tasks == service[s].tasks
           rest == DOMAIN tasks \ due
       IN /\ \A id \in DOMAIN tasks :
               /\ tasks[id].left = 0 => id \in due
               /\ id \in due => tasks[id].left <= 1
          /\ \E q \in SetToSeqs(Ended(s, due)) :
               /\ \A j, k \in DOMAIN q : j < k => EndsFirst(q[j], q[k])
               /\ service' = [service EXCEPT
                    ![s].ready = Tail(@) \o Aborted(s, q),
                    ![s].tasks = [id \in rest |-> [tasks[id] EXCEPT !.left = @ - 1]],
                    ![s].highest = HighestAfter(rest, @),
                    ![s].ticking = FALSE]
          /\ conn' = [c \in Conns |->
               IF \E id \in due : tasks[id].conn = c
                 THEN [conn[c] EXCEPT !.open = FALSE, !.reading = 0,
                                      !.writing = 0]
                 ELSE conn[c]]
  /\ UNCHANGED <<queue_length, main, accepting, inputs>>

-----------------------------------------------------------------------------
(* The main thread: run, do_accept, stop.                                  *)

(* Mutant: the last io_service is not looked at.                           *)
PickShort(queue) ==
  LET n == Len(queue) - 1
      first == {s \in 1 .. n : queue[s] = 0}
  IN IF n = 0 THEN 1 ELSE
     CHOOSE s \in 1 .. n :
       /\ \A j \in 1 .. n : queue[s] <= queue[j]
       /\ \A j \in 1 .. s - 1 : queue[s] < queue[j]

(* pick_io_service_idx: the first of those with the fewest.  (It stops at  *)
(* one that has none, which is the same.)                                  *)
PickIoService(queue) ==
  CHOOSE s \in DOMAIN queue :
    /\ \A j \in DOMAIN queue : queue[s] <= queue[j]
    /\ \A j \in 1 .. s - 1 : queue[s] < queue[j]

(* do_accept: a connection object for the next client, on the io_service   *)
(* that is picked.                                                         *)
DoAccept(c, queue) ==
  LET s == PickIoService(queue) IN
  /\ accepting' = c
  /\ conn' = [conn EXCEPT ![c] = NewConnection("accepting", s)]
  /\ queue_length' = [queue EXCEPT ![s] = @ + 1]

(* run waits for init_count before the first do_accept.                    *)
Begin ==
  /\ main = "initialising"
  /\ \A s \in Services : service[s].worker = "running"
  /\ main' = "running"
  /\ DoAccept(1, queue_length)
  /\ UNCHANGED <<service, inputs>>

(* A client has connected: its start is posted, and the next is awaited.   *)
(* (A connection is never taken out of queue_length again.)                *)
Accept ==
  /\ main = "running" /\ accepting # 0
  /\ service' = [service EXCEPT ![conn[accepting].service].ready =
                   Append(@, Event("start", accepting, Only("none")))]
  /\ IF accepting + 1 \in Conns
       THEN DoAccept(accepting + 1, queue_length)
       ELSE accepting' = 0 /\ UNCHANGED <<conn, queue_length>>
  /\ UNCHANGED <<main, inputs>>

AcceptFails ==
  /\ main = "running" /\ accepting # 0
  /\ DoAccept(accepting, [queue_length EXCEPT ![conn[accepting].service] = @ - 1])
  /\ UNCHANGED <<service, main, inputs>>

(* Mutant: only the main io_service is stopped.                            *)
StopMain ==
  /\ main = "running"
  /\ main' = "stopped"
  /\ UNCHANGED <<service, queue_length, accepting, conn, inputs>>

(* SIGINT or SIGTERM: stop().                                              *)
Stop ==
  /\ main = "running"
  /\ main' = "stopped"
  /\ service' = [s \in Services |-> [service[s] EXCEPT !.stopped = TRUE]]
  /\ UNCHANGED <<queue_length, accepting, conn, inputs>>

(* run returns: its futures are those of the workers.                      *)
Return ==
  /\ main = "stopped"
  /\ \A s \in Services : service[s].worker = "ended"
  /\ main' = "returned"
  /\ UNCHANGED <<service, queue_length, accepting, conn, inputs>>

-----------------------------------------------------------------------------
(* The network, the clock and the handlers that answer later.              *)

(* (What becomes ready in an io_service that has been stopped never runs.) *)
Posts(s, e) ==
  /\ ~service[s].stopped
  /\ service' = [service EXCEPT ![s].ready = Append(@, e)]

(* Data of c has arrived, or its client has closed the connection.         *)
Arrives(c) ==
  /\ conn[c].reading > 0 /\ inputs < MaxInputs[Len(service)]
  /\ inputs' = inputs + 1
  /\ \E data \in Requests \cup Fragments(conn[c].parser) \cup {Only("aborted")} :
       Posts(conn[c].service, Event("read", c, data))
  /\ conn' = [conn EXCEPT ![c].reading = @ - 1]
  /\ UNCHANGED <<queue_length, main, accepting>>

(* A write is done, or has failed.                                         *)
Sent(c) ==
  /\ conn[c].writing > 0
  /\ \E result \in {"written", "aborted"} :
       Posts(conn[c].service, Event("written", c, Only(result)))
  /\ conn' = [conn EXCEPT ![c].writing = @ - 1]
  /\ UNCHANGED <<queue_length, main, accepting, inputs>>

(* The answer to a request that is answered later is there.                *)
Completes(c) ==
  /\ conn[c].pending /\ ~conn[c].posted
  /\ \E kind \in {"general", "long", "static", "lost"} :
       Posts(conn[c].service, Event("end", c, Only(kind)))
  /\ conn' = [conn EXCEPT ![c].posted = TRUE]
  /\ UNCHANGED <<queue_length, main, accepting, inputs>>

(* A second has passed since the last tick.                                *)
TimerExpires(s) ==
  /\ service[s].worker = "running" /\ ~service[s].stopped
  /\ ~service[s].ticking
  /\ service' = [service EXCEPT ![s].ticking = TRUE,
                                ![s].ready = Append(@, Event("tick", 0, Only("none")))]
  /\ UNCHANGED <<queue_length, main, accepting, conn, inputs>>

Worker(s) ==
  \/ WorkerStarts(s) \/ WorkerEnds(s)
  \/ Started(s) \/ HasRead(s) \/ HasWritten(s) \/ CompletedLater(s) \/ Tick(s)

Next ==
  \/ \E s \in Services : Worker(s) \/ TimerExpires(s)
  \/ Begin \/ Accept \/ AcceptFails \/ Stop \/ Return
  \/ \E c \in Conns : Arrives(c) \/ Sent(c) \/ Completes(c)

Spec == Init /\ [][Next]_vars

(* The threads run; clients, network and clock owe nothing.                *)
FairSpec ==
  /\ Spec
  /\ \A s \in 1 .. 2 : WF_vars(s \in Services /\ Worker(s))
  /\ WF_vars(Return)

-----------------------------------------------------------------------------

(* Where the handlers of a kind for c wait to run, and the deadlines of c. *)
Events(c, kind) ==
  UNION {{<<s, k>> : k \in {k \in DOMAIN service[s].ready :
                              /\ service[s].ready[k].conn = c
                              /\ service[s].ready[k].kind = kind}} : s \in Services}

Deadlines(c) ==
  UNION {{<<s, id>> : id \in {id \in DOMAIN service[s].tasks :
                                service[s].tasks[id].conn = c}} : s \in Services}

(* The ids of the tasks have been given out and not been reset: the next   *)
(* one is new.                                                             *)
TypeOK ==
  /\ main \in {"initialising", "running", "stopped", "returned"}
  /\ accepting \in Conns \cup {0}
  /\ \A s \in Services :
       /\ service[s].worker \in {"starting", "running", "ended"}
       /\ DOMAIN service[s].tasks \subseteq 1 .. service[s].highest
       /\ queue_length[s] \in Nat
  /\ \A c \in Conns :
       /\ conn[c].parser \in {"clear", "head", "half", "complete", "failed"}
       /\ conn[c].reading \in Nat /\ conn[c].writing \in Nat
       /\ ~conn[c].open => conn[c].reading + conn[c].writing = 0

(* A connection has one deadline at most, the one whose id it keeps: what  *)
(* it cancels when data arrives is the deadline that would close it.       *)
OneDeadline ==
  \A c \in Conns :
    \A d \in Deadlines(c) :
      d = <<conn[c].service, conn[c].task_id>>

(* Two reads never share buffer_, whether the answer to a request comes    *)
(* before or after do_read's callback returns.                             *)
ReadOnce ==
  \A c \in Conns :
    /\ conn[c].reading <= 1
    /\ \A e, f \in Events(c, "read") : e = f /\ conn[c].reading = 0

(* A request that is answered later is not cut off by the deadline of its  *)
(* connection, however long that takes.                                    *)
NotTimedWhileHandled ==
  \A c \in Conns : conn[c].pending => Deadlines(c) = {}

(* The end of a write does not clear the parser in the middle of a         *)
(* request: it is never the 100 (Continue) of the request that is being    *)
(* read, nor an earlier answer that ends late.                             *)
WritesLeaveRequests ==
  [][\A s \in Services, c \in Conns :
       HasWritten(s) /\ conn[c].parser \in {"head", "half"} =>
         conn'[c].parser = conn[c].parser]_vars

(* The io_services get the same number of connections, give or take one.   *)
SpreadEvenly ==
  \A s, t \in Services : queue_length[s] <= queue_length[t] + 1

(* After a signal run returns, whatever the worker threads were doing.     *)
StopEnds == main = "stopped" ~> main = "returned"

(* A connection that waits for data has a deadline ("Set the connection    *)
(* timeout in seconds", app.h).                                            *)
WaitingHasDeadline ==
  \A c \in Conns :
    conn[c].phase = "started" /\ conn[c].reading > 0 => Deadlines(c) # {}

=============================================================================
