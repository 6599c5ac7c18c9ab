# A TLA+ model of the RTSP transcoding server

This directory specifies, model-checks and proves properties of the RTSP
transcoding server of this repository: a C++ process that takes H.264 cameras as
input channels, relays and transcodes each of them at four RTSP mount points
(`/{id}/first` .. `/{id}/fourth`), and lets an operator add and remove channels
over an HTTP API. The API is served by Crow, a header-only HTTP server whose source
is part of the repository (`headers/crow/`) and of its binary: the way of a request
through it is modelled, too, and of its JSON and query strings also what `main.cpp` does not call
(`get` and `pop` of parameters, a loaded value dumped again). The reference is the source; where a document or a
comment says something else, section 5 says so.

## 1. The system

| Component | Source | State | Operations | Interacts with |
|---|---|---|---|---|
| Channel service | `TranscodingService.cpp:185-268, 274-361`, `TranscodingService.h:50-56` | `uriPartsMap`, `mediaFactories`, the recursive `processMutex` | `AddRtsp`, `RemoveRtsp`, `GetMedias` | called by HTTP workers; writes the RTSP server's mount points |
| Client list | `TranscodingService.cpp:63-157, 387-481`, `TranscodingService.h:18-29` | `clientInfos`: one record per SETUP, each holding a reference to its client | `client_connected_callback`, `setup_request_callback`, `teardown_request_callback`, `closed_callback`, `AddClientInfo`, `RemoveClientWithClient`, `RemoveClientWithId`, `GetClientSessions` | called back by the RTSP server's threads; `RemoveRtsp` closes connections of clients it lists |
| HTTP API | `main.cpp:36-164` | per request: position in the batch, `response_list`, `failedUrls` | `/add`, `/remove`, `/get-sessions`, `/get-medias`, `/get-config` | calls the service once per item; reads its body and writes its answer with Crow's JSON |
| HTTP request parser | `crow/http_parser_merged.h`, `crow/parser.h` | parser state, marks, the request being built | `feed`, `http_parser_execute`, the callbacks, `clear` | fed by a connection; looks the URL up in the router, hands the request over |
| HTTP server and connections | `crow/http_server.h`, `crow/http_connection.h`, `crow/task_timer.h`, `crow/app.h` | one io_service, thread and timer per worker; per connection flags, reads and writes under way, `task_id_` | `run`, `do_accept`, `stop`, `start`, `do_read`, `do_write*`, `handle`, `complete_request`, `start_deadline`, `cancel_deadline_timer`, `schedule`, `process_tasks` | asio (external), clients, signals |
| HTTP router and responses | `crow/routing.h`, `crow/http_connection.h`, `crow/http_response.h` | the rules, one search tree per method; one response object per connection | `validate`, `add`, `find`, `handle_initial`, `handle`, `handle_upgrade`, `end`, `prepare_buffers`, `do_write_static` | called by the connection; calls the handlers of `main.cpp` |
| JSON | `crow/json.h` | `rvalue`: a shared buffer, its owner, lists that grow; `wvalue`: a field per type | `load`, reading, copying, moving, assigning, `dump` | handlers of `main.cpp` |
| Query strings | `crow/query_string.h` | the decoded text and its pairs | `parse`, `get*`, `pop*` | every request |
| URL parser | `UriParts.cpp:37-81` | none | `parseUri` | `AddRtsp` |
| Session pool and references | `TranscodingService.cpp:19-60, 140-141, 159-179, 219, 254, 281, 352` | sessions and their expiry, reference counts of pool, mount points and clients | `StartServer`, `session_cleanup`, `gst_rtsp_session_prevent_expire` | main loop's cleanup watch, TEARDOWN callback |
| Process lifecycle | `main.cpp:166-203`, `TranscodingService.cpp:7-60` | `service`, three threads, two loops on one main context | start, `StartServer`, `StopServer` | API thread starts before `service` exists |
| Media pipelines | `TranscodingService.cpp:225-236` | none of its own | launch strings | run by GStreamer |
| Logging, time | `CustomLogger.cpp`, `datetime.cpp` | none | formatting | everything |
| Rest of Crow | websockets, templates, multipart, middlewares, compression, TLS | | | not used by the server |
| RTSP server | external: GStreamer `gst-rtsp-server` | mount points, clients, streams, a thread pool | connect, SETUP, TEARDOWN, connection end | calls the service back |

A request goes through all of this: the server accepts a connection and gives it
to one of its threads; the parser is fed what the connection reads, finds the
rule as soon as it has the URL, and hands the finished request to the router, which
calls the handler in `main.cpp`; that loads the JSON body, calls the service item by
item, and ends the response, which the connection writes, after which it clears the
parser and the response for the next request.

`processMutex` is the one lock of the service. `AddRtsp` and `RemoveRtsp` hold it
from their first line to their last, the callbacks hold it from beginning to end
too, and `AddClientInfo`, `RemoveClientWithClient` and `RemoveClientWithId` take it
a second time inside their callers (it is recursive). (The `processMutex` of
`main.cpp:33` is another variable, used by nothing.) The RTSP server does *not* hold it while it
looks up a mount point, creates a stream or ends a connection. The hard part of
the system is exactly there: what an RTSP thread does before its callback gets the
mutex, while a worker that has it adds or removes the channel.

What makes each component correct:

* **Channel service**: concurrent `/add` and `/remove` act as on an atomic map;
  no channel half mounted; no two channels with one source; every call returns.
* **Client list**: a record never outlives its client; when a mount point goes, no
  record of it is left; the clients of a removed channel, and no others,
  are disconnected and leave; the callbacks of other clients are not starved.
* **HTTP API**: the responses account for what was applied, also when a batch fails
  in the middle or races with another.
* **Request parser**: however the bytes are cut into buffers, handlers see the
  requests that were sent, in order, and nobody waits for ever.
* **Server and connections**: one read and one deadline per connection, whose
  callbacks come in any order; nothing is cleared or closed under a request that
  is being read or handled; connections are spread over the threads; a signal ends it.
* **Router and responses**: the tree finds the rule that was declared first; every
  request is answered once, with the code, methods and length that belong to it
  and not to an earlier one on the same connection.
* **JSON**: `load` accepts JSON and `dump` writes what was loaded or assigned; a shared
  buffer is deleted once and read as it was written; no list outgrows its array.
* **Query strings**: a parameter is found by its decoded name, and `pop` removes
  what it returns.
* **URL parser**: the parts of a camera's URL are those of its authority and path.
* **Session pool, lifecycle**: sessions in use survive the cleanup; every reference
  taken is given back; nothing uses `service` before it exists; the process can stop.

## 2. Modules

```
RTSP service                                HTTP server
------------                                -----------
MCHttpApi --EXTENDS--> HttpApi              MCHttpParser   --> HttpParser
                          | INSTANCE        MCHttpServer   --> HttpServer
                          v                 MCHttpExchange --> UrlTrie ----> UrlRules
                   ChannelRegistry                             --> HttpExchange --^
                          ^ implemented by  Text
                          |                 ----
                   TranscodingService       MCText --> JsonRead, JsonText --> JsonString
                      ^                            --> JsonWrite
             EXTENDS  |                            --> QueryString
   MCTranscodingService --> MountPaths             --> UriParts
                                                   (all of them --> AsciiText)
Theorems (each module EXTENDS what it is about)
--------
TranscodingService_proofs --> TranscodingService, MountPaths
HttpApi_proofs            --> HttpApi
HttpServer_proofs --> HttpHandlers_proofs --> HttpServer
HttpParser_proofs         --> HttpParser
HttpExchange_proofs       --> HttpExchange
Text_proofs               --> JsonRead, JsonWrite, UriParts, QueryString
LeastElements             used by HttpServer_proofs, HttpApi_proofs, Text_proofs
```

Three modules look at one HTTP connection, each from its own side, with the
others reduced to what they do to it: `HttpParser` has the bytes and one connection whose
writes end at any time; `HttpServer` has many connections, threads, timer and flags, and of
the bytes only what they make of a request; `HttpExchange` has rules and answers, one request after the
other. `HttpApi` starts where a handler of `main.cpp` is called.

### `TranscodingService`

| Variable | In the code |
|---|---|
| `processMutex` | who is inside `AddRtsp` or `RemoveRtsp` with the lock |
| `uriPartsMap`, `mediaFactories` | the two maps of the class; a missing key is `NoUrl`, a `UriParts` is its `full_path`, a factory is the URL in its launch string |
| `clientInfos` | the list, as a count of records per client and mount (its order decides nothing) |
| `call`, `pc`, `next`, `result` | the HTTP workers: arguments, place, loop position and return value |
| `mountPoints` | the `GstRTSPMountPoints` of the RTSP server (external) |
| `link`, `media`, `job`, `target` | the RTSP clients (external): connection, streams set up, callback that waits for the mutex and the mount it is about |

| Action | In the code |
|---|---|
| `Invoke` | a handler calls `AddRtsp` or `RemoveRtsp` |
| `AddRefused`, `AddBegin` | `AddRtsp` takes the mutex and fails its checks (a URL that is invalid or has no `//`, a `full_path` or an id in use), or passes them |
| `AddFactory` | one `gst_rtsp_mount_points_add_factory` and `mediaFactories` entry, four times |
| `AddCommit` | the `uriPartsMap` entry, unlock, return |
| `RemoveUnknown`, `RemoveBegin` | `RemoveRtsp` takes the mutex and does not find, or finds, the id |
| `RemoveClientWithId` | drops the records whose path contains `/id` and closes their connections |
| `RemoveFactory` | the lambda `removeFactory`, four times |
| `RemoveCommit` | `uriPartsMap.erase`, unlock, return |
| `client_connected_callback`, `setup_request_callback`, `teardown_request_callback`, `closed_callback` | the callbacks, one step each: nothing another thread can see happens inside before they release the mutex |
| `Setup`, `Teardown`, `Close` | the RTSP server's part (external), up to the emission of the signal |

`AddRtsp` and `RemoveRtsp` are split exactly where the RTSP server, which
does not take the mutex, can see a difference. Abstracted away: the fields of `UriParts` other than
`id` and `full_path`, launch strings, logging, `describe_request_callback` (it
only prints) and the two read-only calls `GetMedias` and `GetClientSessions`.

The behaviour of GStreamer is taken from how the code uses it and from
its documented defaults: its thread pool has one thread (`RtspThreads`), a client belongs to one
of its threads and is handled one event at a time, `client-connected` is
emitted before the client is served, `setup-request` after the stream exists,
`closed` when the connection has ended. A connection closed by
`gst_rtsp_connection_close` from another thread is noticed by the client's watch
later. `g_object_unref(conn)` at line 447 is applied to something that is not a
GObject; GLib reports that and does nothing, and so does the model.

### `ChannelRegistry`

The promise to the callers of `AddRtsp` and `RemoveRtsp`: a map on which
each request takes effect at one instant between call and return.
`TranscodingService` implements it with `channel <- uriPartsMap`,
`request <- call`, `answer <- result`; the instant is the commit, or the refusal.

### `HttpApi`, `MCHttpApi`

The handlers of `main.cpp:46-147`, on several threads of the HTTP server, over
`ChannelRegistry`; that the service behaves so is what `ImplementsRegistry` says and
`Refinement` proves.

| Variable or action | In the code |
|---|---|
| `channel`, `request`, `answer` | the service, through `INSTANCE ChannelRegistry` |
| `endpoint`, `batch`, `position` | which handler runs, its `body["rtsp_uris"]` or `body["rtsp_ids"]`, the loop over it |
| `calling` | the handler is inside `service->AddRtsp` or `RemoveRtsp` |
| `response_list`, `failed` | the local variables `response_list` and `failedUrls` |
| `told`, `untold` | history: per channel, adds less removals that responses have reported; channels whose batch was answered 400 or 500 after they were applied or refused |
| `Receive`, `Call`, `Serve`, `Collect`, `Respond` | a request arrives, an item is passed to the service, the service applies it, its return value goes into one of the lists, the 200 response |
| `Abandon` | `return crow::response(400)` inside the loop, or `s()` throwing on a member that is not a string, which the HTTP server turns into a 500 |

A body without the expected list is answered 400 before anything happens and has
no step. `/get-config`, `/get-sessions` and `/get-medias` change nothing and have none
either.

### `MountPaths`, `MCTranscodingService`

Paths as sequences of tokens, and which mounts the search of
`RemoveClientWithId` (`std::string::find("/" + id)`) hits. `TranscodingService` has the
result of the search as its constant `PathHits`, of which it assumes only
that an id hits its own mounts; `MCTranscodingService` computes it for ids such as
`cam1` and `cam10`.

### `HttpParser`, `MCHttpParser`

`http_parser_execute` as it parses requests, `HTTPParser`'s callbacks, and from
`Connection` what decides when the parser is fed and cleared.
Bytes are grouped into lexemes (a method, a version, a header's name or value that the
parser knows, or one byte of any other kind); a buffer may end between any two.
The response half of the parser is never used.

| Variable | In the code |
|---|---|
| `script`, `sent`, `stream` | a client: its messages and whether it waits for their answers, how many it has sent, and what the server has not read yet |
| `feed`, `buffer` | whether `HTTPParser::feed` runs or is about to return, and the rest of the buffer it has |
| `parser` | `http_parser` (state, header state, flags, `content_length`, `nread`, `http_errno`) and the marks of `http_parser_execute`, of which at most one is set |
| `wrapper` | the members of `HTTPParser`: the request, the header being built, `message_complete` |
| `socket`, `writing` | the connection: open, draining (nothing is read any more) or closed; asynchronous writes under way |
| `handled`, `answers` | history: the requests given to `Connection::handle` and the codes they were answered with |

`Execute` has one action per state, or group of states, of the parser's
switch (`StartReq`, `Url`, `HeaderFieldRest`, `ChunkSize`, ...), each with the
callbacks it calls, and `EndOfBuffer` for what is called when the buffer is used up. `Read` is
`do_read`'s completion, `Return` the rest of its callback, `Written` that of
`do_write`, `Send` the client. `MCHttpParser` describes messages by what they mean and
computes both their bytes and the request a handler should see, less the empty headers that
`HTTPParser` drops.

### `HttpServer`, `MCHttpServer`

| Variable | In the code |
|---|---|
| `service` | the `io_context_pool_`, each with its thread, its ready handlers in order, and its `task_timer` (`tasks_`, `highest_id_`, whether a tick is due) |
| `queue_length` | `task_queue_length_pool_` |
| `main` | `Server::run`, from waiting for the workers to its return, and `shutting_down_` |
| `accepting` | the connection `async_accept` waits for |
| `conn` | the `Connection` objects: socket, reads and writes under way, what the parser has, `close_connection_`, `continue_requested`, `need_to_start_read_after_complete_`, `task_id_`; whether an answer is still to come |
| `inputs` | bound: how often data has arrived |

| Action | In the code |
|---|---|
| `WorkerStarts`, `WorkerEnds`, `Begin`, `Return` | the threads of `run`, its wait for `init_count`, its end |
| `Accept`, `AcceptFails` | `do_accept`'s callback and the next `async_accept` on the io_service picked |
| `Started` | the posted `start()` |
| `HasRead` | `do_read`'s callback: data is fed, and a request handled, or the connection closed |
| `HasWritten` | `do_write`'s callback |
| `CompletedLater` | a response that a handler kept is ended |
| `Tick`, `TimerExpires` | `process_tasks` |
| `Stop` | a signal: `stop()` |
| `Arrives`, `Sent`, `Completes` | network and later answers |

Every handler of an io_service is one action: its thread runs one at a time. What
happens inside is composed of operators named for the functions (`DoRead`,
`DoWrite`, `StartDeadline`, `WriteGeneral`, `CompleteRequest`, `Close`, ...), each
from a connection and its io_service to what they are afterwards. What arrives is one of a few kinds
(`Fragments`): bytes that end inside the URL or the headers (`part`; the parser is at a `head`),
or right behind headers without their body (`headers`, and `expect` if they ask for 100-continue; it is
`half` through), a URL without a rule, an error, or the rest of a request, with what its handler makes of it:
a `general` or a `long` answer, a `static` file, one that is `lost` because its synchronous write
throws, one that comes `later`, an `upgrade` without an answer, or an exception.

### `UrlRules`, `UrlTrie`, `HttpExchange`, `MCHttpExchange`

`UrlRules` is what a rule's URL means: how a parameter takes its part of a URL
(numbers with `strtoll`'s and `strtoull`'s ranges), and with `Walk` which URLs it takes, without any tree.
`UrlTrie` is `class Trie` and `Router::validate` as operators: `Add`, `Optimize` (the merging of
nodes), `Find` with its parameters, `Validated`. Trees are recursive, so `HttpExchange`, which is to be
proved about, has validation and search as the constants `Build` and `Search`;
`Exchange_routes.cfg` gives them `Validated` and `Find`.

| Variable | In the code |
|---|---|
| `all_rules`, `phase`, `per_methods` | the application's rules, whether `validate` has run or thrown, and per method the rules and their tree |
| `request`, `found` | method and URL of the request, and `routing_handle_result_` |
| `conn` | the `Connection` with its one `response` (`res`, with `skip_body`, `manual_length_header` and whether it has its handler), its flags, what it has sent for this request; `stale` and `left` are history: what was left over from an earlier request |

`NewRule` declares a rule and `Validate` builds the trees. `HandleUrl` is `process_url` with
`handle_initial`: an unknown URL is answered at once. `Handle` is `Connection::handle` with the
router, the handler and `complete_request`; `EndLate` a handler that ends
its response afterwards; `Written` `do_write`'s callback. `Receive` and `Connect` are the
client; a connection that had a URL without a rule takes no other request (`parser_.done()`). A handler is one of eight kinds (answers, late, throws, throws after answering, static
file that exists or not, redirects, websocket).

### Text: `AsciiText`, `JsonString`, `JsonText`, `JsonRead`, `JsonWrite`, `QueryString`, `UriParts`, `MCText`

Texts are sequences of bytes with a NUL behind them, `AsciiText` their
helpers. `JsonString` is what `JsonText`, `JsonRead` and the dump share: escaping and
unescaping of one string, as a recursive function rather than a RECURSIVE operator, so that `Text_proofs`
can reach it. The other modules each have variables that put a text together piece by
piece, or a program's calls one by one; in `MCText` a behaviour is about one of them.

* `JsonText`: `Load` is the recursive decoder with its tables for numbers, strings and
  depth; `Dump` the writer with escapes, `"%f"` into a buffer of `OutBuf` characters and a NUL,
  the trimming of zeros and indentation; beside them a grammar of RFC 8259 with the liberties the code takes.
* `JsonRead`: `handles` are variables of type `rvalue`, `buffers` what `load`
  allocated, with `Copy`, `Move`, `Destroy` and `Read` (which unescapes in
  place); `behind` is history: another variable read the buffer first; `list` and `copied` are the growing array of a list and of its copy.
* `JsonWrite`: `values` are `wvalue`s field by field, `written` what the program
  meant, `crashed` that it followed the null pointer of a value moved from.
* `QueryString`: `QsParse`, `Get`, `GetList`, `GetDict` and the pops (`Pop`,
  `PopList`, `PopDict`), on what `Construct` made of a URL or a form. The loops of the code
  are functions from the number of a round to the position it begins at (`Loop`), and a set of
  pairs is a set of indices, so that both can be proved about; `GetFindsFirst`
  is stated without any loop, by the positions of the URL.
* `UriParts`: `ParseUri`.

## 3. Runs

| Run | Instance | Checks |
|---|---|---|
| `channels` | 2 workers, 2 ids, 4 profiles, 2 good URLs and a bad one, no clients | `MountsMatchChannels`, `OneChannelPerSource`, `ImplementsRegistry` |
| `clients` | 2 workers, 2 clients, 2 RTSP threads, 1 id, 2 profiles, 2 URLs, 2 SETUPs per mount; symmetry | `TypeOK`, `IInv`, `RecordsAreOfCurrentClients`, `UnmountedAfterRecordsGone` |
| `live` | 2 workers, 2 clients, 1 RTSP thread, 1 id, 1 profile; no symmetry; `FairSpec` | `CallsReturn`, `CallbacksRun`, `SeveredClientsLeave` |
| `batches` | 2 HTTP workers, 2 ids, 2 URLs, batches of up to 2 items, bad ones included; symmetry | `HttpApi`'s `TypeOK`, `ResponsesAccountForChannels`, `SuccessMeansAllAdded` |
| `parser` | some hundred and ten scripts of two messages, good and bad, seven of them sent without waiting for answers; every cut into buffers; `FairSpec` | `TypeOK`, `DeliveredAsSent`, `RequestsEnd` |
| `server` | 2 connections on one io_service with data arriving twice, or on two with none; every kind of request; `Timeout` 1; `FairSpec` | `TypeOK`, `OneDeadline`, `ReadOnce`, `NotTimedWhileHandled`, `SpreadEvenly`, `WritesLeaveRequests`, `StopEnds` |
| `routes` | every sequence of up to 3 of 10 rules; 4 methods, 9 URLs, 5 manners of request | `TypeOK`, `RoutedAsDeclared`, `AnsweredOnce`, `CodesAgree`, `AllowTellsMethods`, `LengthTold` |
| `text` | JSON texts of up to 7 pieces (5 in strings), 2 `rvalue`s and 2 buffers, lists of up to 30 items, 2 `wvalue`s, query strings of 4 pieces, camera URLs of 6 | `TypeOK`, `AcceptedIsJson`, `ReloadsSame`, `TrimKeepsValue`, `ReadsAgree`, `OneOwner`, `RoomCounted`, `LastWriteShows`, `GetFindsFirst`, `PopRemovesWhatItReturns`, `PartsAreOfAuthority` |
| `connected`, `prefix` | 1 worker, 1 client | one violated statement each, see section 5 |
| `parser_split` | one client, two requests | `KnownUrlsFound`, violated |
| `deadline` | 2 connections on one io_service, data arrives once | `WaitingHasDeadline`, violated |

### Bounds

*The service.* The workers' code has no loop over workers, and a lock that excludes a
pair excludes any number, so two of them show every race of the checks in `AddRtsp`; three URLs
give a duplicate source, a duplicate id and a refusal. `channels` keeps all four
profiles because its subject is the half-mounted channel; in `clients`, two
suffice for a state between the first and the last. `MaxRecords`
bounds how often a client performs SETUP on one mount; two make the difference
between erasing the first matching record and all of them. `MaxItems` bounds the batches of
`HttpApi`: with two items a batch can refuse or abandon after it has applied one, and name
one id twice; `told` counts without bound but stays small because a channel is registered
or not. `clients` uses the symmetry of workers and
of clients (`batches`: of workers, ids and URLs), neither of which any definition or property distinguishes; it
checks safety only. A refused URL, there, is one that another channel has.

*The parser.* `MaxHeader` is 60 lexemes and `UllMax` is 199, so that a header that is too long
and a length that overflows fit into a message. Two messages per client are
enough for what the first leaves behind in parser and wrapper; the messages
reach every state, flag and error of the request parser. Pipelined are messages with and without a
body behind answers of both kinds, and a line feed between two.

*The server.* A deadline needs two connections of one io_service to get into another's
way, an uneven spread two io_services. `MaxInputs` is two on one
io_service (a request and what follows it; a half request and its rest) and none on two,
where accepting, starting and stopping are the subject. With `Timeout` 1 a deadline
may run out at the next tick or the one after it: each tick closes any of the connections that may be due.

*The router.* Three rules are the fewest with which a node is shared, merged and
then split between a rule of its own, a child and a parameter; the ten share
their pieces in every way that `Continues` and `IsSimpleNode` tell apart. `IntMax` 9 and
`UintMax` 19 put both range errors within two digits. `StreamThreshold` 4 lies between the sizes of the
handlers' answers. A connection serves any number of requests.

*Text.* The pieces are chosen for the states of the decoders: seven number
pieces pass through every transition of the number table and back into an illegal one, seven structural
pieces nest deeper than `MaxDepth` 3 allows. `MaxGrowth` 7 and `RemainLimit` 8 stand for
60000 and 2^16 in the same order, so that 30 items cross both. `Places` is 2 instead of the six decimals of `"%f"`,
and `OutBuf` 6 instead of 127: the pieces make numbers that fit into it, that lose decimals to it, and
that lose digits in front of their point.
The pieces of a query string have an `a` written plainly, as an escape and inside brackets, an escape that is bad and one
of a NUL; of the names, `a` and `aa`, one begins the other. `MaxPairs` 2 is less than four pieces can hold.

### Fairness

`TranscodingService`'s `FairSpec`: strong fairness of `Execute(w)`
and `Callback(c)`: a thread that is ready is scheduled, and one that waits for
`processMutex` is not overtaken for ever. `std::recursive_mutex` does not promise the
second, and `CallsReturn` and `CallbacksRun` depend on it: they show that the
code's own logic adds no deadlock and no endless loop to what the lock does. Strong fairness of
`Close(c)` on a severed connection: the main loop dispatches an event of a
connection that stays closed, however busy its thread is. No fairness is
assumed of HTTP requests or RTSP clients: they may stop at any time.

`HttpParser`'s: weak fairness of the thread that executes the parser, of the end
of a write and of the arrival of what has been sent. The client need not send anything.

`HttpServer`'s: weak fairness of each worker thread and of the return of `run`. Clients, network
and clock owe nothing: `StopEnds` holds although writes, reads and ticks may never come.

## 4. Proofs

Every theorem holds for all values of the constants that satisfy the module's named assumption;
TLC evaluates the assumptions in the runs. No property is inductive alone: each
component has an inductive invariant, and the properties follow from it.

| Module | Theorems | Properties |
|---|---|---|
| `TranscodingService_proofs` | `Invariance`, `Typing`, `NothingHalfMounted`, `SourcesUnique`, `NoDanglingRecord`, `RecordsGoFirst`, `Refinement` | `IInv`, `TypeOK`, `MountsMatchChannels`, `OneChannelPerSource`, `RecordsAreOfCurrentClients`, `UnmountedAfterRecordsGone`, `ImplementsRegistry` |
| | `OwnPathsHit` | the assumption about `PathHits`, from `MountPaths` |
| `HttpApi_proofs` | `ApiInvariant`, `TypesCorrect`, `Accounted`, `SuccessIsWhole` | `TypeOK`, `ResponsesAccountForChannels`, `SuccessMeansAllAdded` |
| `HttpServer_proofs` | `ServerInvariant`, `TypesCorrect`, `DeadlinesOwned`, `ReadsAlone`, `HandledUntimed`, `RequestsLeft`, `Spread` | `TypeOK`, `OneDeadline`, `ReadOnce`, `NotTimedWhileHandled`, `WritesLeaveRequests`, `SpreadEvenly` |
| `HttpParser_proofs` | `ParserInvariant`, `LengthsFit` | `TypeOK` |
| `HttpExchange_proofs` | `ExchangeInvariant`, `TypesCorrect`, `OneAnswer`, `LengthsTrue`, `CodesRight`, `AllowRight` | `TypeOK`, `AnsweredOnce`, `LengthTold`; `CodesAgree` and `AllowTellsMethods` where `RoutedAsDeclared` holds |
| `Text_proofs` | `Reads`, `Owned`, `Room`, `Shows`, `Authority` | `ReadsAgree`, `OneOwner`, `RoomCounted`, `LastWriteShows`, `PartsAreOfAuthority` |
| | `FoundFirst`, `PopsWhole` | `GetFindsFirst`, `PopRemovesWhatItReturns` |
| | `EscapedReadsBack` | every string of bytes that is escaped and unescaped is the same again |

`LeastElements` has the facts that several of them need and the library lacks:
a non-empty set of numbers has a least element, `Min` and `Max` are what they say,
and the smaller and the larger of two numbers. The prover has no induction over data: where a
sum or a recursive function has to be followed, the proof takes the least counterexample instead.

*The service.* `ConstantsAssumption` says that special values are not
ordinary ones and well-formed URLs are URLs, `NoCallAssumption` that there is a value for no call,
and `PathHitsAssumption` that searching a path of channel `i` for `/i` succeeds, which
`OwnPathsHit` proves of the search itself, for ids of any tokens.
`IInv` has what each worker knows while it is
inside: it owns the mutex and is the only one (`OwnerInside`); what it checked on
entry still holds (`ChecksHold`), which is what makes the commit of `AddRtsp` keep sources
unique and coincide with a step of the registry; factories and mount points are
changed up to the profile it has reached (`MountsAsCalled`); no
record of its channel has come back since `RemoveClientWithId`
(`NoRecordsWhileUnmounting`); and the arguments of calls and waiting callbacks are
proper (`CallsWellFormed`, `JobsWellFormed`), without which not even `TypeOK` is
preserved. One lemma per conjunct shows that every action preserves it;
`ServeFrame` and `WorkerFrame` say once what the RTSP side and the workers leave alone.

*The API.* For any finite set of HTTP threads and batches of any length (`ApiAssumption`). Per thread,
`IInv` has: nothing of the last request is left (`Idle`); the position is inside a batch
and past no bad item (`Walks`); a call of the service is about the item the thread is at
(`Calls`); the lists hold items already passed, each once (`Lists`). The
balance of `ResponsesAccountForChannels` is a sum over threads, so the proof
needs how one thread's step changes a sum (by the least set for which it would not).
TLC checked `IInv` on the instance of `batches` before it was proved.

*The HTTP server.* For any number of io_services and connections (`ServerAssumption`).
`HttpHandlers_proofs` follows a handler through the operators it is composed of, `HttpServer_proofs` the
actions. Per connection: at most one of a read under way, a read
in the queue, a start and a resumption, and none once a request is bad or pending (`OneRead`, from which
`ReadOnce`); one answer to come (`OneAnswer`); beside a 100 (Continue) only
the answer of a complete request is being written, and nothing is while a URL or headers are read, nor
with half a request but its 100 (`Writes`, `FewWrites`, from which `WritesLeaveRequests`); the only deadline of
a connection is the one whose id it keeps (`OwnDeadline`, from which `OneDeadline` and
`NotTimedWhileHandled`); a closed connection waits for no network (`ClosedQuiet`); a new one has
nothing at all (`Fresh`). Across connections: handlers and deadlines are at
the io_service of their connection (`Placed`), connections are created in order
and the awaited one is counted (`InOrder`). `Spread` needs only that `PickIoService` finds the least queue.
TLC checked this invariant on the instances of `server` before it was proved.

*The request parser.* For any messages, routes and cuts (`HttpParserAssumption`: messages are sequences of
lexemes, a digit is no larger than `UllMax`). A mark is set only in states of what it marks, and
is closed when the buffer is used up (`Marks`, `MarkFits`): what is marked is not lost between two buffers.
`BodyLeft` (a body by length has bytes left) was missing at first: without it the last byte of a body would
leave its mark open. A failed parser is given no further buffer. TLC checked
the invariant on the instances of `parser` and `parser_split`.

*The answers.* For any rules, URLs and requests, and any router for which
`RouterAssumption` holds: the table a successful `Build` makes has per method the rules it was
given, after the two special ones, none without a handler, and `Search` finds
one of them, the redirect or nothing. `UrlTrie` is such a router: TLC evaluates the assumption, for every
list of at most three of the ten rules, before the run begins. `IInv` has: the table is that of
the declared rules (`Tables`); what was found belongs to the request (`Requested`);
response and answer fit the stage (`Staged`: a handler only while it is kept, a response nothing has been put into
otherwise, which is completed only if it is the 500 of a handler that threw too late);
a request that waits for its handler drops its body if it is a HEAD or `skip_body` was left over (`Waiting`);
and the answer that went out is that of its rule or its refusal, and tells the right length (`Sound`). The
proof follows a response through `Complete`, `Finished` and `Clear` once (`EndSends`, `RespondServes`) and
then each kind of handler. That a tree finds the rule declared first,
`RoutedAsDeclared`, is about recursive trees and stays with TLC: `CodesRight` and `AllowRight` are
`Spec /\ []RoutedAsDeclared => ...`, so that they say what a right search is good for. TLC checked `IInv` on the instance of
`routes`.

*JSON.* `StringInv`: a buffer holds its text as written while the flag is up (`Types`), and
every variable at it ends where that does; once it has been unescaped, a variable ends where the unescaped
text does, or still there and is `behind` (`AllKnow`);
owners have different buffers, not deleted (`Owners`). That what `Unescape` makes of a string
is a sequence (its recursive function exists, and each of its values follows from a later one) is shown by the least
position at which it would not. In the same way, from the end of the text on, `EscapedReadsBack` follows what `Unescape` makes
of what `Escape` wrote: the escapes of the bytes stand one behind the other (`EscapeIs`), and
behind those of the first k bytes `CharAt` finds the next byte, with its one, two or six bytes
to go on from (`PieceReads`). A NUL, control characters and bytes above 127 are among them; TLC's `ReloadsSame` adds that
the decoder finds where such a string ends. `ListInv`: `lremain` is the room left, for every cap on the growth that 16 bits can count
(`JsonReadAssumption`; the code's 60000 is one, and with a larger cap the theorem is false).
`WriteInv`: what was written last is what the fields show.

*Camera URLs.* For URLs of any length, `PartsFound` compares the cuts of `parseUri`, each at the first
occurrence of a character in what the last one left, with the least places in the whole URL.

*Query strings.* For URLs of any length, any cap on the pairs and names without `= # & + % [ ]`
(`QueryStringAssumption`). `RoundsAgree` shows that a `Loop` has just one solution. `Reached` says how far the loop over a key or a value has come:
through as many bytes and good escapes as it has made rounds. `Walk` shows it of every round until the loop ends; from it follow
`EqualSays` (`qs_strncmp` is 0 just if the key says the name) and `DecodeSays` (`qs_decode` writes what the value says up to
where it ends). The pairs are matched with the positions behind each `&` by rank (`BeginIs`: a
pair of rank k begins where the loop is after k rounds), so the first pair found is the least match (`GetIs`). `QueryInv`, the types and that the
pairs are those of the URL until something is popped, is inductive. For the pops, `LeftIs` and
`LeftOne` say which pairs an erase leaves. If `pop` erased a later pair than it gave and the same pairs were left, all
pairs between the two would be equal, and the earlier one spelled like the later one. `pop_dict` gives all
that it erases if no key occurs twice (`PopDictIs`); if one does, the second pair with it is among the erased
and not among the given, and pairs of different spelling behind it would have to be equal (`PopDictOnly`). What is spelled plainly
is also found decoded (`SpelledIsEqual`), so `pop_list` erases no more than it gives.

Only model-checked: liveness (`CallsReturn`, `CallbacksRun`, `SeveredClientsLeave`,
`RequestsEnd`, `StopEnds`), which is out of the prover's reach; `DeliveredAsSent`, whose meaning of a message
is that of the messages in `MCHttpParser`; `RoutedAsDeclared` and `JsonText` (`AcceptedIsJson`, `ReloadsSame`, `TrimKeepsValue`), which need
RECURSIVE operators the prover cannot reach, and `MCText`'s `TypeOK` with them (the
types of its other parts are in their invariants).

## 5. What the code does not do

Statements of the repository that a run shows to be wrong:

| Run | What is said | What happens |
|---|---|---|
| `connected` | `TranscodingService.cpp:293`: "Before Remove RTSP media factory, client session should be disconnected!" | a client whose SETUP is waiting for the mutex is not in the list: it stays connected while the factory goes, and its record, added afterwards, is of a channel that no longer exists |
| `prefix` | `Readme.md:30`, `/remove` deletes a channel; `Readme.md:17-20`, the paths of a channel | `find("/" + id)` matches inside longer ids: removing `cam1` disconnects the clients of `cam10` |
| `parser_split` | `http_parser_merged.h:71-73`: callbacks are called "arbitrarally many times for each string" | `on_url` looks up the first piece of a URL that a buffer cuts in two: 404 for a URL that has a rule |
| `deadline` | `app.h:320`: "Set the connection timeout in seconds"; `task_timer.h:64-66` on ids that are used after their task ran | a connection that timed out cancels a reused id: another connection's deadline is gone for good |

Behaviour that the models have, and the properties allow for, because no
document promises otherwise or it is a matter of the interface:

*Service and API.* A client counts once per SETUP in "Current number of
clients" (`TranscodingService.cpp:392`), and a session that was torn down stays in
`/get-sessions` until its connection ends. `/remove` says " was not added." (`main.cpp:141`) also of an
id that another request, or the same batch, has removed. A batch abandoned in the middle is answered 400 or
500 without telling what was applied: `ResponsesAccountForChannels` says exactly which channels that leaves untold.

*Requests.* The parser stays in the state in which a message ended until it is
cleared. So a byte behind a body by length (`http_parser_merged.h:1766-1768`), or a line feed behind the last line of
another message (`:1584-1587`, `:1706`), that comes in the same buffer completes the message again while its first answer is still being written: the
handler is called once more. What is read before that write ends is dropped (`parser.h:112`): of a client
that does not wait for its answers, requests may be handled twice or not at all.
`DeliveredAsSent` says so: in that case only the order of what is handled, and that none is put together from two, are left. A
bad `Transfer-Encoding`, like every error of the parser, closes the
connection without an answer. A header with an empty value is dropped when another one follows it (`parser.h:46-50`), and
kept in the last place (`:78-81`).

*Connections.* A synchronous write that throws because the client has gone (`http_connection.h:408`, `:454`) ends
in `Router::handle` (`routing.h:1717-1722`), whose second answer is dropped because the response is completed, or
in the worker's loop (`http_server.h:135`): the parser is not cleared, and the connection ends with its next read.
`task_queue_length_pool_` counts every connection ever
accepted; `SpreadEvenly` is about that count. A request that asks for an upgrade and finds a rule
that is no websocket gets no answer. After an answer that
comes late and is a file or long, nothing starts the next read: the connection ends with its last reference. `add_keep_alive_` and `close_connection_` keep their value
when the next request fails before `handle`.

*Answers.* `skip_body` stays set after a HEAD without Host (`http_connection.h:158`), so that
later answers without a handler lose their body (`LengthTold`). An answer to HEAD of 400 and above gets
the status text as its body. HEAD of a static file sends `Content-Length: 0` and the
file. A handler that ends a long response and then throws leaves a completed 500 in the
response object, which answers the next request (`CodesAgree`). `Allow` names HEAD for a URL that only POST
serves, whose HEAD is a 404. A redirect without Host goes to `http:///...`.

*JSON.* Accepted though no JSON: `1.`, `1e+`, `1e-`, control characters in
strings, anything behind a NUL. Rejected though JSON: `0e1`, and half of the depth that `max_depth` names, since a
level counts twice. Halves of a surrogate pair are decoded each by itself. `1.1e+10` is dumped as `1.1e+1`
(`TrimKeepsValue`), floating-point numbers with six decimals, and of a number with more than 127 characters up to its
point only the first 127 (`outbuf`, `json.h:1873`): `1e200` comes back as another number (`ReloadsSame`). A copy of an
`rvalue` that outlives its owner dangles, and assigning over an owner leaks its buffer; a string that is
copied or moved before it is first read, and read through the other variable first, reads on behind its end (`ReadsAgree`,
which says what it then reads). A moved-from list or object
crashes when it is copied, measured or assigned an object (`LastWriteShows`).

*Query strings.* A value ends at a bad escape, at a `%00` and at another `=` or `#`
(`EndsValue`), and a key that is cut off there is found for no name. A fragment is parsed as parameters. `get_dict` stops at a
pair whose brackets are in the wrong order. `pop` and `pop_list` do not remove a pair
whose key is escaped or has no `=`; `get_dict` gives only the first of several pairs with one key (`query_string.h:447`), of which
`pop_dict` removes all (`:460-466`) (`PopRemovesWhatItReturns`).

*Camera URLs.* An `@` in the path is taken for the end of user and password (`PartsAreOfAuthority`).

## 6. Plan

Built: the channel service and client list with their refinement, the API's batches,
the HTTP server from bytes to answers, JSON, query strings and camera URLs; proofs about all of
them but the search trees and the JSON parser. Next:

1. Of the request parser, what `DeliveredAsSent` says of any messages: bodies by
   length are handed over with as many bytes as they have, whatever the cuts.

## 7. Not modelled

* Media pipelines: GStreamer elements; the code only builds their launch strings.
* "Failed to get mount points" (`TranscodingService.cpp:220-223`, `:282-285`): an RTSP server has mount points from
  `gst_rtsp_server_new` on, and nothing takes them away.
* Numbers as floating point: `JsonText` calculates with decimals. What a double rounds, and that a number outside its range
  becomes infinite or is refused, are left out.
* Session pool and reference counts: sessions, their expiry and the counts are kept by
  gst-rtsp-server and GObject. The references that are taken and not given back
  (`TranscodingService.cpp:166`, `:281` with `:290`) are so on every path. `session_cleanup`
  runs without `processMutex`; what it removes is decided outside this repository.
* The rest of the lifecycle: the API thread starts at `main.cpp:178`, `service` is created at
  `:181`, and a request in between finds a null pointer. `StopServer` and
  `~TranscodingService` are never reached: nothing quits the loop of `main.cpp:199`.
* Websockets, templates, multipart bodies, middlewares, blueprints, catchall handlers, compression and TLS: the
  server declares none of them. `HttpExchange` has the step in which a websocket takes its connection over.
* In JSON the comparisons and functions of values (used by templates), and the order of the hash
  map that an object is; in query strings `qs_scanvalue` and `keys()`.
* asio and the network: a read, a write or an accept completes, fails or never comes.
* Logging, time formatting, `/get-config` (a constant), build files and outputs.

Component status is in `PROJECT.json`.
