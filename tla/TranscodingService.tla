------------------------- MODULE TranscodingService -------------------------
(***************************************************************************)
(* The core of the server: the class TranscodingService, called by the     *)
(* worker threads of the HTTP API (AddRtsp, RemoveRtsp) and by the         *)
(* callbacks of the RTSP server (client connected, SETUP, TEARDOWN,        *)
(* closed).  Every entry point runs under one recursive mutex,             *)
(* processMutex; the RTSP server itself reads the mount points and serves  *)
(* clients without it, so that a SETUP can be under way while a channel is *)
(* being added or removed.                                                 *)
(*                                                                         *)
(* AddRtsp and RemoveRtsp are split where the RTSP server can see the      *)
(* difference: one step per mount point.  A callback changes nothing       *)
(* another thread can see before it releases the mutex and is one step,    *)
(* enabled when the mutex is free; between the event that caused it and    *)
(* that step the thread waits for the mutex.                               *)
(***************************************************************************)
EXTENDS Naturals, FiniteSets

CONSTANTS
  Workers,      \* HTTP worker threads
  Clients,      \* GstRTSPClient objects
  Ids,          \* channel ids
  Urls,         \* source URLs
  WellFormed,   \* URLs that gst_uri_is_valid accepts and parseUri can parse
  NProfiles,    \* mount points of a channel (first .. fourth: 4)
  PathHits,     \* PathHits[i]: mounts whose SETUP path contains "/" + i
  RtspThreads,  \* threads of the RTSP server's pool (GStreamer's default: 1)
  MaxRecords,   \* bound: SETUPs a client performs on one mount
  NoUrl, NoCall, NoThread, NoMount

Profiles == 1 .. NProfiles
Mount == Ids \X Profiles

ASSUME ConstantsAssumption ==
  /\ NProfiles \in Nat \ {0}
  /\ RtspThreads \in Nat \ {0}
  /\ MaxRecords \in Nat \ {0}
  /\ WellFormed \subseteq Urls
  /\ NoUrl \notin Urls
  /\ NoThread \notin Workers
  /\ NoMount \notin Mount

Request == [op : {"add", "remove"}, id : Ids, url : Urls \cup {NoUrl}]

ASSUME NoCallAssumption == NoCall \notin Request

(* The path of every mount point of i starts with "/" + i, so that         *)
(* searching it for "/" + i succeeds.                                      *)
ASSUME PathHitsAssumption ==
  /\ PathHits \in [Ids -> SUBSET Mount]
  /\ \A i \in Ids, p \in Profiles : <<i, p>> \in PathHits[i]

VARIABLES
  processMutex,   \* the thread inside AddRtsp or RemoveRtsp, or NoThread
  uriPartsMap,    \* uriPartsMap[i]: the source of channel i, or NoUrl
  mediaFactories, \* mediaFactories[m]: the source of m's factory, or NoUrl
  clientInfos,    \* clientInfos[c][m]: ClientInfo records of c on mount m
  call,           \* call[w]: the request worker w is executing, or NoCall
  pc,             \* pc[w]: where worker w is in it
  next,           \* next[w]: the profile whose mount w handles next
  result,         \* result[w]: what w's last call returned
  mountPoints,    \* mountPoints[m]: what the RTSP server serves at m
  link,           \* link[c]: the TCP connection of client c
  media,          \* media[c]: mounts on which c has a stream set up
  job,            \* job[c]: the callback c's request waits to run
  target          \* target[c]: the mount of a waiting SETUP, or NoMount

registry == <<uriPartsMap, mediaFactories>>
calls == <<call, pc, next, result>>
rtsp == <<link, media, job, target>>
vars == <<processMutex, registry, clientInfos, calls, mountPoints, rtsp>>

TypeOK ==
  /\ processMutex \in Workers \cup {NoThread}
  /\ uriPartsMap \in [Ids -> Urls \cup {NoUrl}]
  /\ mediaFactories \in [Mount -> Urls \cup {NoUrl}]
  /\ clientInfos \in [Clients -> [Mount -> Nat]]
  /\ call \in [Workers -> Request \cup {NoCall}]
  /\ pc \in [Workers -> {"idle", "waiting", "mounting",
                         "disconnecting", "unmounting"}]
  /\ next \in [Workers -> 1 .. NProfiles + 1]
  /\ result \in [Workers -> {"none", "ok", "fail"}]
  /\ mountPoints \in [Mount -> Urls \cup {NoUrl}]
  /\ link \in [Clients -> {"absent", "up", "severed", "closing"}]
  /\ media \in [Clients -> SUBSET Mount]
  /\ job \in [Clients -> {"none", "setup", "teardown", "closed"}]
  /\ target \in [Clients -> Mount \cup {NoMount}]

Init ==
  /\ processMutex = NoThread
  /\ uriPartsMap = [i \in Ids |-> NoUrl]
  /\ mediaFactories = [m \in Mount |-> NoUrl]
  /\ clientInfos = [c \in Clients |-> [m \in Mount |-> 0]]
  /\ call = [w \in Workers |-> NoCall]
  /\ pc = [w \in Workers |-> "idle"]
  /\ next = [w \in Workers |-> 1]
  /\ result = [w \in Workers |-> "none"]
  /\ mountPoints = [m \in Mount |-> NoUrl]
  /\ link = [c \in Clients |-> "absent"]
  /\ media = [c \in Clients |-> {}]
  /\ job = [c \in Clients |-> "none"]
  /\ target = [c \in Clients |-> NoMount]

MutexFree == processMutex = NoThread

-----------------------------------------------------------------------------
(* The list of clients.                                                    *)

AddClientInfo(c, m) ==
  clientInfos' = [clientInfos EXCEPT ![c][m] = @ + 1]

(* Mutant: the loop stops at the first record that matches.                *)
RemoveFirstRecord(c) ==
  clientInfos' = [clientInfos EXCEPT ![c] =
                    [m \in Mount |-> IF @[m] > 0 THEN @[m] - 1 ELSE 0]]

RemoveClientWithClient(c) ==
  clientInfos' = [clientInfos EXCEPT ![c] = [m \in Mount |-> 0]]

-----------------------------------------------------------------------------
(* The calls of the HTTP workers.                                          *)

(* Worker w enters AddRtsp or RemoveRtsp and asks for the mutex.           *)
Invoke(w) ==
  /\ pc[w] = "idle"
  /\ \/ \E i \in Ids, u \in Urls :
          call' = [call EXCEPT ![w] = [op |-> "add", id |-> i, url |-> u]]
     \/ \E i \in Ids :
          call' = [call EXCEPT ![w] = [op |-> "remove", id |-> i,
                                       url |-> NoUrl]]
  /\ pc' = [pc EXCEPT ![w] = "waiting"]
  /\ result' = [result EXCEPT ![w] = "none"]
  /\ UNCHANGED <<processMutex, registry, clientInfos, next, mountPoints, rtsp>>

(* Worker w returns r and forgets its local variables.                     *)
Return(w, r) ==
  /\ call' = [call EXCEPT ![w] = NoCall]
  /\ pc' = [pc EXCEPT ![w] = "idle"]
  /\ next' = [next EXCEPT ![w] = 1]
  /\ result' = [result EXCEPT ![w] = r]

HasMutex(w, op) == pc[w] = "waiting" /\ call[w].op = op /\ MutexFree

(* Mutant: the check of the id is left out.                                *)
CanAddAgain(r) ==
  r.url \in WellFormed /\ r.url \notin {uriPartsMap[i] : i \in Ids}

(* The checks of AddRtsp: the URI parses, no channel has its full path and *)
(* no channel has its id.                                                  *)
CanAdd(r) ==
  /\ r.url \in WellFormed
  /\ r.url \notin {uriPartsMap[i] : i \in Ids}
  /\ uriPartsMap[r.id] = NoUrl

(* Mutant: instead of refusing, the worker tries again later.              *)
AddRefusedRetried(w) ==
  /\ HasMutex(w, "add")
  /\ ~CanAdd(call[w])
  /\ UNCHANGED vars

(* (The other refusal, of a server without mount points, cannot happen:    *)
(* gst_rtsp_server_new gives it some, and nothing takes them away.)        *)
AddRefused(w) ==
  /\ HasMutex(w, "add")
  /\ ~CanAdd(call[w])
  /\ Return(w, "fail")
  /\ UNCHANGED <<processMutex, registry, clientInfos, mountPoints, rtsp>>

(* Mutant: the mutex covers the checks only.                               *)
AddBeginUnlocked(w) ==
  /\ HasMutex(w, "add")
  /\ CanAdd(call[w])
  /\ pc' = [pc EXCEPT ![w] = "mounting"]
  /\ UNCHANGED <<processMutex, registry, clientInfos, call, next, result,
                 mountPoints, rtsp>>

AddBegin(w) ==
  /\ HasMutex(w, "add")
  /\ CanAdd(call[w])
  /\ processMutex' = w
  /\ pc' = [pc EXCEPT ![w] = "mounting"]
  /\ UNCHANGED <<registry, clientInfos, call, next, result, mountPoints, rtsp>>

(* Mutant: one mount point too many.                                       *)
AddFactoryTooMany(w) ==
  /\ pc[w] = "mounting"
  /\ next[w] <= NProfiles + 1
  /\ next' = [next EXCEPT ![w] = @ + 1]
  /\ UNCHANGED <<processMutex, registry, clientInfos, call, pc, result,
                 mountPoints, rtsp>>

(* One gst_rtsp_mount_points_add_factory and the mediaFactories entry for  *)
(* it.  RTSP clients can use the mount point from this step on.            *)
AddFactory(w) ==
  LET m == <<call[w].id, next[w]>> IN
  /\ pc[w] = "mounting"
  /\ next[w] <= NProfiles
  /\ mountPoints' = [mountPoints EXCEPT ![m] = call[w].url]
  /\ mediaFactories' = [mediaFactories EXCEPT ![m] = call[w].url]
  /\ next' = [next EXCEPT ![w] = @ + 1]
  /\ UNCHANGED <<processMutex, uriPartsMap, clientInfos, call, pc, result,
                 rtsp>>

AddCommit(w) ==
  /\ pc[w] = "mounting"
  /\ next[w] > NProfiles
  /\ uriPartsMap' = [uriPartsMap EXCEPT ![call[w].id] = call[w].url]
  /\ processMutex' = NoThread
  /\ Return(w, "ok")
  /\ UNCHANGED <<mediaFactories, clientInfos, mountPoints, rtsp>>

RemoveUnknown(w) ==
  /\ HasMutex(w, "remove")
  /\ uriPartsMap[call[w].id] = NoUrl
  /\ Return(w, "fail")
  /\ UNCHANGED <<processMutex, registry, clientInfos, mountPoints, rtsp>>

RemoveBegin(w) ==
  /\ HasMutex(w, "remove")
  /\ uriPartsMap[call[w].id] # NoUrl
  /\ processMutex' = w
  /\ pc' = [pc EXCEPT ![w] = "disconnecting"]
  /\ UNCHANGED <<registry, clientInfos, call, next, result, mountPoints, rtsp>>

(* RemoveClientWithId: every record whose uri contains "/" + id is dropped *)
(* and the connection of its client closed.  Called with the mutex held,   *)
(* it locks it again, which a recursive mutex allows its owner.            *)
RemoveClientWithId(w) ==
  LET hit == PathHits[call[w].id]
      listed == {c \in Clients : \E m \in hit : clientInfos[c][m] > 0}
  IN
  /\ pc[w] = "disconnecting"
  /\ processMutex \in {w, NoThread}
  /\ clientInfos' = [c \in Clients |->
                       [m \in Mount |->
                          IF m \in hit THEN 0 ELSE clientInfos[c][m]]]
  /\ link' = [c \in Clients |->
                IF c \in listed /\ link[c] = "up" THEN "severed" ELSE link[c]]
  /\ pc' = [pc EXCEPT ![w] = "unmounting"]
  /\ UNCHANGED <<processMutex, registry, call, next, result, mountPoints,
                 media, job, target>>

(* The lambda removeFactory: nothing happens to a mount point that         *)
(* mediaFactories does not list.                                           *)
RemoveFactory(w) ==
  LET m == <<call[w].id, next[w]>> IN
  /\ pc[w] = "unmounting"
  /\ next[w] <= NProfiles
  /\ IF mediaFactories[m] # NoUrl
       THEN /\ mountPoints' = [mountPoints EXCEPT ![m] = NoUrl]
            /\ mediaFactories' = [mediaFactories EXCEPT ![m] = NoUrl]
       ELSE UNCHANGED <<mountPoints, mediaFactories>>
  /\ next' = [next EXCEPT ![w] = @ + 1]
  /\ UNCHANGED <<processMutex, uriPartsMap, clientInfos, call, pc, result,
                 rtsp>>

(* Mutant: the last removeFactory is missing.                              *)
RemoveCommitEarly(w) ==
  /\ pc[w] = "unmounting"
  /\ next[w] >= NProfiles
  /\ uriPartsMap' = [uriPartsMap EXCEPT ![call[w].id] = NoUrl]
  /\ processMutex' = NoThread
  /\ Return(w, "ok")
  /\ UNCHANGED <<mediaFactories, clientInfos, mountPoints, rtsp>>

RemoveCommit(w) ==
  /\ pc[w] = "unmounting"
  /\ next[w] > NProfiles
  /\ uriPartsMap' = [uriPartsMap EXCEPT ![call[w].id] = NoUrl]
  /\ processMutex' = NoThread
  /\ Return(w, "ok")
  /\ UNCHANGED <<mediaFactories, clientInfos, mountPoints, rtsp>>

Execute(w) ==
  \/ AddRefused(w) \/ AddBegin(w) \/ AddFactory(w) \/ AddCommit(w)
  \/ RemoveUnknown(w) \/ RemoveBegin(w) \/ RemoveClientWithId(w)
  \/ RemoveFactory(w) \/ RemoveCommit(w)

-----------------------------------------------------------------------------
(* The RTSP server (external) and the callbacks it makes.                  *)

(* A thread of the pool picks up an event of client c, whose previous one  *)
(* is finished: a client belongs to one thread.                            *)
ThreadFor(c) ==
  /\ job[c] = "none"
  /\ Cardinality({d \in Clients : job[d] # "none"}) < RtspThreads

(* client_connected_callback: under the mutex, the handlers of the         *)
(* client's signals are connected; only then is the client served.         *)
client_connected_callback(c) ==
  /\ link[c] = "absent"
  /\ MutexFree
  /\ link' = [link EXCEPT ![c] = "up"]
  /\ UNCHANGED <<processMutex, registry, clientInfos, calls, mountPoints,
                 media, job, target>>

(* A SETUP finds the factory at its path and creates the stream; the       *)
(* setup-request signal is emitted after that.                             *)
Setup(c, m) ==
  /\ ThreadFor(c)
  /\ link[c] = "up"
  /\ mountPoints[m] # NoUrl
  /\ clientInfos[c][m] < MaxRecords
  /\ media' = [media EXCEPT ![c] = @ \cup {m}]
  /\ job' = [job EXCEPT ![c] = "setup"]
  /\ target' = [target EXCEPT ![c] = m]
  /\ UNCHANGED <<processMutex, registry, clientInfos, calls, mountPoints,
                 link>>

(* Mutant: the callback does not take the mutex.                           *)
setup_request_callback_unlocked(c) ==
  /\ job[c] = "setup"
  /\ AddClientInfo(c, target[c])
  /\ job' = [job EXCEPT ![c] = "none"]
  /\ target' = [target EXCEPT ![c] = NoMount]
  /\ UNCHANGED <<processMutex, registry, calls, mountPoints, link, media>>

(* Mutant: the callback waits for the channel to be registered.            *)
setup_request_callback_waiting(c) ==
  /\ job[c] = "setup"
  /\ MutexFree
  /\ uriPartsMap[target[c][1]] # NoUrl
  /\ AddClientInfo(c, target[c])
  /\ job' = [job EXCEPT ![c] = "none"]
  /\ target' = [target EXCEPT ![c] = NoMount]
  /\ UNCHANGED <<processMutex, registry, calls, mountPoints, link, media>>

(* setup_request_callback and AddClientInfo: one more record, whether or   *)
(* not the client has one and whether or not the channel still exists.     *)
setup_request_callback(c) ==
  /\ job[c] = "setup"
  /\ MutexFree
  /\ AddClientInfo(c, target[c])
  /\ job' = [job EXCEPT ![c] = "none"]
  /\ target' = [target EXCEPT ![c] = NoMount]
  /\ UNCHANGED <<processMutex, registry, calls, mountPoints, link, media>>

(* A TEARDOWN releases the stream and emits teardown-request.              *)
Teardown(c, m) ==
  /\ ThreadFor(c)
  /\ link[c] = "up"
  /\ m \in media[c]
  /\ media' = [media EXCEPT ![c] = @ \ {m}]
  /\ job' = [job EXCEPT ![c] = "teardown"]
  /\ UNCHANGED <<processMutex, registry, clientInfos, calls, mountPoints,
                 link, target>>

(* teardown_request_callback cleans up the session pool (external) and     *)
(* leaves clientInfos alone.                                               *)
teardown_request_callback(c) ==
  /\ job[c] = "teardown"
  /\ MutexFree
  /\ job' = [job EXCEPT ![c] = "none"]
  /\ UNCHANGED <<processMutex, registry, clientInfos, calls, mountPoints,
                 link, media, target>>

(* The peer goes away, or the server notices that RemoveClientWithId       *)
(* closed the connection: it releases the streams and emits closed.        *)
Close(c) ==
  /\ ThreadFor(c)
  /\ link[c] \in {"up", "severed"}
  /\ link' = [link EXCEPT ![c] = "closing"]
  /\ media' = [media EXCEPT ![c] = {}]
  /\ job' = [job EXCEPT ![c] = "closed"]
  /\ UNCHANGED <<processMutex, registry, clientInfos, calls, mountPoints,
                 target>>

(* Mutant: a client without a record is not let go.                        *)
closed_callback_listed(c) ==
  /\ job[c] = "closed"
  /\ MutexFree
  /\ \E m \in Mount : clientInfos[c][m] > 0
  /\ RemoveClientWithClient(c)
  /\ link' = [link EXCEPT ![c] = "absent"]
  /\ job' = [job EXCEPT ![c] = "none"]
  /\ UNCHANGED <<processMutex, registry, calls, mountPoints, media, target>>

(* closed_callback and RemoveClientWithClient: every record of c goes.     *)
(* The server then drops the client, whose address may be used again.      *)
closed_callback(c) ==
  /\ job[c] = "closed"
  /\ MutexFree
  /\ RemoveClientWithClient(c)
  /\ link' = [link EXCEPT ![c] = "absent"]
  /\ job' = [job EXCEPT ![c] = "none"]
  /\ UNCHANGED <<processMutex, registry, calls, mountPoints, media, target>>

Callback(c) ==
  \/ setup_request_callback(c)
  \/ teardown_request_callback(c)
  \/ closed_callback(c)

Serve(c) ==
  \/ client_connected_callback(c)
  \/ \E m \in Mount : Setup(c, m) \/ Teardown(c, m)
  \/ Close(c)
  \/ Callback(c)

-----------------------------------------------------------------------------

Next ==
  \/ \E w \in Workers : Invoke(w) \/ Execute(w)
  \/ \E c \in Clients : Serve(c)

Spec == Init /\ [][Next]_vars

-----------------------------------------------------------------------------
(* Fairness: the operating system schedules every thread, and no thread    *)
(* waits for processMutex for ever while others keep taking it; the RTSP   *)
(* server's main loop dispatches the event of a connection that was closed *)
(* under it, however busy its thread is with other clients.                *)
Fairness ==
  /\ \A w \in Workers : SF_vars(Execute(w))
  /\ \A c \in Clients : SF_vars(Callback(c))
  /\ \A c \in Clients : SF_vars(link[c] = "severed" /\ Close(c))

FairSpec == Spec /\ Fairness

-----------------------------------------------------------------------------
(* Safety.                                                                 *)

(* Whenever no AddRtsp or RemoveRtsp is under way, the factories the       *)
(* service keeps and the mount points the RTSP server serves are the       *)
(* NProfiles ones of each registered channel, with that channel's source,  *)
(* and no others: concurrent adds and removes never leave a channel half   *)
(* mounted, nor a mount point that serves a source no longer registered.   *)
MountsMatchChannels ==
  MutexFree =>
    \A m \in Mount : /\ mediaFactories[m] = uriPartsMap[m[1]]
                     /\ mountPoints[m] = uriPartsMap[m[1]]

(* No two channels have the same source, although two workers may ask for  *)
(* the same URL under different ids at the same time: the check and the    *)
(* insertion of AddRtsp are far apart, but under one lock.                 *)
OneChannelPerSource ==
  \A i, j \in Ids : uriPartsMap[i] = uriPartsMap[j] /\ uriPartsMap[i] # NoUrl
                     => i = j

(* A ClientInfo never outlives the RTSP server's client it points to, so   *)
(* that the pointers RemoveRtsp follows are those of current clients, in   *)
(* whatever order SETUP, removal and the end of the connection occur.      *)
RecordsAreOfCurrentClients ==
  \A c \in Clients : link[c] = "absent"
                      => \A m \in Mount : clientInfos[c][m] = 0

(* A step that takes a mount point out of service finds no ClientInfo on   *)
(* it: the records RemoveRtsp went through are still all of them when it   *)
(* unmounts, however many SETUPs wait for the mutex meanwhile.             *)
UnmountedAfterRecordsGone ==
  [][\A m \in Mount :
       mountPoints[m] # NoUrl /\ mountPoints'[m] = NoUrl
         => \A c \in Clients : clientInfos[c][m] = 0]_vars

(* AddRtsp and RemoveRtsp behave as if each took effect in one step        *)
(* between its call and its return, and report what that step found.       *)
Registry == INSTANCE ChannelRegistry
  WITH Callers <- Workers, channel <- uriPartsMap, request <- call,
       answer <- result

ImplementsRegistry == Registry!Spec

-----------------------------------------------------------------------------
(* The inductive invariant of the safety properties.                       *)

Inside == {"mounting", "disconnecting", "unmounting"}

(* A worker that is past idle has a request; one that mounts has a URL.    *)
CallsWellFormed ==
  \A w \in Workers :
    /\ pc[w] = "idle" => call[w] = NoCall
    /\ pc[w] # "idle" => call[w] \in Request
    /\ pc[w] = "mounting" => call[w].op = "add" /\ call[w].url \in Urls
    /\ pc[w] \in {"disconnecting", "unmounting"} => call[w].op = "remove"
    /\ pc[w] \notin {"mounting", "unmounting"} => next[w] = 1

(* A callback that waits has a client, and a setup-request one a mount.    *)
JobsWellFormed ==
  \A c \in Clients :
    /\ job[c] = "setup" => target[c] \in Mount
    /\ job[c] # "none" => link[c] # "absent"

(* The owner of the mutex is the worker inside AddRtsp or RemoveRtsp.      *)
OwnerInside == \A w \in Workers : pc[w] \in Inside <=> processMutex = w

(* What a worker checked when it took the mutex still holds.               *)
ChecksHold ==
  \A w \in Workers :
    /\ pc[w] = "mounting" => CanAdd(call[w])
    /\ pc[w] \in {"disconnecting", "unmounting"}
         => uriPartsMap[call[w].id] # NoUrl

(* The mount points and factories of a channel that no worker is mounting  *)
(* or unmounting are what uriPartsMap says; those of one that is are       *)
(* changed up to the profile the worker has reached.                       *)
MountsAsCalled ==
  /\ mountPoints = mediaFactories
  /\ \A i \in Ids, p \in Profiles :
       (\A w \in Workers : pc[w] \in {"mounting", "unmounting"}
                             => call[w].id # i)
         => mediaFactories[<<i, p>>] = uriPartsMap[i]
  /\ \A w \in Workers, p \in Profiles :
       /\ pc[w] = "mounting"
            => mediaFactories[<<call[w].id, p>>] =
                 IF p < next[w] THEN call[w].url ELSE NoUrl
       /\ pc[w] = "unmounting"
            => mediaFactories[<<call[w].id, p>>] =
                 IF p < next[w] THEN NoUrl ELSE uriPartsMap[call[w].id]

(* RemoveClientWithId left no record of the channel being unmounted.       *)
NoRecordsWhileUnmounting ==
  \A w \in Workers :
    pc[w] = "unmounting"
      => \A c \in Clients, p \in Profiles :
           clientInfos[c][<<call[w].id, p>>] = 0

IInv ==
  /\ TypeOK
  /\ CallsWellFormed
  /\ JobsWellFormed
  /\ OwnerInside
  /\ ChecksHold
  /\ MountsAsCalled
  /\ NoRecordsWhileUnmounting
  /\ OneChannelPerSource
  /\ RecordsAreOfCurrentClients

-----------------------------------------------------------------------------
(* Liveness.                                                               *)

(* Every AddRtsp and RemoveRtsp returns.                                   *)
CallsReturn == \A w \in Workers : pc[w] = "waiting" ~> pc[w] = "idle"

(* Every RTSP event that waits for the mutex gets its callback run.        *)
CallbacksRun == \A c \in Clients : job[c] # "none" ~> job[c] = "none"

(* A client whose connection RemoveRtsp closed is eventually gone, with    *)
(* all it had set up.                                                      *)
SeveredClientsLeave ==
  \A c \in Clients : link[c] = "severed" ~> link[c] = "absent"

-----------------------------------------------------------------------------
(* What the repository says and the code does not do.                      *)

(* TranscodingService.cpp:293, in RemoveRtsp: "Before Remove RTSP media    *)
(* factory, client session should be disconnected!"                        *)
DisconnectedBeforeUnmount ==
  [][\A m \in Mount :
       mountPoints[m] # NoUrl /\ mountPoints'[m] = NoUrl
         => \A c \in Clients : link[c] = "up" => m \notin media[c]]_vars

(* Readme.md:30, "/remove" deletes the input channel of the given id, and  *)
(* Readme.md:17-20, a channel's output paths are /{id}/first .. fourth:    *)
(* removing one channel closes the connections of its own clients only.    *)
OnlyOwnClientsSevered ==
  [][\A c \in Clients :
       link[c] = "up" /\ link'[c] = "severed"
         => \E w \in Workers : /\ pc[w] = "disconnecting"
                               /\ \E p \in Profiles :
                                    clientInfos[c][<<call[w].id, p>>] > 0]_vars

=============================================================================
