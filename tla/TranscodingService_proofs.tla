---------------------- MODULE TranscodingService_proofs ----------------------
(***************************************************************************)
(* Theorems about TranscodingService, for every number of workers,         *)
(* clients, channels and profiles.                                         *)
(***************************************************************************)
EXTENDS TranscodingService, MountPaths, TLAPS

USE ConstantsAssumption DEF Profiles, Mount

(* What the RTSP server does changes nothing of the calls under way, of    *)
(* the channels, or of the mount points.                                   *)
LEMMA ServeFrame ==
  ASSUME NEW c \in Clients, Serve(c)
  PROVE  UNCHANGED <<processMutex, registry, calls, mountPoints>>
BY DEF Serve, Callback, client_connected_callback, Setup, Teardown, Close,
       setup_request_callback, teardown_request_callback, closed_callback

(* What a worker does changes nothing of the requests RTSP clients wait    *)
(* for, and neither connects nor drops a client.                           *)
LEMMA WorkerFrame ==
  ASSUME TypeOK, NEW w \in Workers, Invoke(w) \/ Execute(w)
  PROVE  /\ UNCHANGED <<media, job, target>>
         /\ \A c \in Clients : link'[c] = "absent" <=> link[c] = "absent"
<1>1. CASE RemoveClientWithId(w)
  BY <1>1 DEF TypeOK, RemoveClientWithId
<1>2. CASE ~RemoveClientWithId(w)
  <2>1. UNCHANGED rtsp
    BY <1>2 DEF Invoke, Execute, AddRefused, AddBegin, AddFactory, AddCommit,
                RemoveUnknown, RemoveBegin, RemoveFactory, RemoveCommit, rtsp
  <2> QED
    BY <2>1 DEF rtsp
<1> QED
  BY <1>1, <1>2

(* Every step keeps every variable's type.                                 *)
LEMMA TypeStep ==
  ASSUME TypeOK, CallsWellFormed, JobsWellFormed, [Next]_vars
  PROVE  TypeOK'
<1> USE DEF TypeOK
<1>1. ASSUME NEW w \in Workers, Invoke(w) PROVE TypeOK'
  <2>1. call' \in [Workers -> Request \cup {NoCall}]
    BY <1>1 DEF Invoke, Request
  <2> QED
    BY <1>1, <2>1 DEF Invoke, registry, rtsp
<1>2. ASSUME NEW w \in Workers, AddRefused(w) PROVE TypeOK'
  BY <1>2 DEF AddRefused, Return, registry, rtsp
<1>3. ASSUME NEW w \in Workers, AddBegin(w) PROVE TypeOK'
  BY <1>3 DEF AddBegin, registry, rtsp
<1>4. ASSUME NEW w \in Workers, AddFactory(w) PROVE TypeOK'
  <2> DEFINE m == <<call[w].id, next[w]>>
  <2>1. m \in Mount /\ call[w].url \in Urls
    BY <1>4 DEF AddFactory, CallsWellFormed, Request
  <2>2. next' \in [Workers -> 1 .. NProfiles + 1]
    BY <1>4 DEF AddFactory
  <2>3. mediaFactories' \in [Mount -> Urls \cup {NoUrl}]
    BY <1>4, <2>1 DEF AddFactory
  <2>4. mountPoints' \in [Mount -> Urls \cup {NoUrl}]
    BY <1>4, <2>1 DEF AddFactory
  <2> QED
    BY <1>4, <2>2, <2>3, <2>4 DEF AddFactory, rtsp
<1>5. ASSUME NEW w \in Workers, AddCommit(w) PROVE TypeOK'
  <2>1. call[w].id \in Ids /\ call[w].url \in Urls
    BY <1>5 DEF AddCommit, CallsWellFormed, Request
  <2>2. uriPartsMap' \in [Ids -> Urls \cup {NoUrl}]
    BY <1>5, <2>1 DEF AddCommit
  <2> QED
    BY <1>5, <2>2 DEF AddCommit, Return, rtsp
<1>6. ASSUME NEW w \in Workers, RemoveUnknown(w) PROVE TypeOK'
  BY <1>6 DEF RemoveUnknown, Return, registry, rtsp
<1>7. ASSUME NEW w \in Workers, RemoveBegin(w) PROVE TypeOK'
  BY <1>7 DEF RemoveBegin, registry, rtsp
<1>8. ASSUME NEW w \in Workers, RemoveClientWithId(w) PROVE TypeOK'
  BY <1>8 DEF RemoveClientWithId, registry, rtsp
<1>9. ASSUME NEW w \in Workers, RemoveFactory(w) PROVE TypeOK'
  <2> DEFINE m == <<call[w].id, next[w]>>
  <2>1. m \in Mount
    BY <1>9 DEF RemoveFactory, CallsWellFormed, Request
  <2>2. next' \in [Workers -> 1 .. NProfiles + 1]
    BY <1>9 DEF RemoveFactory
  <2>3. mediaFactories' \in [Mount -> Urls \cup {NoUrl}]
    BY <1>9, <2>1 DEF RemoveFactory
  <2>4. mountPoints' \in [Mount -> Urls \cup {NoUrl}]
    BY <1>9, <2>1 DEF RemoveFactory
  <2> QED
    BY <1>9, <2>2, <2>3, <2>4 DEF RemoveFactory, rtsp
<1>10. ASSUME NEW w \in Workers, RemoveCommit(w) PROVE TypeOK'
  <2>1. call[w].id \in Ids
    BY <1>10 DEF RemoveCommit, CallsWellFormed, Request
  <2>2. uriPartsMap' \in [Ids -> Urls \cup {NoUrl}]
    BY <1>10, <2>1 DEF RemoveCommit
  <2> QED
    BY <1>10, <2>2 DEF RemoveCommit, Return, rtsp
<1>11. ASSUME NEW c \in Clients, client_connected_callback(c) PROVE TypeOK'
  BY <1>11 DEF client_connected_callback, registry, calls
<1>12. ASSUME NEW c \in Clients, NEW m \in Mount, Setup(c, m) PROVE TypeOK'
  BY <1>12 DEF Setup, registry, calls
<1>13. ASSUME NEW c \in Clients, NEW m \in Mount, Teardown(c, m) PROVE TypeOK'
  BY <1>13 DEF Teardown, registry, calls
<1>14. ASSUME NEW c \in Clients, Close(c) PROVE TypeOK'
  BY <1>14 DEF Close, registry, calls
<1>15. ASSUME NEW c \in Clients, setup_request_callback(c) PROVE TypeOK'
  BY <1>15
  DEF setup_request_callback, AddClientInfo, registry, calls, JobsWellFormed
<1>16. ASSUME NEW c \in Clients, teardown_request_callback(c) PROVE TypeOK'
  BY <1>16 DEF teardown_request_callback, registry, calls
<1>17. ASSUME NEW c \in Clients, closed_callback(c) PROVE TypeOK'
  BY <1>17 DEF closed_callback, RemoveClientWithClient, registry, calls
<1>18. CASE UNCHANGED vars
  BY <1>18 DEF vars, registry, calls, rtsp
<1> QED
  BY <1>1, <1>2, <1>3, <1>4, <1>5, <1>6, <1>7, <1>8, <1>9, <1>10,
     <1>11, <1>12, <1>13, <1>14, <1>15, <1>16, <1>17, <1>18
  DEF Next, Execute, Serve, Callback

(* Every step leaves every worker with the request its place calls for.    *)
LEMMA CallsStep ==
  ASSUME TypeOK, CallsWellFormed, [Next]_vars
  PROVE  CallsWellFormed'
<1> USE NoCallAssumption DEF TypeOK, CallsWellFormed
<1>1. ASSUME NEW w \in Workers, Invoke(w) PROVE CallsWellFormed'
  <2>1. call'[w] \in Request
    BY <1>1 DEF Invoke, Request
  <2> QED
    BY <1>1, <2>1 DEF Invoke
<1>2. ASSUME NEW w \in Workers, AddRefused(w) PROVE CallsWellFormed'
  BY <1>2 DEF AddRefused, Return, registry, rtsp
<1>3. ASSUME NEW w \in Workers, AddBegin(w) PROVE CallsWellFormed'
  BY <1>3 DEF AddBegin, registry, rtsp, HasMutex, CanAdd
<1>4. ASSUME NEW w \in Workers, AddFactory(w) PROVE CallsWellFormed'
  BY <1>4 DEF AddFactory, registry, rtsp
<1>5. ASSUME NEW w \in Workers, AddCommit(w) PROVE CallsWellFormed'
  BY <1>5 DEF AddCommit, Return, registry, rtsp
<1>6. ASSUME NEW w \in Workers, RemoveUnknown(w) PROVE CallsWellFormed'
  BY <1>6 DEF RemoveUnknown, Return, registry, rtsp
<1>7. ASSUME NEW w \in Workers, RemoveBegin(w) PROVE CallsWellFormed'
  BY <1>7 DEF RemoveBegin, registry, rtsp, HasMutex
<1>8. ASSUME NEW w \in Workers, RemoveClientWithId(w) PROVE CallsWellFormed'
  BY <1>8 DEF RemoveClientWithId, registry, rtsp
<1>9. ASSUME NEW w \in Workers, RemoveFactory(w) PROVE CallsWellFormed'
  BY <1>9 DEF RemoveFactory, registry, rtsp
<1>10. ASSUME NEW w \in Workers, RemoveCommit(w) PROVE CallsWellFormed'
  BY <1>10 DEF RemoveCommit, Return, registry, rtsp
<1>11. ASSUME NEW c \in Clients, Serve(c) PROVE CallsWellFormed'
  BY <1>11, ServeFrame DEF registry, calls
<1>12. CASE UNCHANGED vars
  BY <1>12 DEF vars, registry, calls, rtsp
<1> QED
  BY <1>1, <1>2, <1>3, <1>4, <1>5, <1>6, <1>7, <1>8, <1>9, <1>10,
     <1>11, <1>12
  DEF Next, Execute

(* Every step leaves every waiting callback with what it is about.         *)
LEMMA JobsStep ==
  ASSUME TypeOK, JobsWellFormed, [Next]_vars
  PROVE  JobsWellFormed'
<1> USE DEF TypeOK, JobsWellFormed
<1>1. ASSUME NEW w \in Workers, Invoke(w) \/ Execute(w) PROVE JobsWellFormed'
  BY <1>1, WorkerFrame
<1>2. ASSUME NEW c \in Clients, client_connected_callback(c)
      PROVE  JobsWellFormed'
  BY <1>2 DEF client_connected_callback, registry, calls
<1>3. ASSUME NEW c \in Clients, NEW m \in Mount, Setup(c, m)
      PROVE  JobsWellFormed'
  BY <1>3 DEF Setup, registry, calls
<1>4. ASSUME NEW c \in Clients, NEW m \in Mount, Teardown(c, m)
      PROVE  JobsWellFormed'
  BY <1>4 DEF Teardown, registry, calls
<1>5. ASSUME NEW c \in Clients, Close(c) PROVE JobsWellFormed'
  BY <1>5 DEF Close, registry, calls
<1>6. ASSUME NEW c \in Clients, setup_request_callback(c) PROVE JobsWellFormed'
  BY <1>6 DEF setup_request_callback, AddClientInfo, registry, calls
<1>7. ASSUME NEW c \in Clients, teardown_request_callback(c)
      PROVE  JobsWellFormed'
  BY <1>7 DEF teardown_request_callback, registry, calls
<1>8. ASSUME NEW c \in Clients, closed_callback(c) PROVE JobsWellFormed'
  BY <1>8 DEF closed_callback, RemoveClientWithClient, registry, calls
<1>9. CASE UNCHANGED vars
  BY <1>9 DEF vars, registry, calls, rtsp
<1> QED
  BY <1>1, <1>2, <1>3, <1>4, <1>5, <1>6, <1>7, <1>8, <1>9
  DEF Next, Serve, Callback

(* The profiles below the successor of n are n and those below n.          *)
LEMMA NextProfile ==
  ASSUME NEW n \in Profiles, NEW p \in Profiles
  PROVE  p < n + 1 <=> p < n \/ p = n
OBVIOUS

(* The mutex is owned by the one worker that is inside.                    *)
LEMMA OwnerStep ==
  ASSUME TypeOK, OwnerInside, [Next]_vars
  PROVE  OwnerInside'
<1> USE DEF TypeOK, OwnerInside, Inside
<1>1. ASSUME NEW w \in Workers, Invoke(w) PROVE OwnerInside'
  BY <1>1 DEF Invoke, registry, rtsp
<1>2. ASSUME NEW w \in Workers, AddRefused(w) PROVE OwnerInside'
  BY <1>2 DEF AddRefused, Return, registry, rtsp, HasMutex, MutexFree
<1>3. ASSUME NEW w \in Workers, AddBegin(w) PROVE OwnerInside'
  BY <1>3 DEF AddBegin, registry, rtsp, HasMutex, MutexFree
<1>4. ASSUME NEW w \in Workers, AddFactory(w) PROVE OwnerInside'
  BY <1>4 DEF AddFactory, registry, rtsp
<1>5. ASSUME NEW w \in Workers, AddCommit(w) PROVE OwnerInside'
  BY <1>5 DEF AddCommit, Return, registry, rtsp
<1>6. ASSUME NEW w \in Workers, RemoveUnknown(w) PROVE OwnerInside'
  BY <1>6 DEF RemoveUnknown, Return, registry, rtsp, HasMutex, MutexFree
<1>7. ASSUME NEW w \in Workers, RemoveBegin(w) PROVE OwnerInside'
  BY <1>7 DEF RemoveBegin, registry, rtsp, HasMutex, MutexFree
<1>8. ASSUME NEW w \in Workers, RemoveClientWithId(w) PROVE OwnerInside'
  BY <1>8 DEF RemoveClientWithId, registry, rtsp
<1>9. ASSUME NEW w \in Workers, RemoveFactory(w) PROVE OwnerInside'
  BY <1>9 DEF RemoveFactory, registry, rtsp
<1>10. ASSUME NEW w \in Workers, RemoveCommit(w) PROVE OwnerInside'
  BY <1>10 DEF RemoveCommit, Return, registry, rtsp
<1>11. ASSUME NEW c \in Clients, Serve(c) PROVE OwnerInside'
  BY <1>11, ServeFrame DEF registry, calls
<1>12. CASE UNCHANGED vars
  BY <1>12 DEF vars, registry, calls, rtsp
<1> QED
  BY <1>1, <1>2, <1>3, <1>4, <1>5, <1>6, <1>7, <1>8, <1>9, <1>10,
     <1>11, <1>12
  DEF Next, Execute

(* What AddRtsp and RemoveRtsp checked stays true until they return.       *)
LEMMA ChecksStep ==
  ASSUME TypeOK, CallsWellFormed, OwnerInside, ChecksHold, [Next]_vars
  PROVE  ChecksHold'
<1> USE DEF TypeOK, CallsWellFormed, OwnerInside, Inside, ChecksHold, CanAdd
<1>1. ASSUME NEW w \in Workers, Invoke(w) PROVE ChecksHold'
  BY <1>1 DEF Invoke, registry, rtsp
<1>2. ASSUME NEW w \in Workers, AddRefused(w) PROVE ChecksHold'
  BY <1>2 DEF AddRefused, Return, registry, rtsp, HasMutex, MutexFree
<1>3. ASSUME NEW w \in Workers, AddBegin(w) PROVE ChecksHold'
  BY <1>3 DEF AddBegin, registry, rtsp, HasMutex, MutexFree
<1>4. ASSUME NEW w \in Workers, AddFactory(w) PROVE ChecksHold'
  BY <1>4 DEF AddFactory, registry, rtsp
<1>5. ASSUME NEW w \in Workers, AddCommit(w) PROVE ChecksHold'
  BY <1>5 DEF AddCommit, Return, registry, rtsp
<1>6. ASSUME NEW w \in Workers, RemoveUnknown(w) PROVE ChecksHold'
  BY <1>6 DEF RemoveUnknown, Return, registry, rtsp, HasMutex, MutexFree
<1>7. ASSUME NEW w \in Workers, RemoveBegin(w) PROVE ChecksHold'
  BY <1>7 DEF RemoveBegin, registry, rtsp, HasMutex, MutexFree
<1>8. ASSUME NEW w \in Workers, RemoveClientWithId(w) PROVE ChecksHold'
  BY <1>8 DEF RemoveClientWithId, registry, rtsp
<1>9. ASSUME NEW w \in Workers, RemoveFactory(w) PROVE ChecksHold'
  BY <1>9 DEF RemoveFactory, registry, rtsp
<1>10. ASSUME NEW w \in Workers, RemoveCommit(w) PROVE ChecksHold'
  BY <1>10 DEF RemoveCommit, Return, registry, rtsp
<1>11. ASSUME NEW c \in Clients, Serve(c) PROVE ChecksHold'
  BY <1>11, ServeFrame DEF registry, calls
<1>12. CASE UNCHANGED vars
  BY <1>12 DEF vars, registry, calls, rtsp
<1> QED
  BY <1>1, <1>2, <1>3, <1>4, <1>5, <1>6, <1>7, <1>8, <1>9, <1>10,
     <1>11, <1>12
  DEF Next, Execute

(* Factories and mount points follow the calls under way.                  *)
LEMMA MountsStep ==
  ASSUME TypeOK, CallsWellFormed, OwnerInside, ChecksHold, MountsAsCalled,
         [Next]_vars
  PROVE  MountsAsCalled'
<1> USE DEF TypeOK, MountsAsCalled
<1>1. ASSUME NEW w \in Workers, Invoke(w) PROVE MountsAsCalled'
  <2>1. pc[w] = "idle" /\ pc'[w] = "waiting"
    BY <1>1 DEF Invoke
  <2>2. \A v \in Workers : v # w => pc'[v] = pc[v] /\ call'[v] = call[v]
    BY <1>1 DEF Invoke
  <2>3. /\ next' = next /\ uriPartsMap' = uriPartsMap
        /\ mediaFactories' = mediaFactories /\ mountPoints' = mountPoints
    BY <1>1 DEF Invoke, registry
  <2> HIDE DEF TypeOK
  <2> QED
    BY <2>1, <2>2, <2>3
<1>2. ASSUME NEW w \in Workers, AddRefused(w) PROVE MountsAsCalled'
  <2>1. \A v \in Workers : pc[v] \notin Inside
    BY <1>2 DEF AddRefused, HasMutex, MutexFree, OwnerInside
  <2>2. \A i \in Ids, p \in Profiles :
          mediaFactories[<<i, p>>] = uriPartsMap[i]
    BY <2>1 DEF Inside
  <2>3. \A v \in Workers : pc'[v] \notin Inside
    BY <1>2, <2>1 DEF AddRefused, Return, Inside
  <2> QED
    BY <1>2, <2>2, <2>3 DEF AddRefused, registry, rtsp, Inside
<1>3. ASSUME NEW w \in Workers, AddBegin(w) PROVE MountsAsCalled'
  <2>1. \A v \in Workers : pc[v] \notin Inside
    BY <1>3 DEF AddBegin, HasMutex, MutexFree, OwnerInside
  <2>2. \A i \in Ids, p \in Profiles :
          mediaFactories[<<i, p>>] = uriPartsMap[i]
    BY <2>1 DEF Inside
  <2>3. call[w].id \in Ids /\ uriPartsMap[call[w].id] = NoUrl /\ next[w] = 1
    BY <1>3 DEF AddBegin, HasMutex, CallsWellFormed, CanAdd, Request
  <2>4. \A v \in Workers : pc'[v] \in Inside => v = w
    BY <1>3, <2>1 DEF AddBegin, Inside
  <2>5. pc'[w] = "mounting"
    BY <1>3 DEF AddBegin
  <2> QED
    BY <1>3, <2>2, <2>3, <2>4, <2>5 DEF AddBegin, registry, rtsp, Inside
<1>4. ASSUME NEW w \in Workers, AddFactory(w) PROVE MountsAsCalled'
  <2> DEFINE m == <<call[w].id, next[w]>>
  <2>1. \A v \in Workers : pc[v] \in {"mounting", "unmounting"} => v = w
    BY <1>4 DEF AddFactory, OwnerInside, Inside
  <2>2. m \in Mount /\ next[w] \in 1 .. NProfiles
    BY <1>4 DEF AddFactory, CallsWellFormed, Request
  <2>3. pc' = pc /\ call' = call /\ uriPartsMap' = uriPartsMap
    BY <1>4 DEF AddFactory
  <2>4. mediaFactories' = [mediaFactories EXCEPT ![m] = call[w].url]
    BY <1>4, <2>2 DEF AddFactory
  <2>5. mountPoints' = mediaFactories'
    BY <1>4, <2>2 DEF AddFactory
  <2>6. next'[w] = next[w] + 1
    BY <1>4 DEF AddFactory
  <2>7. ASSUME NEW i \in Ids, NEW p \in Profiles, i # call[w].id
        PROVE  mediaFactories'[<<i, p>>] = mediaFactories[<<i, p>>]
    BY <2>4, <2>7
  <2>8. ASSUME NEW p \in Profiles
        PROVE  mediaFactories'[<<call[w].id, p>>] =
                 IF p = next[w] THEN call[w].url
                                ELSE mediaFactories[<<call[w].id, p>>]
    BY <2>2, <2>4
  <2>9. ASSUME NEW i \in Ids, NEW p \in Profiles,
               \A v \in Workers : pc[v] \in {"mounting", "unmounting"}
                                     => call[v].id # i
        PROVE  mediaFactories'[<<i, p>>] = uriPartsMap[i]
    <3>1. i # call[w].id
      BY <1>4, <2>9 DEF AddFactory
    <3> QED
      BY <2>7, <2>9, <3>1
  <2>10. ASSUME NEW p \in Profiles
         PROVE  mediaFactories'[<<call[w].id, p>>] =
                  IF p < next'[w] THEN call[w].url ELSE NoUrl
    <3>1. mediaFactories[<<call[w].id, p>>] =
            IF p < next[w] THEN call[w].url ELSE NoUrl
      BY <1>4 DEF AddFactory
    <3> HIDE DEF TypeOK, MountsAsCalled
    <3>2. p < next[w] + 1 <=> p < next[w] \/ p = next[w]
      BY <2>2, NextProfile
    <3> QED
      BY <2>6, <2>8, <3>1, <3>2
  <2> QED
    BY <1>4, <2>1, <2>3, <2>5, <2>9, <2>10 DEF AddFactory
<1>5. ASSUME NEW w \in Workers, AddCommit(w) PROVE MountsAsCalled'
  <2>1. \A v \in Workers : pc[v] \in Inside => v = w
    BY <1>5 DEF AddCommit, OwnerInside, Inside
  <2>2. call[w].id \in Ids /\ \A p \in Profiles : p < next[w]
    BY <1>5 DEF AddCommit, CallsWellFormed, Request
  <2>3. uriPartsMap' = [uriPartsMap EXCEPT ![call[w].id] = call[w].url]
    BY <1>5 DEF AddCommit
  <2>4. ASSUME NEW i \in Ids, NEW p \in Profiles
        PROVE  mediaFactories[<<i, p>>] = uriPartsMap'[i]
    <3>1. CASE i = call[w].id
      BY <1>5, <2>2, <2>3, <3>1 DEF AddCommit
    <3>2. CASE i # call[w].id
      BY <2>1, <2>3, <3>2 DEF Inside
    <3> QED
      BY <3>1, <3>2
  <2>5. \A v \in Workers : pc'[v] \notin Inside
    BY <1>5, <2>1 DEF AddCommit, Return, Inside
  <2> QED
    BY <1>5, <2>4, <2>5 DEF AddCommit, Inside
<1>6. ASSUME NEW w \in Workers, RemoveUnknown(w) PROVE MountsAsCalled'
  <2>1. \A v \in Workers : pc[v] \notin Inside
    BY <1>6 DEF RemoveUnknown, HasMutex, MutexFree, OwnerInside
  <2>2. \A i \in Ids, p \in Profiles :
          mediaFactories[<<i, p>>] = uriPartsMap[i]
    BY <2>1 DEF Inside
  <2>3. \A v \in Workers : pc'[v] \notin Inside
    BY <1>6, <2>1 DEF RemoveUnknown, Return, Inside
  <2> QED
    BY <1>6, <2>2, <2>3 DEF RemoveUnknown, registry, rtsp, Inside
<1>7. ASSUME NEW w \in Workers, RemoveBegin(w) PROVE MountsAsCalled'
  BY <1>7
  DEF RemoveBegin, registry, HasMutex, MutexFree, OwnerInside, Inside
<1>8. ASSUME NEW w \in Workers, RemoveClientWithId(w) PROVE MountsAsCalled'
  <2>1. \A v \in Workers : pc[v] \in Inside => v = w
    BY <1>8 DEF RemoveClientWithId, OwnerInside, Inside
  <2>2. \A i \in Ids, p \in Profiles :
          mediaFactories[<<i, p>>] = uriPartsMap[i]
    BY <1>8, <2>1 DEF RemoveClientWithId, Inside
  <2>3. call[w].id \in Ids /\ next[w] = 1
    BY <1>8 DEF RemoveClientWithId, CallsWellFormed, Request
  <2>4. \A v \in Workers : pc'[v] \in Inside => v = w
    BY <1>8, <2>1 DEF RemoveClientWithId, Inside
  <2>5. pc'[w] = "unmounting"
    BY <1>8 DEF RemoveClientWithId
  <2> QED
    BY <1>8, <2>2, <2>3, <2>4, <2>5
    DEF RemoveClientWithId, registry, rtsp, Inside
<1>9. ASSUME NEW w \in Workers, RemoveFactory(w) PROVE MountsAsCalled'
  <2> DEFINE m == <<call[w].id, next[w]>>
  <2>1. \A v \in Workers : pc[v] \in {"mounting", "unmounting"} => v = w
    BY <1>9 DEF RemoveFactory, OwnerInside, Inside
  <2>2. m \in Mount /\ next[w] \in 1 .. NProfiles
    BY <1>9 DEF RemoveFactory, CallsWellFormed, Request
  <2>3. pc' = pc /\ call' = call /\ uriPartsMap' = uriPartsMap
    BY <1>9 DEF RemoveFactory
  <2>4. mediaFactories' = [mediaFactories EXCEPT ![m] = NoUrl]
    BY <1>9, <2>2 DEF RemoveFactory
  <2>5. mountPoints' = mediaFactories'
    BY <1>9, <2>2 DEF RemoveFactory
  <2>6. next'[w] = next[w] + 1
    BY <1>9 DEF RemoveFactory
  <2>7. ASSUME NEW i \in Ids, NEW p \in Profiles, i # call[w].id
        PROVE  mediaFactories'[<<i, p>>] = mediaFactories[<<i, p>>]
    BY <2>4, <2>7
  <2>8. ASSUME NEW p \in Profiles
        PROVE  mediaFactories'[<<call[w].id, p>>] =
                 IF p = next[w] THEN NoUrl
                                ELSE mediaFactories[<<call[w].id, p>>]
    BY <2>2, <2>4
  <2>9. ASSUME NEW i \in Ids, NEW p \in Profiles,
               \A v \in Workers : pc[v] \in {"mounting", "unmounting"}
                                     => call[v].id # i
        PROVE  mediaFactories'[<<i, p>>] = uriPartsMap[i]
    <3>1. i # call[w].id
      BY <1>9, <2>9 DEF RemoveFactory
    <3> QED
      BY <2>7, <2>9, <3>1
  <2>10. ASSUME NEW p \in Profiles
         PROVE  mediaFactories'[<<call[w].id, p>>] =
                  IF p < next'[w] THEN NoUrl ELSE uriPartsMap[call[w].id]
    <3>1. mediaFactories[<<call[w].id, p>>] =
            IF p < next[w] THEN NoUrl ELSE uriPartsMap[call[w].id]
      BY <1>9 DEF RemoveFactory
    <3> HIDE DEF TypeOK, MountsAsCalled
    <3>2. p < next[w] + 1 <=> p < next[w] \/ p = next[w]
      BY <2>2, NextProfile
    <3> QED
      BY <2>6, <2>8, <3>1, <3>2
  <2> QED
    BY <1>9, <2>1, <2>3, <2>5, <2>9, <2>10 DEF RemoveFactory
<1>10. ASSUME NEW w \in Workers, RemoveCommit(w) PROVE MountsAsCalled'
  <2>1. \A v \in Workers : pc[v] \in Inside => v = w
    BY <1>10 DEF RemoveCommit, OwnerInside, Inside
  <2>2. call[w].id \in Ids /\ \A p \in Profiles : p < next[w]
    BY <1>10 DEF RemoveCommit, CallsWellFormed, Request
  <2>3. uriPartsMap' = [uriPartsMap EXCEPT ![call[w].id] = NoUrl]
    BY <1>10 DEF RemoveCommit
  <2>4. ASSUME NEW i \in Ids, NEW p \in Profiles
        PROVE  mediaFactories[<<i, p>>] = uriPartsMap'[i]
    <3>1. CASE i = call[w].id
      BY <1>10, <2>2, <2>3, <3>1 DEF RemoveCommit
    <3>2. CASE i # call[w].id
      BY <2>1, <2>3, <3>2 DEF Inside
    <3> QED
      BY <3>1, <3>2
  <2>5. \A v \in Workers : pc'[v] \notin Inside
    BY <1>10, <2>1 DEF RemoveCommit, Return, Inside
  <2> QED
    BY <1>10, <2>4, <2>5 DEF RemoveCommit, Inside
<1>11. ASSUME NEW c \in Clients, Serve(c) PROVE MountsAsCalled'
  <2>1. /\ pc' = pc /\ call' = call /\ next' = next
        /\ uriPartsMap' = uriPartsMap
        /\ mediaFactories' = mediaFactories /\ mountPoints' = mountPoints
    BY <1>11, ServeFrame DEF registry, calls
  <2> QED
    BY <2>1
<1>12. CASE UNCHANGED vars
  BY <1>12 DEF vars, registry, calls, rtsp
<1> QED
  BY <1>1, <1>2, <1>3, <1>4, <1>5, <1>6, <1>7, <1>8, <1>9, <1>10,
     <1>11, <1>12
  DEF Next, Execute

(* No record of a channel appears between RemoveClientWithId and the end   *)
(* of RemoveRtsp.                                                          *)
LEMMA NoRecordsStep ==
  ASSUME TypeOK, CallsWellFormed, OwnerInside, NoRecordsWhileUnmounting,
         [Next]_vars
  PROVE  NoRecordsWhileUnmounting'
<1> USE DEF TypeOK, CallsWellFormed, OwnerInside, Inside,
           NoRecordsWhileUnmounting
<1>1. ASSUME NEW w \in Workers, Invoke(w) PROVE NoRecordsWhileUnmounting'
  BY <1>1 DEF Invoke, registry, rtsp
<1>2. ASSUME NEW w \in Workers, AddRefused(w) PROVE NoRecordsWhileUnmounting'
  BY <1>2 DEF AddRefused, Return, registry, rtsp, HasMutex, MutexFree
<1>3. ASSUME NEW w \in Workers, AddBegin(w) PROVE NoRecordsWhileUnmounting'
  BY <1>3 DEF AddBegin, registry, rtsp, HasMutex, MutexFree
<1>4. ASSUME NEW w \in Workers, AddFactory(w) PROVE NoRecordsWhileUnmounting'
  BY <1>4 DEF AddFactory, registry, rtsp
<1>5. ASSUME NEW w \in Workers, AddCommit(w) PROVE NoRecordsWhileUnmounting'
  BY <1>5 DEF AddCommit, Return, registry, rtsp
<1>6. ASSUME NEW w \in Workers, RemoveUnknown(w)
      PROVE  NoRecordsWhileUnmounting'
  BY <1>6 DEF RemoveUnknown, Return, registry, rtsp, HasMutex, MutexFree
<1>7. ASSUME NEW w \in Workers, RemoveBegin(w) PROVE NoRecordsWhileUnmounting'
  BY <1>7 DEF RemoveBegin, registry, rtsp, HasMutex, MutexFree
<1>8. ASSUME NEW w \in Workers, RemoveClientWithId(w)
      PROVE  NoRecordsWhileUnmounting'
  <2> DEFINE hit == PathHits[call[w].id]
  <2>1. \A v \in Workers : pc'[v] = "unmounting" => v = w /\ call'[v] = call[w]
    BY <1>8 DEF RemoveClientWithId
  <2>2. call[w].id \in Ids
    BY <1>8 DEF RemoveClientWithId, Request
  <2>3. \A p \in Profiles : <<call[w].id, p>> \in hit
    BY <2>2, PathHitsAssumption
  <2>4. \A c \in Clients, p \in Profiles :
          clientInfos'[c][<<call[w].id, p>>] = 0
    BY <1>8, <2>2, <2>3 DEF RemoveClientWithId
  <2> QED
    BY <2>1, <2>4
<1>9. ASSUME NEW w \in Workers, RemoveFactory(w)
      PROVE  NoRecordsWhileUnmounting'
  BY <1>9 DEF RemoveFactory, registry, rtsp
<1>10. ASSUME NEW w \in Workers, RemoveCommit(w)
      PROVE  NoRecordsWhileUnmounting'
  BY <1>10 DEF RemoveCommit, Return, registry, rtsp
<1>11. ASSUME NEW c \in Clients, Serve(c) PROVE NoRecordsWhileUnmounting'
  <2>1. pc' = pc /\ call' = call
    BY <1>11, ServeFrame DEF calls
  <2>2. ASSUME NEW w \in Workers, pc[w] = "unmounting"
        PROVE  clientInfos' = clientInfos
    <3>1. ~MutexFree
      BY <2>2 DEF MutexFree
    <3> QED
      BY <1>11, <3>1
      DEF Serve, Callback, client_connected_callback, Setup, Teardown, Close,
          setup_request_callback, teardown_request_callback, closed_callback
  <2> QED
    BY <2>1, <2>2
<1>12. CASE UNCHANGED vars
  BY <1>12 DEF vars, registry, calls, rtsp
<1> QED
  BY <1>1, <1>2, <1>3, <1>4, <1>5, <1>6, <1>7, <1>8, <1>9, <1>10,
     <1>11, <1>12
  DEF Next, Execute

(* No two channels get the same source.                                    *)
LEMMA OneSourceStep ==
  ASSUME TypeOK, CallsWellFormed, ChecksHold, OneChannelPerSource, [Next]_vars
  PROVE  OneChannelPerSource'
<1> USE DEF TypeOK, CallsWellFormed, ChecksHold, CanAdd, OneChannelPerSource
<1>1. ASSUME NEW w \in Workers, Invoke(w) PROVE OneChannelPerSource'
  BY <1>1 DEF Invoke, registry, rtsp
<1>2. ASSUME NEW w \in Workers, AddRefused(w) PROVE OneChannelPerSource'
  BY <1>2 DEF AddRefused, Return, registry, rtsp
<1>3. ASSUME NEW w \in Workers, AddBegin(w) PROVE OneChannelPerSource'
  BY <1>3 DEF AddBegin, registry, rtsp
<1>4. ASSUME NEW w \in Workers, AddFactory(w) PROVE OneChannelPerSource'
  BY <1>4 DEF AddFactory, registry, rtsp
<1>5. ASSUME NEW w \in Workers, AddCommit(w) PROVE OneChannelPerSource'
  BY <1>5 DEF AddCommit, Return, registry, rtsp
<1>6. ASSUME NEW w \in Workers, RemoveUnknown(w) PROVE OneChannelPerSource'
  BY <1>6 DEF RemoveUnknown, Return, registry, rtsp
<1>7. ASSUME NEW w \in Workers, RemoveBegin(w) PROVE OneChannelPerSource'
  BY <1>7 DEF RemoveBegin, registry, rtsp
<1>8. ASSUME NEW w \in Workers, RemoveClientWithId(w)
      PROVE  OneChannelPerSource'
  BY <1>8 DEF RemoveClientWithId, registry, rtsp
<1>9. ASSUME NEW w \in Workers, RemoveFactory(w) PROVE OneChannelPerSource'
  BY <1>9 DEF RemoveFactory, registry, rtsp
<1>10. ASSUME NEW w \in Workers, RemoveCommit(w) PROVE OneChannelPerSource'
  BY <1>10 DEF RemoveCommit, Return, registry, rtsp
<1>11. ASSUME NEW c \in Clients, Serve(c) PROVE OneChannelPerSource'
  BY <1>11, ServeFrame DEF registry, calls
<1>12. CASE UNCHANGED vars
  BY <1>12 DEF vars, registry, calls, rtsp
<1> QED
  BY <1>1, <1>2, <1>3, <1>4, <1>5, <1>6, <1>7, <1>8, <1>9, <1>10,
     <1>11, <1>12
  DEF Next, Execute

(* No record is added for a client that is gone, and the last ones go      *)
(* with the client.                                                        *)
LEMMA RecordsStep ==
  ASSUME TypeOK, JobsWellFormed, RecordsAreOfCurrentClients, [Next]_vars
  PROVE  RecordsAreOfCurrentClients'
<1> USE DEF TypeOK, JobsWellFormed, RecordsAreOfCurrentClients
<1>1. ASSUME NEW w \in Workers, Invoke(w) PROVE RecordsAreOfCurrentClients'
  BY <1>1 DEF Invoke, registry, rtsp
<1>2. ASSUME NEW w \in Workers, AddRefused(w) PROVE RecordsAreOfCurrentClients'
  BY <1>2 DEF AddRefused, Return, registry, rtsp
<1>3. ASSUME NEW w \in Workers, AddBegin(w) PROVE RecordsAreOfCurrentClients'
  BY <1>3 DEF AddBegin, registry, rtsp
<1>4. ASSUME NEW w \in Workers, AddFactory(w) PROVE RecordsAreOfCurrentClients'
  BY <1>4 DEF AddFactory, registry, rtsp
<1>5. ASSUME NEW w \in Workers, AddCommit(w) PROVE RecordsAreOfCurrentClients'
  BY <1>5 DEF AddCommit, Return, registry, rtsp
<1>6. ASSUME NEW w \in Workers, RemoveUnknown(w)
      PROVE  RecordsAreOfCurrentClients'
  BY <1>6 DEF RemoveUnknown, Return, registry, rtsp
<1>7. ASSUME NEW w \in Workers, RemoveBegin(w)
      PROVE  RecordsAreOfCurrentClients'
  BY <1>7 DEF RemoveBegin, registry, rtsp
<1>8. ASSUME NEW w \in Workers, RemoveClientWithId(w)
      PROVE  RecordsAreOfCurrentClients'
  BY <1>8 DEF RemoveClientWithId, registry, rtsp
<1>9. ASSUME NEW w \in Workers, RemoveFactory(w)
      PROVE  RecordsAreOfCurrentClients'
  BY <1>9 DEF RemoveFactory, registry, rtsp
<1>10. ASSUME NEW w \in Workers, RemoveCommit(w)
      PROVE  RecordsAreOfCurrentClients'
  BY <1>10 DEF RemoveCommit, Return, registry, rtsp
<1>11. ASSUME NEW c \in Clients, client_connected_callback(c)
      PROVE  RecordsAreOfCurrentClients'
  BY <1>11 DEF client_connected_callback, registry, calls
<1>12. ASSUME NEW c \in Clients, NEW m \in Mount, Setup(c, m)
      PROVE  RecordsAreOfCurrentClients'
  BY <1>12 DEF Setup, registry, calls, ThreadFor
<1>13. ASSUME NEW c \in Clients, NEW m \in Mount, Teardown(c, m)
      PROVE  RecordsAreOfCurrentClients'
  BY <1>13 DEF Teardown, registry, calls
<1>14. ASSUME NEW c \in Clients, Close(c) PROVE RecordsAreOfCurrentClients'
  BY <1>14 DEF Close, registry, calls, ThreadFor
<1>15. ASSUME NEW c \in Clients, setup_request_callback(c)
      PROVE  RecordsAreOfCurrentClients'
  BY <1>15 DEF setup_request_callback, AddClientInfo, registry, calls
<1>16. ASSUME NEW c \in Clients, teardown_request_callback(c)
      PROVE  RecordsAreOfCurrentClients'
  BY <1>16 DEF teardown_request_callback, registry, calls
<1>17. ASSUME NEW c \in Clients, closed_callback(c)
      PROVE  RecordsAreOfCurrentClients'
  BY <1>17 DEF closed_callback, RemoveClientWithClient, registry, calls
<1>18. CASE UNCHANGED vars
  BY <1>18 DEF vars, registry, calls, rtsp
<1> QED
  BY <1>1, <1>2, <1>3, <1>4, <1>5, <1>6, <1>7, <1>8, <1>9, <1>10,
     <1>11, <1>12, <1>13, <1>14, <1>15, <1>16, <1>17, <1>18
  DEF Next, Execute, Serve, Callback

-----------------------------------------------------------------------------

(* The initial state satisfies the inductive invariant.                    *)
LEMMA InitInvariant == Init => IInv
<1> SUFFICES ASSUME Init PROVE IInv
  OBVIOUS
<1> USE DEF Init
<1>1. TypeOK
  BY DEF TypeOK
<1>2. CallsWellFormed /\ JobsWellFormed /\ OwnerInside
  BY DEF CallsWellFormed, JobsWellFormed, OwnerInside, Inside
<1>3. ChecksHold /\ MountsAsCalled /\ NoRecordsWhileUnmounting
  BY DEF ChecksHold, MountsAsCalled, NoRecordsWhileUnmounting
<1>4. OneChannelPerSource /\ RecordsAreOfCurrentClients
  BY DEF OneChannelPerSource, RecordsAreOfCurrentClients
<1> QED
  BY <1>1, <1>2, <1>3, <1>4 DEF IInv

(* The inductive invariant of all the safety properties: types, who owns   *)
(* processMutex, what the owner has checked and done so far, and which     *)
(* ClientInfo records there can be meanwhile.                              *)
THEOREM Invariance == Spec => []IInv
<1>1. IInv /\ [Next]_vars => IInv'
  BY TypeStep, CallsStep, JobsStep, OwnerStep, ChecksStep, MountsStep,
     NoRecordsStep, OneSourceStep, RecordsStep DEF IInv
<1> QED
  BY <1>1, InitInvariant, PTL DEF Spec

(* Every variable of the service keeps its type.                           *)
THEOREM Typing == Spec => []TypeOK
<1>1. IInv => TypeOK
  BY DEF IInv
<1> QED
  BY <1>1, Invariance, PTL

(* Whenever no AddRtsp or RemoveRtsp is under way, the mount points are    *)
(* those of the registered channels, with their sources, and no others.    *)
THEOREM NothingHalfMounted == Spec => []MountsMatchChannels
<1>1. IInv => MountsMatchChannels
  <2> SUFFICES ASSUME IInv, MutexFree, NEW m \in Mount
               PROVE  /\ mediaFactories[m] = uriPartsMap[m[1]]
                      /\ mountPoints[m] = uriPartsMap[m[1]]
    BY DEF MountsMatchChannels
  <2>1. \A w \in Workers : pc[w] \notin Inside
    BY DEF IInv, OwnerInside, MutexFree
  <2>2. m[1] \in Ids /\ m[2] \in Profiles /\ m = <<m[1], m[2]>>
    OBVIOUS
  <2>3. mediaFactories[<<m[1], m[2]>>] = uriPartsMap[m[1]]
    BY <2>1, <2>2 DEF IInv, MountsAsCalled, Inside
  <2>4. mountPoints = mediaFactories
    BY DEF IInv, MountsAsCalled
  <2> QED
    BY <2>2, <2>3, <2>4
<1> QED
  BY <1>1, Invariance, PTL

(* Whatever workers ask for at the same time, no two channels have the     *)
(* same source.                                                            *)
THEOREM SourcesUnique == Spec => []OneChannelPerSource
<1>1. IInv => OneChannelPerSource
  BY DEF IInv
<1> QED
  BY <1>1, Invariance, PTL

(* The client list never points to a client the RTSP server has dropped.   *)
THEOREM NoDanglingRecord == Spec => []RecordsAreOfCurrentClients
<1>1. IInv => RecordsAreOfCurrentClients
  BY DEF IInv
<1> QED
  BY <1>1, Invariance, PTL

(* RemoveRtsp unmounts a path only when the client list has no record of   *)
(* it, and nothing else unmounts one.                                      *)
THEOREM RecordsGoFirst == Spec => UnmountedAfterRecordsGone
<1> DEFINE RecordsGone ==
      \A m \in Mount :
        mountPoints[m] # NoUrl /\ mountPoints'[m] = NoUrl
          => \A c \in Clients : clientInfos[c][m] = 0
<1>1. IInv /\ [Next]_vars => [RecordsGone]_vars
  <2> SUFFICES ASSUME IInv, Next, NEW m \in Mount,
                      mountPoints[m] # NoUrl, mountPoints'[m] = NoUrl
               PROVE  \A c \in Clients : clientInfos[c][m] = 0
    OBVIOUS
  <2>1. PICK w \in Workers : AddFactory(w) \/ RemoveFactory(w)
    BY ServeFrame
    DEF Next, Invoke, Execute, AddRefused, AddBegin, AddCommit, RemoveUnknown,
        RemoveBegin, RemoveClientWithId, RemoveCommit
  <2>2. CASE AddFactory(w)
    BY <2>2 DEF AddFactory, IInv, TypeOK, CallsWellFormed
  <2>3. CASE RemoveFactory(w)
    <3>1. m = <<call[w].id, next[w]>>
      BY <2>3 DEF RemoveFactory, IInv, TypeOK
    <3>2. pc[w] = "unmounting" /\ next[w] \in Profiles
      BY <2>3 DEF RemoveFactory, IInv, TypeOK
    <3> QED
      BY <3>1, <3>2 DEF IInv, NoRecordsWhileUnmounting
  <2> QED
    BY <2>1, <2>2, <2>3
<1> QED
  BY <1>1, Invariance, PTL DEF Spec, UnmountedAfterRecordsGone

(* The service implements the atomic registry of channels: every /add and  *)
(* /remove takes effect at one step between its call and its return.       *)
THEOREM Refinement == Spec => ImplementsRegistry
<1>1. Init => Registry!Init
  BY DEF Init, Registry!Init
<1>2. IInv /\ [Next]_vars => [Registry!Next]_(Registry!vars)
  <2> SUFFICES ASSUME IInv, [Next]_vars
               PROVE  Registry!Next \/ UNCHANGED <<uriPartsMap, call, result>>
    BY DEF Registry!vars
  <2> USE DEF IInv
  <2>1. ASSUME NEW w \in Workers, Invoke(w) PROVE Registry!Next
    <3>1. call[w] = NoCall
      BY <2>1 DEF Invoke, CallsWellFormed
    <3>2. \E r \in Registry!Request : call' = [call EXCEPT ![w] = r]
      BY <2>1 DEF Invoke, Registry!Request
    <3>3. Registry!Ask(w)
      BY <2>1, <3>1, <3>2 DEF Invoke, registry, Registry!Ask
    <3> QED
      BY <3>3 DEF Registry!Next
  <2>2. ASSUME NEW w \in Workers, AddRefused(w) PROVE Registry!Next
    <3>1. call[w] # NoCall /\ call[w].op = "add"
      BY <2>2, NoCallAssumption DEF AddRefused, HasMutex, CallsWellFormed
    <3>2. ~Registry!CanAdd(call[w])
      BY <2>2 DEF AddRefused, CanAdd, Registry!CanAdd
    <3>3. Registry!Add(w)
      BY <2>2, <3>1, <3>2
      DEF AddRefused, Return, registry, Registry!Add, Registry!Reply
    <3> QED
      BY <3>3 DEF Registry!Next
  <2>3. ASSUME NEW w \in Workers, AddCommit(w) PROVE Registry!Next
    <3>1. call[w] # NoCall /\ call[w].op = "add"
      BY <2>3, NoCallAssumption DEF AddCommit, CallsWellFormed
    <3>2. Registry!CanAdd(call[w])
      BY <2>3 DEF AddCommit, ChecksHold, CanAdd, Registry!CanAdd
    <3>3. Registry!Add(w)
      BY <2>3, <3>1, <3>2
      DEF AddCommit, Return, Registry!Add, Registry!Reply
    <3> QED
      BY <3>3 DEF Registry!Next
  <2>4. ASSUME NEW w \in Workers, RemoveUnknown(w) PROVE Registry!Next
    <3>1. call[w] # NoCall /\ call[w].op = "remove" /\ call[w].id \in Ids
      BY <2>4, NoCallAssumption
      DEF RemoveUnknown, HasMutex, CallsWellFormed, Request
    <3>2. uriPartsMap' = [uriPartsMap EXCEPT ![call[w].id] = NoUrl]
      BY <2>4, <3>1 DEF RemoveUnknown, registry, TypeOK
    <3>3. Registry!Remove(w)
      BY <2>4, <3>1, <3>2
      DEF RemoveUnknown, Return, Registry!Remove, Registry!Reply
    <3> QED
      BY <3>3 DEF Registry!Next
  <2>5. ASSUME NEW w \in Workers, RemoveCommit(w) PROVE Registry!Next
    <3>1. call[w] # NoCall /\ call[w].op = "remove"
      BY <2>5, NoCallAssumption DEF RemoveCommit, CallsWellFormed
    <3>2. uriPartsMap[call[w].id] # NoUrl
      BY <2>5 DEF RemoveCommit, ChecksHold
    <3>3. Registry!Remove(w)
      BY <2>5, <3>1, <3>2
      DEF RemoveCommit, Return, Registry!Remove, Registry!Reply
    <3> QED
      BY <3>3 DEF Registry!Next
  <2>6. ASSUME NEW w \in Workers,
               \/ AddBegin(w) \/ AddFactory(w) \/ RemoveBegin(w)
               \/ RemoveClientWithId(w) \/ RemoveFactory(w)
        PROVE  UNCHANGED <<uriPartsMap, call, result>>
    BY <2>6
    DEF AddBegin, AddFactory, RemoveBegin, RemoveClientWithId, RemoveFactory,
        registry
  <2>7. ASSUME NEW c \in Clients, Serve(c)
        PROVE  UNCHANGED <<uriPartsMap, call, result>>
    BY <2>7, ServeFrame DEF registry, calls
  <2>8. CASE UNCHANGED vars
    BY <2>8 DEF vars, registry, calls
  <2> QED
    BY <2>1, <2>2, <2>3, <2>4, <2>5, <2>6, <2>7, <2>8 DEF Next, Execute
<1> QED
  BY <1>1, <1>2, Invariance, PTL DEF Spec, ImplementsRegistry, Registry!Spec

-----------------------------------------------------------------------------
(* The beginning of a path occurs in it.                                   *)
LEMMA BeginningOccurs ==
  ASSUME NEW path, NEW n \in 0 .. Len(path), Len(path) \in Nat
  PROVE  Occurs(SubSeq(path, 1, n), path)
<1>1. 0 \in 0 .. Len(path) /\ 0 + 1 = 1
  OBVIOUS
<1>2. SubSeq(path, 1, n) \in {SubSeq(path, i + 1, j) : i, j \in 0 .. Len(path)}
  BY <1>1
<1> QED
  BY <1>2 DEF Occurs, SubSeqs

(* What a path is put together from begins it.                             *)
LEMMA BeginsOccurs ==
  ASSUME NEW T, NEW a \in Seq(T), NEW b \in Seq(T)
  PROVE  Occurs(a, a \o b)
<1> DEFINE path == a \o b
<1>1. /\ path \in Seq(T) /\ Len(path) = Len(a) + Len(b)
      /\ Len(a) \in Nat /\ Len(b) \in Nat
  OBVIOUS
<1>2. SubSeq(path, 1, Len(a)) \in Seq(T) /\ Len(SubSeq(path, 1, Len(a))) = Len(a)
  BY <1>1
<1>3. ASSUME NEW i \in 1 .. Len(a) PROVE SubSeq(path, 1, Len(a))[i] = a[i]
  BY <1>1
<1>4. SubSeq(path, 1, Len(a)) = a
  BY <1>1, <1>2, <1>3
<1>5. Len(a) \in 0 .. Len(path) /\ Len(path) \in Nat
  BY <1>1
<1> HIDE DEF path
<1>6. Occurs(SubSeq(path, 1, Len(a)), path)
  BY <1>5, BeginningOccurs
<1> QED
  BY <1>4, <1>6 DEF path

(* What the module assumes of PathHits holds of the search itself: for ids *)
(* of any tokens, each of a channel's paths contains "/" and its id.       *)
THEOREM OwnPathsHit ==
  ASSUME NEW T, NEW ids \in SUBSET Seq(T), NEW profiles \in SUBSET (1 .. 4)
  PROVE  LET hits == [i \in ids |-> HitsOf(i, ids, profiles)]
         IN /\ hits \in [ids -> SUBSET (ids \X profiles)]
            /\ \A i \in ids, p \in profiles : <<i, p>> \in hits[i]
<1>1. \A i \in ids : HitsOf(i, ids, profiles) \in SUBSET (ids \X profiles)
  BY DEF HitsOf
<1>2. ASSUME NEW i \in ids, NEW p \in profiles
      PROVE  <<i, p>> \in HitsOf(i, ids, profiles)
  <2> DEFINE P == ProfileName[p]
             U == T \cup {"/", "stream", "=0", P}
             a == <<"/">> \o i
             b == <<"/", P>> \o <<"/", "stream", "=0">>
  <2>1. a \in Seq(U) /\ b \in Seq(U)
    <3>1. i \in Seq(U)
      OBVIOUS
    <3>2. <<"/">> \in Seq(U) /\ <<"/", P>> \in Seq(U) /\ <<"/", "stream", "=0">> \in Seq(U)
      OBVIOUS
    <3> HIDE DEF U
    <3> QED
      BY <3>1, <3>2
  <2>2. SetupPath(i, p) = a \o b
    <3>1. SetupPath(i, p) = (((<<"/">> \o i) \o <<"/", P>>) \o <<"/", "stream", "=0">>)
      BY DEF SetupPath, MountPath
    <3>2. a \in Seq(U) /\ <<"/", P>> \in Seq(U) /\ <<"/", "stream", "=0">> \in Seq(U)
      BY <2>1
    <3> HIDE DEF U, P
    <3> QED
      BY <3>1, <3>2
  <2> HIDE DEF a, b, U
  <2>3. Occurs(a, SetupPath(i, p))
    BY <2>1, <2>2, BeginsOccurs
  <2> QED
    BY <2>3 DEF HitsOf, a
<1> QED
  BY <1>1, <1>2

=============================================================================
