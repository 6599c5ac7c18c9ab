--------------------------- MODULE ChannelRegistry ---------------------------
(***************************************************************************)
(* What /add and /remove promise their callers, with the threads, the      *)
(* mutex and the RTSP server left out: a map from channel ids to source    *)
(* URLs on which every request takes effect in one step between its call   *)
(* and its answer, accepted or refused by the map as it is at that step.   *)
(* TranscodingService implements it (ChannelRegistry's variables are       *)
(* uriPartsMap, the pending calls and the values they return).             *)
(***************************************************************************)
CONSTANTS
  Callers,      \* threads that issue requests
  Ids,          \* channel ids
  Urls,         \* source URLs
  WellFormed,   \* the URLs that can be parsed
  NoUrl,        \* the value of an id without a channel
  NoCall        \* the value of a caller without a pending request

VARIABLES
  channel,      \* channel[i]: the source registered for id i, or NoUrl
  request,      \* request[w]: what caller w asked and was not told yet
  answer        \* answer[w]: how the last finished request of w ended

vars == <<channel, request, answer>>

Request == [op : {"add", "remove"}, id : Ids, url : Urls \cup {NoUrl}]

TypeOK ==
  /\ channel \in [Ids -> Urls \cup {NoUrl}]
  /\ request \in [Callers -> Request \cup {NoCall}]
  /\ answer \in [Callers -> {"none", "ok", "fail"}]

Init ==
  /\ channel = [i \in Ids |-> NoUrl]
  /\ request = [w \in Callers |-> NoCall]
  /\ answer = [w \in Callers |-> "none"]

Ask(w) ==
  /\ request[w] = NoCall
  /\ \E r \in Request : request' = [request EXCEPT ![w] = r]
  /\ answer' = [answer EXCEPT ![w] = "none"]
  /\ UNCHANGED channel

Reply(w, a) ==
  /\ request' = [request EXCEPT ![w] = NoCall]
  /\ answer' = [answer EXCEPT ![w] = a]

(* A channel can be added when its URL parses and neither its id nor its   *)
(* URL is registered.                                                      *)
CanAdd(r) ==
  /\ r.url \in WellFormed
  /\ r.url \notin {channel[i] : i \in Ids}
  /\ channel[r.id] = NoUrl

Add(w) ==
  /\ request[w] # NoCall
  /\ request[w].op = "add"
  /\ IF CanAdd(request[w])
       THEN /\ channel' = [channel EXCEPT ![request[w].id] = request[w].url]
            /\ Reply(w, "ok")
       ELSE /\ Reply(w, "fail")
            /\ UNCHANGED channel

Remove(w) ==
  /\ request[w] # NoCall
  /\ request[w].op = "remove"
  /\ channel' = [channel EXCEPT ![request[w].id] = NoUrl]
  /\ Reply(w, IF channel[request[w].id] # NoUrl THEN "ok" ELSE "fail")

Next == \E w \in Callers : Ask(w) \/ Add(w) \/ Remove(w)

Spec == Init /\ [][Next]_vars

=============================================================================
