------------------------------- MODULE HttpApi -------------------------------
(***************************************************************************)
(* The handlers of POST /add and POST /remove (main.cpp), run by several   *)
(* threads of the HTTP server over the registry of channels.  A request    *)
(* has a batch of items, applied one call of the service after another.  A *)
(* bad item ends it: one that is not an object with the expected members   *)
(* makes the handler return 400 at once, and one whose members are not     *)
(* strings throws, which the HTTP server answers with 500.                 *)
(*                                                                         *)
(* The service is ChannelRegistry, which TranscodingService implements.    *)
(***************************************************************************)
EXTENDS Integers, Sequences, FiniteSetsExt, Functions

CONSTANTS
  Callers,      \* threads of the HTTP server
  Ids, Urls, WellFormed, NoUrl, NoCall,
  MaxItems,     \* bound: items of a batch
  BadItem       \* an item without the members expected, or of another type

VARIABLES
  channel, request, answer,  \* the service: see ChannelRegistry
  endpoint,       \* endpoint[w]: what w handles: "add", "remove" or "none"
  batch,          \* batch[w]: the items of its body
  position,       \* position[w]: how many of them it has been through
  calling,        \* calling[w]: w is inside AddRtsp or RemoveRtsp
  response_list,  \* response_list[w]: the items added
  failed,         \* failed[w]: the items the service refused (failedUrls)
  told,           \* history, told[i]: adds less removals of i reported so far
  untold          \* history: ids of batches that were answered 400 or 500

service == <<channel, request, answer>>
handler == <<endpoint, batch, position, calling, response_list, failed>>
history == <<told, untold>>
vars == <<service, handler, history>>

Registry == INSTANCE ChannelRegistry

(* The pool has finitely many threads; "no URL" and "no call" are not       *)
(* values that a request may carry.                                        *)
ASSUME ApiAssumption ==
  /\ IsFiniteSet(Callers)
  /\ MaxItems \in Nat
  /\ NoUrl \notin Urls
  /\ WellFormed \subseteq Urls
  /\ NoCall \notin Registry!Request

Items(e) ==
  {r \in Registry!Request : r.op = e /\ (e = "remove" <=> r.url = NoUrl)}
    \cup {BadItem}

Batches(e) == UNION {[1 .. n -> Items(e)] : n \in 0 .. MaxItems}

TypeOK ==
  /\ Registry!TypeOK
  /\ endpoint \in [Callers -> {"none", "add", "remove"}]
  /\ \A w \in Callers :
       /\ batch[w] \in IF endpoint[w] = "none" THEN {<<>>}
                                               ELSE Batches(endpoint[w])
       /\ position[w] \in 0 .. Len(batch[w])
       /\ calling[w] => position[w] < Len(batch[w])
       /\ Len(response_list[w]) + Len(failed[w]) <= position[w]
  /\ told \in [Ids -> Int]
  /\ untold \subseteq Ids

Init ==
  /\ Registry!Init
  /\ endpoint = [w \in Callers |-> "none"]
  /\ batch = [w \in Callers |-> <<>>]
  /\ position = [w \in Callers |-> 0]
  /\ calling = [w \in Callers |-> FALSE]
  /\ response_list = [w \in Callers |-> <<>>]
  /\ failed = [w \in Callers |-> <<>>]
  /\ told = [i \in Ids |-> 0]
  /\ untold = {}

(* How many of the items are about channel i.                              *)
Count(items, i) == Quantify(DOMAIN items, LAMBDA k : items[k].id = i)

Item(w) == batch[w][position[w] + 1]

(* A request whose body is not an object with the list expected is         *)
(* answered 400 before anything happens, and leaves no trace here.         *)
Receive(w) ==
  /\ endpoint[w] = "none"
  /\ \E e \in {"add", "remove"} :
       /\ endpoint' = [endpoint EXCEPT ![w] = e]
       /\ \E b \in Batches(e) : batch' = [batch EXCEPT ![w] = b]
  /\ UNCHANGED <<service, position, calling, response_list, failed, history>>

(* Mutant: the position is not reset for the next request.                 *)
FinishAtPosition(w) ==
  /\ endpoint' = [endpoint EXCEPT ![w] = "none"]
  /\ batch' = [batch EXCEPT ![w] = <<>>]
  /\ response_list' = [response_list EXCEPT ![w] = <<>>]
  /\ failed' = [failed EXCEPT ![w] = <<>>]
  /\ UNCHANGED <<service, position, calling>>

(* The handler returns and its local variables are gone.                   *)
Finish(w) ==
  /\ endpoint' = [endpoint EXCEPT ![w] = "none"]
  /\ batch' = [batch EXCEPT ![w] = <<>>]
  /\ position' = [position EXCEPT ![w] = 0]
  /\ response_list' = [response_list EXCEPT ![w] = <<>>]
  /\ failed' = [failed EXCEPT ![w] = <<>>]
  /\ UNCHANGED <<service, calling>>

AtItem(w) == ~calling[w] /\ position[w] < Len(batch[w])

(* 400 or 500: what was applied before the bad item stays applied, and     *)
(* the response does not say so.                                           *)
Abandon(w) ==
  /\ AtItem(w)
  /\ Item(w) = BadItem
  /\ LET named == {batch[w][k].id : k \in 1 .. position[w]} IN
       /\ untold' = untold \cup named
       /\ told' = [i \in Ids |-> IF i \in named THEN 0 ELSE told[i]]
  /\ Finish(w)

(* The handler calls AddRtsp or RemoveRtsp with the item.                  *)
Call(w) ==
  /\ AtItem(w)
  /\ Item(w) # BadItem
  /\ Registry!Ask(w)
  /\ request'[w] = Item(w)
  /\ calling' = [calling EXCEPT ![w] = TRUE]
  /\ UNCHANGED <<endpoint, batch, position, response_list, failed, history>>

Serve(w) ==
  /\ Registry!Add(w) \/ Registry!Remove(w)
  /\ UNCHANGED <<handler, history>>

(* Mutant: the returned pointer is not looked at.                          *)
CollectUnchecked(w) ==
  /\ calling[w]
  /\ request[w] = NoCall
  /\ response_list' = IF endpoint[w] = "add"
       THEN [response_list EXCEPT ![w] = Append(@, Item(w))]
       ELSE response_list
  /\ position' = [position EXCEPT ![w] = @ + 1]
  /\ calling' = [calling EXCEPT ![w] = FALSE]
  /\ UNCHANGED <<service, endpoint, batch, failed, history>>

(* Mutant: a refused item is not put into failedUrls.                      *)
CollectSilently(w) ==
  /\ calling[w]
  /\ request[w] = NoCall
  /\ response_list' = IF endpoint[w] = "add" /\ answer[w] = "ok"
       THEN [response_list EXCEPT ![w] = Append(@, Item(w))]
       ELSE response_list
  /\ position' = [position EXCEPT ![w] = @ + 1]
  /\ calling' = [calling EXCEPT ![w] = FALSE]
  /\ UNCHANGED <<service, endpoint, batch, failed, history>>

(* The call returned: the item goes into response_list or failedUrls.      *)
Collect(w) ==
  /\ calling[w]
  /\ request[w] = NoCall
  /\ response_list' = IF endpoint[w] = "add" /\ answer[w] = "ok"
       THEN [response_list EXCEPT ![w] = Append(@, Item(w))]
       ELSE response_list
  /\ failed' = IF answer[w] = "fail"
                 THEN [failed EXCEPT ![w] = Append(@, Item(w))]
                 ELSE failed
  /\ position' = [position EXCEPT ![w] = @ + 1]
  /\ calling' = [calling EXCEPT ![w] = FALSE]
  /\ UNCHANGED <<service, endpoint, batch, history>>

(* What the response of w reports of channel i: an /add lists what it      *)
(* added; a /remove names what it did not remove.                          *)
Reported(w, i) ==
  IF endpoint[w] = "add"
    THEN Count(response_list[w], i)
    ELSE Count(failed[w], i) - Count(SubSeq(batch[w], 1, position[w]), i)

(* 200, with SUCCESS or FAIL.                                              *)
Respond(w) ==
  /\ endpoint[w] # "none"
  /\ ~calling[w]
  /\ position[w] = Len(batch[w])
  /\ told' = [i \in Ids |-> IF i \in untold THEN 0
                                            ELSE told[i] + Reported(w, i)]
  /\ UNCHANGED untold
  /\ Finish(w)

Handle(w) == Abandon(w) \/ Call(w) \/ Serve(w) \/ Collect(w) \/ Respond(w)

Next == \E w \in Callers : Receive(w) \/ Handle(w)

Spec == Init /\ [][Next]_vars

-----------------------------------------------------------------------------

(* What a call has done that its handler does not know yet.                *)
Returned(w, i) ==
  IF calling[w] /\ request[w] = NoCall /\ answer[w] = "ok" /\ Item(w).id = i
    THEN IF endpoint[w] = "add" THEN 1 ELSE -1
    ELSE 0

(* A channel is registered exactly when the adds of it that responses have *)
(* reported, or that requests under way are about to report, are one more  *)
(* than the removals of it: two overlapping batches never both get the     *)
(* same channel and no success is lost.  Channels named before a bad item  *)
(* of a batch answered 400 or 500 are left out: of those, the responses    *)
(* tell nothing.                                                           *)
ResponsesAccountForChannels ==
  \A i \in Ids \ untold :
    (IF channel[i] # NoUrl THEN 1 ELSE 0)
      = told[i]
          + SumFunction([w \in Callers |-> Reported(w, i) + Returned(w, i)])

(* The step answers w's request with 200.                                  *)
Answered(w) == endpoint'[w] = "none" /\ position[w] = Len(batch[w])

(* An /add answered with SUCCESS, that is with no failed URL, lists every  *)
(* item of its batch.                                                      *)
SuccessMeansAllAdded ==
  [][\A w \in Callers :
       endpoint[w] = "add" /\ Answered(w) /\ failed[w] = <<>>
         => response_list[w] = batch[w]]_vars

=============================================================================
