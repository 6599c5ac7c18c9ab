------------------------------ MODULE JsonRead ------------------------------
(***************************************************************************)
(* Values that were read and the buffer they share (headers/crow/json.h,   *)
(* class rvalue): a loaded value points into a buffer that its key_ owns,  *)
(* a string in it is unescaped in place when it is first looked at, and    *)
(* copies point into the same buffer.  The items of a list or an object    *)
(* have an array that grows as they are parsed.                            *)
(*                                                                         *)
(* The documents are single strings: bytes holds what is between the       *)
(* quotes, and flag the byte where the opening quote was.                  *)
(***************************************************************************)
EXTENDS JsonString

CONSTANTS
  Handles,          \* variables of type rvalue
  Strings,          \* what is between the quotes of the documents
  MaxBuffers,       \* a bound: how many documents are loaded
  MaxItems,         \* a bound: how many items a list gets
  MaxGrowth,        \* the 60000 of emplace_back
  RemainLimit       \* 2^16: lremain_ is a uint16_t

ASSUME JsonReadAssumption ==
  /\ Strings \subseteq Seq(1..255)
  /\ {MaxBuffers, MaxItems} \subseteq Nat
  /\ RemainLimit \in Nat /\ 4 <= RemainLimit /\ MaxGrowth \in 1..RemainLimit

VARIABLES
  buffers,          \* what load() has allocated
  handles,          \* for each variable where it points and what key_ owns
  list,             \* the array of a list that is being parsed
  copied            \* the array of a copy of it

readVars == <<buffers, handles, list, copied>>

NoBuffer == 0
NoValue ==
  [start |-> NoBuffer, end |-> 0, key |-> NoBuffer, owned |-> FALSE, behind |-> FALSE]

----------------------------------------------------------------------------
(* Strings and their buffers.                                               *)

Live(h) == handles[h].start # NoBuffer /\ ~buffers[handles[h].start].freed

\* r_string's assignments: a moved one hands its buffer over, a copy owns none.
OwnsStill(r) == r.owned           \* (mutant: both own it)
OwnsMoved(r) == FALSE

\* h = load(document)
LoadInto(h, s) ==
  /\ Len(buffers) < MaxBuffers
  /\ buffers' = Append(buffers, [raw |-> s, bytes |-> s, freed |-> FALSE,
                                 flag |-> \E i \in DOMAIN s : Is(s, i, "\\")])
  /\ handles' = [handles EXCEPT ![h] = [start |-> Len(buffers) + 1, end |-> Len(s),
                                        key |-> Len(buffers) + 1, owned |-> TRUE,
                                        behind |-> FALSE]]
  /\ UNCHANGED <<list, copied>>

\* g = h
Copy(h, g) ==
  /\ h # g /\ handles[h].start # NoBuffer
  /\ handles' = [handles EXCEPT ![g] = [handles[h] EXCEPT !.owned = FALSE]]
  /\ UNCHANGED <<buffers, list, copied>>

\* g = std::move(h): h still points into the buffer.
Move(h, g) ==
  /\ h # g /\ handles[h].start # NoBuffer
  /\ handles' = [handles EXCEPT ![g] = handles[h],
                                ![h].owned = OwnsMoved(handles[h])]
  /\ UNCHANGED <<buffers, list, copied>>

\* h goes out of scope: the buffer its key_ owns is deleted.
Destroy(h) ==
  /\ handles[h].start # NoBuffer
  /\ handles' = [handles EXCEPT ![h] = NoValue]
  /\ buffers' = IF handles[h].owned THEN [buffers EXCEPT ![handles[h].key].freed = TRUE]
                ELSE buffers
  /\ UNCHANGED <<list, copied>>

\* (mutant: the flag stays, and the next reader unescapes again)
UnescapedAgain(b) ==
  LET s == Unescape(b.bytes)
  IN [b EXCEPT !.bytes = s \o <<0>> \o SubSeq(b.bytes, Len(s) + 2, Len(b.bytes))]
\* unescape(), in place: what is behind the NUL stays.
UnescapedIn(b) ==
  LET s == Unescape(b.bytes)
  IN [b EXCEPT !.bytes = s \o <<0>> \o SubSeq(b.bytes, Len(s) + 2, Len(b.bytes)),
               !.flag = FALSE]

\* h.s(), in a program that does not use a deleted buffer: only h learns where
\* the string ends now, and behind remembers which variables missed it.
Read(h) ==
  /\ Live(h)
  /\ LET b == handles[h].start
     IN IF buffers[b].flag
        THEN /\ buffers' = [buffers EXCEPT ![b] = UnescapedIn(@)]
             /\ handles' =
                  [g \in Handles |->
                     IF g = h THEN [handles[g] EXCEPT !.end = Len(Unescape(buffers[b].bytes))]
                     ELSE [handles[g] EXCEPT !.behind = @ \/ handles[g].start = b]]
        ELSE UNCHANGED <<buffers, handles>>
  /\ UNCHANGED <<list, copied>>

\* What s() returns.
Reading(h) ==
  LET b == buffers[handles[h].start]
  IN IF b.flag THEN Unescape(b.bytes) ELSE SubSeq(b.bytes, 1, handles[h].end)

----------------------------------------------------------------------------
(* The array of a list.                                                     *)

NewListSize(lsize) == Max({lsize + Min({lsize, MaxGrowth}), 4})
NewListSizeUncapped(lsize) == Max({2 * lsize, 4})        \* (mutant: no cap)
NewSize(lsize) == NewListSize(lsize)

EmplaceBack ==
  /\ list.lsize < MaxItems
  /\ list' =
       IF list.lremain = 0
       THEN [lsize |-> list.lsize + 1, allocated |-> NewSize(list.lsize),
             lremain |-> (NewSize(list.lsize) - list.lsize - 1) % RemainLimit]
       ELSE [list EXCEPT !.lsize = @ + 1, !.lremain = @ - 1]
  /\ UNCHANGED <<buffers, handles, copied>>

CopyList ==
  /\ copied' = [lsize |-> list.lsize, lremain |-> 0, allocated |-> list.lsize]
  /\ UNCHANGED <<buffers, handles, list>>

----------------------------------------------------------------------------
NoItems == [lsize |-> 0, lremain |-> 0, allocated |-> 0]

ReadInit ==
  /\ buffers = <<>>
  /\ handles = [h \in Handles |-> NoValue]
  /\ list = NoItems
  /\ copied = NoItems

ReadStrings ==
  \/ \E h \in Handles : Read(h) \/ Destroy(h) \/ \E s \in Strings : LoadInto(h, s)
  \/ \E h, g \in Handles : Copy(h, g) \/ Move(h, g)
ReadLists == EmplaceBack \/ CopyList

ReadSpec == ReadInit /\ [][ReadStrings \/ ReadLists]_readVars

ReadTypeOK ==
  /\ buffers \in Seq([raw : Strings, bytes : Seq(0..255), flag : BOOLEAN,
                      freed : BOOLEAN])
  /\ handles \in [Handles -> [start : 0..MaxBuffers, end : Nat, key : 0..MaxBuffers,
                              owned : BOOLEAN, behind : BOOLEAN]]
  /\ {list.lsize, list.allocated, copied.lsize, copied.allocated} \subseteq Nat
  /\ {list.lremain, copied.lremain} \subseteq 0..(RemainLimit - 1)

(* However often it is read, through whichever variable, a string reads as   *)
(* its text with the escapes replaced; unless it was copied or moved before  *)
(* its first reading and read through the other variable first (json.h:536). *)
(* Then the variable, and what is copied from it, keeps the old end_: it     *)
(* reads the text, the NUL and what the shorter text left of the escapes.    *)
LateReading(raw) ==
  LET s == Unescape(raw)
  IN SubSeq(s \o <<0>> \o SubSeq(raw, Len(s) + 2, Len(raw)), 1, Len(raw))
ReadsAgree ==
  \A h \in Handles : Live(h) =>
    LET raw == buffers[handles[h].start].raw
    IN Reading(h) = IF handles[h].behind THEN LateReading(raw) ELSE Unescape(raw)

(* A buffer has at most one owner, and none once it has been deleted: it is  *)
(* not deleted twice.                                                        *)
OneOwner ==
  \A b \in DOMAIN buffers :
    LET owners == {h \in Handles : handles[h].owned /\ handles[h].key = b}
    IN Cardinality(owners) <= (IF buffers[b].freed THEN 0 ELSE 1)

(* lremain_ is the room that is left in the array, though it has 16 bits:    *)
(* no item is written behind the array.                                      *)
RoomCounted ==
  \A l \in {list, copied} : l.lsize <= l.allocated /\ l.lremain = l.allocated - l.lsize
=============================================================================
