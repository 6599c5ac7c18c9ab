----------------------------- MODULE JsonWrite -----------------------------
(***************************************************************************)
(* Values that are being written (headers/crow/json.h, class wvalue): one  *)
(* object has a field for each kind of content, of which its type t_ says  *)
(* what counts; assignments change some of the fields and leave the others *)
(* as they are.  What is written into a value and its items, copied and    *)
(* moved is what dump() has to show.                                       *)
(*                                                                         *)
(* Contents are abstract: numbers and strings are members of Scalars.      *)
(* Functions (used by templates) are left out, and items have no items of  *)
(* their own.                                                              *)
(***************************************************************************)
EXTENDS Integers, Sequences, SequencesExt, FiniteSets

CONSTANTS
  Variables,        \* the program's variables of type wvalue
  Scalars,          \* null, booleans, numbers and strings: [t, c], their type and content
  Keys,             \* the keys of members
  MaxIndex          \* a bound: the largest index of an item

ASSUME JsonWriteAssumption ==
  /\ Scalars \subseteq [t : {"Null", "True", "False", "Number", "String"}, c : Nat]
  /\ \A v \in Scalars : v.t \in {"Number", "String"} \/ v.c = 0
  /\ MaxIndex \in Nat

VARIABLES
  values,           \* the wvalues, field by field
  written,          \* what the program has written, for comparison
  crashed           \* a null pointer has been followed

writeVars == <<values, written, crashed>>

Containers == {"List", "Object"}
\* num stands for nt and num; l and o are pointers: NoPointer or what they point to.
NoPointer == [null |-> TRUE, of |-> [i \in {} |-> 0]]
To(content) == [null |-> FALSE, of |-> content]
Empty == [i \in {} |-> 0]
WNull == [t |-> "Null", num |-> 0, s |-> 0, l |-> NoPointer, o |-> NoPointer]

----------------------------------------------------------------------------
(* Fields.                                                                  *)

\* (mutant: the type stays)
ResetFields(w) == [w EXCEPT !.l = NoPointer, !.o = NoPointer]
\* reset(): s and num stay.
Reset(w) == [w EXCEPT !.t = "Null", !.l = NoPointer, !.o = NoPointer]

\* operator= of null, a bool, a number, a string.
AssignScalar(w, v) ==
  LET r == Reset(w)
  IN CASE v.t = "Number" -> [r EXCEPT !.t = v.t, !.num = v.c]
       [] v.t = "String" -> [r EXCEPT !.t = v.t, !.s = v.c]
       [] OTHER -> [r EXCEPT !.t = v.t]
OfScalar(v) == AssignScalar(WNull, v)

\* A value that is about to be a list or an object: reset unless it is one, and
\* given an empty one if it has none.
AsList(w) ==
  LET r == IF w.t = "List" THEN w ELSE Reset(w)
  IN [r EXCEPT !.t = "List", !.l = IF @.null THEN To(Empty) ELSE @]
AsObject(w) ==
  LET r == IF w.t = "Object" THEN w ELSE Reset(w)
  IN [r EXCEPT !.t = "Object", !.o = IF @.null THEN To(Empty) ELSE @]

\* operator=(list&&) and operator=(object&&).
AssignList(w, items) == [AsList(w) EXCEPT !.l = To([i \in DOMAIN items |-> OfScalar(items[i])])]
AssignObject(w, members) ==
  [AsObject(w) EXCEPT !.o = To([k \in DOMAIN members |-> OfScalar(members[k])])]

\* w[i] = v and w[k] = v.
Resized(l, n) == [i \in 0..(n - 1) |-> IF i \in DOMAIN l THEN l[i] ELSE WNull]
AssignAt(w, i, v) ==
  LET r == AsList(w)
      longer == Resized(r.l.of, Max({Cardinality(DOMAIN r.l.of), i + 1}))
  IN [r EXCEPT !.l = To([longer EXCEPT ![i] = AssignScalar(@, v)])]
AssignKey(w, k, v) ==
  LET r == AsObject(w)
      members == [j \in DOMAIN r.o.of \cup {k} |->
                    IF j \in DOMAIN r.o.of THEN r.o.of[j] ELSE WNull]
  IN [r EXCEPT !.o = To([members EXCEPT ![k] = AssignScalar(@, v)])]

\* wvalue(const wvalue&): only the field that counts, of the items, too.
CopiedItem(w) ==
  [WNull EXCEPT !.t = w.t, !.num = IF w.t = "Number" THEN w.num ELSE @,
                !.s = IF w.t = "String" THEN w.s ELSE @]
CopiedItems(p) == To([i \in DOMAIN p.of |-> CopiedItem(p.of[i])])
Copied(w) ==
  [CopiedItem(w) EXCEPT !.l = IF w.t = "List" THEN CopiedItems(w.l) ELSE @,
                        !.o = IF w.t = "Object" THEN CopiedItems(w.o) ELSE @]

\* operator=(wvalue&&): what is left behind has its type, but neither list nor object.
MovedFrom(w) == [w EXCEPT !.s = 0, !.l = NoPointer, !.o = NoPointer]

\* What dump() shows, and whether there is something behind the pointer.
ShownItem(w) ==
  [t |-> w.t, c |-> CASE w.t = "Number" -> w.num [] w.t = "String" -> w.s [] OTHER -> 0]
Shown(w) ==
  [scalar |-> ShownItem(w),
   items |-> CASE w.t = "List" -> [i \in DOMAIN w.l.of |-> ShownItem(w.l.of[i])]
               [] w.t = "Object" -> [k \in DOMAIN w.o.of |-> ShownItem(w.o.of[k])]
               [] OTHER -> Empty,
   moved |-> (w.t = "List" /\ w.l.null) \/ (w.t = "Object" /\ w.o.null)]

----------------------------------------------------------------------------
(* The same, as a program means it.                                         *)

Meant(t, c, items) == [scalar |-> [t |-> t, c |-> c], items |-> items, moved |-> FALSE]
MeantAt(m, t, i, v) ==
  LET before == IF m.scalar.t = t THEN m.items ELSE Empty
      all == DOMAIN before \cup (IF t = "List" THEN 0..i ELSE {i})
  IN Meant(t, 0, [j \in all |-> IF j = i THEN v
                               ELSE IF j \in DOMAIN before THEN before[j]
                               ELSE [t |-> "Null", c |-> 0]])
MeantMoved(m) ==
  [m EXCEPT !.scalar.c = IF m.scalar.t = "String" THEN 0 ELSE @,
            !.items = Empty, !.moved = m.scalar.t \in Containers]

----------------------------------------------------------------------------
WriteInit ==
  /\ values = [x \in Variables |-> WNull]
  /\ written = [x \in Variables |-> Meant("Null", 0, Empty)]
  /\ crashed = FALSE

Becomes(x, w, m) ==
  /\ ~crashed
  /\ values' = [values EXCEPT ![x] = w]
  /\ written' = [written EXCEPT ![x] = m]
  /\ UNCHANGED crashed

WriteScalar(x) == \E v \in Scalars : Becomes(x, AssignScalar(values[x], v), Meant(v.t, v.c, Empty))

Clear_(x) == Becomes(x, Reset(values[x]), Meant("Null", 0, Empty))

WriteList(x) ==
  \E v \in Scalars, n \in 0..1 :
    LET items == [i \in 0..(n - 1) |-> v]
    IN Becomes(x, AssignList(values[x], items), Meant("List", 0, items))

\* (*o) = value when it is an object already, though it may have been moved from.
Broken(x) ==
  \/ values[x].t = "List" /\ values[x].l.null
  \/ values[x].t = "Object" /\ values[x].o.null
WriteObject(x) ==
  \E v \in Scalars, k \in Keys :
    /\ ~(values[x].t = "Object" /\ Broken(x))
    /\ Becomes(x, AssignObject(values[x], [j \in {k} |-> v]), Meant("Object", 0, [j \in {k} |-> v]))

WriteAt(x) ==
  \E v \in Scalars, i \in 0..MaxIndex :
    Becomes(x, AssignAt(values[x], i, v), MeantAt(written[x], "List", i, v))
WriteKey(x) ==
  \E v \in Scalars, k \in Keys :
    Becomes(x, AssignKey(values[x], k, v), MeantAt(written[x], "Object", k, v))

\* y = wvalue(x)
CopyWvalue(x, y) ==
  /\ x # y /\ ~Broken(x)
  /\ Becomes(y, Copied(values[x]), written[x])

\* y = std::move(x)
MoveWvalue(x, y) ==
  /\ x # y /\ ~crashed
  /\ values' = [values EXCEPT ![y] = values[x], ![x] = MovedFrom(@)]
  /\ written' = [written EXCEPT ![y] = written[x], ![x] = MeantMoved(@)]
  /\ UNCHANGED crashed

\* An object assigned to, a copy, size() or keys(), of a container moved from.
Crash(x) ==
  /\ ~crashed /\ Broken(x)
  /\ crashed' = TRUE
  /\ UNCHANGED <<values, written>>

WriteNext ==
  \/ \E x \in Variables : \/ WriteScalar(x) \/ Clear_(x) \/ WriteList(x) \/ WriteObject(x)
                          \/ WriteAt(x) \/ WriteKey(x) \/ Crash(x)
  \/ \E x, y \in Variables : CopyWvalue(x, y) \/ MoveWvalue(x, y)

WriteSpec == WriteInit /\ [][WriteNext]_writeVars

WriteTypeOK ==
  /\ \A x \in Variables : values[x].t \in {"Null", "True", "False", "Number", "String"} \cup Containers
  /\ crashed \in BOOLEAN

(* A value shows what was last written to it, whatever its fields still hold *)
(* of earlier contents; a container that was moved from shows as empty, and  *)
(* only such a one has a null pointer that the program may trip over.        *)
LastWriteShows == \A x \in Variables : Shown(values[x]) = written[x]
=============================================================================
