--------------------------- MODULE HttpApi_proofs ---------------------------
(***************************************************************************)
(* Proofs about HttpApi: its types, that an /add answered with SUCCESS     *)
(* added its whole batch, and that the responses account for every         *)
(* channel.  The last one compares a sum over the threads with a channel,  *)
(* so lemmas on sums and on counts come first.                             *)
(***************************************************************************)
EXTENDS HttpApi, LeastElements

-----------------------------------------------------------------------------
(* Sums over finite sets.  SumFunction adds the values of a function up in *)
(* an order of its own choice; the lemmas say that the order is irrelevant *)
(* and how a sum changes when one of the values does.                      *)

First(s) == CHOOSE x \in s : TRUE

Unfold(f, g, s) == IF s = {} THEN 0 ELSE f[First(s)] + g[s \ {First(s)}]

(* g[s] is the sum of the values of f on s, for every subset s of S.       *)
SumsOn(f, g, S) == \A s \in SUBSET S : g[s] = Unfold(f, g, s)

Sums(f, S) == CHOOSE g : g = [s \in SUBSET S |-> Unfold(f, g, s)]

(* SumFunction, with its definition by folds written out.                  *)
LEMMA SumIsSums ==
  ASSUME NEW f
  PROVE  SumFunction(f) = Sums(f, DOMAIN f)[DOMAIN f]
BY DEF SumFunction, SumFunctionOnSet, FoldFunctionOnSet, MapThenFoldSet,
       Sums, Unfold, First

(* A finite set that is not empty has a first element.                     *)
LEMMA FirstIn ==
  ASSUME NEW s, s # {}
  PROVE  First(s) \in s
BY DEF First

(* The sums over a finite set depend on the values of its elements only.   *)
LEMMA SumsAgree ==
  ASSUME NEW S, NEW T, NEW U, IsFiniteSet(U), U \subseteq S, U \subseteq T,
         NEW f, NEW d, \A x \in U : f[x] = d[x],
         NEW g, SumsOn(f, g, S), NEW h, SumsOn(d, h, T)
  PROVE  g[U] = h[U]
<1> DEFINE D == {s \in SUBSET U : g[s] # h[s]}
<1> SUFFICES ASSUME D # {} PROVE FALSE
  OBVIOUS
<1>1. D \in SUBSET (SUBSET U)
  OBVIOUS
<1> HIDE DEF D
<1>2. PICK t \in D : \A s \in D : s \subseteq t => s = t
  BY <1>1, LeastSubset
<1>3. t \subseteq U /\ g[t] # h[t]
  BY <1>2 DEF D
<1>4. g[t] = Unfold(f, g, t) /\ h[t] = Unfold(d, h, t)
  BY <1>3 DEF SumsOn
<1>5. t # {}
  BY <1>3, <1>4 DEF Unfold
<1> DEFINE x == First(t)
<1>6. x \in t /\ x \in U
  BY <1>3, <1>5, FirstIn
<1>7. t \ {x} \notin D
  BY <1>2, <1>6
<1>8. g[t \ {x}] = h[t \ {x}]
  BY <1>3, <1>7 DEF D
<1> QED
  BY <1>3, <1>4, <1>5, <1>6, <1>8 DEF Unfold

(* Integers have sums over every finite set.                               *)
LEMMA SumsExist ==
  ASSUME NEW S, IsFiniteSet(S), NEW f \in [S -> Int]
  PROVE  \E g \in [SUBSET S -> Int] : SumsOn(f, g, S)
<1> DEFINE OK(s, g) == g \in [SUBSET s -> Int] /\ SumsOn(f, g, s)
           D == {s \in SUBSET S : ~ \E g : OK(s, g)}
<1> SUFFICES ASSUME D # {} PROVE FALSE
  OBVIOUS
<1>1. D \in SUBSET (SUBSET S)
  OBVIOUS
<1>2. \A s \in SUBSET S : s \notin D => \E g : OK(s, g)
  OBVIOUS
<1>2a. \A s \in D : s \subseteq S /\ ~ \E g : OK(s, g)
  OBVIOUS
<1> HIDE DEF D
<1>3. PICK t \in D : \A s \in D : s \subseteq t => s = t
  BY <1>1, LeastSubset
<1>4. t \subseteq S /\ ~ \E g : OK(t, g)
  BY <1>2a, <1>3
<1> DEFINE H(s) == CHOOSE g : OK(s, g)
           V(s) == H(s)[s]
           G == [s \in SUBSET t |->
                   IF s = {} THEN 0
                             ELSE f[First(s)] + V(s \ {First(s)})]
<1>5. \A s \in SUBSET t : s # t => OK(s, H(s))
  <2> SUFFICES ASSUME NEW s \in SUBSET t, s # t PROVE \E g : OK(s, g)
    OBVIOUS
  <2>1. s \in SUBSET S /\ s \notin D
    BY <1>3, <1>4
  <2> QED
    BY <1>2, <2>1
<1> HIDE DEF H
<1>6. \A s \in SUBSET t : s # t => V(s) \in Int
  BY <1>5
<1>7. \A s \in SUBSET t : s # {} =>
        /\ First(s) \in s
        /\ s \ {First(s)} \in SUBSET t
        /\ s \ {First(s)} # t
  BY FirstIn
<1>8. G \in [SUBSET t -> Int]
  <2> SUFFICES ASSUME NEW s \in SUBSET t
               PROVE  (IF s = {} THEN 0 ELSE f[First(s)] + V(s \ {First(s)})) \in Int
    OBVIOUS
  <2>1. CASE s = {}
    BY <2>1
  <2>2. CASE s # {}
    <3>1. f[First(s)] \in Int
      BY <1>4, <1>7, <2>2
    <3>2. V(s \ {First(s)}) \in Int
      BY <1>6, <1>7, <2>2
    <3> HIDE DEF V
    <3> QED
      BY <2>2, <3>1, <3>2
  <2> QED
    BY <2>1, <2>2
(* A strict subset of t has the sum that G gives it.                       *)
<1>9. ASSUME NEW s \in SUBSET t, s # t PROVE V(s) = G[s]
  <2>1. OK(s, H(s))
    BY <1>5, <1>9
  <2>2. H(s)[s] = Unfold(f, H(s), s)
    <3>1. s \in SUBSET s
      OBVIOUS
    <3> QED
      BY <2>1, <3>1 DEF SumsOn
  <2>3. CASE s = {}
    BY <2>2, <2>3 DEF Unfold
  <2>4. CASE s # {}
    <3> DEFINE r == s \ {First(s)}
    <3>1. r \subseteq s /\ r \in SUBSET t /\ r # t
      BY <1>7, <2>4
    <3>2. OK(r, H(r))
      BY <1>5, <3>1
    <3>3. IsFiniteSet(r)
      BY <1>4, <3>1, FS_Subset
    <3>4. H(r)[r] = H(s)[r]
      BY <2>1, <3>1, <3>2, <3>3, SumsAgree
    <3>5. H(s)[s] = f[First(s)] + H(s)[r]
      BY <2>2, <2>4 DEF Unfold
    <3>6. G[s] = f[First(s)] + H(r)[r]
      BY <2>4
    <3> QED
      BY <3>4, <3>5, <3>6
  <2> QED
    BY <2>3, <2>4
<1>10. SumsOn(f, G, t)
  <2> SUFFICES ASSUME NEW s \in SUBSET t PROVE G[s] = Unfold(f, G, s)
    BY DEF SumsOn
  <2>1. CASE s = {}
    BY <2>1 DEF Unfold
  <2>2. CASE s # {}
    <3>1. V(s \ {First(s)}) = G[s \ {First(s)}]
      BY <1>7, <1>9, <2>2
    <3>2. G[s] = f[First(s)] + V(s \ {First(s)})
      BY <2>2
    <3> HIDE DEF V, G
    <3> QED
      BY <2>2, <3>1, <3>2 DEF Unfold
  <2> QED
    BY <2>1, <2>2
<1> HIDE DEF G
<1> QED
  BY <1>4, <1>8, <1>10

(* Sums(f, S) is what its name says.                                       *)
LEMMA SumsAreSums ==
  ASSUME NEW S, IsFiniteSet(S), NEW f \in [S -> Int]
  PROVE  Sums(f, S) \in [SUBSET S -> Int] /\ SumsOn(f, Sums(f, S), S)
<1>1. PICK g \in [SUBSET S -> Int] : SumsOn(f, g, S)
  BY SumsExist
<1>2. g = [s \in SUBSET S |-> Unfold(f, g, s)]
  BY <1>1 DEF SumsOn
<1> DEFINE h == Sums(f, S)
<1>3. h = [s \in SUBSET S |-> Unfold(f, h, s)]
  BY <1>2 DEF Sums
<1> HIDE DEF h
<1>4. \A s \in SUBSET S : h[s] = Unfold(f, h, s)
  BY <1>3
<1>5. SumsOn(f, h, S)
  BY <1>4 DEF SumsOn
<1>6. ASSUME NEW s \in SUBSET S PROVE h[s] \in Int
  <2>1. IsFiniteSet(s)
    BY FS_Subset
  <2>2. g[s] = h[s]
    BY <1>1, <1>5, <2>1, SumsAgree
  <2> QED
    BY <1>1, <2>2
<1>7. h \in [SUBSET S -> Int]
  BY <1>3, <1>6
<1> QED
  BY <1>5, <1>7 DEF h

(* Any element of s may be the one that is added last.                     *)
Splits(f, g, S) == \A s \in SUBSET S : \A x \in s : g[s] = f[x] + g[s \ {x}]

(* The order in which a sum is added up is irrelevant.                     *)
LEMMA SumsSplit ==
  ASSUME NEW S, IsFiniteSet(S), NEW f \in [S -> Int],
         NEW g \in [SUBSET S -> Int], SumsOn(f, g, S)
  PROVE  Splits(f, g, S)
<1> DEFINE D == {s \in SUBSET S : \E x \in s : g[s] # f[x] + g[s \ {x}]}
<1> SUFFICES ASSUME D # {} PROVE FALSE
  BY DEF Splits
<1>1. D \in SUBSET (SUBSET S)
  OBVIOUS
<1> HIDE DEF D
<1>2. PICK t \in D : \A s \in D : s \subseteq t => s = t
  BY <1>1, LeastSubset
<1>3. PICK x \in t : g[t] # f[x] + g[t \ {x}]
  BY <1>2 DEF D
<1> DEFINE y == First(t)
<1>4. t \subseteq S /\ t # {} /\ y \in t
  BY <1>1, <1>2, FirstIn
<1>5. g[t] = f[y] + g[t \ {y}]
  BY <1>4 DEF SumsOn, Unfold
<1>6. x # y
  BY <1>3, <1>5
<1>7. t \ {x} \notin D /\ t \ {y} \notin D
  BY <1>2, <1>4
<1>8. g[t \ {x}] = f[y] + g[(t \ {x}) \ {y}]
  <2>1. y \in t \ {x} /\ t \ {x} \in SUBSET S
    BY <1>4, <1>6
  <2> QED
    BY <1>7, <2>1 DEF D
<1>9. g[t \ {y}] = f[x] + g[(t \ {y}) \ {x}]
  <2>1. x \in t \ {y} /\ t \ {y} \in SUBSET S
    BY <1>4, <1>6
  <2> QED
    BY <1>7, <2>1 DEF D
<1>10. (t \ {y}) \ {x} = (t \ {x}) \ {y}
  OBVIOUS
<1>11. f[x] \in Int /\ f[y] \in Int /\ g[(t \ {x}) \ {y}] \in Int
  <2>1. x \in S /\ y \in S /\ (t \ {x}) \ {y} \in SUBSET S
    BY <1>4
  <2> QED
    BY <2>1
<1> HIDE DEF y
<1>12. g[t] = f[y] + (f[x] + g[(t \ {x}) \ {y}])
  BY <1>5, <1>9, <1>10
<1>13. f[x] + g[t \ {x}] = f[x] + (f[y] + g[(t \ {x}) \ {y}])
  BY <1>8
<1>14. \A a, b, c \in Int : a + (b + c) = b + (a + c)
  OBVIOUS
<1>15. f[y] + (f[x] + g[(t \ {x}) \ {y}]) = f[x] + (f[y] + g[(t \ {x}) \ {y}])
  BY <1>11, <1>14
<1> QED
  BY <1>3, <1>12, <1>13, <1>15

(* A sum of integers is an integer.                                        *)
LEMMA SumInt ==
  ASSUME NEW S, IsFiniteSet(S), NEW f \in [S -> Int]
  PROVE  SumFunction(f) \in Int
<1>1. DOMAIN f = S /\ S \in SUBSET S
  OBVIOUS
<1>2. Sums(f, S) \in [SUBSET S -> Int]
  BY SumsAreSums
<1>3. Sums(f, S)[S] \in Int
  BY <1>1, <1>2
<1> QED
  BY <1>1, <1>3, SumIsSums

(* When one value changes, the sum changes by as much.                     *)
LEMMA SumChange ==
  ASSUME NEW S, IsFiniteSet(S), NEW f \in [S -> Int], NEW d \in [S -> Int],
         NEW x \in S, \A y \in S \ {x} : f[y] = d[y]
  PROVE  SumFunction(d) = SumFunction(f) + (d[x] - f[x])
<1> DEFINE g == Sums(f, S)
           h == Sums(d, S)
           U == S \ {x}
<1>1. g \in [SUBSET S -> Int] /\ SumsOn(f, g, S)
  BY SumsAreSums
<1>2. h \in [SUBSET S -> Int] /\ SumsOn(d, h, S)
  BY SumsAreSums
<1>3. SumFunction(f) = g[S] /\ SumFunction(d) = h[S]
  BY SumIsSums
<1> HIDE DEF g, h
<1>4. IsFiniteSet(U) /\ U \in SUBSET S /\ S \in SUBSET S
  BY FS_Subset
<1>5. g[U] = h[U]
  BY <1>1, <1>2, <1>4, SumsAgree
<1>6. g[S] = f[x] + g[U] /\ h[S] = d[x] + h[U]
  <2>1. Splits(f, g, S) /\ Splits(d, h, S)
    BY <1>1, <1>2, SumsSplit, Zenon
  <2> QED
    BY <1>4, <2>1 DEF Splits
<1>7. f[x] \in Int /\ d[x] \in Int /\ g[U] \in Int
  BY <1>1, <1>4
<1> QED
  BY <1>3, <1>5, <1>6, <1>7

(* A sum of zeros is zero.                                                 *)
LEMMA SumZero ==
  ASSUME NEW S, IsFiniteSet(S)
  PROVE  SumFunction([x \in S |-> 0]) = 0
<1> DEFINE f == [x \in S |-> 0]
           g == Sums(f, S)
           h == [s \in SUBSET S |-> 0]
<1>1. f \in [S -> Int] /\ DOMAIN f = S
  OBVIOUS
<1>2. SumsOn(f, g, S)
  BY <1>1, SumsAreSums
<1>3. SumsOn(f, h, S)
  <2> SUFFICES ASSUME NEW s \in SUBSET S PROVE h[s] = Unfold(f, h, s)
    BY DEF SumsOn
  <2>1. CASE s = {}
    BY <2>1 DEF Unfold
  <2>2. CASE s # {}
    <3>1. First(s) \in s /\ s \ {First(s)} \in SUBSET S
      BY <2>2, FirstIn
    <3> QED
      BY <2>2, <3>1 DEF Unfold
  <2> QED
    BY <2>1, <2>2
<1>4. SumFunction(f) = g[S]
  BY <1>1, SumIsSums
<1> HIDE DEF g, h, f
<1>5. g[S] = h[S]
  BY <1>2, <1>3, SumsAgree
<1>6. h[S] = 0
  BY DEF h
<1> QED
  BY <1>4, <1>5, <1>6 DEF f

-----------------------------------------------------------------------------
(* The inductive invariant.                                                *)

Things == Registry!Request \cup {BadItem}

Types ==
  /\ Registry!TypeOK
  /\ endpoint \in [Callers -> {"none", "add", "remove"}]
  /\ batch \in [Callers -> Seq(Things)]
  /\ position \in [Callers -> Nat]
  /\ calling \in [Callers -> BOOLEAN]
  /\ response_list \in [Callers -> Seq(Registry!Request)]
  /\ failed \in [Callers -> Seq(Registry!Request)]
  /\ told \in [Ids -> Int]
  /\ untold \subseteq Ids

(* A thread without a request keeps nothing of the last one.               *)
Idle(w) ==
  endpoint[w] = "none" =>
    /\ batch[w] = <<>> /\ position[w] = 0 /\ ~calling[w]
    /\ response_list[w] = <<>> /\ failed[w] = <<>>

(* It goes through a batch of its endpoint, up to a bad item.              *)
Walks(w) ==
  /\ endpoint[w] # "none" => batch[w] \in Batches(endpoint[w])
  /\ position[w] <= Len(batch[w])
  /\ \A k \in 1 .. position[w] : batch[w][k] # BadItem

(* It is inside a call of the service exactly while that call is pending   *)
(* or its result has not been looked at, and the call is about the item it *)
(* is at.                                                                  *)
Calls(w) ==
  /\ calling[w] => position[w] < Len(batch[w]) /\ Item(w) # BadItem
  /\ request[w] # NoCall => calling[w] /\ request[w] = Item(w)
  /\ calling[w] /\ request[w] = NoCall => answer[w] \in {"ok", "fail"}

(* The list r has items only that are among the first p of b.              *)
From(r, b, p) == \A k \in 1 .. Len(r) : \E m \in 1 .. p : r[k] = b[m]

(* Its lists have items of its batch only, and an /add without a failed    *)
(* item has listed all it has been through.                                *)
Lists(w) ==
  /\ Len(response_list[w]) + Len(failed[w]) <= position[w]
  /\ From(response_list[w], batch[w], position[w])
  /\ From(failed[w], batch[w], position[w])
  /\ endpoint[w] = "add" /\ failed[w] = <<>> =>
       response_list[w] = SubSeq(batch[w], 1, position[w])

Worker(w) == Idle(w) /\ Walks(w) /\ Calls(w) /\ Lists(w)

IInv == Types /\ (\A w \in Callers : Worker(w)) /\ ResponsesAccountForChannels

-----------------------------------------------------------------------------
(* Counts.                                                                 *)

(* A count is a natural number.                                            *)
LEMMA CountNat ==
  ASSUME NEW R, NEW s \in Seq(R), NEW i
  PROVE  Count(s, i) \in Nat
<1> DEFINE P == {k \in 1 .. Len(s) : s[k].id = i}
<1>1. Len(s) \in Nat /\ DOMAIN s = 1 .. Len(s)
  OBVIOUS
<1>2. IsFiniteSet(1 .. Len(s))
  BY <1>1, FS_Interval
<1>3. IsFiniteSet(P)
  BY <1>2, FS_Subset
<1>4. Cardinality(P) \in Nat
  BY <1>3, FS_CardinalityType
<1> QED
  BY <1>1, <1>4 DEF Count, Quantify

(* Nothing about i: the count is zero.                                     *)
LEMMA CountNone ==
  ASSUME NEW R, NEW s \in Seq(R), NEW i,
         \A k \in 1 .. Len(s) : s[k].id # i
  PROVE  Count(s, i) = 0
<1>1. DOMAIN s = 1 .. Len(s)
  OBVIOUS
<1>2. {k \in DOMAIN s : s[k].id = i} = {}
  BY <1>1
<1> QED
  BY <1>2, FS_EmptySet DEF Count, Quantify

(* The empty list counts nothing.                                          *)
LEMMA CountEmpty ==
  ASSUME NEW i
  PROVE  Count(<<>>, i) = 0
<1>1. {k \in DOMAIN <<>> : (<<>>)[k].id = i} = {}
  OBVIOUS
<1> QED
  BY <1>1, FS_EmptySet DEF Count, Quantify

(* An item appended counts for its channel.                                *)
LEMMA CountAppend ==
  ASSUME NEW R, NEW s \in Seq(R), NEW x \in R, NEW i
  PROVE  Count(Append(s, x), i) = Count(s, i) + (IF x.id = i THEN 1 ELSE 0)
<1> DEFINE t == Append(s, x)
           n == Len(s)
           P == {k \in DOMAIN s : s[k].id = i}
           Q == {k \in DOMAIN t : t[k].id = i}
<1>1. n \in Nat /\ DOMAIN s = 1 .. n /\ DOMAIN t = 1 .. (n + 1)
  OBVIOUS
<1>2. \A k \in 1 .. n : t[k] = s[k]
  OBVIOUS
<1>3. t[n + 1] = x
  OBVIOUS
<1> HIDE DEF t, n
<1>4. IsFiniteSet(P)
  <2>1. IsFiniteSet(1 .. n)
    BY <1>1, FS_Interval
  <2> QED
    BY <1>1, <2>1, FS_Subset
<1>5. n + 1 \notin P
  BY <1>1
<1>6. Cardinality(P) \in Nat
  BY <1>4, FS_CardinalityType
<1>9. Count(s, i) = Cardinality(P) /\ Count(Append(s, x), i) = Cardinality(Q)
  BY DEF Count, Quantify, t
<1>7. CASE x.id = i
  <2>1. Q = P \cup {n + 1}
    BY <1>1, <1>2, <1>3, <1>7
  <2>2. Cardinality(P \cup {n + 1}) = Cardinality(P) + 1
    BY <1>4, <1>5, FS_AddElement
  <2> QED
    BY <1>9, <1>7, <2>1, <2>2
<1>8. CASE x.id # i
  <2>1. Q = P
    BY <1>1, <1>2, <1>3, <1>8
  <2>2. Count(Append(s, x), i) = Count(s, i) /\ Count(s, i) \in Nat
    BY <1>6, <1>9, <2>1
  <2> QED
    BY <1>8, <2>2
<1> QED
  BY <1>7, <1>8

(* The first p + 1 elements are the first p and one more.                  *)
LEMMA SubSeqNext ==
  ASSUME NEW R, NEW s \in Seq(R), NEW p \in Nat, p < Len(s)
  PROVE  /\ SubSeq(s, 1, p) \in Seq(R)
         /\ SubSeq(s, 1, p + 1) = Append(SubSeq(s, 1, p), s[p + 1])
         /\ s[p + 1] \in R
<1> DEFINE t == SubSeq(s, 1, p)
           u == SubSeq(s, 1, p + 1)
<1>1. Len(s) \in Nat /\ p + 1 \in 1 .. Len(s)
  OBVIOUS
<1>2. s[p + 1] \in R
  BY <1>1
<1>3. t \in Seq(R) /\ Len(t) = p /\ \A k \in 1 .. p : t[k] = s[k]
  BY <1>1
<1>4. u \in Seq(R) /\ Len(u) = p + 1 /\ \A k \in 1 .. (p + 1) : u[k] = s[k]
  BY <1>1
<1> HIDE DEF t, u
<1> DEFINE a == Append(t, s[p + 1])
<1>5. a \in Seq(R) /\ Len(a) = p + 1
  BY <1>2, <1>3
<1>6. \A k \in 1 .. p : a[k] = t[k]
  BY <1>2, <1>3
<1>7. a[p + 1] = s[p + 1]
  BY <1>2, <1>3
<1> HIDE DEF a
<1>8. \A k \in 1 .. (p + 1) : u[k] = a[k]
  BY <1>3, <1>4, <1>6, <1>7
<1>9. u = a
  BY <1>4, <1>5, <1>8
<1> QED
  BY <1>2, <1>3, <1>9 DEF a, t, u

-----------------------------------------------------------------------------
(* What a thread owes the history, and the threads that do nothing.        *)

Term(w, i) == Reported(w, i) + Returned(w, i)

Due(i) == SumFunction([w \in Callers |-> Term(w, i)])

(* The step leaves what thread w has alone.                                *)
Same(w) ==
  /\ endpoint'[w] = endpoint[w] /\ batch'[w] = batch[w]
  /\ position'[w] = position[w] /\ calling'[w] = calling[w]
  /\ response_list'[w] = response_list[w] /\ failed'[w] = failed[w]
  /\ request'[w] = request[w] /\ answer'[w] = answer[w]

(* The service of one thread does not disturb another.                     *)
LEMMA OthersStay ==
  ASSUME NEW w, Same(w)
  PROVE  /\ Worker(w) => Worker(w)'
         /\ \A i : Term(w, i)' = Term(w, i)
<1> USE DEF Same
<1>1. Item(w)' = Item(w)
  BY DEF Item
<1>2. Idle(w) => Idle(w)'
  BY DEF Idle
<1>3. Walks(w) => Walks(w)'
  BY DEF Walks, Batches, Items, Registry!Request
<1>4. Calls(w) => Calls(w)'
  BY <1>1 DEF Calls
<1>5. ASSUME Lists(w) PROVE Lists(w)'
  <2>1. (Len(response_list[w]) + Len(failed[w]) <= position[w])'
    BY <1>5 DEF Lists
  <2>2. /\ From(response_list[w], batch[w], position[w])'
        /\ From(failed[w], batch[w], position[w])'
    BY <1>5 DEF Lists
  <2>3. (endpoint[w] = "add" /\ failed[w] = <<>> =>
           response_list[w] = SubSeq(batch[w], 1, position[w]))'
    BY <1>5 DEF Lists
  <2> QED
    BY <2>1, <2>2, <2>3 DEF Lists
<1>6. \A i : Reported(w, i)' = Reported(w, i)
  BY DEF Reported
<1>7. \A i : Returned(w, i)' = Returned(w, i)
  BY <1>1 DEF Returned
<1> QED
  BY <1>2, <1>3, <1>4, <1>5, <1>6, <1>7 DEF Worker, Term

(* What a response reports is an integer, and so is what a call has done.  *)
LEMMA TermInt ==
  ASSUME Types, NEW w \in Callers, position[w] <= Len(batch[w]), NEW i
  PROVE  Reported(w, i) \in Int /\ Returned(w, i) \in Int /\ Term(w, i) \in Int
<1>1. /\ batch[w] \in Seq(Things) /\ position[w] \in Nat
      /\ response_list[w] \in Seq(Registry!Request)
      /\ failed[w] \in Seq(Registry!Request)
  BY DEF Types
<1>2. SubSeq(batch[w], 1, position[w]) \in Seq(Things)
  BY <1>1
<1>3. /\ Count(response_list[w], i) \in Nat /\ Count(failed[w], i) \in Nat
      /\ Count(SubSeq(batch[w], 1, position[w]), i) \in Nat
  BY <1>1, <1>2, CountNat
<1>4. Reported(w, i) \in Int
  BY <1>3 DEF Reported
<1>5. Returned(w, i) \in Int
  BY DEF Returned
<1> QED
  BY <1>4, <1>5 DEF Term

(* The same after a step.                                                  *)
LEMMA TermIntNext ==
  ASSUME Types', NEW w \in Callers, (position[w] <= Len(batch[w]))', NEW i
  PROVE  Term(w, i)' \in Int
<1>1. /\ batch'[w] \in Seq(Things) /\ position'[w] \in Nat
      /\ response_list'[w] \in Seq(Registry!Request)
      /\ failed'[w] \in Seq(Registry!Request)
  BY DEF Types, Things, Registry!Request
<1>2. SubSeq(batch'[w], 1, position'[w]) \in Seq(Things)
  BY <1>1
<1>3. /\ Count(response_list'[w], i) \in Nat /\ Count(failed'[w], i) \in Nat
      /\ Count(SubSeq(batch'[w], 1, position'[w]), i) \in Nat
  BY <1>1, <1>2, CountNat
<1>4. Reported(w, i)' \in Int
  BY <1>3 DEF Reported
<1>5. Returned(w, i)' \in Int
  BY DEF Returned
<1> QED
  BY <1>4, <1>5 DEF Term

(* A step of one thread changes the sum by the change of its own term.     *)
LEMMA DueChange ==
  ASSUME IInv, Types', NEW w \in Callers, Worker(w)',
         \A v \in Callers \ {w} : Same(v), NEW i
  PROVE  Due(i)' = Due(i) + (Term(w, i)' - Term(w, i)) /\ Due(i) \in Int
<1> DEFINE f == [v \in Callers |-> Term(v, i)]
           d == [v \in Callers |-> Term(v, i)']
<1>1. \A v \in Callers \ {w} : Term(v, i)' = Term(v, i) /\ Worker(v)'
  BY OthersStay DEF IInv
<1>2. \A v \in Callers : Worker(v) /\ Worker(v)'
  BY <1>1 DEF IInv
<1>3. f \in [Callers -> Int]
  <2> SUFFICES ASSUME NEW v \in Callers PROVE Term(v, i) \in Int
    OBVIOUS
  <2> QED
    BY <1>2, TermInt DEF IInv, Worker, Walks
<1>4. d \in [Callers -> Int]
  <2> SUFFICES ASSUME NEW v \in Callers PROVE Term(v, i)' \in Int
    OBVIOUS
  <2>1. (position[v] <= Len(batch[v]))'
    BY <1>2 DEF Worker, Walks
  <2> QED
    BY <2>1, TermIntNext
<1>5. \A v \in Callers \ {w} : f[v] = d[v]
  BY <1>1
<1>6. f[w] = Term(w, i) /\ d[w] = Term(w, i)'
  OBVIOUS
<1>7. Due(i) = SumFunction(f) /\ Due(i)' = SumFunction(d)
  BY DEF Due
<1> HIDE DEF f, d
<1>8. SumFunction(d) = SumFunction(f) + (d[w] - f[w])
  BY <1>3, <1>4, <1>5, SumChange, ApiAssumption
<1>9. SumFunction(f) \in Int
  BY <1>3, SumInt, ApiAssumption
<1> QED
  BY <1>6, <1>7, <1>8, <1>9

(* One step of a thread keeps the invariant when it keeps the types and    *)
(* the thread's own part, and when the channels, the history and the       *)
(* thread's term stay in balance.                                          *)
Bit(i) == IF channel[i] # NoUrl THEN 1 ELSE 0

Balanced(w, i) ==
  Bit(i)' - Bit(i) = (told'[i] - told[i]) + (Term(w, i)' - Term(w, i))

(* Every step goes through this lemma.                                     *)
LEMMA Balance ==
  ASSUME IInv, NEW w \in Callers, Types', Worker(w)',
         \A v \in Callers \ {w} : Same(v),
         untold \subseteq untold',
         \A i \in Ids \ untold' : Balanced(w, i)
  PROVE  IInv'
<1>1. \A v \in Callers : Worker(v)'
  BY OthersStay DEF IInv
<1>2. ASSUME NEW i \in Ids \ untold'
      PROVE  Bit(i)' = told'[i] + Due(i)'
  <2> DEFINE b == Bit(i)  c == Bit(i)'  t == told[i]  u == told'[i]
             r == Term(w, i)  s == Term(w, i)'  d == Due(i)  e == Due(i)'
  <2>1. b = t + d
    BY <1>2 DEF IInv, ResponsesAccountForChannels, Bit, Due, Term
  <2>2. e = d + (s - r) /\ d \in Int
    BY DueChange
  <2>3. t \in Int /\ u \in Int
    BY <1>2 DEF IInv, Types
  <2>4. r \in Int /\ s \in Int
    <3>1. Worker(w)
      BY DEF IInv
    <3>2. r \in Int
      BY <3>1, TermInt DEF IInv, Worker, Walks
    <3>3. (position[w] <= Len(batch[w]))'
      BY DEF Worker, Walks
    <3> QED
      BY <3>2, <3>3, TermIntNext
  <2>5. b \in Int /\ c \in Int
    BY DEF Bit
  <2>6. c - b = (u - t) + (s - r)
    BY <1>2 DEF Balanced
  <2>7. c = u + e
    <3> HIDE DEF b, c, t, u, r, s, d, e
    <3> QED
      BY <2>1, <2>2, <2>3, <2>4, <2>5, <2>6
  <2> QED
    BY <2>7
<1>3. ResponsesAccountForChannels'
  BY <1>2 DEF ResponsesAccountForChannels, Bit, Due, Term
<1> QED
  BY <1>1, <1>3 DEF IInv

(* A batch is a list of items of its endpoint.                             *)
LEMMA BatchIsList ==
  ASSUME NEW e, NEW b \in Batches(e)
  PROVE  b \in Seq(Things) /\ \A k \in 1 .. Len(b) : b[k] \in Items(e)
<1>1. PICK n \in 0 .. MaxItems : b \in [1 .. n -> Items(e)]
  BY DEF Batches
<1>2. Items(e) \subseteq Things
  BY DEF Items, Things
<1>3. n \in Nat /\ b \in Seq(Things) /\ Len(b) = n
  BY <1>1, <1>2, ApiAssumption
<1> QED
  BY <1>1, <1>3

(* The item a thread is at.                                                *)
LEMMA ItemIs ==
  ASSUME IInv, NEW w \in Callers, position[w] < Len(batch[w])
  PROVE  /\ endpoint[w] # "none"
         /\ Item(w) \in Things
         /\ Item(w) # BadItem =>
              /\ Item(w) \in Registry!Request
              /\ Item(w).op = endpoint[w]
              /\ Item(w).id \in Ids
<1>1. Idle(w) /\ Walks(w)
  BY DEF IInv, Worker
<1>2. position[w] \in Nat
  BY DEF IInv, Types
<1>3. endpoint[w] # "none"
  BY <1>1, <1>2 DEF Idle
<1>4. batch[w] \in Batches(endpoint[w])
  BY <1>1, <1>3 DEF Walks
<1>5. Len(batch[w]) \in Nat /\ position[w] + 1 \in 1 .. Len(batch[w])
  BY <1>2, <1>4, BatchIsList
<1>6. Item(w) \in Items(endpoint[w])
  BY <1>4, <1>5, BatchIsList DEF Item
<1>7. Item(w) # BadItem => Item(w) \in Registry!Request /\ Item(w).op = endpoint[w]
  BY <1>6 DEF Items
<1> QED
  BY <1>3, <1>6, <1>7 DEF Items, Things, Registry!Request

(* A thread without a request owes nothing.                                *)
LEMMA IdleTerm ==
  ASSUME NEW w, endpoint[w] = "none", Idle(w), NEW i
  PROVE  Term(w, i) = 0
<1>1. batch[w] = <<>> /\ position[w] = 0 /\ failed[w] = <<>> /\ ~calling[w]
  BY DEF Idle
<1>2. SubSeq(batch[w], 1, position[w]) = <<>>
  BY <1>1
<1>3. Count(<<>>, i) = 0
  BY CountEmpty
<1>4. Reported(w, i) = 0
  <2>1. Count(failed[w], i) = 0 /\ Count(SubSeq(batch[w], 1, position[w]), i) = 0
    BY <1>1, <1>2, <1>3, Zenon
  <2> QED
    BY <2>1 DEF Reported
<1>5. Returned(w, i) = 0
  BY <1>1 DEF Returned
<1> QED
  BY <1>4, <1>5 DEF Term

-----------------------------------------------------------------------------
(* The steps.                                                              *)

(* A new request.                                                          *)
LEMMA ReceiveKeeps ==
  ASSUME IInv, NEW w \in Callers, Receive(w)
  PROVE  IInv'
<1> USE DEF Receive, service, history
<1>0. PICK e \in {"add", "remove"} :
        /\ endpoint' = [endpoint EXCEPT ![w] = e]
        /\ \E b \in Batches(e) : batch' = [batch EXCEPT ![w] = b]
  OBVIOUS
<1>1. PICK b \in Batches(e) :
        /\ endpoint' = [endpoint EXCEPT ![w] = e]
        /\ batch' = [batch EXCEPT ![w] = b]
  BY <1>0
<1>2. endpoint[w] = "none" /\ Types /\ Worker(w)
  BY DEF IInv
<1>3. /\ batch[w] = <<>> /\ position[w] = 0 /\ ~calling[w]
      /\ response_list[w] = <<>> /\ failed[w] = <<>> /\ request[w] = NoCall
  BY <1>2 DEF Worker, Idle, Calls
<1>4. b \in Seq(Things)
  BY <1>1, BatchIsList
<1>5. /\ endpoint'[w] = e /\ batch'[w] = b /\ position'[w] = 0 /\ ~calling'[w]
      /\ response_list'[w] = <<>> /\ failed'[w] = <<>> /\ request'[w] = NoCall
      /\ answer'[w] = answer[w]
  BY <1>1, <1>2, <1>3 DEF Types
<1>6. Types'
  <2>1. endpoint' \in [Callers -> {"none", "add", "remove"}]
    BY <1>1, <1>2 DEF Types
  <2>2. batch' \in [Callers -> Seq(Things)]
    BY <1>1, <1>2, <1>4 DEF Types
  <2>3. Registry!TypeOK'
    BY <1>2 DEF Types, Registry!TypeOK, Registry!Request
  <2> QED
    BY <1>2, <2>1, <2>2, <2>3 DEF Types, Things, Registry!Request
<1>7. \A v \in Callers \ {w} : Same(v)
  BY <1>1, <1>2 DEF Same, Types
<1>8. Worker(w)'
  <2>1. Idle(w)'
    BY <1>1, <1>5 DEF Idle
  <2>2. Walks(w)'
    <3>1. b \in Batches(e)' /\ Len(b) \in Nat
      BY <1>1, <1>4 DEF Batches, Items, Registry!Request
    <3> QED
      BY <1>5, <3>1 DEF Walks
  <2>3. Calls(w)'
    BY <1>5 DEF Calls
  <2>4. Lists(w)'
    <3>1. SubSeq(b, 1, 0) = <<>>
      BY <1>4
    <3> QED
      BY <1>5, <3>1 DEF Lists, From
  <2> QED
    BY <2>1, <2>2, <2>3, <2>4 DEF Worker
<1>9. ASSUME NEW i \in Ids \ untold' PROVE Balanced(w, i)
  <2>1. Term(w, i) = 0
    BY <1>2, IdleTerm DEF Worker
  <2>2. Term(w, i)' = 0
    <3>1. SubSeq(b, 1, 0) = <<>> /\ Count(<<>>, i) = 0
      BY <1>4, CountEmpty
    <3>2. Count(response_list'[w], i) = 0 /\ Count(failed'[w], i) = 0
      BY <1>5, <3>1, Zenon
    <3>3. Count(SubSeq(batch'[w], 1, position'[w]), i) = 0
      BY <1>5, <3>1, Zenon
    <3>4. Reported(w, i)' = 0
      BY <3>2, <3>3 DEF Reported
    <3>5. Returned(w, i)' = 0
      BY <1>5 DEF Returned
    <3> QED
      BY <3>4, <3>5 DEF Term
  <2>3. Bit(i)' = Bit(i) /\ Bit(i) \in Int /\ told'[i] = told[i] /\ told[i] \in Int
    BY <1>2, <1>9 DEF Bit, Types
  <2> QED
    BY <2>1, <2>2, <2>3 DEF Balanced
<1> QED
  BY <1>6, <1>7, <1>8, <1>9, Balance

(* The handler calls the service with the item it is at.                   *)
LEMMA CallKeeps ==
  ASSUME IInv, NEW w \in Callers, Call(w)
  PROVE  IInv'
<1> USE DEF Call, AtItem, history, Registry!Ask
<1>1. Types /\ Worker(w) /\ position[w] < Len(batch[w])
  BY DEF IInv
<1>2. PICK r \in Registry!Request : request' = [request EXCEPT ![w] = r]
  BY DEF Registry!Ask
<1>3. request \in [Callers -> Registry!Request \cup {NoCall}]
  BY <1>1 DEF Types, Registry!TypeOK
<1>4. /\ request'[w] = Item(w) /\ Item(w) = r /\ Item(w)' = Item(w)
      /\ Item(w) # NoCall
  <2>1. request'[w] = r
    BY <1>2, <1>3
  <2> QED
    BY <1>2, <2>1, ApiAssumption DEF Item
<1>5. ~calling[w] /\ calling'[w] /\ Item(w) # BadItem
  BY <1>1 DEF Types
<1>6. /\ endpoint' = endpoint /\ batch' = batch /\ position' = position
      /\ response_list' = response_list /\ failed' = failed
      /\ told' = told /\ untold' = untold /\ channel' = channel
  OBVIOUS
<1>7. Types'
  <2>1. Registry!TypeOK'
    BY <1>1, <1>2, <1>6 DEF Types, Registry!TypeOK, Registry!Request
  <2>2. calling' \in [Callers -> BOOLEAN]
    BY <1>1 DEF Types
  <2> QED
    BY <1>1, <1>6, <2>1, <2>2 DEF Types, Things, Registry!Request
<1>8. \A v \in Callers \ {w} : Same(v)
  BY <1>1, <1>2, <1>3, <1>6 DEF Same, Types, Registry!TypeOK
<1>9. Worker(w)'
  <2>1. Idle(w)'
    <3>1. endpoint[w] # "none"
      BY <1>1, ItemIs
    <3> QED
      BY <1>6, <3>1 DEF Idle
  <2>2. Walks(w)'
    BY <1>1, <1>6 DEF Worker, Walks, Batches, Items, Registry!Request
  <2>3. Calls(w)'
    BY <1>1, <1>4, <1>5, <1>6 DEF Calls
  <2>4. Lists(w)'
    BY <1>1, <1>6 DEF Worker, Lists
  <2> QED
    BY <2>1, <2>2, <2>3, <2>4 DEF Worker
<1>10. ASSUME NEW i \in Ids \ untold' PROVE Balanced(w, i)
  <2>1. Reported(w, i)' = Reported(w, i)
    BY <1>6 DEF Reported
  <2>2. Returned(w, i) = 0 /\ Returned(w, i)' = 0
    BY <1>4, <1>5 DEF Returned
  <2>3. Bit(i)' = Bit(i) /\ Bit(i) \in Int /\ told'[i] = told[i] /\ told[i] \in Int
    BY <1>1, <1>6, <1>10 DEF Bit, Types
  <2>4. Reported(w, i) \in Int
    BY <1>1, TermInt DEF Worker, Walks
  <2> QED
    BY <2>1, <2>2, <2>3, <2>4 DEF Balanced, Term
<1> QED
  BY <1>6, <1>7, <1>8, <1>9, <1>10, Balance

(* The service carries a call out: it answers "ok" exactly when the        *)
(* channel appears or disappears, and the thread owes that to the history. *)
LEMMA ServeKeeps ==
  ASSUME IInv, NEW w \in Callers, Serve(w)
  PROVE  IInv'
<1> DEFINE r == request[w]
<1>1. Types /\ Worker(w)
  BY DEF IInv
<1>2. r # NoCall
  BY DEF Serve, Registry!Add, Registry!Remove
<1>3. /\ calling[w] /\ r = Item(w) /\ position[w] < Len(batch[w])
      /\ Item(w) # BadItem
  BY <1>1, <1>2 DEF Worker, Calls
<1>4. r \in Registry!Request /\ r.id \in Ids /\ r.op = endpoint[w] /\ endpoint[w] # "none"
  BY <1>3, ItemIs
<1>5. /\ endpoint' = endpoint /\ batch' = batch /\ position' = position
      /\ calling' = calling /\ response_list' = response_list
      /\ failed' = failed /\ told' = told /\ untold' = untold
  BY DEF Serve, handler, history
<1>6. PICK a \in {"ok", "fail"} :
        /\ request' = [request EXCEPT ![w] = NoCall]
        /\ answer' = [answer EXCEPT ![w] = a]
        /\ channel' \in [Ids -> Urls \cup {NoUrl}]
        /\ \A i \in Ids : Bit(i)' - Bit(i) =
             IF a = "ok" /\ i = r.id THEN (IF endpoint[w] = "add" THEN 1 ELSE -1)
                                     ELSE 0
  <2>1. channel \in [Ids -> Urls \cup {NoUrl}]
    BY <1>1 DEF Types, Registry!TypeOK
  <2>2. CASE Registry!Add(w) /\ Registry!CanAdd(r)
    <3>1. r.url \in Urls /\ r.url # NoUrl /\ channel[r.id] = NoUrl
      BY <2>2, ApiAssumption DEF Registry!CanAdd
    <3>2. /\ channel' = [channel EXCEPT ![r.id] = r.url]
          /\ request' = [request EXCEPT ![w] = NoCall]
          /\ answer' = [answer EXCEPT ![w] = "ok"]
      BY <2>2 DEF Registry!Add, Registry!Reply
    <3>3. channel' \in [Ids -> Urls \cup {NoUrl}]
      BY <2>1, <3>1, <3>2
    <3>4. endpoint[w] = "add"
      BY <1>4, <2>2 DEF Registry!Add
    <3>5. \A i \in Ids : Bit(i)' - Bit(i) = IF i = r.id THEN 1 ELSE 0
      <4> TAKE i \in Ids
      <4>1. CASE i = r.id
        BY <2>1, <3>1, <3>2, <4>1 DEF Bit
      <4>2. CASE i # r.id
        BY <2>1, <3>2, <4>2 DEF Bit
      <4> QED
        BY <4>1, <4>2
    <3> QED
      BY <3>2, <3>3, <3>4, <3>5
  <2>3. CASE Registry!Add(w) /\ ~Registry!CanAdd(r)
    <3>1. /\ channel' = channel
          /\ request' = [request EXCEPT ![w] = NoCall]
          /\ answer' = [answer EXCEPT ![w] = "fail"]
      BY <2>3 DEF Registry!Add, Registry!Reply
    <3>2. \A i \in Ids : Bit(i)' - Bit(i) = 0
      BY <3>1 DEF Bit
    <3> QED
      BY <2>1, <3>1, <3>2
  <2>4. CASE Registry!Remove(w) /\ channel[r.id] # NoUrl
    <3>1. /\ channel' = [channel EXCEPT ![r.id] = NoUrl]
          /\ request' = [request EXCEPT ![w] = NoCall]
          /\ answer' = [answer EXCEPT ![w] = "ok"]
      BY <2>4 DEF Registry!Remove, Registry!Reply
    <3>2. channel' \in [Ids -> Urls \cup {NoUrl}]
      BY <2>1, <3>1
    <3>3. endpoint[w] = "remove"
      BY <1>4, <2>4 DEF Registry!Remove
    <3>4. \A i \in Ids : Bit(i)' - Bit(i) = IF i = r.id THEN -1 ELSE 0
      <4> TAKE i \in Ids
      <4>1. CASE i = r.id
        BY <2>1, <2>4, <3>1, <4>1 DEF Bit
      <4>2. CASE i # r.id
        BY <2>1, <3>1, <4>2 DEF Bit
      <4> QED
        BY <4>1, <4>2
    <3> QED
      BY <3>1, <3>2, <3>3, <3>4
  <2>5. CASE Registry!Remove(w) /\ channel[r.id] = NoUrl
    <3>1. /\ channel' = [channel EXCEPT ![r.id] = NoUrl]
          /\ request' = [request EXCEPT ![w] = NoCall]
          /\ answer' = [answer EXCEPT ![w] = "fail"]
      BY <2>5 DEF Registry!Remove, Registry!Reply
    <3>2. channel' \in [Ids -> Urls \cup {NoUrl}]
      BY <2>1, <3>1
    <3>3. \A i \in Ids : channel'[i] = channel[i]
      BY <2>1, <2>5, <3>1
    <3>4. \A i \in Ids : Bit(i)' - Bit(i) = 0
      BY <3>3 DEF Bit
    <3> QED
      BY <3>1, <3>2, <3>4
  <2> QED
    BY <2>2, <2>3, <2>4, <2>5 DEF Serve
<1>7. request'[w] = NoCall /\ answer'[w] = a
  BY <1>1, <1>6 DEF Types, Registry!TypeOK
<1>8. Item(w)' = Item(w)
  BY <1>5 DEF Item
<1>9. Types'
  <2>1. Registry!TypeOK'
    BY <1>1, <1>6 DEF Types, Registry!TypeOK, Registry!Request
  <2> QED
    BY <1>1, <1>5, <2>1 DEF Types, Things, Registry!Request
<1>10. \A v \in Callers \ {w} : Same(v)
  BY <1>1, <1>5, <1>6 DEF Same, Types, Registry!TypeOK
<1>11. Worker(w)'
  <2>1. Idle(w)'
    BY <1>4, <1>5 DEF Idle
  <2>2. Walks(w)'
    BY <1>1, <1>5 DEF Worker, Walks, Batches, Items, Registry!Request
  <2>3. Calls(w)'
    BY <1>3, <1>5, <1>7, <1>8 DEF Calls
  <2>4. Lists(w)'
    BY <1>1, <1>5 DEF Worker, Lists
  <2> QED
    BY <2>1, <2>2, <2>3, <2>4 DEF Worker
<1>12. ASSUME NEW i \in Ids \ untold' PROVE Balanced(w, i)
  <2>1. Reported(w, i)' = Reported(w, i) /\ Reported(w, i) \in Int
    <3>1. Reported(w, i)' = Reported(w, i)
      BY <1>5 DEF Reported
    <3> QED
      BY <1>1, <3>1, TermInt DEF Worker, Walks
  <2>2. Returned(w, i) = 0
    BY <1>2 DEF Returned
  <2>3. Returned(w, i)' =
          IF a = "ok" /\ i = r.id THEN (IF endpoint[w] = "add" THEN 1 ELSE -1)
                                  ELSE 0
    BY <1>3, <1>5, <1>7, <1>8 DEF Returned
  <2>4. Bit(i)' - Bit(i) = Returned(w, i)'
    BY <1>6, <1>12, <2>3
  <2>5. told'[i] = told[i] /\ told[i] \in Int
    BY <1>1, <1>5, <1>12 DEF Types
  <2>6. Returned(w, i)' \in Int
    BY <2>3
  <2> QED
    BY <2>1, <2>2, <2>4, <2>5, <2>6 DEF Balanced, Term
<1> QED
  BY <1>5, <1>9, <1>10, <1>11, <1>12, Balance

(* A list that has items among the first p has them among the first p + 1. *)
LEMMA FromNext ==
  ASSUME NEW R, NEW r \in Seq(R), NEW b, NEW p \in Nat, From(r, b, p)
  PROVE  From(r, b, p + 1) /\ (b[p + 1] \in R => From(Append(r, b[p + 1]), b, p + 1))
<1>1. From(r, b, p + 1)
  BY DEF From
<1>2. ASSUME b[p + 1] \in R PROVE From(Append(r, b[p + 1]), b, p + 1)
  <2> DEFINE a == Append(r, b[p + 1])
  <2>1. Len(r) \in Nat /\ Len(a) = Len(r) + 1
    BY <1>2
  <2>2. \A k \in 1 .. Len(r) : a[k] = r[k]
    BY <1>2
  <2>3. a[Len(r) + 1] = b[p + 1]
    BY <1>2
  <2> HIDE DEF a
  <2>4. ASSUME NEW k \in 1 .. Len(a) PROVE \E m \in 1 .. (p + 1) : a[k] = b[m]
    <3>1. CASE k \in 1 .. Len(r)
      BY <1>1, <2>2, <3>1 DEF From
    <3>2. CASE k = Len(r) + 1
      BY <2>3, <3>2
    <3> QED
      BY <2>1, <3>1, <3>2
  <2> QED
    BY <2>4 DEF From, a
<1> QED
  BY <1>1, <1>2

(* The call returned and its item goes into one of the lists.              *)
LEMMA CollectKeeps ==
  ASSUME IInv, NEW w \in Callers, Collect(w)
  PROVE  IInv'
<1> DEFINE x == Item(w)
           p == position[w]
           b == batch[w]
           R == Registry!Request
<1>1. Types /\ Worker(w)
  BY DEF IInv
<1>2. /\ calling[w] /\ request[w] = NoCall /\ p < Len(b) /\ x # BadItem
      /\ answer[w] \in {"ok", "fail"}
  BY <1>1 DEF Collect, Worker, Calls
<1>3. x \in R /\ x.id \in Ids /\ endpoint[w] \in {"add", "remove"}
  BY <1>1, <1>2, ItemIs DEF Types
<1>4. /\ p \in Nat /\ b \in Seq(Things) /\ response_list[w] \in Seq(R)
      /\ failed[w] \in Seq(R)
  BY <1>1 DEF Types
<1>5. /\ endpoint' = endpoint /\ batch' = batch /\ told' = told
      /\ untold' = untold /\ channel' = channel /\ request' = request
      /\ answer' = answer
  BY DEF Collect, service, history
<1>6. position'[w] = p + 1 /\ ~calling'[w]
  BY <1>1 DEF Collect, Types
<1>7. response_list'[w] = IF endpoint[w] = "add" /\ answer[w] = "ok"
                            THEN Append(response_list[w], x) ELSE response_list[w]
  BY <1>1 DEF Collect, Types
<1>8. failed'[w] = IF answer[w] = "fail" THEN Append(failed[w], x) ELSE failed[w]
  BY <1>1 DEF Collect, Types
<1>9. response_list'[w] \in Seq(R) /\ failed'[w] \in Seq(R)
  BY <1>3, <1>4, <1>7, <1>8
<1>10. /\ SubSeq(b, 1, p) \in Seq(Things)
       /\ SubSeq(b, 1, p + 1) = Append(SubSeq(b, 1, p), x)
       /\ x \in Things /\ x = b[p + 1]
  BY <1>2, <1>4, SubSeqNext DEF Item
<1>11. Types'
  <2>1. position' \in [Callers -> Nat] /\ calling' \in [Callers -> BOOLEAN]
    BY <1>1, <1>4 DEF Collect, Types
  <2>2. response_list' \in [Callers -> Seq(R)]
    BY <1>1, <1>3, <1>4 DEF Collect, Types
  <2>3. failed' \in [Callers -> Seq(R)]
    BY <1>1, <1>3, <1>4 DEF Collect, Types
  <2>4. Registry!TypeOK'
    BY <1>1, <1>5 DEF Types, Registry!TypeOK, Registry!Request
  <2> QED
    BY <1>1, <1>5, <2>1, <2>2, <2>3, <2>4 DEF Types, Things, Registry!Request
<1>12. \A v \in Callers \ {w} : Same(v)
  BY <1>1, <1>5 DEF Collect, Same, Types
<1>13. Worker(w)'
  <2>1. Idle(w)'
    BY <1>3, <1>5 DEF Idle
  <2>2. Walks(w)'
    <3>1. (endpoint[w] # "none" => batch[w] \in Batches(endpoint[w]))'
      BY <1>1, <1>5 DEF Worker, Walks, Batches, Items, Registry!Request
    <3>2. \A k \in 1 .. (p + 1) : b[k] # BadItem
      BY <1>1, <1>2, <1>4, <1>10 DEF Worker, Walks
    <3>3. p + 1 <= Len(b)
      BY <1>2, <1>4
    <3> QED
      BY <1>5, <1>6, <3>1, <3>2, <3>3 DEF Walks
  <2>3. Calls(w)'
    BY <1>2, <1>5, <1>6 DEF Calls
  <2>4. Lists(w)'
    <3>1. /\ Len(response_list[w]) + Len(failed[w]) <= p
          /\ From(response_list[w], b, p) /\ From(failed[w], b, p)
          /\ endpoint[w] = "add" /\ failed[w] = <<>> =>
               response_list[w] = SubSeq(b, 1, p)
      BY <1>1 DEF Worker, Lists
    <3>2. Len(response_list'[w]) + Len(failed'[w]) <= p + 1
      <4> DEFINE l == Len(response_list[w])
                 f == Len(failed[w])
      <4>1. l \in Nat /\ f \in Nat /\ p \in Nat /\ l + f <= p
        <5>1. l \in Nat /\ f \in Nat
          BY <1>4
        <5>2. l + f <= p
          BY <1>1 DEF Worker, Lists
        <5> QED
          BY <1>4, <5>1, <5>2, Zenon
      <4>2. Len(response_list'[w]) =
              IF endpoint[w] = "add" /\ answer[w] = "ok" THEN l + 1 ELSE l
        BY <1>3, <1>4, <1>7
      <4>3. Len(failed'[w]) = IF answer[w] = "fail" THEN f + 1 ELSE f
        BY <1>3, <1>4, <1>8
      <4> HIDE DEF l, f, p
      <4> QED
        BY <4>1, <4>2, <4>3
    <3>3. From(response_list'[w], b, p + 1) /\ From(failed'[w], b, p + 1)
      <4>1. /\ From(response_list[w], b, p + 1)
            /\ From(Append(response_list[w], x), b, p + 1)
        BY <1>3, <1>4, <1>10, <3>1, FromNext
      <4>2. From(failed[w], b, p + 1) /\ From(Append(failed[w], x), b, p + 1)
        BY <1>3, <1>4, <1>10, <3>1, FromNext
      <4> QED
        BY <1>7, <1>8, <4>1, <4>2
    <3>4. ASSUME endpoint[w] = "add", failed'[w] = <<>>
          PROVE  response_list'[w] = SubSeq(b, 1, p + 1)
      <4>1. Append(failed[w], x) # <<>>
        BY <1>3, <1>4
      <4>2. answer[w] = "ok" /\ failed[w] = <<>>
        BY <1>2, <1>8, <3>4, <4>1
      <4> QED
        BY <1>7, <1>10, <3>1, <3>4, <4>2
    <3> QED
      BY <1>5, <1>6, <3>2, <3>3, <3>4 DEF Lists
  <2> QED
    BY <2>1, <2>2, <2>3, <2>4 DEF Worker
<1>14. ASSUME NEW i \in Ids \ untold' PROVE Balanced(w, i)
  <2> DEFINE one == IF x.id = i THEN 1 ELSE 0
             l == Count(response_list[w], i)
             f == Count(failed[w], i)
             c == Count(SubSeq(b, 1, p), i)
  <2>1. l \in Nat /\ f \in Nat /\ c \in Nat /\ one \in {0, 1}
    BY <1>4, <1>10, CountNat
  <2>2. Count(Append(response_list[w], x), i) = l + one
    BY <1>3, <1>4, CountAppend
  <2>3. Count(Append(failed[w], x), i) = f + one
    BY <1>3, <1>4, CountAppend
  <2>4. Count(SubSeq(b, 1, p + 1), i) = c + one
    <3> DEFINE s == SubSeq(b, 1, p)
    <3>1. s \in Seq(Things) /\ x \in Things
      BY <1>10
    <3> HIDE DEF s, x
    <3>2. Count(Append(s, x), i) = Count(s, i) + (IF x.id = i THEN 1 ELSE 0)
      BY <3>1, CountAppend
    <3> QED
      BY <1>10, <3>2 DEF s, x
  <2>5. Returned(w, i)' = 0
    BY <1>6 DEF Returned
  <2>6. Returned(w, i) = IF answer[w] = "ok"
                           THEN IF endpoint[w] = "add" THEN one ELSE -one ELSE 0
    BY <1>2 DEF Returned
  <2>7. Reported(w, i) = IF endpoint[w] = "add" THEN l ELSE f - c
    BY DEF Reported
  <2>8. Reported(w, i)' = Reported(w, i) + Returned(w, i)
    <3>1. Reported(w, i)' =
            IF endpoint[w] = "add"
              THEN Count(response_list'[w], i)
              ELSE Count(failed'[w], i) - Count(SubSeq(b, 1, p + 1), i)
      BY <1>5, <1>6 DEF Reported
    <3>2. CASE endpoint[w] = "add" /\ answer[w] = "ok"
      <4>1. Count(response_list'[w], i) = l + one
        BY <1>7, <2>2, <3>2
      <4> HIDE DEF one, l, f, c
      <4> QED
        BY <2>1, <2>6, <2>7, <3>1, <3>2, <4>1
    <3>3. CASE endpoint[w] = "add" /\ answer[w] = "fail"
      <4>1. Count(response_list'[w], i) = l
        BY <1>7, <3>3
      <4> HIDE DEF one, l, f, c
      <4> QED
        BY <2>1, <2>6, <2>7, <3>1, <3>3, <4>1
    <3>4. CASE endpoint[w] = "remove" /\ answer[w] = "ok"
      <4>1. Count(failed'[w], i) = f
        BY <1>8, <3>4
      <4> HIDE DEF one, l, f, c
      <4> QED
        BY <2>1, <2>4, <2>6, <2>7, <3>1, <3>4, <4>1
    <3>5. CASE endpoint[w] = "remove" /\ answer[w] = "fail"
      <4>1. Count(failed'[w], i) = f + one
        BY <1>8, <2>3, <3>5
      <4> HIDE DEF one, l, f, c
      <4> QED
        BY <2>1, <2>4, <2>6, <2>7, <3>1, <3>5, <4>1
    <3> QED
      BY <1>2, <1>3, <3>2, <3>3, <3>4, <3>5
  <2>9. Term(w, i)' = Term(w, i) /\ Term(w, i) \in Int
    <3>1. Term(w, i) \in Int /\ Reported(w, i) \in Int /\ Returned(w, i) \in Int
      BY <1>1, TermInt DEF Worker, Walks
    <3> HIDE DEF one, l, f, c
    <3> QED
      BY <2>5, <2>8, <3>1 DEF Term
  <2>10. Bit(i)' = Bit(i) /\ Bit(i) \in Int /\ told'[i] = told[i] /\ told[i] \in Int
    BY <1>1, <1>5, <1>14 DEF Bit, Types
  <2> QED
    BY <2>9, <2>10 DEF Balanced
<1> QED
  BY <1>5, <1>11, <1>12, <1>13, <1>14, Balance

(* The handler returns, whatever it answers.                               *)
LEMMA FinishKeeps ==
  ASSUME IInv, NEW w \in Callers, ~calling[w], endpoint[w] # "none", Finish(w),
         told' \in [Ids -> Int], untold' \subseteq Ids, untold \subseteq untold',
         \A i \in Ids \ untold' : told'[i] = told[i] + Reported(w, i)
  PROVE  IInv'
<1>1. Types /\ Worker(w)
  BY DEF IInv
<1>2. channel' = channel /\ request' = request /\ answer' = answer /\ calling' = calling
  BY DEF Finish, service
<1>3. /\ endpoint'[w] = "none" /\ batch'[w] = <<>> /\ position'[w] = 0
      /\ response_list'[w] = <<>> /\ failed'[w] = <<>>
  BY <1>1 DEF Finish, Types
<1>4. request[w] = NoCall
  BY <1>1 DEF Worker, Calls
<1>5. Types'
  <2>1. endpoint' \in [Callers -> {"none", "add", "remove"}]
    BY <1>1 DEF Finish, Types
  <2>2. batch' \in [Callers -> Seq(Things)] /\ position' \in [Callers -> Nat]
    BY <1>1 DEF Finish, Types
  <2>3. /\ response_list' \in [Callers -> Seq(Registry!Request)]
        /\ failed' \in [Callers -> Seq(Registry!Request)]
    BY <1>1 DEF Finish, Types
  <2>4. Registry!TypeOK'
    BY <1>1, <1>2 DEF Types, Registry!TypeOK, Registry!Request
  <2> QED
    BY <1>1, <1>2, <2>1, <2>2, <2>3, <2>4 DEF Types, Things, Registry!Request
<1>6. \A v \in Callers \ {w} : Same(v)
  BY <1>1, <1>2 DEF Finish, Same, Types
<1>7. Worker(w)'
  <2>1. Idle(w)'
    BY <1>2, <1>3 DEF Idle
  <2>2. Walks(w)'
    BY <1>3 DEF Walks
  <2>3. Calls(w)'
    BY <1>2, <1>4 DEF Calls
  <2>4. Lists(w)'
    BY <1>3 DEF Lists, From
  <2> QED
    BY <2>1, <2>2, <2>3, <2>4 DEF Worker
<1>8. ASSUME NEW i \in Ids \ untold' PROVE Balanced(w, i)
  <2>1. Term(w, i) = Reported(w, i) /\ Reported(w, i) \in Int
    <3>1. Reported(w, i) \in Int
      BY <1>1, TermInt DEF Worker, Walks
    <3>2. Returned(w, i) = 0
      BY DEF Returned
    <3> QED
      BY <3>1, <3>2 DEF Term
  <2>2. Term(w, i)' = 0
    <3>1. SubSeq(<<>>, 1, 0) = <<>> /\ Count(<<>>, i) = 0
      BY CountEmpty
    <3>2. Count(response_list'[w], i) = 0 /\ Count(failed'[w], i) = 0
      BY <1>3, <3>1, Zenon
    <3>3. Count(SubSeq(batch'[w], 1, position'[w]), i) = 0
      BY <1>3, <3>1, Zenon
    <3>4. Reported(w, i)' = 0
      BY <3>2, <3>3 DEF Reported
    <3>5. Returned(w, i)' = 0
      BY <1>2 DEF Returned
    <3> QED
      BY <3>4, <3>5 DEF Term
  <2>3. Bit(i)' = Bit(i) /\ Bit(i) \in Int
    BY <1>2 DEF Bit
  <2>4. told'[i] = told[i] + Reported(w, i) /\ told[i] \in Int
    BY <1>1, <1>8 DEF Types
  <2> QED
    BY <2>1, <2>2, <2>3, <2>4 DEF Balanced
<1> QED
  BY <1>5, <1>6, <1>7, <1>8, Balance

(* 200: the response is reported.                                          *)
LEMMA RespondKeeps ==
  ASSUME IInv, NEW w \in Callers, Respond(w)
  PROVE  IInv'
<1>1. Types /\ Worker(w)
  BY DEF IInv
<1>2. \A i \in Ids : told[i] \in Int /\ Reported(w, i) \in Int
  <2> TAKE i \in Ids
  <2>1. Reported(w, i) \in Int
    BY <1>1, TermInt DEF Worker, Walks
  <2> QED
    BY <1>1, <2>1 DEF Types
<1>3. told' \in [Ids -> Int] /\ untold' = untold
  BY <1>2 DEF Respond
<1>4. \A i \in Ids \ untold' : told'[i] = told[i] + Reported(w, i)
  BY <1>3 DEF Respond
<1>5. untold' \subseteq Ids
  BY <1>1, <1>3 DEF Types
<1> QED
  BY <1>3, <1>4, <1>5, FinishKeeps DEF Respond

(* 400 or 500: the channels named so far leave the books.                  *)
LEMMA AbandonKeeps ==
  ASSUME IInv, NEW w \in Callers, Abandon(w)
  PROVE  IInv'
<1> DEFINE named == {batch[w][k].id : k \in 1 .. position[w]}
<1>1. Types /\ Worker(w) /\ ~calling[w] /\ position[w] < Len(batch[w])
  BY DEF IInv, Abandon, AtItem
<1>2. /\ position[w] \in Nat /\ batch[w] \in Seq(Things)
      /\ response_list[w] \in Seq(Registry!Request)
      /\ failed[w] \in Seq(Registry!Request)
  BY <1>1 DEF Types
<1>3. /\ untold' = untold \cup named
      /\ told' = [i \in Ids |-> IF i \in named THEN 0 ELSE told[i]]
  BY DEF Abandon
<1>4. named \subseteq Ids
  <2> SUFFICES ASSUME NEW k \in 1 .. position[w] PROVE batch[w][k].id \in Ids
    OBVIOUS
  <2>1. batch[w][k] # BadItem /\ k \in 1 .. Len(batch[w])
    BY <1>1, <1>2 DEF Worker, Walks
  <2>2. batch[w][k] \in Registry!Request
    BY <1>2, <2>1 DEF Things
  <2> QED
    BY <2>2 DEF Registry!Request
<1>5. told' \in [Ids -> Int]
  BY <1>1, <1>3 DEF Types
<1>6. ASSUME NEW i \in Ids \ untold' PROVE told'[i] = told[i] + Reported(w, i)
  <2>1. i \notin named /\ told'[i] = told[i] /\ told[i] \in Int
    BY <1>1, <1>3, <1>6 DEF Types
  <2>2. \A k \in 1 .. position[w] : batch[w][k].id # i
    BY <2>1
  <2>3. Count(response_list[w], i) = 0 /\ Count(failed[w], i) = 0
    <3>1. From(response_list[w], batch[w], position[w])
      BY <1>1 DEF Worker, Lists
    <3>2. From(failed[w], batch[w], position[w])
      BY <1>1 DEF Worker, Lists
    <3>3. \A k \in 1 .. Len(response_list[w]) : response_list[w][k].id # i
      BY <2>2, <3>1 DEF From
    <3>4. \A k \in 1 .. Len(failed[w]) : failed[w][k].id # i
      BY <2>2, <3>2 DEF From
    <3> QED
      BY <1>2, <3>3, <3>4, CountNone
  <2>4. Count(SubSeq(batch[w], 1, position[w]), i) = 0
    <3> DEFINE s == SubSeq(batch[w], 1, position[w])
    <3>1. s \in Seq(Things) /\ Len(s) = position[w]
      BY <1>1, <1>2
    <3>2. \A k \in 1 .. position[w] : s[k] = batch[w][k]
      BY <1>1, <1>2
    <3>3. \A k \in 1 .. Len(s) : s[k].id # i
      BY <2>2, <3>1, <3>2
    <3> HIDE DEF s
    <3>4. Count(s, i) = 0
      BY <3>1, <3>3, CountNone
    <3> QED
      BY <3>4 DEF s
  <2>5. Reported(w, i) = 0
    BY <2>3, <2>4 DEF Reported
  <2> QED
    BY <2>1, <2>5
<1>7. endpoint[w] # "none"
  BY <1>1, ItemIs
<1>8. untold' \subseteq Ids /\ untold \subseteq untold' /\ Finish(w)
  BY <1>1, <1>3, <1>4 DEF Types, Abandon
<1> QED
  BY <1>1, <1>5, <1>6, <1>7, <1>8, FinishKeeps

-----------------------------------------------------------------------------
(* The theorems.                                                           *)

(* At the start nobody has asked for anything and nothing is registered.   *)
LEMMA InitKeeps ==
  ASSUME Init
  PROVE  IInv
<1> USE DEF Init, Registry!Init
<1>1. Types
  <2>1. Registry!TypeOK
    BY DEF Registry!TypeOK
  <2>2. batch \in [Callers -> Seq(Things)]
    OBVIOUS
  <2>3. /\ response_list \in [Callers -> Seq(Registry!Request)]
        /\ failed \in [Callers -> Seq(Registry!Request)]
    OBVIOUS
  <2> QED
    BY <2>1, <2>2, <2>3 DEF Types
<1>2. ASSUME NEW w \in Callers PROVE Worker(w)
  <2>1. Idle(w)
    BY <1>2 DEF Idle
  <2>2. Walks(w)
    BY <1>2 DEF Walks
  <2>3. Calls(w)
    BY <1>2 DEF Calls
  <2>4. Lists(w)
    BY <1>2 DEF Lists, From
  <2> QED
    BY <2>1, <2>2, <2>3, <2>4 DEF Worker
<1>3. ASSUME NEW i \in Ids \ untold PROVE Bit(i) = told[i] + Due(i)
  <2>1. [w \in Callers |-> Term(w, i)] = [w \in Callers |-> 0]
    <3> SUFFICES ASSUME NEW w \in Callers PROVE Term(w, i) = 0
      OBVIOUS
    <3> QED
      BY <1>2, IdleTerm DEF Worker
  <2>2. Due(i) = 0
    BY <2>1, SumZero, ApiAssumption DEF Due
  <2>3. Bit(i) = 0 /\ told[i] = 0
    BY <1>3 DEF Bit
  <2> QED
    BY <2>2, <2>3
<1> QED
  BY <1>1, <1>2, <1>3 DEF IInv, ResponsesAccountForChannels, Bit, Due, Term

(* A step that changes nothing keeps the invariant.                        *)
LEMMA StutterKeeps ==
  ASSUME IInv, UNCHANGED vars
  PROVE  IInv'
<1>1. /\ channel' = channel /\ request' = request /\ answer' = answer
      /\ endpoint' = endpoint /\ batch' = batch /\ position' = position
      /\ calling' = calling /\ response_list' = response_list
      /\ failed' = failed /\ told' = told /\ untold' = untold
  BY DEF vars, service, handler, history
<1>2. Types'
  BY <1>1 DEF IInv, Types, Things, Registry!TypeOK, Registry!Request
<1>3. \A w : Same(w)
  BY <1>1 DEF Same
<1>4. \A w \in Callers : Worker(w)'
  BY <1>3, OthersStay DEF IInv
<1>5. \A i : Due(i)' = Due(i)
  <2> SUFFICES ASSUME NEW i PROVE Due(i)' = Due(i)
    OBVIOUS
  <2>1. \A w \in Callers : Term(w, i)' = Term(w, i)
    BY <1>3, OthersStay
  <2>2. [w \in Callers |-> Term(w, i)'] = [w \in Callers |-> Term(w, i)]
    BY <2>1
  <2> QED
    BY <2>2 DEF Due
<1>6. \A i \in Ids \ untold : Bit(i) = told[i] + Due(i)
  BY DEF IInv, ResponsesAccountForChannels, Bit, Due, Term
<1>7. \A i \in Ids \ untold' : Bit(i)' = told'[i] + Due(i)'
  BY <1>1, <1>5, <1>6 DEF Bit
<1>8. ResponsesAccountForChannels'
  BY <1>7 DEF ResponsesAccountForChannels, Bit, Due, Term
<1> QED
  BY <1>2, <1>4, <1>8 DEF IInv

(* The invariant, for any threads, channels, URLs and bound on batches.    *)
THEOREM ApiInvariant == Spec => []IInv
<1>1. Init => IInv
  BY InitKeeps
<1>2. IInv /\ [Next]_vars => IInv'
  <2> SUFFICES ASSUME IInv, [Next]_vars PROVE IInv'
    OBVIOUS
  <2>1. CASE UNCHANGED vars
    BY <2>1, StutterKeeps
  <2>2. ASSUME NEW w \in Callers, Receive(w) \/ Handle(w) PROVE IInv'
    BY <2>2, ReceiveKeeps, AbandonKeeps, CallKeeps, ServeKeeps, CollectKeeps,
       RespondKeeps DEF Handle
  <2> QED
    BY <2>1, <2>2 DEF Next
<1> QED
  BY <1>1, <1>2, PTL DEF Spec

(* The handlers' variables have the types main.cpp gives them, and a       *)
(* thread without a request keeps none of the last one's batch.            *)
THEOREM TypesCorrect == Spec => []TypeOK
<1>1. IInv => TypeOK
  <2> SUFFICES ASSUME IInv PROVE TypeOK
    OBVIOUS
  <2>1. Types /\ \A w \in Callers : Worker(w)
    BY DEF IInv
  <2>2. ASSUME NEW w \in Callers
        PROVE  /\ batch[w] \in IF endpoint[w] = "none" THEN {<<>>}
                                                       ELSE Batches(endpoint[w])
               /\ position[w] \in 0 .. Len(batch[w])
               /\ calling[w] => position[w] < Len(batch[w])
               /\ Len(response_list[w]) + Len(failed[w]) <= position[w]
    <3>1. batch[w] \in Seq(Things) /\ position[w] \in Nat
      BY <2>1 DEF Types
    <3>2. Len(batch[w]) \in Nat
      BY <3>1
    <3>3. Idle(w) /\ Walks(w) /\ Calls(w) /\ Lists(w)
      BY <2>1 DEF Worker
    <3>4. position[w] \in 0 .. Len(batch[w])
      BY <3>1, <3>2, <3>3 DEF Walks
    <3>5. batch[w] \in IF endpoint[w] = "none" THEN {<<>>}
                                               ELSE Batches(endpoint[w])
      BY <3>3 DEF Idle, Walks
    <3> QED
      BY <3>3, <3>4, <3>5 DEF Calls, Lists
  <2> QED
    BY <2>1, <2>2 DEF TypeOK, Types
<1> QED
  BY <1>1, ApiInvariant, PTL

(* A channel is registered exactly when the responses sent and about to be *)
(* sent say so, whatever the threads of the HTTP server overlap.           *)
THEOREM Accounted == Spec => []ResponsesAccountForChannels
<1>1. IInv => ResponsesAccountForChannels
  BY DEF IInv
<1> QED
  BY <1>1, ApiInvariant, PTL

(* SUCCESS of /add means that every item of the batch was added.           *)
THEOREM SuccessIsWhole == Spec => SuccessMeansAllAdded
<1>1. ASSUME IInv, [Next]_vars, NEW w \in Callers, endpoint[w] = "add",
             position[w] = Len(batch[w]), failed[w] = <<>>
      PROVE  response_list[w] = batch[w]
  <2>1. Types /\ Lists(w)
    BY <1>1 DEF IInv, Worker
  <2>2. response_list[w] = SubSeq(batch[w], 1, Len(batch[w]))
    BY <1>1, <2>1 DEF Lists
  <2>3. batch[w] \in Seq(Things)
    BY <2>1 DEF Types
  <2> QED
    BY <2>2, <2>3
<1>2. IInv /\ [Next]_vars =>
        [\A w \in Callers :
           endpoint[w] = "add" /\ Answered(w) /\ failed[w] = <<>>
             => response_list[w] = batch[w]]_vars
  BY <1>1 DEF Answered
<1> QED
  BY <1>2, ApiInvariant, PTL DEF Spec, SuccessMeansAllAdded

=============================================================================
