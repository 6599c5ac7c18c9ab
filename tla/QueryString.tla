---------------------------- MODULE QueryString ----------------------------
(***************************************************************************)
(* The parameters of a URL or of a form body (headers/crow/query_string.h):*)
(* the text is cut at every & into pairs, whose values are decoded in      *)
(* place, and looked up by name, one value, a list (name[]) or a           *)
(* dictionary (name[key]); pop does so and takes the pairs away.           *)
(*                                                                         *)
(* A pair is the C string that key_value_pairs_ points to: what follows    *)
(* its NUL is cut off here.  The key stays as it was sent, so that its =   *)
(* can be told from one that was decoded.                                  *)
(***************************************************************************)
EXTENDS AsciiText

CONSTANTS
  UrlPieces,        \* the pieces a URL is built of
  MaxUrlPieces,     \* a bound: how many
  Names,            \* the names that are asked for, spelled plainly
  MaxPairs          \* MAX_KEY_VALUE_PAIRS_COUNT

ASSUME QueryStringAssumption ==
  /\ UrlPieces \subseteq Seq(1..255)
  /\ Names \subseteq Seq(1..255 \ Codes({"=", "#", "&", "+", "%", "[", "]"}))
  /\ MaxUrlPieces \in Nat /\ MaxPairs \in Nat \ {0}

VARIABLES
  url,              \* the text
  length,           \* how many pieces of it there are
  parsed,           \* "no", or what query_string was made of: a "url", a "body"
  key_value_pairs,
  last_pop          \* the last call of a pop: the pairs it gave its caller

queryVars == <<url, length, parsed, key_value_pairs, last_pop>>

Ends == Codes({"=", "#", "&", "nul"})

----------------------------------------------------------------------------
(* Bytes, and how a loop walks over them.                                   *)

\* Where a loop is after k rounds: it begins at a, and a round leads from p to step[p].
Loop(step, a) ==
  LET at[k \in Nat] == IF k = 0 THEN a ELSE step[at[k - 1]] IN at

\* (mutant: escapes in a key are left alone)
QsByteRaw(s, p) ==
  CASE At(s, p) \in Ends -> [b |-> 0, p |-> p + 1]
    [] At(s, p) = Ascii["+"] -> [b |-> Ascii[" "], p |-> p + 1]
    [] OTHER -> [b |-> At(s, p), p |-> p + 1]

\* The byte at p as qs_strncmp compares it and as qs_decode writes it, and where
\* the next one is: a 0 where the text ends, at a bad escape or at a %00.
QsByte(s, p) ==
  CASE At(s, p) \in Ends -> [b |-> 0, p |-> p + 1]
    [] At(s, p) = Ascii["+"] -> [b |-> Ascii[" "], p |-> p + 1]
    [] At(s, p) = Ascii["%"] ->
         [b |-> IF IsHex(At(s, p + 1)) /\ IsHex(At(s, p + 2))
                THEN 16 * FromHex(At(s, p + 1)) + FromHex(At(s, p + 2)) ELSE 0,
          p |-> p + 3]
    [] OTHER -> [b |-> At(s, p), p |-> p + 1]

\* Where the bytes of s begin, the first of them at Starts(s)[0].
Starts(s) == Loop([p \in Nat |-> QsByte(s, p).p], 1)

----------------------------------------------------------------------------
(* Parsing and looking up.                                                  *)

\* qs_decode; what it writes is a C string again, up to the first NUL.
QsDecode(s) ==
  LET at == Starts(s)
      over == {k \in 0..Len(s) : QsByte(s, at[k]).b = 0}
  IN [k \in 1..Min(over) |-> QsByte(s, at[k - 1]).b]

\* The text from p up to the next &, and the pair it becomes.
Segment(s, p) == Before(SubSeq(s, p, Len(s)), Codes({"&"}))
Pair(segment) ==
  LET key == Before(segment, Codes({"=", "#"}))
  IN IF key = segment THEN segment
     ELSE SubSeq(segment, 1, Len(key) + 1)
            \o QsDecode(SubSeq(segment, Len(key) + 2, Len(segment)))

\* Where the segment behind the one at p begins, or 0 behind the last.
Following(s, p) ==
  LET end == p + Len(Segment(s, p)) IN IF p = 0 \/ end > Len(s) THEN 0 ELSE end + 1

\* The pairs from first on, at most n of them.
Pairs(s, first, n) ==
  LET begin == Loop([p \in Nat |-> Following(s, p)], first)
      count == Cardinality({k \in 0..(n - 1) : begin[k] # 0})
  IN [k \in 1..count |-> Pair(Segment(s, begin[k - 1]))]

\* parse_url: what is behind the first ? or #, if there is one.
FirstPair(s, parse_url) ==
  LET start == Len(Before(s, Codes({"?", "#"})))
  IN IF ~parse_url THEN 1 ELSE IF start = Len(s) THEN 0 ELSE start + 2

\* (mutant: as many pairs as there are)
QsParseUncapped(s, parse_url) == Pairs(s, FirstPair(s, parse_url), Len(s) + 1)
QsParse(s, parse_url) == Pairs(s, FirstPair(s, parse_url), MaxPairs)

\* qs_strncmp(name, pair, strlen(name)) == 0: the bytes are compared one by one,
\* up to a NUL in both; behind the last one the key must end.
QsEqual(name, pair) ==
  LET at == Starts(name)
      to == Starts(pair)
      same(k) == QsByte(name, at[k]).b = QsByte(pair, to[k]).b
      over == {k \in 0..(Len(name) - 1) : ~same(k) \/ QsByte(name, at[k]).b = 0}
  IN IF over = {} THEN At(pair, to[Len(name)]) \in Ends ELSE same(Min(over))

\* The pairs that qs_k2v finds for a name, and the value of one.
Found(pairs, name) == {i \in DOMAIN pairs : QsEqual(name, pairs[i])}
ValueOf(pair) ==
  LET skip == Len(Before(pair, Codes({"="}))) IN SubSeq(pair, skip + 2, Len(pair))

None == [found |-> FALSE, value |-> <<>>]
Some(value) == [found |-> TRUE, value |-> value]
Get(pairs, name) ==
  IF Found(pairs, name) = {} THEN None ELSE Some(ValueOf(pairs[Min(Found(pairs, name))]))

ListName(name) == name \o Bytes(<<"[", "]">>)
GetList(pairs, name) == Found(pairs, ListName(name))

\* Up to where a [ opens a dictionary's key and to where a ] closes it; the key.
Opened(pair) ==
  LET open == Len(Before(pair, Codes({"["}))) IN IF open < Len(pair) THEN open + 1 ELSE open
Closed(pair) == Len(Before(pair, Codes({"]"})))
BracketsFit(pair) == Opened(pair) <= Closed(pair) /\ Opened(pair) > 0 /\ Closed(pair) > 0
DictKey(pair) == SubSeq(pair, Opened(pair) + 1, Closed(pair))

\* The pairs whose text begins with a prefix.
Spelled(pairs, prefix) == {i \in DOMAIN pairs : IsPrefix(prefix, pairs[i])}

\* The pairs that get_dict comes to: those that begin with the name, up to one
\* whose brackets are in the wrong order; of those with one key it returns the
\* first: insert() leaves what the map already has.
DictPairs(pairs, name) ==
  {i \in Spelled(pairs, name) :
     \A j \in Spelled(pairs, name) : j <= i => BracketsFit(pairs[j])}
GetDict(pairs, name) ==
  {i \in DictPairs(pairs, name) :
     \A j \in DictPairs(pairs, name) : DictKey(pairs[j]) = DictKey(pairs[i]) => i <= j}

\* What pop, pop_list and pop_dict take away: pairs spelled just so.
Popped(pairs, name) ==
  LET spelled == Spelled(pairs, name \o Bytes(<<"=">>))
  IN IF Found(pairs, name) = {} \/ spelled = {} THEN {} ELSE {Min(spelled)}
PoppedList(pairs, name) ==
  IF GetList(pairs, name) = {} THEN {} ELSE Spelled(pairs, ListName(name) \o Bytes(<<"=">>))
PoppedDict(pairs, name) ==
  IF GetDict(pairs, name) = {} THEN {} ELSE Spelled(pairs, name \o Bytes(<<"[">>))

\* The pairs that are left, in order.
Left(pairs, taken) ==
  LET next(p) == Min({q \in DOMAIN pairs \ taken : q > p} \cup {Len(pairs) + 1})
      at == Loop([p \in Nat |-> next(p)], 0)
  IN [n \in 1..Cardinality(DOMAIN pairs \ taken) |-> pairs[at[n]]]
\* (mutant: the index is not set back after an erase)
WithoutSkipping(pairs, taken) == Left(pairs, {i \in taken : (i - 1) \notin taken})
Without(pairs, taken) == Left(pairs, taken)

----------------------------------------------------------------------------
NoPop == [op |-> "none", name |-> <<>>, returned |-> {}]

QueryInit ==
  /\ url = <<>>
  /\ length = 0
  /\ parsed = "no"
  /\ key_value_pairs = <<>>
  /\ last_pop = NoPop

\* A client writes its URL.
Write ==
  /\ parsed = "no"
  /\ length < MaxUrlPieces
  /\ \E piece \in UrlPieces : url' = url \o piece
  /\ length' = length + 1
  /\ UNCHANGED <<parsed, key_value_pairs, last_pop>>

\* query_string(url), or query_string(body, false) of a form.
Construct ==
  /\ parsed = "no"
  /\ \E source \in {"url", "body"} :
       /\ parsed' = source
       /\ key_value_pairs' = IF url = <<>> THEN <<>> ELSE QsParse(url, source = "url")
  /\ UNCHANGED <<url, length, last_pop>>

\* A pop; one that gives nothing and takes nothing away is no step.
Take(op, name, returned, taken) ==
  /\ parsed # "no" /\ returned \cup taken # {}
  /\ last_pop' = [op |-> op, name |-> name, returned |-> returned]
  /\ key_value_pairs' = Without(key_value_pairs, taken)
  /\ UNCHANGED <<url, length, parsed>>

Pop(name) ==
  LET found == Found(key_value_pairs, name)
  IN Take("pop", name, {i \in found : i = Min(found)}, Popped(key_value_pairs, name))
PopList(name) ==
  Take("pop_list", name, GetList(key_value_pairs, name), PoppedList(key_value_pairs, name))
PopDict(name) ==
  Take("pop_dict", name, GetDict(key_value_pairs, name), PoppedDict(key_value_pairs, name))

QueryNext == Write \/ Construct \/ \E name \in Names : Pop(name) \/ PopList(name) \/ PopDict(name)

QuerySpec == QueryInit /\ [][QueryNext]_queryVars

QueryTypeOK ==
  /\ url \in Seq(1..255)
  /\ length \in 0..MaxUrlPieces
  /\ parsed \in {"no", "url", "body"}
  /\ key_value_pairs \in Seq(Seq(1..255)) /\ Len(key_value_pairs) <= MaxPairs
  /\ last_pop.op \in {"none", "pop", "pop_list", "pop_dict"}
  /\ last_pop.returned \subseteq 1..MaxPairs

----------------------------------------------------------------------------
(* What a URL says, by positions.                                            *)

\* Where pairs begin: behind a & and at first.
Begins(s, first) ==
  {b \in 1..(Len(s) + 1) : b = first \/ (b > first /\ Is(s, b - 1, "&"))}

\* What is said at i, which begins an escape or is in none.
Escapes(s) == {i \in DOMAIN s : Is(s, i, "%")}
Sound(s) == \A i \in Escapes(s) : IsHex(At(s, i + 1)) /\ IsHex(At(s, i + 2))
Whole(s) == {i \in DOMAIN s : {i - 1, i - 2} \cap Escapes(s) = {}}
WholeByte(s, i) ==
  IF i \in Escapes(s) THEN 16 * FromHex(At(s, i + 1)) + FromHex(At(s, i + 2))
  ELSE IF Is(s, i, "+") THEN Ascii[" "] ELSE s[i]

\* The bytes that s says, all of them in order.
Says(s, bytes) ==
  /\ Sound(s)
  /\ Len(bytes) = Cardinality(Whole(s))
  /\ \A i \in Whole(s) : bytes[Cardinality({j \in Whole(s) : j <= i})] = WholeByte(s, i)

\* A value ends with its pair, at another = or #, at a bad escape or at a %00.
EndsValue(s, i) ==
  \/ s[i] \in Codes({"=", "#"})
  \/ Is(s, i, "%") /\ (IsHex(At(s, i + 1)) /\ IsHex(At(s, i + 2)) => WholeByte(s, i) = 0)
ValueText(s) == SubSeq(s, 1, Min({i \in DOMAIN s : EndsValue(s, i)} \cup {Len(s) + 1}) - 1)

(* get() gives the value of the first of the pairs of the URL, up to         *)
(* MaxPairs, whose decoded key is the name, decoded as far as it goes;       *)
(* without an = it is empty.                                                 *)
GetFindsFirst ==
  parsed # "no" /\ last_pop = NoPop /\ url # <<>> =>
    LET begins == IF FirstPair(url, parsed = "url") = 0 THEN {}
                  ELSE Begins(url, FirstPair(url, parsed = "url"))
        key(b) == Before(Segment(url, b), Codes({"=", "#"}))
        behind(b) == SubSeq(Segment(url, b), Len(key(b)) + 2, Len(Segment(url, b)))
    IN \A name \in Names :
         LET match == {b \in begins : /\ Cardinality({c \in begins : c < b}) < MaxPairs
                                      /\ Says(key(b), name)}
             b == Min(match)
             got == Get(key_value_pairs, name)
         IN IF match = {} THEN got = None
            ELSE /\ got.found
                 /\ ~Is(Segment(url, b), Len(key(b)) + 1, "#") =>
                      Says(ValueText(behind(b)), got.value)

\* The key behind name[, and whether no two pairs spelled name[ have the same.
KeyBehind(name, pair) == Before(SubSeq(pair, Len(name) + 2, Len(pair)), Codes({"]"}))
KeysDiffer(pairs, name) ==
  \A i, j \in DOMAIN pairs :
    /\ IsPrefix(name \o Bytes(<<"[">>), pairs[i])
    /\ IsPrefix(name \o Bytes(<<"[">>), pairs[j])
    /\ KeyBehind(name, pairs[i]) = KeyBehind(name, pairs[j])
    => i = j

\* The pairs the last pop gave are spelled as it looks for them to take away.
SpelledAsTaken(pairs, pop) ==
  CASE pop.op = "pop" ->
         \A i \in pop.returned : IsPrefix(pop.name \o Bytes(<<"=">>), pairs[i])
    [] pop.op = "pop_list" ->
         \A i \in pop.returned : IsPrefix(ListName(pop.name) \o Bytes(<<"=">>), pairs[i])
    [] pop.op = "pop_dict" ->
         \A i \in DOMAIN pairs :
           IsPrefix(pop.name, pairs[i]) => IsPrefix(pop.name \o Bytes(<<"[">>), pairs[i])

(* "... except it removes the item from the query string" (query_string.h:375, *)
(* and 454 of pop_dict): a pop removes just the pairs that it gives its caller *)
(* if their keys are written without escapes and with their =, and for pop and *)
(* pop_list only then.  pop_dict does so if all that begins with the name goes *)
(* on with [ and no two keys in the brackets are the same; if two are, it also *)
(* removes a pair that it does not give.                                       *)
PopRemovesWhatItReturns ==
  [][parsed # "no" /\ last_pop' # NoPop =>
       LET pop == last_pop'
           removed == key_value_pairs' = Left(key_value_pairs, pop.returned)
           differ == pop.op = "pop_dict" => KeysDiffer(key_value_pairs, pop.name)
       IN /\ SpelledAsTaken(key_value_pairs, pop) /\ differ => removed
          /\ removed /\ pop.returned # {} => differ
          /\ removed /\ pop.op # "pop_dict" => SpelledAsTaken(key_value_pairs, pop)]_queryVars
=============================================================================
