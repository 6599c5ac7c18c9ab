------------------------------ MODULE UrlRules ------------------------------
(***************************************************************************)
(* The rules of an application as Crow's router has them                   *)
(* (headers/crow/routing.h): the URL of a rule and the URLs it takes.  A   *)
(* URL is a sequence of characters; in a rule's URL a parameter such as    *)
(* <int> is one token.                                                     *)
(*                                                                         *)
(* IntMax and UintMax stand for the largest values of strtoll and          *)
(* strtoull: a number above them is a range error.                         *)
(***************************************************************************)
EXTENDS Integers, Sequences, SequencesExt

CONSTANTS
  Methods,          \* the HTTP methods
  IntMax, UintMax

ASSUME UrlRulesAssumption == IntMax \in Nat /\ UintMax \in Nat /\ IntMax <= UintMax

RULE_SPECIAL_REDIRECT_SLASH == 1

\* paramTraits: the names a rule's URL may use, with the type of each.
ParamType(token) ==
  CASE token = "<int>"                     -> "INT"
    [] token = "<uint>"                    -> "UINT"
    [] token \in {"<float>", "<double>"}   -> "DOUBLE"
    [] token \in {"<str>", "<string>"}     -> "STRING"
    [] token = "<path>"                    -> "PATH"
    [] OTHER                               -> "NONE"

\* upgrade(): a websocket rule takes the place of the rule, with its URL.
Upgraded(rule) == IF rule.does = "socket" THEN [rule EXCEPT !.methods = {"Get"}] ELSE rule

HasSlash(rule) == Len(rule.url) > 1 /\ Last(rule.url) = "/"

\* A node of a search tree holds the rule that ends there (0 for none) and its children.
Node(key, param) == [rule |-> 0, key |-> key, param |-> param, children |-> <<>>]
Head_ == Node(<<>>, "NONE")

\* PerMethod: rules 0 and 1 have a special meaning.
NoRules == [rules |-> <<"none", "redirect">>, trie |-> Head_]

----------------------------------------------------------------------------
(* What a parameter takes of a URL.                                         *)

Digits == <<"0", "1", "2", "3", "4", "5", "6", "7", "8", "9">>
Digit == ToSet(Digits)
DigitValue(c) == SelectInSeq(Digits, LAMBDA d : d = c) - 1

\* The first position at or after pos that holds none of chars.
RunEnd(url, pos, chars) ==
  CHOOSE q \in pos..(Len(url) + 1) :
    /\ q = Len(url) + 1 \/ url[q] \notin chars
    /\ \A k \in pos..(q - 1) : url[k] \in chars

AfterSign(url, pos) == IF url[pos] \in {"+", "-"} THEN pos + 1 ELSE pos

\* strtoll and strtoull: the number that the digits from start to end - 1 are.
ValueOf(url, pos, end) ==
  LET start  == AfterSign(url, pos)
      number == FoldLeft(LAMBDA n, d : 10 * n + DigitValue(d), 0, SubSeq(url, start, end - 1))
  IN IF url[pos] = "-" THEN -number ELSE number

\* strtod: digits with at most one point among them, one digit at least.
DoubleEnd(url, start) ==
  LET whole == RunEnd(url, start, Digit)
      point == whole <= Len(url) /\ url[whole] = "."
      end   == IF point THEN RunEnd(url, whole + 1, Digit) ELSE whole
  IN IF \E k \in start..(end - 1) : url[k] \in Digit THEN end ELSE start

\* The position after what a parameter takes of the URL from pos on, or pos
\* when it takes nothing.
ParamEnd(param, url, pos) ==
  LET end == RunEnd(url, AfterSign(url, pos), Digit)
      fits(low, high) == end > AfterSign(url, pos) /\ ValueOf(url, pos, end) \in low..high
  IN CASE param = "INT"    -> IF fits(-IntMax - 1, IntMax) THEN end ELSE pos
       [] param = "UINT"   -> IF url[pos] # "-" /\ fits(0, UintMax) THEN end ELSE pos
       [] param = "DOUBLE" ->
            LET e == DoubleEnd(url, AfterSign(url, pos))
            IN IF e > AfterSign(url, pos) THEN e ELSE pos
       [] param = "STRING" -> RunEnd(url, pos, {c \in ToSet(url) : c # "/"})
       [] param = "PATH"   -> Len(url) + 1

NoParams == [INT |-> <<>>, UINT |-> <<>>, DOUBLE |-> <<>>, STRING |-> <<>>]

\* A path is kept among the strings, a number by its value.
Push(params, param, url, pos, end) ==
  LET list  == IF param = "PATH" THEN "STRING" ELSE param
      value == IF param \in {"INT", "UINT"} THEN <<ValueOf(url, pos, end)>> ELSE SubSeq(url, pos, end - 1)
  IN [params EXCEPT ![list] = Append(@, value)]

----------------------------------------------------------------------------
(* What a rule promises: its tokens, one after the other, take the URL.     *)

Step(at, token, url) ==
  IF at.pos = 0 \/ at.pos > Len(url) THEN [at EXCEPT !.pos = 0]
  ELSE IF ParamType(token) = "NONE"
       THEN [at EXCEPT !.pos = IF url[@] = token THEN @ + 1 ELSE 0]
       ELSE LET end == ParamEnd(ParamType(token), url, at.pos)
            IN IF end = at.pos THEN [at EXCEPT !.pos = 0]
               ELSE [pos |-> end, params |-> Push(at.params, ParamType(token), url, at.pos, end)]

Walk(tokens, url) ==
  FoldLeft(LAMBDA at, token : Step(at, token, url), [pos |-> 1, params |-> NoParams], tokens)

Matches(tokens, url) == Walk(tokens, url).pos = Len(url) + 1
=============================================================================
