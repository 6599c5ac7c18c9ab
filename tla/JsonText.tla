------------------------------ MODULE JsonText ------------------------------
(***************************************************************************)
(* JSON as text (headers/crow/json.h): what load() makes of a text, and    *)
(* the text dump() makes of a value.  Request bodies come in through the   *)
(* one, answers leave through the other.                                   *)
(*                                                                         *)
(* A text is a sequence of bytes; the byte after its end is the NUL that   *)
(* load() puts there.  A value has a type t, the bytes raw it was read     *)
(* from, and items, each with a key (<<>> in a list).  Objects of a wvalue *)
(* are written in the order they were filled in: the order of the hash map *)
(* is left out.                                                            *)
(*                                                                         *)
(* The text is put together piece by piece, so that TLC meets every text   *)
(* of the pieces up to MaxPieces.                                          *)
(***************************************************************************)
EXTENDS JsonString

CONSTANTS
  Pieces,           \* for each kind of text the pieces it is built of
  MaxPieces,        \* a bound: how many, for each kind
  MaxDepth,         \* max_depth
  IntMax, UintMax,  \* the largest int64_t and uint64_t
  Places,           \* the decimals of "%f"
  OutBuf            \* the characters that outbuf has room for, without the NUL

ASSUME JsonTextAssumption ==
  /\ {MaxDepth, IntMax, UintMax, Places, OutBuf} \subseteq Nat
  /\ \A k \in DOMAIN Pieces : MaxPieces[k] \in Nat /\ Pieces[k] \subseteq Seq(0..255)

VARIABLES kind, count, text

textVars == <<kind, count, text>>

----------------------------------------------------------------------------
(* Bytes and words.                                                         *)

Blanks == Codes({" ", "\t", "\r", "\n"})
Word == [Null  |-> Bytes(<<"n", "u", "l", "l">>), True |-> Bytes(<<"t", "r", "u", "e">>),
         False |-> Bytes(<<"f", "a", "l", "s", "e">>)]

----------------------------------------------------------------------------
(* load(): what the parser has read and where it is.                        *)

Value(t, raw, items) == [t |-> t, raw |-> raw, items |-> items]
Done(v, p) == [v |-> v, p |-> p]
Fail(p) == Done(Value("error", <<>>, <<>>), p)
Failed(r) == r.v.t = "error"

RECURSIVE WsSkip(_, _)
WsSkip(s, p) == IF At(s, p) \in Blanks THEN WsSkip(s, p + 1) ELSE p

EscapeEnd(s, p) ==
  CASE Is(s, p, "u") /\ (\A k \in 1..4 : IsHex(At(s, p + k))) -> p + 5
    [] At(s, p) \in Codes({"\"", "\\", "/", "b", "f", "n", "r", "t"}) -> p + 1
    [] OTHER -> 0

RECURSIVE StringFrom(_, _, _)
StringFrom(s, start, p) ==
  CASE Is(s, p, "\"") -> Done(Value("String", SubSeq(s, start, p - 1), <<>>), p + 1)
    [] Is(s, p, "nul") -> Fail(p)
    [] Is(s, p, "\\") -> IF EscapeEnd(s, p + 1) = 0 THEN Fail(p + 1)
                         ELSE StringFrom(s, start, EscapeEnd(s, p + 1))
    [] OTHER -> StringFrom(s, start, p + 1)
DecodeString(s, p) == IF Is(s, p, "\"") THEN StringFrom(s, p + 1, p + 1) ELSE Fail(p)

\* NumberParsingState: Minus is 0, Invalid 7; ZeroFirst, Digits, DigitsAfterPoints
\* and DigitsAfterE may end a number.
NumberTable == [
  zero  |-> <<2, 2, 7, 3, 4, 6, 6>>, digit |-> <<3, 3, 7, 3, 4, 6, 6>>,
  point |-> <<7, 7, 4, 4, 7, 7, 7>>, minus |-> <<1, 7, 7, 7, 7, 6, 7>>,
  plus  |-> <<7, 7, 7, 7, 7, 6, 7>>, e     |-> <<7, 7, 7, 5, 5, 7, 7>>]
NumberClass(b) ==
  CASE b = Ascii["0"] -> "zero"
    [] b \in Digits \ {Ascii["0"]} -> "digit"
    [] b = Ascii["."] -> "point"
    [] b = Ascii["-"] -> "minus"
    [] b = Ascii["+"] -> "plus"
    [] b \in {Ascii["e"], Ascii["E"]} -> "e"
    [] OTHER -> "other"

\* (mutant: a zero may be followed by more digits)
NumberStepAnyZero(state, class) ==
  IF state = 2 /\ class \in {"zero", "digit"} THEN 3 ELSE NumberTable[class][state + 1]
NumberStep(state, class) == NumberTable[class][state + 1]

RECURSIVE NumberFrom(_, _, _, _)
NumberFrom(s, start, p, state) ==
  CASE state = 7 -> Fail(p - 1)
    [] state # 7 /\ NumberClass(At(s, p)) # "other" ->
         NumberFrom(s, start, p + 1, NumberStep(state, NumberClass(At(s, p))))
    [] state \in {2, 3, 4, 6} /\ NumberClass(At(s, p)) = "other" ->
         Done(Value("Number", SubSeq(s, start, p - 1), <<>>), p)
    [] OTHER -> Fail(p)
DecodeNumber(s, p) == NumberFrom(s, p, p, 0)

DecodeWord(s, p, t) ==
  IF \A i \in DOMAIN Word[t] : At(s, p + i - 1) = Word[t][i]
  THEN Done(Value(t, <<>>, <<>>), p + Len(Word[t])) ELSE Fail(p)

RECURSIVE DecodeValue(_, _, _), ListFrom(_, _, _, _), ObjectFrom(_, _, _, _)

\* The items of a list from p on, those of v read already.
ListFrom(s, p, depth, v) ==
  LET item == DecodeValue(s, p, depth + 1)
      q == WsSkip(s, item.p)
      longer == [v EXCEPT !.items = Append(@, [key |-> <<>>, v |-> item.v])]
  IN CASE Failed(item) -> item
       [] ~Failed(item) /\ Is(s, q, "]") -> Done(longer, q + 1)
       [] ~Failed(item) /\ Is(s, q, ",") -> ListFrom(s, WsSkip(s, q + 1), depth, longer)
       [] OTHER -> Fail(q)

DecodeList(s, p, depth) ==
  LET first == WsSkip(s, p + 1)
      list == Value("List", <<>>, <<>>)
  IN CASE depth > MaxDepth -> Fail(p)
       [] depth <= MaxDepth /\ Is(s, first, "]") -> Done(list, first + 1)
       [] OTHER -> ListFrom(s, first, depth, list)

\* The members of an object from p on; a key is unescaped at once.
ObjectFrom(s, p, depth, v) ==
  LET key == DecodeString(s, p)
      colon == WsSkip(s, key.p)
      item == DecodeValue(s, WsSkip(s, colon + 1), depth + 1)
      q == WsSkip(s, item.p)
      longer == [v EXCEPT !.items = Append(@, [key |-> Unescape(key.v.raw), v |-> item.v])]
  IN IF Failed(key) THEN key
     ELSE IF ~Is(s, colon, ":") THEN Fail(colon)
     ELSE CASE Failed(item) -> item
            [] ~Failed(item) /\ Is(s, q, "}") -> Done(longer, q + 1)
            [] ~Failed(item) /\ Is(s, q, ",") -> ObjectFrom(s, WsSkip(s, q + 1), depth, longer)
            [] OTHER -> Fail(q)

DecodeObject(s, p, depth) ==
  LET first == WsSkip(s, p + 1)
      object == Value("Object", <<>>, <<>>)
  IN CASE depth > MaxDepth -> Fail(p)
       [] depth <= MaxDepth /\ Is(s, first, "}") -> Done(object, first + 1)
       [] OTHER -> ObjectFrom(s, first, depth, object)

DecodeValue(s, p, depth) ==
  CASE Is(s, p, "[") -> DecodeList(s, p, depth + 1)
    [] Is(s, p, "{") -> DecodeObject(s, p, depth + 1)
    [] Is(s, p, "\"") -> DecodeString(s, p)
    [] Is(s, p, "t") -> DecodeWord(s, p, "True")
    [] Is(s, p, "f") -> DecodeWord(s, p, "False")
    [] Is(s, p, "n") -> DecodeWord(s, p, "Null")
    [] OTHER -> DecodeNumber(s, p)

\* Behind the value only blanks may follow.
Ended(s, r) ==
  LET q == WsSkip(s, r.p)
  IN IF Failed(r) THEN r ELSE IF Is(s, q, "nul") THEN Done(r.v, q) ELSE Fail(q)
Parse(s) == Ended(s, DecodeValue(s, WsSkip(s, 1), 0))
Load(s) == Parse(s).v

----------------------------------------------------------------------------
(* Numbers: what a stream reads of them, and what dump() prints.            *)

NumType(raw) ==
  CASE \E i \in DOMAIN raw : NumberClass(raw[i]) \in {"point", "e"} -> "Floating_point"
    [] \A i \in DOMAIN raw : raw[i] \in Digits -> "Unsigned_integer"
    [] OTHER -> "Signed_integer"

Natural(digits) == FoldLeft(LAMBDA n, b : n * 10 + b - Ascii["0"], 0, digits)
RECURSIVE NaturalText(_)
NaturalText(n) ==
  IF n < 10 THEN <<Ascii["0"] + n>> ELSE NaturalText(n \div 10) \o <<Ascii["0"] + (n % 10)>>

\* i() and u(): out of range, the stream gives the nearest integer there is.
IntegerText(raw) ==
  LET n == Natural(SelectSeq(raw, LAMBDA b : b \in Digits))
      negative == n # 0 /\ Is(raw, 1, "-")
      most == IF negative THEN IntMax + 1
              ELSE IF NumType(raw) = "Signed_integer" THEN IntMax ELSE UintMax
  IN (IF negative THEN <<Ascii["-"]>> ELSE <<>>) \o NaturalText(Min({n, most}))

\* 0.d1d2d3... times ten to the exp; the sign of a zero is left out.
Decimal(negative, digits, exp) ==
  LET nonzero == {i \in DOMAIN digits : digits[i] # Ascii["0"]}
  IN IF nonzero = {} THEN [negative |-> FALSE, digits |-> <<>>, exp |-> 0]
     ELSE [negative |-> negative, digits |-> SubSeq(digits, Min(nonzero), Max(nonzero)),
           exp |-> exp - Min(nonzero) + 1]

\* d(): an exponent without digits makes the stream fail, and the result 0.
\* The value is exact here: the precision and the range of a double are left out.
DecimalOf(raw) ==
  LET first(classes) == Min({i \in DOMAIN raw : NumberClass(raw[i]) \in classes}
                              \cup {Len(raw) + 1})
      OnlyDigits(s) == SelectSeq(s, LAMBDA b : b \in Digits)
      e == first({"e"})
      exponent == SubSeq(raw, e + 1, Len(raw))
      power == (IF Is(exponent, 1, "-") THEN -1 ELSE 1) * Natural(OnlyDigits(exponent))
  IN IF e <= Len(raw) /\ OnlyDigits(exponent) = <<>> THEN Decimal(FALSE, <<>>, 0)
     ELSE Decimal(Is(raw, 1, "-"), OnlyDigits(SubSeq(raw, 1, e - 1)),
                  Len(OnlyDigits(SubSeq(raw, 1, first({"point", "e"}) - 1))) + power)

\* "%f", and what of it snprintf has room for in outbuf.  The digits after Places
\* are cut: no text has one above 4 there.
FixedText(d) ==
  LET digit(i) == IF i \in DOMAIN d.digits THEN d.digits[i] ELSE Ascii["0"]
      printed == (IF d.negative THEN <<Ascii["-"]>> ELSE <<>>)
                   \o (IF d.exp <= 0 THEN <<Ascii["0"]>> ELSE [i \in 1..d.exp |-> digit(i)])
                   \o <<Ascii["."]>> \o [k \in 1..Places |-> digit(d.exp + k)]
  IN SubSeq(printed, 1, Min({OutBuf, Len(printed)}))

\* The trailing zeros cut off: o is where the last run of zeros begins.
RECURSIVE TrimFrom(_, _, _, _)
TrimFrom(s, p, f_state, o) ==
  CASE p > Len(s) -> IF o = 0 THEN s ELSE SubSeq(s, 1, o - 1)
    [] p <= Len(s) /\ f_state = "start" ->
         IF ~Is(s, p, ".") THEN TrimFrom(s, p + 1, "start", o)
         ELSE TrimFrom(s, IF Is(s, p + 1, "0") THEN p + 2 ELSE p + 1, "decp", o)
    [] p <= Len(s) /\ f_state = "decp" ->
         IF Is(s, p, "0") THEN TrimFrom(s, p + 1, "zero", p)
         ELSE TrimFrom(s, p + 1, "decp", o)
    [] OTHER -> IF Is(s, p, "0") THEN TrimFrom(s, p + 1, "zero", o)
                ELSE TrimFrom(s, p + 1, "decp", 0)
\* (mutant: the position of the first zero is kept)
TrimAtFirst(s) ==
  LET point == {i \in DOMAIN s : Is(s, i, ".")}
      zeros == {i \in DOMAIN s : Is(s, i, "0") /\ \E p \in point : i > p + 1}
  IN SubSeq(s, 1, Min(zeros \cup {Len(s) + 1}) - 1)
Trim(s) == TrimFrom(s, 1, "start", 0)

NumberText(raw) ==
  IF NumType(raw) = "Floating_point" THEN Trim(FixedText(DecimalOf(raw))) ELSE IntegerText(raw)

----------------------------------------------------------------------------
(* wvalue(const rvalue&) and dump().                                        *)

\* A wvalue made of what was read: of members with one key, the first stays.
\* Its number is kept as the text that it is written as.
RECURSIVE Wvalue(_)
Wvalue(v) ==
  LET first(i) == v.t = "Object" => \A j \in 1..(i - 1) : v.items[j].key # v.items[i].key
      kept == SelectSeq([i \in DOMAIN v.items |-> i], first)
  IN Value(v.t,
           CASE v.t = "String" -> Unescape(v.raw)
             [] v.t = "Number" -> NumberText(v.raw)
             [] OTHER -> <<>>,
           [n \in DOMAIN kept |-> [key |-> v.items[kept[n]].key,
                                   v |-> Wvalue(v.items[kept[n]].v)]])

DumpString(s) == Bytes(<<"\"">>) \o Escape(s) \o Bytes(<<"\"">>)
\* dump_indentation_part: nothing when indent is DontIndent.
Indentation(indent, level) ==
  IF indent < 0 THEN <<>> ELSE Bytes(<<"\n">>) \o [i \in 1..(indent * level) |-> Ascii[" "]]

RECURSIVE DumpInternal(_, _, _)
DumpInternal(w, indent, level) ==
  LET part(i) ==
        (IF i = 1 THEN <<>> ELSE Bytes(<<",">>) \o Indentation(indent, level + 1))
          \o (IF w.t = "List" THEN <<>>
              ELSE DumpString(w.items[i].key) \o Bytes(<<":">>)
                     \o (IF indent < 0 THEN <<>> ELSE Bytes(<<" ">>)))
          \o DumpInternal(w.items[i].v, indent, level + 1)
      within(open, close) ==
        Bytes(<<open>>) \o Indentation(indent, level + 1)
          \o FlattenSeq([i \in DOMAIN w.items |-> part(i)])
          \o Indentation(indent, level) \o Bytes(<<close>>)
  IN CASE w.t \in DOMAIN Word -> Word[w.t]
       [] w.t = "Number" -> w.raw
       [] w.t = "String" -> DumpString(w.raw)
       [] w.t = "List" -> within("[", "]")
       [] w.t = "Object" -> within("{", "}")

DontIndent == -1
Dump(w, indent) == DumpInternal(w, indent, 0)

----------------------------------------------------------------------------
(* The texts.                                                               *)

TextInit ==
  /\ kind \in DOMAIN Pieces
  /\ count = 0
  /\ text = <<>>

\* A text goes on as long as what is there is not wrong already, and once
\* behind a NUL that ended a document.
Extend ==
  /\ count < MaxPieces[kind]
  /\ \E r \in {Parse(text)} : r.p > Len(text) \/ (~Failed(r) /\ r.p = Len(text))
  /\ \E piece \in Pieces[kind] : text' = text \o piece
  /\ count' = count + 1
  /\ UNCHANGED kind

TextTypeOK ==
  /\ kind \in DOMAIN Pieces
  /\ count \in 0..MaxPieces[kind]
  /\ text \in Seq(0..255)

----------------------------------------------------------------------------
(* The language, as a grammar: the parts of a text between two positions.   *)

All(s, set) == \A i \in DOMAIN s : s[i] \in set
From(s, i) == SubSeq(s, i, Len(s))
Stripped(s) ==
  LET solid == {i \in DOMAIN s : s[i] \notin Blanks}
  IN IF solid = {} THEN <<>> ELSE SubSeq(s, Min(solid), Max(solid))
Inside(s) == SubSeq(s, 2, Len(s) - 1)
Enclosed(s, open, close) ==
  Len(s) >= 2 /\ Is(s, 1, open) /\ Is(s, Len(s), close)

\* RFC 8259's number; but a fraction and the exponent behind its sign need no
\* digit, and a bare 0 takes no exponent.
IsNumber(s) ==
  \E a \in 0..1 : \E b \in a..Len(s) : \E c \in b..Len(s) :
    LET sign == SubSeq(s, 1, a)
        int == SubSeq(s, a + 1, b)
        frac == SubSeq(s, b + 1, c)
        exp == From(s, c + 1)
    IN /\ sign = <<>> \/ sign = <<Ascii["-"]>>
       /\ int # <<>> /\ All(int, Digits) /\ (int[1] = Ascii["0"] => Len(int) = 1)
       /\ frac = <<>> \/ (Is(frac, 1, ".") /\ All(Tail(frac), Digits))
       /\ exp = <<>> \/ /\ Is(exp, 1, "e") \/ Is(exp, 1, "E")
                        /\ Len(exp) >= 2
                        /\ exp[2] \in Digits \cup {Ascii["+"], Ascii["-"]}
                        /\ All(From(exp, 3), Digits)
                        /\ ~(int = <<Ascii["0"]>> /\ frac = <<>>)

RECURSIVE IsChars(_)
IsChars(s) ==
  \/ s = <<>>
  \/ s[1] \notin {Ascii["nul"], Ascii["\""], Ascii["\\"]} /\ IsChars(Tail(s))
  \/ Is(s, 1, "\\") /\ Len(s) >= 2 /\ IsChars(From(s, 3))
       /\ s[2] \in Codes({"\"", "\\", "/", "b", "f", "n", "r", "t"})
  \/ Is(s, 1, "\\") /\ Is(s, 2, "u") /\ Len(s) >= 6 /\ IsChars(From(s, 7))
       /\ \A i \in 3..6 : IsHex(s[i])
IsString(s) == Enclosed(s, "\"", "\"") /\ IsChars(Inside(s))

\* Values, and items separated by commas, nested at most deep levels.
RECURSIVE IsValue(_, _), AreItems(_, _, _)
IsItem(s, t, deep) ==
  IF t = "List" THEN IsValue(Stripped(s), deep)
  ELSE \E i \in DOMAIN s : /\ Is(s, i, ":")
                           /\ IsString(Stripped(SubSeq(s, 1, i - 1)))
                           /\ IsValue(Stripped(From(s, i + 1)), deep)
AreItems(s, t, deep) ==
  \/ IsItem(s, t, deep)
  \/ \E i \in DOMAIN s : /\ Is(s, i, ",")
                         /\ IsItem(SubSeq(s, 1, i - 1), t, deep)
                         /\ AreItems(From(s, i + 1), t, deep)
IsValue(s, deep) ==
  \/ \E t \in DOMAIN Word : s = Word[t]
  \/ IsNumber(s)
  \/ IsString(s)
  \/ /\ deep > 0
     /\ \E t \in {"List", "Object"} :
          /\ IF t = "List" THEN Enclosed(s, "[", "]") ELSE Enclosed(s, "{", "}")
          /\ Stripped(Inside(s)) = <<>> \/ AreItems(Inside(s), t, deep - 1)

\* Up to the first NUL: load() looks no further.
Document(s) == Before(s, {Ascii["nul"]})

(* load() takes exactly the JSON documents (with the liberties IsNumber      *)
(* names, control characters in strings, and anything after a NUL) that are  *)
(* nested half as deep as max_depth says: a level counts twice,              *)
(* json.h:1132 and :980.                                                     *)
AcceptedIsJson ==
  Load(text).t # "error"
    <=> IsValue(Stripped(Document(text)), (MaxDepth + 1) \div 2)

\* The members that a reader finds: of those with one key the first.
Firsts(v) ==
  {i \in DOMAIN v.items : v.t = "Object" =>
     \A j \in 1..(i - 1) : v.items[j].key # v.items[i].key}

\* The characters of a number up to its point, and its value with the decimals
\* that "%f" keeps and outbuf has room for.
WholeLength(d) == Max({1, d.exp}) + (IF d.negative THEN 2 ELSE 1)
Rounded(d) ==
  LET places == Max({0, Min({Places, OutBuf - WholeLength(d)})})
      kept == Min({Len(d.digits), Max({0, d.exp + places})})
  IN Decimal(d.negative, SubSeq(d.digits, 1, kept), d.exp)

\* What a value tells its reader.
RECURSIVE Meaning(_)
Meaning(v) ==
  [t |-> v.t,
   string |-> IF v.t = "String" THEN Unescape(v.raw) ELSE <<>>,
   number |-> IF v.t # "Number" THEN Decimal(FALSE, <<>>, 0)
              ELSE IF NumType(v.raw) = "Floating_point" THEN Rounded(DecimalOf(v.raw))
              ELSE DecimalOf(IntegerText(v.raw)),
   items |-> {<<IF v.t = "List" THEN <<i>> ELSE v.items[i].key, Meaning(v.items[i].v)>>
                : i \in Firsts(v)}]

\* Its numbers fit into outbuf with their point.
RECURSIVE NumbersFit(_)
NumbersFit(v) ==
  /\ v.t = "Number" /\ NumType(v.raw) = "Floating_point" =>
       WholeLength(DecimalOf(v.raw)) <= OutBuf
  /\ \A i \in Firsts(v) : NumbersFit(v.items[i].v)

(* What was loaded, made a wvalue, dumped with or without indentation and    *)
(* loaded again says the same, up to the decimals of "%f" that outbuf has    *)
(* room for and the range of the integers, unless a number has more digits   *)
(* in front of its point than outbuf (json.h:1873, 1889) has room for: it    *)
(* loses the last of them and its point, and comes back as an integer.       *)
ReloadsSame ==
  \A v \in {Load(text)} : v.t # "error" =>
    \A indent \in {DontIndent, 2} :
      Meaning(Load(Dump(Wvalue(v), indent))) = Meaning(v) <=> NumbersFit(v)

\* A number as "%f" and "%.*g" print one: digits on both sides of a point, an
\* exponent of two digits with a sign and then no zero in front.
HasExponent(s) == \E i \in DOMAIN s : NumberClass(s[i]) = "e"
IsPrinted(s) ==
  /\ IsNumber(s)
  /\ ~Is(s, Len(s), ".")
  /\ HasExponent(s) =>
       /\ Len(s) > 4 /\ NumberClass(s[Len(s) - 3]) = "e"
       /\ s[Len(s) - 2] \notin Digits /\ s[Len(s) - 4] \in Digits
       /\ s[1] # Ascii["0"] /\ ~(Is(s, 1, "-") /\ Is(s, 2, "0"))

(* Cutting the zeros off a printed number keeps its value, except that the   *)
(* zero at the end of an exponent goes, too, when the number has a point:    *)
(* 1.1e+10 is dumped as 1.1e+1.                                              *)
TrimKeepsValue ==
  IsPrinted(text) =>
    (DecimalOf(Trim(text)) = DecimalOf(text)
       <=> ~(HasExponent(text) /\ Is(text, Len(text), "0")
               /\ \E i \in DOMAIN text : Is(text, i, ".")))
=============================================================================
