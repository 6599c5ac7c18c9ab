---------------------------- MODULE Text_proofs ----------------------------
(***************************************************************************)
(* Theorems about JsonString (a string that is escaped reads back), about  *)
(* JsonRead and JsonWrite (strings that are read through several           *)
(* variables, the array of a list, values that are written), about         *)
(* UriParts (what parseUri finds in every URL) and about QueryString (the  *)
(* pair that get() finds, the pairs that a pop removes).                   *)
(***************************************************************************)
EXTENDS JsonRead, JsonWrite, UriParts, QueryString, LeastElements, SequenceTheorems

-----------------------------------------------------------------------------
(* What unescape() makes of a string.                                      *)

(* One character and the rest, when f[q] is what begins at q.              *)
Onward(f, s, p) ==
  IF p \in DOMAIN s THEN CharAt(s, p) \o f[AfterChar(s, p)] ELSE <<>>

From(s) == CHOOSE f : f = [p \in Nat |-> Onward(f, s, p)]

Sequence(x) == \E T : x \in Seq(T)

(* Unescape, with its recursive function written out.                      *)
LEMMA UnescapeIsFrom ==
  ASSUME NEW s
  PROVE  Unescape(s) = From(s)[1]
BY DEF Unescape, From, Onward

(* The next character begins further on.                                   *)
LEMMA AfterIsLater ==
  ASSUME NEW s, NEW p \in Nat
  PROVE  AfterChar(s, p) \in Nat /\ AfterChar(s, p) > p
BY DEF AfterChar

(* A character is a sequence of bytes.                                     *)
LEMMA CharIsSequence ==
  ASSUME NEW s, NEW p \in Nat
  PROVE  Sequence(CharAt(s, p))
<1>1. \A x : Sequence(<<x>>)
  <2>1. \A x : <<x>> \in Seq({x})
    OBVIOUS
  <2> QED
    BY <2>1 DEF Sequence
<1>2. \A x, y : Sequence(<<x, y>>)
  <2>1. \A x, y : <<x, y>> \in Seq({x, y})
    OBVIOUS
  <2> QED
    BY <2>1 DEF Sequence
<1>3. \A x, y, z : Sequence(<<x, y, z>>)
  <2>1. \A x, y, z : <<x, y, z>> \in Seq({x, y, z})
    OBVIOUS
  <2> QED
    BY <2>1 DEF Sequence
<1>4. ASSUME NEW code PROVE Sequence(Utf8(code))
  <2> DEFINE long == <<224 + (code \div 4096), 128 + ((code \div 64) % 64), 128 + (code % 64)>>
             short == <<192 + code \div 64, 128 + (code % 64)>>
  <2>1. Sequence(long) /\ Sequence(short) /\ Sequence(<<code>>)
    BY <1>1, <1>2, <1>3
  <2>2. Utf8(code) = CASE code >= 2048 -> long
                       [] code < 2048 /\ code >= 128 -> short
                       [] OTHER -> <<code>>
    BY Zenon DEF Utf8
  <2> HIDE DEF long, short
  <2> QED
    BY <2>1, <2>2
<1> QED
  BY <1>1, <1>4 DEF CharAt

(* So are two sequences, one behind the other, and the empty one.          *)
LEMMA JoinedIsSequence ==
  ASSUME NEW x, NEW y, Sequence(x), Sequence(y)
  PROVE  Sequence(x \o y)
<1>1. PICK T : x \in Seq(T)
  BY DEF Sequence
<1>2. PICK U : y \in Seq(U)
  BY DEF Sequence
<1>3. x \in Seq(T \cup U) /\ y \in Seq(T \cup U)
  BY <1>1, <1>2
<1>4. x \o y \in Seq(T \cup U)
  BY <1>3
<1> QED
  BY <1>4 DEF Sequence

(* f is right about the last n characters.                                 *)
RightFrom(f, s, n) ==
  /\ f = [p \in Nat |-> f[p]]
  /\ \A p \in Nat : p > Len(s) - n => f[p] = Onward(f, s, p) /\ Sequence(f[p])

(* The recursive function exists: it is built from the end of the string.  *)
LEMMA RightExists ==
  ASSUME NEW S, NEW s \in Seq(S), NEW n \in Nat
  PROVE  \E f : RightFrom(f, s, n)
<1> DEFINE N == {m \in Nat : ~\E f : RightFrom(f, s, m)}
<1> SUFFICES ASSUME N # {} PROVE FALSE
  OBVIOUS
<1>1. PICK m \in N : \A k \in N : m <= k
  <2>1. N \in SUBSET Nat
    OBVIOUS
  <2> HIDE DEF N
  <2> QED
    BY <2>1, LeastNat
<1>2. m \in Nat /\ Len(s) \in Nat /\ DOMAIN s = 1 .. Len(s)
  OBVIOUS
<1>3. CASE m = 0
  <2> DEFINE f == [p \in Nat |-> <<>>]
  <2>1. Sequence(<<>>)
    <3>1. <<>> \in Seq({})
      OBVIOUS
    <3> QED
      BY <3>1 DEF Sequence
  <2>2. ASSUME NEW p \in Nat, p > Len(s) - m PROVE f[p] = Onward(f, s, p) /\ Sequence(f[p])
    <3>1. p \notin DOMAIN s
      BY <1>2, <1>3, <2>2
    <3> QED
      BY <2>1, <3>1 DEF Onward
  <2>3. RightFrom(f, s, m)
    BY <2>2 DEF RightFrom
  <2> QED
    BY <1>1, <2>3
<1>4. CASE m # 0
  <2>1. m - 1 \in Nat /\ m - 1 \notin N
    BY <1>1, <1>2, <1>4
  <2>2. PICK f : RightFrom(f, s, m - 1)
    BY <2>1
  <2> DEFINE q == Len(s) - (m - 1)
             g == [p \in Nat |-> IF p = q THEN Onward(f, s, q) ELSE f[p]]
  <2>3. q \in Int
    BY <1>2
  <2>4. \A p \in Nat : p >= q => AfterChar(s, p) \in Nat /\ g[AfterChar(s, p)] = f[AfterChar(s, p)]
                                  /\ Sequence(f[AfterChar(s, p)])
    <3> SUFFICES ASSUME NEW p \in Nat, p >= q
                 PROVE  /\ AfterChar(s, p) \in Nat
                        /\ g[AfterChar(s, p)] = f[AfterChar(s, p)]
                        /\ Sequence(f[AfterChar(s, p)])
      OBVIOUS
    <3>1. AfterChar(s, p) \in Nat /\ AfterChar(s, p) > q /\ AfterChar(s, p) # q
      BY AfterIsLater, <2>3
    <3>2. Sequence(f[AfterChar(s, p)])
      BY <2>2, <3>1 DEF RightFrom
    <3> QED
      BY <3>1, <3>2
  <2>5. \A p \in Nat : p >= q => Onward(g, s, p) = Onward(f, s, p) /\ Sequence(Onward(f, s, p))
    <3> SUFFICES ASSUME NEW p \in Nat, p >= q
                 PROVE  Onward(g, s, p) = Onward(f, s, p) /\ Sequence(Onward(f, s, p))
      OBVIOUS
    <3>1. Sequence(<<>>)
      <4>1. <<>> \in Seq({})
        OBVIOUS
      <4> QED
        BY <4>1 DEF Sequence
    <3>2. Sequence(CharAt(s, p) \o f[AfterChar(s, p)])
      BY <2>4, CharIsSequence, JoinedIsSequence
    <3>3. g[AfterChar(s, p)] = f[AfterChar(s, p)]
      BY <2>4
    <3> HIDE DEF g, q
    <3> QED
      BY <3>1, <3>2, <3>3 DEF Onward
  <2>6. ASSUME NEW p \in Nat, p > Len(s) - m PROVE g[p] = Onward(g, s, p) /\ Sequence(g[p])
    <3>1. p >= q
      BY <1>2, <2>3, <2>6
    <3>2. CASE p = q
      BY <2>5, <3>1, <3>2
    <3>3. CASE p # q
      <4>1. p > q /\ g[p] = f[p]
        BY <3>1, <3>3, <2>3
      <4>2. f[p] = Onward(f, s, p) /\ Sequence(f[p])
        BY <2>2, <4>1 DEF RightFrom
      <4> QED
        BY <2>5, <3>1, <4>1, <4>2
    <3> QED
      BY <3>2, <3>3
  <2>7. RightFrom(g, s, m)
    BY <2>6 DEF RightFrom
  <2> QED
    BY <1>1, <2>7
<1> QED
  BY <1>3, <1>4

(* What Unescape walks through is a function that is right everywhere.     *)
LEMMA FromIsRight ==
  ASSUME NEW S, NEW s \in Seq(S)
  PROVE  From(s) = [p \in Nat |-> Onward(From(s), s, p)]
<1>1. Len(s) + 1 \in Nat /\ Len(s) \in Nat
  OBVIOUS
<1>2. PICK f : RightFrom(f, s, Len(s) + 1)
  BY <1>1, RightExists
<1>3. \A p \in Nat : f[p] = Onward(f, s, p)
  BY <1>1, <1>2 DEF RightFrom
<1>4. f = [p \in Nat |-> f[p]]
  BY <1>2 DEF RightFrom
<1>5. f = [p \in Nat |-> Onward(f, s, p)]
  BY <1>3, <1>4, Zenon
<1> QED
  BY <1>5 DEF From

(* What is unescaped is a sequence again.                                  *)
LEMMA UnescapeIsSequence ==
  ASSUME NEW S, NEW s \in Seq(S)
  PROVE  Sequence(Unescape(s))
<1>1. Len(s) + 1 \in Nat /\ Len(s) \in Nat
  OBVIOUS
<1>2. From(s) = [p \in Nat |-> Onward(From(s), s, p)]
  BY FromIsRight
<1> DEFINE N == {n \in Nat : ~\A p \in Nat : p > Len(s) - n => Sequence(From(s)[p])}
<1>3. N = {}
  <2> SUFFICES ASSUME N # {} PROVE FALSE
    OBVIOUS
  <2>1. N \in SUBSET Nat
    OBVIOUS
  <2>2. PICK n \in N : \A m \in N : n <= m
    <3> HIDE DEF N
    <3> QED
      BY <2>1, LeastNat
  <2>3. PICK p \in Nat : p > Len(s) - n /\ ~Sequence(From(s)[p])
    OBVIOUS
  <2>4. From(s)[p] = Onward(From(s), s, p)
    BY <1>2
  <2>5. Sequence(<<>>)
    <3>1. <<>> \in Seq({})
      OBVIOUS
    <3> QED
      BY <3>1 DEF Sequence
  <2>6. p \in DOMAIN s /\ ~Sequence(CharAt(s, p) \o From(s)[AfterChar(s, p)])
    BY <2>3, <2>4, <2>5 DEF Onward
  <2>7. ~Sequence(From(s)[AfterChar(s, p)])
    BY <2>6, CharIsSequence, JoinedIsSequence
  <2>8. AfterChar(s, p) \in Nat /\ AfterChar(s, p) > p
    BY AfterIsLater
  <2>9. n \in Nat /\ DOMAIN s = 1 .. Len(s)
    OBVIOUS
  <2>10. n # 0 /\ n - 1 \in Nat /\ AfterChar(s, p) > Len(s) - (n - 1)
    BY <1>1, <2>3, <2>6, <2>8, <2>9
  <2>11. n - 1 \in N
    BY <2>7, <2>8, <2>10
  <2>12. n <= n - 1
    <3> HIDE DEF N
    <3> QED
      BY <2>2, <2>11
  <2> QED
    BY <2>9, <2>12
<1>4. Sequence(From(s)[1])
  <2>1. Len(s) + 1 \notin N /\ 1 > Len(s) - (Len(s) + 1)
    BY <1>1, <1>3
  <2> QED
    BY <1>1, <2>1
<1> QED
  BY <1>4, UnescapeIsFrom

(* The byte at a place and what follows it.                                *)
LEMMA RestIs ==
  ASSUME NEW S, NEW s \in Seq(S), NEW p \in 1 .. Len(s)
  PROVE  <<s[p]>> \o SubSeq(s, p + 1, Len(s)) = SubSeq(s, p, Len(s))
<1> DEFINE rest(k) == SubSeq(s, k, Len(s))
<1>1. s[p] \in S
  OBVIOUS
<1>2. Len(rest(p)) = Len(s) - p + 1 /\ rest(p) \in Seq(S)
  BY <1>1
<1>3. Len(rest(p + 1)) = Len(s) - p /\ rest(p + 1) \in Seq(S)
  BY <1>1
<1>4. \A i \in 1 .. Len(s) - p + 1 : (<<s[p]>> \o rest(p + 1))[i] = rest(p)[i]
  BY <1>1, <1>3
<1>5. Len(<<s[p]>> \o rest(p + 1)) = Len(s) - p + 1 /\ <<s[p]>> \o rest(p + 1) \in Seq(S)
  BY <1>1, <1>3
<1> QED
  BY <1>2, <1>4, <1>5, SeqEqual

(* A string without a backslash stands for itself.                         *)
LEMMA PlainStays ==
  ASSUME NEW S, NEW s \in Seq(S), \A i \in DOMAIN s : ~Is(s, i, "\\")
  PROVE  Unescape(s) = s
<1> DEFINE f == From(s)
           rest(p) == SubSeq(s, p, Len(s))
           N == {n \in 0 .. Len(s) : f[Len(s) - n + 1] # rest(Len(s) - n + 1)}
<1>1. Len(s) \in Nat /\ DOMAIN s = 1 .. Len(s)
  OBVIOUS
<1>2. \A p \in Nat : f[p] = Onward(f, s, p)
  BY FromIsRight
<1>3. \A p \in DOMAIN s : CharAt(s, p) = <<s[p]>> /\ AfterChar(s, p) = p + 1
  BY DEF CharAt, AfterChar, Escaped
<1>4. \A p \in DOMAIN s : <<s[p]>> \o rest(p + 1) = rest(p)
  BY <1>1, RestIs
<1>5. rest(Len(s) + 1) = <<>>
  BY <1>1
<1>6. N = {}
  <2> SUFFICES ASSUME N # {} PROVE FALSE
    OBVIOUS
  <2>1. N \in SUBSET Nat
    BY <1>1
  <2>2. PICK n \in N : \A m \in N : n <= m
    <3> HIDE DEF N
    <3> QED
      BY <2>1, LeastNat
  <2> DEFINE p == Len(s) - n + 1
  <2>3. n \in 0 .. Len(s) /\ f[p] # rest(p)
    OBVIOUS
  <2>4. p \in Nat
    BY <1>1, <2>3
  <2>5. f[p] = Onward(f, s, p)
    BY <1>2, <2>4
  <2>6. CASE n = 0
    <3>1. p = Len(s) + 1 /\ p \notin DOMAIN s
      BY <1>1, <2>6
    <3>2. f[p] = <<>>
      BY <2>5, <3>1 DEF Onward
    <3> QED
      BY <1>5, <2>3, <3>1, <3>2
  <2>7. CASE n # 0
    <3>1. n - 1 \in 0 .. Len(s) /\ p \in DOMAIN s /\ Len(s) - (n - 1) + 1 = p + 1
      BY <1>1, <2>3, <2>7
    <3>2. n - 1 \notin N
      <4>1. ~(n <= n - 1)
        BY <1>1, <2>3
      <4> HIDE DEF N
      <4> QED
        BY <2>2, <4>1
    <3>3. f[p + 1] = rest(p + 1)
      BY <3>1, <3>2
    <3>4. f[p] = <<s[p]>> \o f[p + 1]
      <4> HIDE DEF f, p
      <4> QED
        BY <1>3, <2>5, <3>1 DEF Onward
    <3> HIDE DEF p, f, rest
    <3> QED
      BY <1>4, <2>3, <3>1, <3>3, <3>4
  <2> QED
    BY <2>6, <2>7
<1>7. f[1] = rest(1)
  <2>1. Len(s) \in 0 .. Len(s) /\ Len(s) - Len(s) + 1 = 1
    BY <1>1
  <2> QED
    BY <1>6, <2>1
<1>8. rest(1) = s
  BY <1>1
<1> QED
  BY <1>7, <1>8, UnescapeIsFrom

-----------------------------------------------------------------------------
(* What unescape() makes of what escape() wrote.                           *)

(* The characters whose names SMT cannot spell.                            *)
Quote == "\""
Back == "\\"
NewLine == "\n"
FormFeed == "\f"
Return == "\r"
Tab == "\t"

(* The codes of the characters that mean something in a JSON string.       *)
LEMMA CodesOfJson ==
  /\ Ascii[Quote] = 34 /\ Ascii[Back] = 92 /\ Ascii[NewLine] = 10 /\ Ascii["bs"] = 8
  /\ Ascii[FormFeed] = 12 /\ Ascii[Return] = 13 /\ Ascii[Tab] = 9
  /\ Ascii["n"] = 110 /\ Ascii["b"] = 98 /\ Ascii["f"] = 102 /\ Ascii["r"] = 114
  /\ Ascii["t"] = 116 /\ Ascii["u"] = 117 /\ Ascii["0"] = 48 /\ Ascii["a"] = 97
  /\ Ascii["A"] = 65 /\ Ascii["nul"] = 0
<1>1. Ascii[Quote] = 34 /\ Ascii[Back] = 92 /\ Ascii[NewLine] = 10
  BY DEF Ascii, Quote, Back, NewLine
<1>2. Ascii["bs"] = 8 /\ Ascii[FormFeed] = 12 /\ Ascii[Return] = 13 /\ Ascii[Tab] = 9
  BY DEF Ascii, FormFeed, Return, Tab
<1>3. Ascii["n"] = 110 /\ Ascii["b"] = 98 /\ Ascii["f"] = 102 /\ Ascii["r"] = 114
  BY DEF Ascii
<1>4. Ascii["t"] = 116 /\ Ascii["u"] = 117 /\ Ascii["0"] = 48
  BY DEF Ascii
<1>5. Ascii["a"] = 97 /\ Ascii["A"] = 65 /\ Ascii["nul"] = 0
  BY DEF Ascii
<1> QED
  BY <1>1, <1>2, <1>3, <1>4, <1>5

(* Those that are written as a backslash and one more.                     *)
Short == {Quote, Back, NewLine, "bs", FormFeed, Return, Tab}

(* How a byte that has a short escape is written behind the backslash.     *)
Mark(b) ==
  CASE b = 10 -> 110 [] b = 8 -> 98 [] b = 12 -> 102 [] b = 13 -> 114 [] b = 9 -> 116 [] OTHER -> b
Marked == {34, 92, 10, 8, 12, 13, 9}

(* The digits of \u00, and what is written of a byte.                      *)
HexOf(d) == IF d < 10 THEN 48 + d ELSE 97 + d - 10
Piece(b) ==
  IF b \in Marked THEN <<92, Mark(b)>>
  ELSE IF b < 32 THEN <<92, 117, 48, 48, HexOf(b \div 16), HexOf(b % 16)>> ELSE <<b>>

(* The characters that have a short escape, and what it looks like.        *)
LEMMA ShortIs ==
  /\ DOMAIN ShortEscapes = Short
  /\ \A c \in Short : /\ Ascii[c] \in Marked /\ Ascii[ShortEscapes[c]] = Mark(Ascii[c])
                      /\ Ascii[ShortEscapes[c]] \in {34, 92, 110, 98, 102, 114, 116}
  /\ \A b \in Marked : \E c \in Short : Ascii[c] = b
<1>1. DOMAIN ShortEscapes = Short
  BY Zenon DEF ShortEscapes, Short, Quote, Back, NewLine, FormFeed, Return, Tab
<1>2. \A c \in Short : \/ c = Quote \/ c = Back \/ c = NewLine \/ c = "bs"
                       \/ c = FormFeed \/ c = Return \/ c = Tab
  BY DEF Short
<1>3. /\ ShortEscapes[Quote] = Quote /\ ShortEscapes[Back] = Back
      /\ ShortEscapes[NewLine] = "n" /\ ShortEscapes["bs"] = "b"
      /\ ShortEscapes[FormFeed] = "f" /\ ShortEscapes[Return] = "r" /\ ShortEscapes[Tab] = "t"
  BY Zenon DEF ShortEscapes, Quote, Back, NewLine, FormFeed, Return, Tab
<1> DEFINE Right(c) == /\ Ascii[c] \in Marked /\ Ascii[ShortEscapes[c]] = Mark(Ascii[c])
                       /\ Ascii[ShortEscapes[c]] \in {34, 92, 110, 98, 102, 114, 116}
<1>4. Right(Quote) /\ Right(Back) /\ Right(NewLine) /\ Right("bs")
  BY <1>3, CodesOfJson DEF Mark, Marked
<1>5. Right(FormFeed) /\ Right(Return) /\ Right(Tab)
  BY <1>3, CodesOfJson DEF Mark, Marked
<1>6. \A c \in Short : Right(c)
  <2> HIDE DEF Right
  <2> QED
    BY <1>2, <1>4, <1>5
<1>7. ASSUME NEW b \in Marked PROVE \E c \in Short : Ascii[c] = b
  <2>1. b = 34 \/ b = 92 \/ b = 10 \/ b = 8 \/ b = 12 \/ b = 13 \/ b = 9
    BY <1>7 DEF Marked
  <2>2. /\ Quote \in Short /\ Back \in Short /\ NewLine \in Short /\ "bs" \in Short
        /\ FormFeed \in Short /\ Return \in Short /\ Tab \in Short
    BY DEF Short
  <2> QED
    BY <2>1, <2>2, CodesOfJson
<1> QED
  BY <1>1, <1>6, <1>7

(* The bytes of some characters.                                           *)
LEMMA BytesOf ==
  ASSUME NEW n \in Nat, NEW s, NEW t \in Seq(Nat), DOMAIN s = 1 .. n, Len(t) = n,
         \A i \in 1 .. n : Ascii[s[i]] = t[i]
  PROVE  Bytes(s) = t
<1>1. Bytes(s) = [i \in 1 .. n |-> t[i]]
  BY DEF Bytes
<1> QED
  BY <1>1

(* What is written of one byte, in numbers.                                *)
LEMMA PieceIs ==
  ASSUME NEW b \in 0 .. 255
  PROVE  EscapeOf(b) = Piece(b)
<1> DEFINE short == {c \in DOMAIN ShortEscapes : Ascii[c] = b}
           hex(d) == IF d < 10 THEN Ascii["0"] + d ELSE Ascii["a"] + d - 10
           mark == CHOOSE c \in short : TRUE
           marked == Bytes(<<Back, ShortEscapes[mark]>>)
           coded == Bytes(<<Back, "u", "0", "0">>) \o <<hex(b \div 16), hex(b % 16)>>
<1>1. EscapeOf(b) = CASE short # {} -> marked
                      [] short = {} /\ b < 32 -> coded
                      [] OTHER -> <<b>>
  BY Zenon DEF EscapeOf, Back
<1>2. short # {} <=> b \in Marked
  BY ShortIs
<1>3. ASSUME b \in Marked PROVE marked = <<92, Mark(b)>>
  <2>1. mark \in short
    BY <1>2, <1>3, Zenon
  <2>2. mark \in Short /\ Ascii[mark] = b
    BY <2>1, ShortIs
  <2>3. Ascii[ShortEscapes[mark]] = Mark(b)
    BY <2>2, ShortIs
  <2>4. Mark(b) \in Nat
    BY DEF Mark
  <2> HIDE DEF mark
  <2> DEFINE x == ShortEscapes[mark]
             y == Mark(b)
  <2>5. Ascii[x] = y /\ y \in Nat
    BY <2>3, <2>4
  <2> HIDE DEF x, y
  <2>6. DOMAIN <<Back, x>> = 1 .. 2 /\ <<Back, x>>[1] = Back /\ <<Back, x>>[2] = x
    OBVIOUS
  <2>7. <<92, y>> \in Seq(Nat) /\ Len(<<92, y>>) = 2 /\ <<92, y>>[1] = 92 /\ <<92, y>>[2] = y
    BY <2>5
  <2>8. \A i \in 1 .. 2 : i = 1 \/ i = 2
    OBVIOUS
  <2> DEFINE chars == <<Back, x>>
             bytes == <<92, y>>
  <2>9. Bytes(chars) = bytes
    <3>1. /\ DOMAIN chars = 1 .. 2 /\ bytes \in Seq(Nat) /\ Len(bytes) = 2
          /\ \A i \in 1 .. 2 : Ascii[chars[i]] = bytes[i]
      <4> HIDE DEF chars, bytes
      <4> QED
        BY <2>5, <2>6, <2>7, <2>8, CodesOfJson DEF chars, bytes
    <3> HIDE DEF chars, bytes
    <3> QED
      BY <3>1, BytesOf
  <2> QED
    BY <2>9 DEF x, y
<1>4. coded = <<92, 117, 48, 48, HexOf(b \div 16), HexOf(b % 16)>>
  <2>1. Bytes(<<Back, "u", "0", "0">>) = <<92, 117, 48, 48>>
    <3> DEFINE chars == <<Back, "u", "0", "0">>
               bytes == <<92, 117, 48, 48>>
    <3>1. DOMAIN chars = 1 .. 4 /\ chars[1] = Back /\ chars[2] = "u" /\ chars[3] = "0" /\ chars[4] = "0"
      OBVIOUS
    <3>2. bytes \in Seq(Nat) /\ Len(bytes) = 4
      OBVIOUS
    <3>3. bytes[1] = 92 /\ bytes[2] = 117 /\ bytes[3] = 48 /\ bytes[4] = 48
      OBVIOUS
    <3>4. \A i \in 1 .. 4 : i = 1 \/ i = 2 \/ i = 3 \/ i = 4
      OBVIOUS
    <3> HIDE DEF chars, bytes
    <3>5. \A i \in 1 .. 4 : Ascii[chars[i]] = bytes[i]
      BY <3>1, <3>3, <3>4, CodesOfJson
    <3>6. Bytes(chars) = bytes
      BY <3>1, <3>2, <3>5, BytesOf
    <3> QED
      BY <3>6 DEF chars, bytes
  <2>2. hex(b \div 16) = HexOf(b \div 16) /\ hex(b % 16) = HexOf(b % 16)
    BY CodesOfJson DEF HexOf
  <2> DEFINE x == HexOf(b \div 16)
             y == HexOf(b % 16)
  <2>3. x \in Nat /\ y \in Nat
    BY DEF HexOf
  <2> HIDE DEF x, y, hex
  <2>4. <<92, 117, 48, 48>> \o <<x, y>> = <<92, 117, 48, 48, x, y>>
    <3> DEFINE four == <<92, 117, 48, 48>>
               two == <<x, y>>
               six == <<92, 117, 48, 48, x, y>>
    <3>1. four \in Seq(Nat) /\ Len(four) = 4
      OBVIOUS
    <3>2. two \in Seq(Nat) /\ Len(two) = 2 /\ two[1] = x /\ two[2] = y
      BY <2>3
    <3>3. six \in Seq(Nat) /\ Len(six) = 6 /\ six[5] = x /\ six[6] = y
      BY <2>3
    <3>4. four[1] = six[1] /\ four[2] = six[2] /\ four[3] = six[3] /\ four[4] = six[4]
      OBVIOUS
    <3>5. \A i \in 1 .. 6 : i = 1 \/ i = 2 \/ i = 3 \/ i = 4 \/ i = 5 \/ i = 6
      OBVIOUS
    <3> HIDE DEF four, two, six
    <3> DEFINE joined == four \o two
    <3>6. /\ joined \in Seq(Nat) /\ Len(joined) = Len(four) + Len(two)
          /\ \A i \in 1 .. Len(four) + Len(two) :
               joined[i] = IF i <= Len(four) THEN four[i] ELSE two[i - Len(four)]
      BY <3>1, <3>2, ConcatProperties
    <3> HIDE DEF joined
    <3>7. Len(joined) = 6 /\ \A i \in 1 .. 6 : joined[i] = IF i <= 4 THEN four[i] ELSE two[i - 4]
      BY <3>1, <3>2, <3>6
    <3>8. joined[1] = six[1] /\ joined[2] = six[2] /\ joined[3] = six[3] /\ joined[4] = six[4]
      BY <3>4, <3>7
    <3>9. joined[5] = six[5] /\ joined[6] = six[6]
      BY <3>2, <3>3, <3>7
    <3>10. \A i \in 1 .. 6 : joined[i] = six[i]
      BY <3>5, <3>8, <3>9
    <3>11. joined = six
      BY <3>3, <3>6, <3>7, <3>10, SeqEqual
    <3> QED
      BY <3>11 DEF four, two, six, joined
  <2> QED
    BY <2>1, <2>2, <2>4 DEF x, y
<1> HIDE DEF short, marked, coded
<1> QED
  BY <1>1, <1>2, <1>3, <1>4 DEF Piece

(* Any byte of a std::string, a NUL and those above 127 included.          *)
AnyByte == 0 .. 255

(* A short escape is read as the byte it was written for.                  *)
LEMMA MarkReads ==
  ASSUME NEW b \in Marked
  PROVE  Unescaped(Mark(b)) = b /\ Mark(b) # 117 /\ Mark(b) \in AnyByte
<1> DEFINE c == Mark(b)
           long == {k \in DOMAIN ShortEscapes : Ascii[ShortEscapes[k]] = c}
           k0 == CHOOSE k \in long : TRUE
<1>1. Unescaped(c) = IF long = {} THEN c ELSE Ascii[k0]
  BY Zenon DEF Unescaped
<1>2. long # {}
  BY ShortIs
<1>3. k0 \in long
  BY <1>2, Zenon
<1>4. Ascii[k0] \in Marked /\ Mark(Ascii[k0]) = Mark(b)
  BY <1>3, ShortIs
<1>5. \A x \in Marked : Mark(x) = Mark(b) => x = b
  BY DEF Mark, Marked
<1>6. c # 117 /\ c \in AnyByte
  BY DEF Mark, Marked, AnyByte
<1> HIDE DEF long, k0
<1> QED
  BY <1>1, <1>2, <1>4, <1>5, <1>6

(* A digit is read as what it was written for.                             *)
LEMMA DigitReads ==
  ASSUME NEW d \in 0 .. 15
  PROVE  HexOf(d) \in AnyByte /\ FromHex(HexOf(d)) = d
<1>1. FromHex(HexOf(d)) = CASE HexOf(d) >= 97 -> HexOf(d) - 97 + 10
                            [] HexOf(d) < 97 /\ HexOf(d) >= 65 -> HexOf(d) - 65 + 10
                            [] OTHER -> HexOf(d) - 48
  BY CodesOfJson DEF FromHex
<1> QED
  BY <1>1 DEF HexOf, AnyByte

(* What is written of one byte: one, two or six bytes.                     *)
LEMMA PieceSays ==
  ASSUME NEW b \in AnyByte
  PROVE  /\ Piece(b) \in Seq(AnyByte) /\ Len(Piece(b)) \in Nat \ {0}
         /\ b \in Marked => Len(Piece(b)) = 2 /\ Piece(b)[1] = 92 /\ Piece(b)[2] = Mark(b)
         /\ b \notin Marked /\ b < 32 =>
              /\ Len(Piece(b)) = 6 /\ Piece(b)[1] = 92 /\ Piece(b)[2] = 117
              /\ Piece(b)[3] = 48 /\ Piece(b)[4] = 48
              /\ Piece(b)[5] = HexOf(b \div 16) /\ Piece(b)[6] = HexOf(b % 16)
         /\ b \notin Marked /\ ~(b < 32) => Len(Piece(b)) = 1 /\ Piece(b)[1] = b
<1>1. CASE b \in Marked
  <2> DEFINE m == Mark(b)
             two == <<92, m>>
  <2>1. m \in AnyByte /\ 92 \in AnyByte
    BY <1>1, MarkReads DEF AnyByte
  <2> HIDE DEF m
  <2>2. two \in Seq(AnyByte) /\ Len(two) = 2 /\ two[1] = 92 /\ two[2] = m
    BY <2>1
  <2>3. Piece(b) = two
    BY <1>1 DEF Piece, m
  <2> QED
    BY <1>1, <2>2, <2>3 DEF m
<1>2. CASE b \notin Marked /\ b < 32
  <2> DEFINE h == HexOf(b \div 16)
             l == HexOf(b % 16)
             six == <<92, 117, 48, 48, h, l>>
  <2>1. b \div 16 \in 0 .. 15 /\ b % 16 \in 0 .. 15
    BY <1>2 DEF AnyByte
  <2>2. h \in AnyByte /\ l \in AnyByte /\ 92 \in AnyByte /\ 117 \in AnyByte /\ 48 \in AnyByte
    BY <2>1, DigitReads DEF AnyByte
  <2>3. Piece(b) = six
    BY <1>2 DEF Piece
  <2> HIDE DEF h, l
  <2>4. six \in Seq(AnyByte) /\ Len(six) = 6
    BY <2>2
  <2>5. six[1] = 92 /\ six[2] = 117 /\ six[3] = 48 /\ six[4] = 48 /\ six[5] = h /\ six[6] = l
    BY <2>2
  <2> HIDE DEF six
  <2> QED
    BY <1>2, <2>3, <2>4, <2>5 DEF h, l
<1>3. CASE b \notin Marked /\ ~(b < 32)
  <2>1. <<b>> \in Seq(AnyByte) /\ Len(<<b>>) = 1 /\ <<b>>[1] = b
    OBVIOUS
  <2>2. Piece(b) = <<b>>
    BY <1>3 DEF Piece
  <2> QED
    BY <1>3, <2>1, <2>2
<1> QED
  BY <1>1, <1>2, <1>3

(* A byte is made of its two digits.                                       *)
LEMMA DivMod ==
  ASSUME NEW b \in Nat
  PROVE  16 * (b \div 16) + (b % 16) = b
<1>1. b \div 16 \in Int /\ b % 16 \in 0 .. 15
  OBVIOUS
<1>2. 16 * (b \div 16) <= b /\ b < 16 * (b \div 16) + 16
  OBVIOUS
<1>3. b % 16 = b - 16 * (b \div 16)
  OBVIOUS
<1> DEFINE h == b \div 16
           l == b % 16
<1>4. h \in Int /\ l = b - 16 * h
  BY <1>1, <1>3
<1> HIDE DEF h, l
<1>5. 16 * h + l = b
  BY <1>4
<1> QED
  BY <1>5 DEF h, l

(* It does not matter which two of three texts are joined first.          *)
LEMMA Associates ==
  ASSUME NEW x \in Seq(AnyByte), NEW y \in Seq(AnyByte), NEW z \in Seq(AnyByte)
  PROVE  (x \o y) \o z = x \o (y \o z)
BY ConcatAssociative

(* A text in the middle of another one.                                    *)
LEMMA Inside ==
  ASSUME NEW x \in Seq(AnyByte), NEW y \in Seq(AnyByte), NEW z \in Seq(AnyByte)
  PROVE  /\ x \o (y \o z) \in Seq(AnyByte)
         /\ \A i \in 1 .. Len(y) : /\ Len(x) + i \in DOMAIN (x \o (y \o z))
                                   /\ (x \o (y \o z))[Len(x) + i] = y[i]
                                   /\ At(x \o (y \o z), Len(x) + i) = y[i]
<1> DEFINE w == y \o z
           all == x \o w
<1>1. /\ Len(x) \in Nat /\ Len(y) \in Nat /\ Len(z) \in Nat
      /\ w \in Seq(AnyByte) /\ Len(w) = Len(y) + Len(z)
      /\ \A i \in 1 .. Len(y) + Len(z) : w[i] = IF i <= Len(y) THEN y[i] ELSE z[i - Len(y)]
  BY ConcatProperties
<1> HIDE DEF w
<1>2. /\ all \in Seq(AnyByte) /\ Len(all) = Len(x) + Len(w)
      /\ \A i \in 1 .. Len(x) + Len(w) : all[i] = IF i <= Len(x) THEN x[i] ELSE w[i - Len(x)]
  <2>1. w \in Seq(AnyByte)
    BY <1>1
  <2> QED
    BY <2>1, ConcatProperties
<1> HIDE DEF all
<1>3. ASSUME NEW i \in 1 .. Len(y)
      PROVE  Len(x) + i \in DOMAIN all /\ all[Len(x) + i] = y[i] /\ At(all, Len(x) + i) = y[i]
  <2>1. Len(x) + i \in 1 .. Len(x) + Len(w) /\ ~(Len(x) + i <= Len(x)) /\ Len(x) + i - Len(x) = i
    BY <1>1
  <2>2. all[Len(x) + i] = w[i]
    BY <1>2, <2>1
  <2>3. w[i] = y[i]
    BY <1>1
  <2>4. DOMAIN all = 1 .. Len(all)
    BY <1>2
  <2> QED
    BY <1>2, <2>1, <2>2, <2>3, <2>4 DEF At
<1> QED
  BY <1>2, <1>3 DEF all, w

(* What unescape() sees at a place.                                        *)
LEMMA CharIs ==
  ASSUME NEW s, NEW p
  PROVE  /\ At(s, p) # 92 => CharAt(s, p) = <<s[p]>> /\ AfterChar(s, p) = p + 1
         /\ At(s, p) = 92 /\ At(s, p + 1) = 117 =>
              CharAt(s, p) = Utf8(Hex4(s, p + 2)) /\ AfterChar(s, p) = p + 6
         /\ At(s, p) = 92 /\ At(s, p + 1) # 117 =>
              CharAt(s, p) = <<Unescaped(At(s, p + 1))>> /\ AfterChar(s, p) = p + 2
<1> DEFINE plain == <<s[p]>>
           wide == Utf8(Hex4(s, p + 2))
           marked == <<Unescaped(At(s, p + 1))>>
           escaped == Escaped(s, p)
           coded == Is(s, p + 1, "u")
<1>1. (escaped <=> At(s, p) = 92) /\ (coded <=> At(s, p + 1) = 117)
  <2>1. escaped <=> Is(s, p, Back)
    BY Zenon DEF Escaped, Back
  <2> QED
    BY <2>1, CodesOfJson DEF Is
<1>2. CharAt(s, p) = CASE ~escaped -> plain
                       [] escaped /\ coded -> wide
                       [] OTHER -> marked
  BY Zenon DEF CharAt
<1>3. AfterChar(s, p) = CASE ~escaped -> p + 1
                          [] escaped /\ coded -> p + 6
                          [] OTHER -> p + 2
  BY Zenon DEF AfterChar
<1> HIDE DEF plain, wide, marked, escaped, coded
<1>4. At(s, p) # 92 => CharAt(s, p) = plain /\ AfterChar(s, p) = p + 1
  BY <1>1, <1>2, <1>3
<1>5. At(s, p) = 92 /\ At(s, p + 1) = 117 => CharAt(s, p) = wide /\ AfterChar(s, p) = p + 6
  BY <1>1, <1>2, <1>3
<1>6. At(s, p) = 92 /\ At(s, p + 1) # 117 => CharAt(s, p) = marked /\ AfterChar(s, p) = p + 2
  BY <1>1, <1>2, <1>3
<1> QED
  BY <1>4, <1>5, <1>6 DEF plain, wide, marked

(* A byte that was written is read where it was written.                   *)
LEMMA PieceReads ==
  ASSUME NEW x \in Seq(AnyByte), NEW b \in AnyByte, NEW z \in Seq(AnyByte), NEW e,
         e = x \o (Piece(b) \o z)
  PROVE  /\ Len(x) + 1 \in DOMAIN e /\ CharAt(e, Len(x) + 1) = <<b>>
         /\ AfterChar(e, Len(x) + 1) = Len(x) + 1 + Len(Piece(b))
<1> DEFINE p == Len(x) + 1
           n == Len(Piece(b))
<1>1. Len(x) \in Nat /\ n \in Nat \ {0} /\ Piece(b) \in Seq(AnyByte)
  BY PieceSays
<1>2. \A i \in 1 .. n : Len(x) + i \in DOMAIN e /\ e[Len(x) + i] = Piece(b)[i]
                        /\ At(e, Len(x) + i) = Piece(b)[i]
  BY <1>1, Inside
<1>3. p \in DOMAIN e /\ e[p] = Piece(b)[1] /\ At(e, p) = Piece(b)[1]
  BY <1>1, <1>2
<1>4. CASE b \in Marked
  <2>1. n = 2 /\ Piece(b)[1] = 92 /\ Piece(b)[2] = Mark(b)
    BY <1>4, PieceSays
  <2>2. p + 1 = Len(x) + 2 /\ At(e, p + 1) = Mark(b)
    BY <1>1, <1>2, <2>1
  <2>3. At(e, p) = 92 /\ At(e, p + 1) # 117
    BY <1>3, <1>4, <2>1, <2>2, MarkReads
  <2> HIDE DEF p, n
  <2>4. CharAt(e, p) = <<Unescaped(Mark(b))>> /\ AfterChar(e, p) = p + 2
    BY <2>2, <2>3, CharIs
  <2> QED
    BY <1>3, <1>4, <2>1, <2>4, MarkReads DEF p, n
<1>5. CASE b \notin Marked /\ b < 32
  <2>1. /\ n = 6 /\ Piece(b)[1] = 92 /\ Piece(b)[2] = 117 /\ Piece(b)[3] = 48 /\ Piece(b)[4] = 48
        /\ Piece(b)[5] = HexOf(b \div 16) /\ Piece(b)[6] = HexOf(b % 16)
    BY <1>5, PieceSays
  <2>2. /\ p + 1 = Len(x) + 2 /\ p + 2 = Len(x) + 3 /\ p + 2 + 1 = Len(x) + 4
        /\ p + 2 + 2 = Len(x) + 5 /\ p + 2 + 3 = Len(x) + 6
    BY <1>1
  <2>3. /\ At(e, p) = 92 /\ At(e, p + 1) = 117 /\ At(e, p + 2) = 48 /\ At(e, p + 2 + 1) = 48
        /\ At(e, p + 2 + 2) = HexOf(b \div 16) /\ At(e, p + 2 + 3) = HexOf(b % 16)
    BY <1>2, <1>3, <2>1, <2>2
  <2>4. FromHex(48) = 0 /\ FromHex(HexOf(b \div 16)) = b \div 16 /\ FromHex(HexOf(b % 16)) = b % 16
    <3>1. b \div 16 \in 0 .. 15 /\ b % 16 \in 0 .. 15 /\ HexOf(0) = 48 /\ 0 \in 0 .. 15
      BY <1>5 DEF AnyByte, HexOf
    <3> QED
      BY <3>1, DigitReads
  <2> DEFINE h == b \div 16
             l == b % 16
  <2> HIDE DEF p, n
  <2>5. Hex4(e, p + 2) = 4096 * FromHex(48) + 256 * FromHex(48) + 16 * FromHex(HexOf(h)) + FromHex(HexOf(l))
    <3>1. Hex4(e, p + 2) = 4096 * FromHex(At(e, p + 2)) + 256 * FromHex(At(e, p + 2 + 1))
                             + 16 * FromHex(At(e, p + 2 + 2)) + FromHex(At(e, p + 2 + 3))
      BY Zenon DEF Hex4
    <3> DEFINE a == At(e, p + 2)
               b1 == At(e, p + 2 + 1)
               c1 == At(e, p + 2 + 2)
               d1 == At(e, p + 2 + 3)
    <3>2. a = 48 /\ b1 = 48 /\ c1 = HexOf(h) /\ d1 = HexOf(l)
      BY <2>3
    <3> HIDE DEF a, b1, c1, d1, h, l
    <3> QED
      BY <3>1, <3>2 DEF a, b1, c1, d1
  <2>6. Hex4(e, p + 2) = b
    <3>1. 16 * h + l = b /\ h \in Int /\ l \in Int
      BY DivMod DEF AnyByte
    <3>2. FromHex(48) = 0 /\ FromHex(HexOf(h)) = h /\ FromHex(HexOf(l)) = l
      BY <2>4
    <3> HIDE DEF h, l
    <3> QED
      BY <2>5, <3>1, <3>2
  <2>7. Utf8(b) = <<b>>
    <3> DEFINE long == <<224 + (b \div 4096), 128 + ((b \div 64) % 64), 128 + (b % 64)>>
               short == <<192 + b \div 64, 128 + (b % 64)>>
    <3>1. Utf8(b) = CASE b >= 2048 -> long
                      [] b < 2048 /\ b >= 128 -> short
                      [] OTHER -> <<b>>
      BY Zenon DEF Utf8
    <3>2. ~(b >= 2048) /\ ~(b < 2048 /\ b >= 128)
      BY <1>5 DEF AnyByte
    <3> HIDE DEF long, short
    <3> QED
      BY <3>1, <3>2
  <2>8. CharAt(e, p) = Utf8(Hex4(e, p + 2)) /\ AfterChar(e, p) = p + 6
    BY <2>3, CharIs
  <2> QED
    BY <1>3, <2>1, <2>6, <2>7, <2>8 DEF p, n
<1>6. CASE b \notin Marked /\ ~(b < 32)
  <2>1. n = 1 /\ Piece(b)[1] = b /\ b # 92
    BY <1>6, PieceSays DEF Marked
  <2> HIDE DEF p, n
  <2>2. At(e, p) # 92 /\ e[p] = b
    BY <1>3, <2>1
  <2>3. CharAt(e, p) = <<b>> /\ AfterChar(e, p) = p + 1
    BY <2>2, CharIs, Zenon
  <2> QED
    BY <1>3, <2>1, <2>3 DEF p, n
<1> QED
  BY <1>4, <1>5, <1>6

(* Texts one behind the other: F[i] is what the first i of them make.      *)
Growing(F, texts, S) ==
  /\ F \in [0 .. Len(texts) -> Seq(S)]
  /\ F[0] = <<>>
  /\ \A i \in 1 .. Len(texts) : F[i] = F[i - 1] \o texts[i]

(* There is such an F, built from the first text on.                       *)
LEMMA GrowingExists ==
  ASSUME NEW S, NEW texts \in Seq(Seq(S))
  PROVE  \E F : Growing(F, texts, S)
<1> DEFINE Up(F, n) == /\ F \in [0 .. n -> Seq(S)] /\ F[0] = <<>>
                       /\ \A i \in 1 .. n : F[i] = F[i - 1] \o texts[i]
           N == {n \in Nat : n <= Len(texts) /\ ~\E F : Up(F, n)}
<1>1. Len(texts) \in Nat
  OBVIOUS
<1>2. N = {}
  <2> SUFFICES ASSUME N # {} PROVE FALSE
    OBVIOUS
  <2>1. PICK n \in N : \A m \in N : n <= m
    <3>1. N \in SUBSET Nat
      OBVIOUS
    <3> HIDE DEF N
    <3> QED
      BY <3>1, LeastNat
  <2>2. n \in Nat /\ n <= Len(texts) /\ ~\E F : Up(F, n)
    OBVIOUS
  <2>3. CASE n = 0
    <3> DEFINE F == [i \in 0 .. 0 |-> <<>>]
    <3>1. F \in [0 .. n -> Seq(S)] /\ F[0] = <<>>
      BY <2>3
    <3>2. \A i \in 1 .. n : FALSE
      BY <2>3
    <3>3. Up(F, n)
      <4> HIDE DEF F
      <4> QED
        BY <3>1, <3>2
    <3> QED
      BY <2>2, <3>3
  <2>4. CASE n # 0
    <3>1. n - 1 \in Nat /\ n - 1 <= Len(texts) /\ ~(n <= n - 1)
      BY <1>1, <2>2, <2>4
    <3>2. n - 1 \notin N
      <4> HIDE DEF N
      <4> QED
        BY <2>1, <3>1
    <3>3. PICK F : Up(F, n - 1)
      BY <3>1, <3>2
    <3> DEFINE last == F[n - 1] \o texts[n]
               G == [i \in 0 .. n |-> IF i = n THEN last ELSE F[i]]
    <3>4. F[n - 1] \in Seq(S) /\ texts[n] \in Seq(S)
      BY <1>1, <2>2, <2>4, <3>1, <3>3
    <3>5. last \in Seq(S)
      BY <3>4
    <3> HIDE DEF last
    <3>6. \A i \in 0 .. n : i = n \/ i \in 0 .. n - 1
      BY <2>2
    <3>7. G \in [0 .. n -> Seq(S)] /\ G[0] = <<>>
      BY <2>2, <2>4, <3>3, <3>5, <3>6
    <3>8. ASSUME NEW i \in 1 .. n PROVE G[i] = G[i - 1] \o texts[i]
      <4>1. CASE i = n
        <5>1. G[i] = last /\ G[i - 1] = F[n - 1]
          BY <2>2, <2>4, <4>1
        <5> QED
          BY <4>1, <5>1 DEF last
      <4>2. CASE i # n
        <5>1. i \in 1 .. n - 1 /\ i \in 0 .. n /\ i - 1 \in 0 .. n /\ i - 1 # n
          BY <2>2, <4>2
        <5>2. G[i] = F[i] /\ G[i - 1] = F[i - 1]
          BY <4>2, <5>1
        <5>3. F[i] = F[i - 1] \o texts[i]
          BY <3>3, <5>1
        <5> QED
          BY <5>2, <5>3
      <4> QED
        BY <4>1, <4>2
    <3>9. Up(G, n)
      <4> HIDE DEF G
      <4> QED
        BY <3>7, <3>8
    <3> QED
      BY <2>2, <3>9
  <2> QED
    BY <2>3, <2>4
<1>3. \E F : Up(F, Len(texts))
  <2> DEFINE n == Len(texts)
  <2>1. n \in Nat /\ n <= n
    BY <1>1
  <2> HIDE DEF n
  <2>2. n \notin N
    BY <1>2
  <2>3. n <= Len(texts) /\ n = Len(texts)
    BY <2>1 DEF n
  <2>4. \E F : Up(F, n)
    <3> HIDE DEF Up
    <3> QED
      BY <2>1, <2>2, <2>3
  <2> QED
    BY <2>4 DEF n
<1> QED
  BY <1>3 DEF Growing

(* One step of FlattenSeq, and where its recursive function ends.          *)
Flat(f, texts, i) == IF i = 1 THEN texts[i] ELSE f[i - 1] \o texts[i]

LEMMA FlattenIs ==
  ASSUME NEW S, NEW texts \in Seq(Seq(S)), NEW F, Growing(F, texts, S)
  PROVE  FlattenSeq(texts) = F[Len(texts)]
<1> DEFINE n == Len(texts)
           right(f) == f = [i \in 1 .. n |-> Flat(f, texts, i)]
           f0 == CHOOSE f : right(f)
<1>1. n \in Nat
  OBVIOUS
<1>2. FlattenSeq(texts) = IF n = 0 THEN texts ELSE f0[n]
  BY Zenon DEF FlattenSeq, Flat
<1>3. CASE n = 0
  <2>1. texts = <<>>
    BY <1>3
  <2> QED
    BY <1>2, <1>3, <2>1 DEF Growing
<1>4. CASE n # 0
  <2> DEFINE G == [i \in 1 .. n |-> F[i]]
  <2>1. \A i \in 1 .. n : G[i] = Flat(G, texts, i)
    <3> SUFFICES ASSUME NEW i \in 1 .. n PROVE G[i] = Flat(G, texts, i)
      OBVIOUS
    <3>1. G[i] = F[i] /\ F[i] = F[i - 1] \o texts[i]
      BY DEF Growing
    <3>2. CASE i = 1
      <4>1. F[i - 1] = <<>> /\ texts[i] \in Seq(S)
        BY <3>2, <1>1 DEF Growing
      <4>2. <<>> \o texts[i] = texts[i]
        BY <4>1
      <4> QED
        BY <3>1, <3>2, <4>1, <4>2 DEF Flat
    <3>3. CASE i # 1
      <4>1. i - 1 \in 1 .. n
        BY <3>3, <1>1
      <4>2. G[i - 1] = F[i - 1]
        BY <4>1
      <4> HIDE DEF G
      <4> QED
        BY <3>1, <3>3, <4>2 DEF Flat
    <3> QED
      BY <3>2, <3>3
  <2>2. right(G)
    BY <2>1, Zenon
  <2>3. right(f0)
    <3> HIDE DEF right, G
    <3> QED
      BY <2>2, Zenon
  <2> HIDE DEF f0
  <2>4. \A i \in 1 .. n : f0[i] = Flat(f0, texts, i)
    BY <2>3, Zenon
  <2> DEFINE N == {i \in Nat : i \in 1 .. n /\ f0[i] # F[i]}
  <2>5. N = {}
    <3> SUFFICES ASSUME N # {} PROVE FALSE
      OBVIOUS
    <3>1. PICK i \in N : \A j \in N : i <= j
      <4>1. N \in SUBSET Nat
        OBVIOUS
      <4> HIDE DEF N
      <4> QED
        BY <4>1, LeastNat
    <3>2. i \in 1 .. n /\ f0[i] # F[i]
      OBVIOUS
    <3>3. F[i] = F[i - 1] \o texts[i] /\ f0[i] = Flat(f0, texts, i)
      BY <2>4, <3>2 DEF Growing
    <3>4. CASE i = 1
      <4>1. F[i - 1] = <<>> /\ texts[i] \in Seq(S)
        BY <3>4, <3>2 DEF Growing
      <4>2. <<>> \o texts[i] = texts[i]
        BY <4>1
      <4> QED
        BY <3>2, <3>3, <3>4, <4>1, <4>2 DEF Flat
    <3>5. CASE i # 1
      <4>1. i - 1 \in 1 .. n /\ i - 1 \in Nat /\ ~(i <= i - 1)
        BY <1>1, <3>2, <3>5
      <4>2. i - 1 \notin N
        <5> HIDE DEF N
        <5> QED
          BY <3>1, <4>1
      <4>3. f0[i - 1] = F[i - 1]
        BY <4>1, <4>2
      <4> QED
        BY <3>2, <3>3, <3>5, <4>3 DEF Flat
    <3> QED
      BY <3>4, <3>5
  <2>6. f0[n] = F[n]
    <3>1. n \in 1 .. n /\ n \in Nat /\ n \notin N
      BY <1>1, <1>4, <2>5
    <3> QED
      BY <3>1
  <2> QED
    BY <1>2, <1>4, <2>6
<1> QED
  BY <1>3, <1>4

(* What is escaped is what is written of its bytes, one behind the other.  *)
LEMMA EscapeIs ==
  ASSUME NEW s \in Seq(AnyByte)
  PROVE  \E F : /\ F \in [0 .. Len(s) -> Seq(AnyByte)] /\ F[0] = <<>> /\ Escape(s) = F[Len(s)]
                /\ \A i \in 1 .. Len(s) : F[i] = F[i - 1] \o Piece(s[i])
<1> DEFINE texts == [i \in DOMAIN s |-> EscapeOf(s[i])]
           n == Len(s)
<1>1. n \in Nat /\ DOMAIN s = 1 .. n /\ \A i \in 1 .. n : s[i] \in AnyByte
  OBVIOUS
<1>2. ASSUME NEW i \in 1 .. n PROVE EscapeOf(s[i]) = Piece(s[i]) /\ Piece(s[i]) \in Seq(AnyByte)
  <2>1. s[i] \in AnyByte /\ s[i] \in 0 .. 255
    BY <1>1 DEF AnyByte
  <2> QED
    BY <2>1, PieceIs, PieceSays
<1>3. /\ texts \in [1 .. n -> Seq(AnyByte)]
      /\ \A i \in 1 .. n : texts[i] = Piece(s[i])
  BY <1>1, <1>2
<1>4. Escape(s) = FlattenSeq(texts)
  BY Zenon DEF Escape
<1> HIDE DEF texts
<1>5. texts \in Seq(Seq(AnyByte)) /\ Len(texts) = n
  <2>1. \A T : \A m \in Nat : \A f \in [1 .. m -> T] : f \in Seq(T) /\ Len(f) = m
    OBVIOUS
  <2> HIDE DEF n
  <2> QED
    BY <1>1, <1>3, <2>1
<1>6. PICK F : Growing(F, texts, AnyByte)
  BY <1>5, GrowingExists
<1>7. FlattenSeq(texts) = F[n]
  BY <1>5, <1>6, FlattenIs
<1>8. F \in [0 .. n -> Seq(AnyByte)] /\ F[0] = <<>> /\ \A i \in 1 .. n : F[i] = F[i - 1] \o Piece(s[i])
  BY <1>3, <1>5, <1>6 DEF Growing
<1> QED
  BY <1>4, <1>7, <1>8

(* The round trip of a string: whatever its bytes are, a NUL, quotes,       *)
(* backslashes and control characters included, what escape() (json.h,      *)
(* 37-69) writes of it is what unescape() (475-540) reads as it again.      *)
THEOREM EscapedReadsBack ==
  ASSUME NEW s \in Seq(AnyByte)
  PROVE  Unescape(Escape(s)) = s
(* From the end of the escaped text on: what begins behind the first k      *)
(* bytes' escapes is read as the bytes from k + 1 on.                       *)
<1> DEFINE n == Len(s)
           e == Escape(s)
           f == From(e)
           rest(k) == SubSeq(s, k, n)
<1>1. n \in Nat /\ DOMAIN s = 1 .. n /\ \A i \in 1 .. n : s[i] \in AnyByte
  OBVIOUS
<1>2. PICK F : /\ F \in [0 .. n -> Seq(AnyByte)] /\ F[0] = <<>> /\ e = F[n]
               /\ \A i \in 1 .. n : F[i] = F[i - 1] \o Piece(s[i])
  BY <1>1, EscapeIs
<1>3. e \in Seq(AnyByte) /\ Len(e) \in Nat /\ DOMAIN e = 1 .. Len(e)
  <2>1. F[n] \in Seq(AnyByte)
    BY <1>1, <1>2
  <2> HIDE DEF e
  <2> QED
    BY <1>2, <2>1
<1>4. \A p \in Nat : f[p] = Onward(f, e, p)
  <2>1. f = [p \in Nat |-> Onward(f, e, p)]
    BY <1>3, FromIsRight
  <2> HIDE DEF f
  <2> QED
    BY <2>1, Zenon
<1>5. \A k \in 1 .. n : <<s[k]>> \o rest(k + 1) = rest(k)
  BY RestIs
<1>6. rest(n + 1) = <<>> /\ rest(1) = s
  BY <1>1
<1> HIDE DEF n, e, f, rest
<1> DEFINE Done(k) == /\ \E z \in Seq(AnyByte) : e = F[k] \o z
                      /\ f[Len(F[k]) + 1] = rest(k + 1)
           N == {m \in Nat : m <= n /\ ~Done(n - m)}
<1>7. N = {}
  <2> SUFFICES ASSUME N # {} PROVE FALSE
    OBVIOUS
  <2>1. PICK m \in N : \A j \in N : m <= j
    <3>1. N \in SUBSET Nat
      OBVIOUS
    <3> HIDE DEF N
    <3> QED
      BY <3>1, LeastNat
  <2>2. m \in Nat /\ m <= n /\ ~Done(n - m)
    OBVIOUS
  <2>3. CASE m = 0
    <3>1. n - m = n
      BY <1>1, <2>3
    <3>2. <<>> \in Seq(AnyByte) /\ e \o <<>> = e
      <4>1. e \in Seq(AnyByte)
        BY <1>3, Zenon
      <4>2. e \o <<>> = e
        BY <4>1, ConcatEmptySeq, Zenon
      <4>3. <<>> \in Seq(AnyByte)
        OBVIOUS
      <4> QED
        BY <4>2, <4>3, Zenon
    <3>3. Len(e) + 1 \in Nat /\ Len(e) + 1 \notin DOMAIN e
      <4> DEFINE d == Len(e)
      <4>1. d \in Nat /\ DOMAIN e = 1 .. d
        BY <1>3, Zenon
      <4> HIDE DEF d
      <4>2. d + 1 \in Nat /\ d + 1 \notin DOMAIN e
        BY <4>1
      <4> QED
        BY <4>2, Zenon DEF d
    <3>4. f[Len(e) + 1] = <<>>
      BY <1>4, <3>3 DEF Onward
    <3>5. Done(n)
      BY <1>2, <1>6, <3>2, <3>4
    <3> HIDE DEF Done
    <3> QED
      BY <2>2, <3>1, <3>5
  <2>4. CASE m # 0
    <3> DEFINE k == n - m
    <3>1. /\ m - 1 \in Nat /\ m - 1 <= n /\ ~(m <= m - 1) /\ n - (m - 1) = k + 1
          /\ k \in Nat /\ k + 1 \in 1 .. n /\ k \in 0 .. n /\ k + 1 - 1 = k
      BY <1>1, <2>2, <2>4
    <3>2. m - 1 \notin N
      <4> HIDE DEF N
      <4> QED
        BY <2>1, <3>1
    <3>3. Done(k + 1)
      <4>1. Done(n - (m - 1))
        <5> HIDE DEF Done
        <5> QED
          BY <3>1, <3>2
      <4> HIDE DEF Done, k
      <4> QED
        BY <3>1, <4>1
    <3> DEFINE b == s[k + 1]
               x == F[k]
    <3>4. b \in AnyByte /\ x \in Seq(AnyByte) /\ F[k + 1] = x \o Piece(b) /\ Len(x) \in Nat
      <4>1. b \in AnyByte
        BY <1>1, <3>1
      <4>2. x \in Seq(AnyByte)
        <5> HIDE DEF k
        <5> QED
          BY <1>2, <3>1
      <4>3. F[k + 1] = x \o Piece(b)
        <5> DEFINE i == k + 1
        <5>1. i \in 1 .. n /\ i - 1 = k
          BY <3>1
        <5> HIDE DEF i, k
        <5>2. F[i] = F[i - 1] \o Piece(s[i])
          BY <1>2, <5>1
        <5>3. F[i] = F[k] \o Piece(s[i])
          BY <5>1, <5>2
        <5> QED
          BY <5>3, Zenon DEF i
      <4> HIDE DEF x, b
      <4> QED
        BY <4>1, <4>2, <4>3
    <3>5. PICK z \in Seq(AnyByte) : e = F[k + 1] \o z
      BY <3>3
    <3> HIDE DEF k, x, b
    <3>6. Piece(b) \in Seq(AnyByte) /\ Len(Piece(b)) \in Nat
      BY <3>4, PieceSays
    <3>7. e = x \o (Piece(b) \o z)
      <4>1. (x \o Piece(b)) \o z = x \o (Piece(b) \o z)
        <5> DEFINE y == Piece(b)
        <5>1. x \in Seq(AnyByte) /\ y \in Seq(AnyByte)
          BY <3>4, <3>6, Zenon
        <5> HIDE DEF y
        <5>2. (x \o y) \o z = x \o (y \o z)
          BY <5>1, Associates, ZenonT(30)
        <5> QED
          BY <5>2, Zenon DEF y
      <4> QED
        BY <3>4, <3>5, <4>1
    <3>8. Piece(b) \o z \in Seq(AnyByte)
      BY <3>6
    <3>9. /\ Len(x) + 1 \in DOMAIN e /\ CharAt(e, Len(x) + 1) = <<b>>
          /\ AfterChar(e, Len(x) + 1) = Len(x) + 1 + Len(Piece(b))
      BY <3>4, <3>7, PieceReads
    <3>10. Len(F[k + 1]) = Len(x) + Len(Piece(b))
      BY <3>4, <3>6
    <3>11. f[Len(x) + 1 + Len(Piece(b))] = rest(k + 1 + 1)
      <4>1. Len(x) + 1 + Len(Piece(b)) = Len(F[k + 1]) + 1
        BY <3>4, <3>6, <3>10
      <4> QED
        BY <3>3, <4>1
    <3>12. f[Len(x) + 1] = <<b>> \o rest(k + 1 + 1)
      <4>1. Len(x) + 1 \in Nat
        BY <3>4
      <4>2. f[Len(x) + 1] = Onward(f, e, Len(x) + 1)
        BY <1>4, <4>1
      <4> QED
        BY <3>9, <3>11, <4>2 DEF Onward
    <3>13. <<b>> \o rest(k + 1 + 1) = rest(k + 1)
      <4>1. k + 1 \in 1 .. n
        BY <3>1, Zenon
      <4> QED
        BY <1>5, <4>1, Zenon DEF b
    <3>14. Done(k)
      BY <3>7, <3>8, <3>12, <3>13 DEF x
    <3> HIDE DEF Done
    <3> QED
      BY <2>2, <3>14 DEF k
  <2> QED
    BY <2>3, <2>4
<1>8. Done(0)
  <2>1. n \notin N /\ n <= n /\ n - n = 0
    <3> HIDE DEF N
    <3> QED
      BY <1>1, <1>7
  <2> HIDE DEF Done
  <2> QED
    BY <1>1, <2>1
<1>9. f[1] = rest(1)
  <2>1. Len(F[0]) + 1 = 1 /\ 0 + 1 = 1
    BY <1>2
  <2> QED
    BY <1>8, <2>1
<1> QED
  BY <1>6, <1>9, UnescapeIsFrom DEF f, e

-----------------------------------------------------------------------------
(* The array of a list: for every cap on the growth that fits 16 bits.     *)

Array == [lsize : Nat, lremain : Nat, allocated : Nat]
ArrayOK(l) == l \in Array /\ l.lsize <= l.allocated /\ l.lremain = l.allocated - l.lsize

ListInv == ArrayOK(list) /\ ArrayOK(copied)

(* A grown array is larger than the old one, and not by more than 16 bits  *)
(* can count.                                                              *)
LEMMA NewSizeFits ==
  ASSUME NEW n \in Nat
  PROVE  NewSize(n) \in Nat /\ NewSize(n) > n /\ NewSize(n) - n - 1 < RemainLimit
<1>1. MaxGrowth \in Nat \ {0} /\ RemainLimit \in Nat /\ 4 <= RemainLimit /\ MaxGrowth <= RemainLimit
  BY JsonReadAssumption
<1> DEFINE step == Min({n, MaxGrowth})
<1>2. step = IF n <= MaxGrowth THEN n ELSE MaxGrowth
  BY <1>1, OfTwo
<1> HIDE DEF step
<1>3. step \in Nat /\ step <= n /\ step <= MaxGrowth /\ (n # 0 => step # 0)
  BY <1>1, <1>2
<1>4. Max({n + step, 4}) = IF n + step >= 4 THEN n + step ELSE 4
  BY <1>3, OfTwo
<1>5. NewSize(n) = Max({n + step, 4})
  BY DEF NewSize, NewListSize, step
<1> QED
  BY <1>1, <1>3, <1>4, <1>5


(* Every step keeps the room of the array and of its copy.                 *)
LEMMA ListStep ==
  ASSUME ListInv, [ReadStrings \/ ReadLists]_readVars
  PROVE  ListInv'
<1>1. list \in Array /\ list.lsize <= list.allocated /\ list.lremain = list.allocated - list.lsize
  BY DEF ListInv, ArrayOK
<1>2. CASE UNCHANGED <<list, copied>>
  BY <1>2 DEF ListInv
<1>3. CASE EmplaceBack
  <2>1. copied' = copied
    BY <1>3 DEF EmplaceBack
  <2> DEFINE n == list.lsize
  <2>2. n \in Nat
    BY <1>1 DEF Array
  <2>3. CASE list.lremain = 0
    <3>1. list' = [lsize |-> n + 1, allocated |-> NewSize(n),
                   lremain |-> (NewSize(n) - n - 1) % RemainLimit]
      BY <1>3, <2>3 DEF EmplaceBack
    <3>2. NewSize(n) \in Nat /\ NewSize(n) > n /\ NewSize(n) - n - 1 < RemainLimit
      BY <2>2, NewSizeFits
    <3>3. (NewSize(n) - n - 1) % RemainLimit = NewSize(n) - n - 1
      <4>1. RemainLimit \in Nat /\ RemainLimit > 0
        BY JsonReadAssumption
      <4>2. NewSize(n) - n - 1 \in 0 .. RemainLimit - 1
        BY <2>2, <3>2, <4>1
      <4> HIDE DEF n
      <4> QED
        BY <4>1, <4>2
    <3> HIDE DEF n
    <3>4. ArrayOK(list')
      BY <2>2, <3>1, <3>2, <3>3 DEF ArrayOK, Array
    <3> QED
      BY <2>1, <3>4 DEF ListInv
  <2>4. CASE list.lremain # 0
    <3>1. list' = [list EXCEPT !.lsize = @ + 1, !.lremain = @ - 1]
      BY <1>3, <2>4 DEF EmplaceBack
    <3>2. list' = [lsize |-> list.lsize + 1, lremain |-> list.lremain - 1,
                   allocated |-> list.allocated]
      BY <1>1, <3>1 DEF Array
    <3>3. /\ list'.lsize = list.lsize + 1 /\ list'.lremain = list.lremain - 1
          /\ list'.allocated = list.allocated
      BY <3>2
    <3>4. list.lsize \in Nat /\ list.allocated \in Nat /\ list.lremain \in Nat \ {0}
      BY <1>1, <2>4 DEF Array
    <3>5. list' \in Array
      <4>1. list.lsize + 1 \in Nat /\ list.lremain - 1 \in Nat
        BY <3>4
      <4> QED
        BY <3>2, <3>3, <3>4, <4>1 DEF Array
    <3>6. ArrayOK(list')
      BY <1>1, <3>3, <3>4, <3>5 DEF ArrayOK
    <3> QED
      BY <2>1, <3>6 DEF ListInv
  <2> QED
    BY <2>3, <2>4
<1>4. CASE CopyList
  <2>1. copied' = [lsize |-> list.lsize, lremain |-> 0, allocated |-> list.lsize] /\ list' = list
    BY <1>4 DEF CopyList
  <2>2. ArrayOK(copied')
    BY <1>1, <2>1 DEF ArrayOK, Array
  <2> QED
    BY <2>1, <2>2 DEF ListInv
<1> QED
  BY <1>2, <1>3, <1>4 DEF ReadStrings, ReadLists, Read, Destroy, LoadInto, Copy, Move, readVars

(* No item is written behind the array of a list, however many there are,  *)
(* though its room is counted in 16 bits (json.h, emplace_back).           *)
THEOREM Room == ReadSpec => []RoomCounted
<1>1. ReadInit => ListInv
  BY DEF ReadInit, NoItems, ListInv, ArrayOK, Array
<1>2. ListInv => RoomCounted
  BY DEF ListInv, ArrayOK, RoomCounted
<1>3. ListInv /\ [ReadStrings \/ ReadLists]_readVars => ListInv'
  BY ListStep
<1> QED
  BY <1>1, <1>2, <1>3, PTL DEF ReadSpec

-----------------------------------------------------------------------------
(* The variables and their buffers.                                        *)

Handle == [start : Nat, end : Nat, key : Nat, owned : BOOLEAN, behind : BOOLEAN]

(* b holds its text as it was written while the flag is up; a flag that    *)
(* never was up means that there is nothing to unescape.                   *)
BufferOK(b) ==
  /\ b = [raw |-> b.raw, bytes |-> b.bytes, freed |-> b.freed, flag |-> b.flag]
  /\ b.raw \in Seq(1..255) /\ b.flag \in BOOLEAN /\ b.freed \in BOOLEAN
  /\ b.flag => b.bytes = b.raw

(* What h knows of the buffer b it points to: while the flag is up it ends  *)
(* where the text does as it was written; then where the unescaped text    *)
(* does, or still there.                                                   *)
Knows(h, b) ==
  IF b.flag THEN ~h.behind /\ h.end = Len(b.raw)
  ELSE SubSeq(b.bytes, 1, h.end) = IF h.behind THEN LateReading(b.raw) ELSE Unescape(b.raw)

Types ==
  /\ Sequence(buffers) /\ \A b \in DOMAIN buffers : BufferOK(buffers[b])
  /\ handles \in [Handles -> Handle]
  /\ \A h \in Handles : handles[h].start # NoBuffer => handles[h].start \in DOMAIN buffers

AllKnow ==
  \A h \in Handles :
    handles[h].start # NoBuffer => Knows(handles[h], buffers[handles[h].start])

(* The owners: each has a buffer that is not deleted, and no two have one. *)
Owners ==
  /\ \A h \in Handles : handles[h].owned =>
       handles[h].key \in DOMAIN buffers /\ ~buffers[handles[h].key].freed
  /\ \A h, g \in Handles :
       handles[h].owned /\ handles[g].owned /\ handles[h].key = handles[g].key => h = g

StringInv == Types /\ AllKnow /\ Owners

(* Appending to a sequence.                                                *)
LEMMA AppendOne ==
  ASSUME NEW s, Sequence(s), NEW x
  PROVE  /\ Sequence(Append(s, x)) /\ Len(s) \in Nat /\ DOMAIN s = 1 .. Len(s)
         /\ DOMAIN Append(s, x) = 1 .. Len(s) + 1
         /\ Append(s, x)[Len(s) + 1] = x
         /\ \A i \in DOMAIN s : Append(s, x)[i] = s[i]
<1>1. PICK T : s \in Seq(T)
  BY DEF Sequence
<1> DEFINE U == T \cup {x}
<1>2. s \in Seq(U) /\ x \in U
  BY <1>1
<1> HIDE DEF U
<1>3. Append(s, x) \in Seq(U) /\ Len(Append(s, x)) = Len(s) + 1 /\ Len(s) \in Nat
  BY <1>2
<1>4. DOMAIN s = 1 .. Len(s) /\ DOMAIN Append(s, x) = 1 .. Len(s) + 1
  BY <1>2, <1>3
<1>5. Append(s, x)[Len(s) + 1] = x /\ \A i \in 1 .. Len(s) : Append(s, x)[i] = s[i]
  BY <1>2
<1> QED
  BY <1>3, <1>4, <1>5 DEF Sequence

(* Replacing one of the elements of a sequence.                            *)
LEMMA ReplaceOne ==
  ASSUME NEW s, Sequence(s), NEW i, NEW x
  PROVE  /\ Sequence([s EXCEPT ![i] = x])
         /\ DOMAIN [s EXCEPT ![i] = x] = DOMAIN s
         /\ \A j \in DOMAIN s : [s EXCEPT ![i] = x][j] = IF j = i THEN x ELSE s[j]
<1>1. PICK T : s \in Seq(T)
  BY DEF Sequence
<1> DEFINE U == T \cup {x}
<1>2. s \in Seq(U) /\ x \in U
  BY <1>1
<1> HIDE DEF U
<1>3. [s EXCEPT ![i] = x] \in Seq(U)
  <2>1. Len(s) \in Nat /\ s \in [1 .. Len(s) -> U]
    BY <1>2
  <2>2. [s EXCEPT ![i] = x] \in [1 .. Len(s) -> U]
    BY <1>2, <2>1
  <2> QED
    BY <2>1, <2>2
<1>4. DOMAIN [s EXCEPT ![i] = x] = DOMAIN s
  OBVIOUS
<1> QED
  BY <1>3, <1>4 DEF Sequence

(* Before the first step nothing is loaded.                                *)
LEMMA StringsBegin == ReadInit => StringInv
<1> SUFFICES ASSUME ReadInit PROVE StringInv
  OBVIOUS
<1>1. Sequence(<<>>) /\ DOMAIN <<>> = {}
  <2>1. <<>> \in Seq({})
    OBVIOUS
  <2> QED
    BY <2>1 DEF Sequence
<1>2. NoValue \in Handle /\ NoValue.start = NoBuffer /\ ~NoValue.owned
  BY DEF NoValue, Handle, NoBuffer
<1>3. buffers = <<>> /\ handles = [h \in Handles |-> NoValue]
  BY DEF ReadInit
<1>4. Types
  BY <1>1, <1>2, <1>3 DEF Types
<1> QED
  BY <1>2, <1>3, <1>4 DEF StringInv, AllKnow, Owners

(* A document is loaded: a new buffer, which one variable knows.           *)
LEMMA LoadKeeps ==
  ASSUME StringInv, NEW h \in Handles, NEW s \in Strings, LoadInto(h, s)
  PROVE  StringInv'
<1> DEFINE n == Len(buffers) + 1
           new == [raw |-> s, bytes |-> s, freed |-> FALSE,
                   flag |-> \E i \in DOMAIN s : Is(s, i, "\\")]
           it == [start |-> n, end |-> Len(s), key |-> n, owned |-> TRUE, behind |-> FALSE]
<1>1. Sequence(buffers) /\ handles \in [Handles -> Handle]
  BY DEF StringInv, Types
<1>2. buffers' = Append(buffers, new) /\ handles' = [handles EXCEPT ![h] = it]
  BY DEF LoadInto
<1>3. s \in Seq(1..255) /\ Len(s) \in Nat
  BY JsonReadAssumption
<1>4. BufferOK(new)
  BY <1>3 DEF BufferOK
<1>5. Knows(it, new)
  <2> SUFFICES ASSUME ~new.flag PROVE SubSeq(s, 1, Len(s)) = Unescape(s)
    BY DEF Knows
  <2>1. Unescape(s) = s
    BY <1>3, PlainStays
  <2>2. SubSeq(s, 1, Len(s)) = s
    BY <1>3
  <2> QED
    BY <2>1, <2>2
<1>6. /\ it.start = n /\ it.key = n /\ it.owned /\ ~new.freed
      /\ it.end = Len(s) /\ it.owned = TRUE
  OBVIOUS
<1> HIDE DEF new
<1>7. /\ Sequence(buffers') /\ Len(buffers) \in Nat /\ DOMAIN buffers = 1 .. Len(buffers)
      /\ DOMAIN buffers' = 1 .. n /\ buffers'[n] = new
      /\ \A i \in DOMAIN buffers : buffers'[i] = buffers[i]
  BY <1>1, <1>2, AppendOne
<1>8. it \in Handle
  BY <1>3, <1>7 DEF Handle
<1> HIDE DEF it, n
<1>9. n \in Nat /\ n = Len(buffers) + 1 /\ n # NoBuffer /\ n \notin DOMAIN buffers
      /\ n \in DOMAIN buffers'
      /\ DOMAIN buffers' = DOMAIN buffers \cup {n} /\ NoBuffer \notin DOMAIN buffers
  BY <1>7 DEF n, NoBuffer
<1>10. /\ handles' \in [Handles -> Handle] /\ handles'[h] = it
       /\ \A g \in Handles : g # h => handles'[g] = handles[g]
  BY <1>1, <1>2, <1>8
<1>11. \A g \in Handles : handles[g].start # NoBuffer => handles[g].start \in DOMAIN buffers
  BY DEF StringInv, Types
<1>12. \A g \in Handles : handles[g].owned => handles[g].key \in DOMAIN buffers
  BY DEF StringInv, Owners
<1>13. Types'
  <2>1. \A b \in DOMAIN buffers' : BufferOK(buffers'[b])
    BY <1>4, <1>7, <1>9 DEF StringInv, Types
  <2>2. \A g \in Handles : handles'[g].start # NoBuffer => handles'[g].start \in DOMAIN buffers'
    BY <1>6, <1>9, <1>10, <1>11
  <2> QED
    BY <1>7, <1>10, <2>1, <2>2 DEF Types
<1>15. AllKnow'
  <2> SUFFICES ASSUME NEW g \in Handles, handles'[g].start # NoBuffer
               PROVE  Knows(handles'[g], buffers'[handles'[g].start])
    BY DEF AllKnow
  <2>1. CASE g = h
    BY <1>5, <1>6, <1>7, <1>10, <2>1
  <2>2. CASE g # h
    <3>1. handles'[g] = handles[g]
      BY <1>10, <2>2
    <3>2. buffers'[handles[g].start] = buffers[handles[g].start]
      BY <1>7, <1>11, <3>1
    <3> QED
      BY <3>1, <3>2 DEF StringInv, AllKnow
  <2> QED
    BY <2>1, <2>2
<1>16. Owners'
  <2>1. \A g \in Handles : handles'[g].owned =>
          handles'[g].key \in DOMAIN buffers' /\ ~buffers'[handles'[g].key].freed
    <3> SUFFICES ASSUME NEW g \in Handles, handles'[g].owned
                 PROVE  handles'[g].key \in DOMAIN buffers' /\ ~buffers'[handles'[g].key].freed
      OBVIOUS
    <3>1. CASE g = h
      BY <1>6, <1>7, <1>9, <1>10, <3>1
    <3>2. CASE g # h
      BY <1>7, <1>9, <1>10, <1>12, <3>2 DEF StringInv, Owners
    <3> QED
      BY <3>1, <3>2
  <2>2. ASSUME NEW f \in Handles, NEW g \in Handles,
               handles'[f].owned, handles'[g].owned, handles'[f].key = handles'[g].key
        PROVE  f = g
    <3>1. CASE f # h /\ g # h
      BY <1>10, <2>2, <3>1 DEF StringInv, Owners
    <3>2. CASE f = h \/ g = h
      BY <1>6, <1>9, <1>10, <1>12, <2>2, <3>2
    <3> QED
      BY <3>1, <3>2
  <2> QED
    BY <2>1, <2>2 DEF Owners
<1> QED
  BY <1>13, <1>15, <1>16 DEF StringInv

(* A second variable comes to see the buffer that h sees.                  *)
LEMMA SharedKeeps ==
  ASSUME StringInv, NEW h \in Handles, NEW g \in Handles, h # g,
         handles[h].start # NoBuffer, UNCHANGED buffers,
         NEW hOwns \in BOOLEAN, NEW gOwns \in BOOLEAN,
         hOwns => handles[h].owned, gOwns => handles[h].owned, ~(hOwns /\ gOwns),
         handles' = [handles EXCEPT ![g] = [handles[h] EXCEPT !.owned = gOwns],
                                    ![h] = [handles[h] EXCEPT !.owned = hOwns]]
  PROVE  StringInv'
<1> DEFINE b == handles[h].start
           hers == [handles[h] EXCEPT !.owned = gOwns]
           his == [handles[h] EXCEPT !.owned = hOwns]
<1>1. Types /\ b \in DOMAIN buffers /\ handles[h] \in Handle
  BY DEF StringInv, Types
<1>3. /\ hers \in Handle /\ his \in Handle
      /\ hers.start = b /\ hers.end = handles[h].end /\ hers.key = handles[h].key
      /\ hers.owned = gOwns /\ hers.behind = handles[h].behind
      /\ his.start = b /\ his.end = handles[h].end /\ his.key = handles[h].key
      /\ his.owned = hOwns /\ his.behind = handles[h].behind
  BY <1>1 DEF Handle
<1>4. handles' = [handles EXCEPT ![g] = hers, ![h] = his]
  OBVIOUS
<1> HIDE DEF hers, his
<1>5. /\ handles' \in [Handles -> Handle] /\ handles'[h] = his /\ handles'[g] = hers
      /\ \A f \in Handles : f # h /\ f # g => handles'[f] = handles[f]
  BY <1>1, <1>3, <1>4 DEF Types
<1>6. \A f \in Handles : handles'[f].start = IF f = g THEN b ELSE handles[f].start
  BY <1>3, <1>5
<1>7. \A f \in Handles : /\ handles'[f].end = IF f = g THEN handles[h].end ELSE handles[f].end
                         /\ handles'[f].behind =
                              IF f = g THEN handles[h].behind ELSE handles[f].behind
  BY <1>3, <1>5
<1>8. \A f \in Handles : handles'[f].owned =>
        \/ f \in {g, h} /\ handles[h].owned /\ handles'[f].key = handles[h].key
        \/ f \notin {g, h} /\ handles[f].owned /\ handles'[f].key = handles[f].key
  BY <1>3, <1>5
<1>9. Types'
  <2>1. \A f \in Handles : handles'[f].start # NoBuffer => handles'[f].start \in DOMAIN buffers'
    BY <1>1, <1>6 DEF Types
  <2>2. Sequence(buffers') /\ \A k \in DOMAIN buffers' : BufferOK(buffers'[k])
    BY <1>1 DEF Types
  <2>3. handles' \in [Handles -> Handle]
    BY <1>5
  <2> QED
    BY <2>1, <2>2, <2>3, Zenon DEF Types
<1>11. AllKnow'
  <2> SUFFICES ASSUME NEW f \in Handles, handles'[f].start # NoBuffer
               PROVE  Knows(handles'[f], buffers'[handles'[f].start])
    BY DEF AllKnow
  <2>1. PICK e \in Handles : /\ handles[e].start = handles'[f].start
                            /\ handles[e].end = handles'[f].end
                            /\ handles[e].behind = handles'[f].behind
    <3>1. CASE f = g
      <4>1. /\ handles'[f].start = handles[h].start /\ handles'[f].end = handles[h].end
            /\ handles'[f].behind = handles[h].behind
        BY <1>6, <1>7, <3>1
      <4> QED
        BY <4>1
    <3>2. CASE f # g
      <4>1. /\ handles'[f].start = handles[f].start /\ handles'[f].end = handles[f].end
            /\ handles'[f].behind = handles[f].behind
        BY <1>6, <1>7, <3>2
      <4> QED
        BY <4>1
    <3> QED
      BY <3>1, <3>2
  <2>2. Knows(handles[e], buffers[handles[e].start])
    BY <2>1 DEF StringInv, AllKnow
  <2> QED
    BY <2>1, <2>2, Zenon DEF Knows
<1>12. Owners'
  <2>1. \A f \in Handles : handles'[f].owned =>
          handles'[f].key \in DOMAIN buffers' /\ ~buffers'[handles'[f].key].freed
    <3>1. \A f \in Handles : handles[f].owned =>
            handles[f].key \in DOMAIN buffers /\ ~buffers[handles[f].key].freed
      BY DEF StringInv, Owners
    <3>2. \A f \in Handles : handles'[f].owned =>
            \E e \in Handles : handles[e].owned /\ handles'[f].key = handles[e].key
      BY <1>8
    <3>3. \A i \in DOMAIN buffers : buffers'[i].freed = buffers[i].freed
      OBVIOUS
    <3> SUFFICES ASSUME NEW f \in Handles, handles'[f].owned
                 PROVE  handles'[f].key \in DOMAIN buffers' /\ ~buffers'[handles'[f].key].freed
      OBVIOUS
    <3>4. PICK e \in Handles : handles[e].owned /\ handles'[f].key = handles[e].key
      BY <3>2
    <3>5. handles[e].key \in DOMAIN buffers /\ ~buffers[handles[e].key].freed
      BY <3>1, <3>4
    <3>6. DOMAIN buffers' = DOMAIN buffers /\ ~buffers'[handles[e].key].freed
      BY <3>3, <3>5
    <3> QED
      BY <3>4, <3>5, <3>6
  <2>2. ASSUME NEW e \in Handles, NEW f \in Handles,
               handles'[e].owned, handles'[f].owned, handles'[e].key = handles'[f].key
        PROVE  e = f
    <3>1. ~(handles'[g].owned /\ handles'[h].owned)
      BY <1>3, <1>5
    <3>2. \A x, y \in Handles : handles[x].owned /\ handles[y].owned
             /\ handles[x].key = handles[y].key => x = y
      BY DEF StringInv, Owners
    <3>3. CASE e \in {g, h} /\ f \in {g, h}
      <4>1. (e = g /\ f = h) \/ (e = h /\ f = g) => FALSE
        BY <2>2, <3>1
      <4> QED
        BY <3>3, <4>1
    <3>4. CASE e \notin {g, h} /\ f \notin {g, h}
      BY <1>8, <2>2, <3>2, <3>4
    <3>5. CASE e \in {g, h} /\ f \notin {g, h}
      <4>1. handles[h].owned /\ handles'[e].key = handles[h].key
        BY <1>8, <2>2, <3>5
      <4>2. handles[f].owned /\ handles'[f].key = handles[f].key
        BY <1>8, <2>2, <3>5
      <4> QED
        BY <2>2, <3>2, <3>5, <4>1, <4>2
    <3>6. CASE e \notin {g, h} /\ f \in {g, h}
      <4>1. handles[h].owned /\ handles'[f].key = handles[h].key
        BY <1>8, <2>2, <3>6
      <4>2. handles[e].owned /\ handles'[e].key = handles[e].key
        BY <1>8, <2>2, <3>6
      <4> QED
        BY <2>2, <3>2, <3>6, <4>1, <4>2
    <3> QED
      BY <3>3, <3>4, <3>5, <3>6
  <2> QED
    BY <2>1, <2>2 DEF Owners
<1> QED
  BY <1>9, <1>11, <1>12 DEF StringInv

(* A variable goes out of scope, and takes the buffer it owns along.       *)
LEMMA DestroyKeeps ==
  ASSUME StringInv, NEW h \in Handles, Destroy(h)
  PROVE  StringInv'
<1>1. Types /\ handles[h] \in Handle
  BY DEF StringInv, Types
<1>2. handles' = [handles EXCEPT ![h] = NoValue]
  BY DEF Destroy
<1>3. NoValue \in Handle /\ NoValue.start = NoBuffer /\ ~NoValue.owned
  BY DEF NoValue, Handle, NoBuffer
<1>4. /\ handles' \in [Handles -> Handle] /\ handles'[h] = NoValue
      /\ \A g \in Handles : g # h => handles'[g] = handles[g]
  BY <1>1, <1>2, <1>3 DEF Types
<1> DEFINE k == handles[h].key
<1>5. /\ Sequence(buffers') /\ DOMAIN buffers' = DOMAIN buffers
      /\ \A i \in DOMAIN buffers :
           /\ buffers'[i].raw = buffers[i].raw /\ buffers'[i].bytes = buffers[i].bytes
           /\ buffers'[i].flag = buffers[i].flag
           /\ BufferOK(buffers'[i])
           /\ (i = k /\ handles[h].owned) \/ buffers'[i].freed = buffers[i].freed
  <2>1. Sequence(buffers) /\ \A i \in DOMAIN buffers : BufferOK(buffers[i])
    BY <1>1 DEF Types
  <2>2. CASE ~handles[h].owned
    BY <2>1, <2>2 DEF Destroy
  <2>3. CASE handles[h].owned
    <3> DEFINE o == buffers[k]
               new == [o EXCEPT !.freed = TRUE]
    <3>1. k \in DOMAIN buffers
      BY <2>3 DEF StringInv, Owners
    <3>2. /\ o = [raw |-> o.raw, bytes |-> o.bytes, freed |-> o.freed, flag |-> o.flag]
          /\ o.raw \in Seq(1..255) /\ o.flag \in BOOLEAN
          /\ o.flag => o.bytes = o.raw
      BY <2>1, <3>1 DEF BufferOK
    <3>3. buffers' = [buffers EXCEPT ![k] = new]
      BY <2>3 DEF Destroy
    <3>4. new = [o EXCEPT !.freed = TRUE]
      OBVIOUS
    <3> HIDE DEF o, new
    <3>5. new = [raw |-> o.raw, bytes |-> o.bytes, freed |-> TRUE, flag |-> o.flag]
      BY <3>2, <3>4
    <3>6. /\ new.raw = o.raw /\ new.bytes = o.bytes /\ new.flag = o.flag
          /\ new.freed = TRUE
      BY <3>5
    <3>7. BufferOK(new)
      BY <3>2, <3>5, <3>6 DEF BufferOK
    <3>8. /\ Sequence(buffers') /\ DOMAIN buffers' = DOMAIN buffers
          /\ \A i \in DOMAIN buffers : buffers'[i] = IF i = k THEN new ELSE buffers[i]
      BY <2>1, <3>3, ReplaceOne
    <3>9. o = buffers[k]
      BY DEF o
    <3> HIDE DEF k
    <3>10. ASSUME NEW i \in DOMAIN buffers
           PROVE  /\ buffers'[i].raw = buffers[i].raw /\ buffers'[i].bytes = buffers[i].bytes
                  /\ buffers'[i].flag = buffers[i].flag
                  /\ BufferOK(buffers'[i])
                  /\ (i = k /\ handles[h].owned) \/ buffers'[i].freed = buffers[i].freed
      <4>1. CASE i = k
        BY <2>3, <3>6, <3>7, <3>8, <3>9, <4>1
      <4>2. CASE i # k
        BY <2>1, <3>8, <4>2
      <4> QED
        BY <4>1, <4>2
    <3> QED
      BY <3>8, <3>10
  <2> QED
    BY <2>2, <2>3
<1> HIDE DEF k
<1>6. Types'
  <2>1. \A g \in Handles : handles'[g].start # NoBuffer => handles'[g].start \in DOMAIN buffers'
    BY <1>1, <1>3, <1>4, <1>5 DEF Types
  <2> QED
    BY <1>4, <1>5, <2>1 DEF Types
<1>7. \A g \in Handles : handles'[g].start # NoBuffer =>
        /\ g # h /\ handles'[g] = handles[g] /\ handles[g].start \in DOMAIN buffers
  BY <1>1, <1>3, <1>4 DEF Types
<1>9. AllKnow'
  <2> SUFFICES ASSUME NEW g \in Handles, handles'[g].start # NoBuffer
               PROVE  Knows(handles'[g], buffers'[handles'[g].start])
    BY DEF AllKnow
  <2>1. handles'[g] = handles[g] /\ handles[g].start \in DOMAIN buffers
    BY <1>7
  <2>2. Knows(handles[g], buffers[handles[g].start])
    BY <2>1 DEF StringInv, AllKnow
  <2> DEFINE i == handles[g].start
  <2>3. /\ buffers'[i].raw = buffers[i].raw /\ buffers'[i].bytes = buffers[i].bytes
        /\ buffers'[i].flag = buffers[i].flag
    BY <1>5, <2>1
  <2> HIDE DEF i
  <2>4. Knows(handles[g], buffers'[i])
    BY <2>2, <2>3 DEF Knows, i
  <2> QED
    BY <2>1, <2>4 DEF i
<1>10. Owners'
  <2>1. \A g \in Handles : handles'[g].owned =>
          g # h /\ handles[g].owned /\ handles'[g] = handles[g]
    BY <1>3, <1>4
  <2>2. \A e, f \in Handles : handles[e].owned /\ handles[f].owned
           /\ handles[e].key = handles[f].key => e = f
    BY DEF StringInv, Owners
  <2>3. ASSUME NEW g \in Handles, handles'[g].owned
        PROVE  handles'[g].key \in DOMAIN buffers' /\ ~buffers'[handles'[g].key].freed
    <3>1. g # h /\ handles[g].owned /\ handles'[g] = handles[g]
      BY <2>1, <2>3
    <3>2. handles[g].key \in DOMAIN buffers /\ ~buffers[handles[g].key].freed
      BY <3>1 DEF StringInv, Owners
    <3>3. ~(handles[g].key = k /\ handles[h].owned)
      BY <2>2, <3>1 DEF k
    <3>4. buffers'[handles[g].key].freed = buffers[handles[g].key].freed
      BY <1>5, <3>2, <3>3
    <3> QED
      BY <1>5, <3>1, <3>2, <3>4
  <2> QED
    BY <2>1, <2>2, <2>3 DEF Owners
<1> QED
  BY <1>6, <1>9, <1>10 DEF StringInv

(* A sequence of elements of S is one of elements of any larger set.       *)
LEMMA SeqWidens ==
  ASSUME NEW S, NEW T, S \subseteq T, NEW x \in Seq(S)
  PROVE  x \in Seq(T) /\ Len(x) \in Nat
<1>1. Len(x) \in Nat /\ x \in [1 .. Len(x) -> S]
  OBVIOUS
<1>2. x \in [1 .. Len(x) -> T]
  BY <1>1
<1> QED
  BY <1>1, <1>2

(* The first reading of a buffer unescapes it, in place.                   *)
LEMMA ReadKeeps ==
  ASSUME StringInv, NEW h \in Handles, Read(h)
  PROVE  StringInv'
<1> DEFINE b == handles[h].start
           o == buffers[b]
           s == Unescape(o.bytes)
           new == UnescapedIn(o)
<1>1. Types /\ handles[h] \in Handle /\ b # NoBuffer /\ b \in DOMAIN buffers
  BY DEF StringInv, Types, Read, Live
<1>2. CASE ~o.flag
  BY <1>2 DEF Read, StringInv, Types, AllKnow, Owners
<1>3. CASE o.flag
  <2>1. /\ buffers' = [buffers EXCEPT ![b] = new]
        /\ handles' = [g \in Handles |->
                         IF g = h THEN [handles[g] EXCEPT !.end = Len(s)]
                         ELSE [handles[g] EXCEPT !.behind = @ \/ handles[g].start = b]]
    BY <1>3 DEF Read
  <2>2. /\ o = [raw |-> o.raw, bytes |-> o.bytes, freed |-> o.freed, flag |-> o.flag]
        /\ o.raw \in Seq(1..255) /\ o.freed \in BOOLEAN
        /\ o.bytes = o.raw
    BY <1>1, <1>3 DEF Types, BufferOK
  <2>3. s = Unescape(o.raw) /\ Sequence(s)
    BY <2>2, UnescapeIsSequence
  <2> DEFINE bytes == s \o <<0>> \o SubSeq(o.bytes, Len(s) + 2, Len(o.bytes))
  <2>4. SubSeq(bytes, 1, Len(s)) = s /\ Len(s) \in Nat
    <3>1. PICK T : s \in Seq(T)
      BY <2>3 DEF Sequence
    <3> DEFINE U == T \cup Nat
               rest == SubSeq(o.bytes, Len(s) + 2, Len(o.bytes))
    <3>2. s \in Seq(U) /\ <<0>> \in Seq(U) /\ Len(s) \in Nat
      BY <3>1
    <3>3. rest \in Seq(U)
      <4>1. o.bytes \in Seq(Nat) /\ Len(o.bytes) \in Nat
        <5>1. o.bytes \in Seq(1..255)
          BY <2>2
        <5>2. 1..255 \subseteq Nat
          OBVIOUS
        <5> HIDE DEF o
        <5> QED
          BY <5>1, <5>2, SeqWidens
      <4> DEFINE old == o.bytes
                 k == Len(s) + 2
                 l == Len(o.bytes)
      <4>2. old \in Seq(Nat) /\ l = Len(old) /\ l \in Nat /\ k \in Nat \ {0}
        BY <3>2, <4>1
      <4>3. rest = SubSeq(old, k, l)
        OBVIOUS
      <4> HIDE DEF old, k, l, rest, U
      <4>4. \A i \in k .. l : old[i] \in Nat
        BY <4>2
      <4>5. rest \in Seq(Nat) /\ Nat \subseteq U
        BY <4>2, <4>3, <4>4, SubSeqProperties DEF U
      <4> QED
        BY <4>5, SeqWidens
    <3> HIDE DEF U, rest, s
    <3>4. <<0>> \o rest \in Seq(U)
      BY <3>2, <3>3
    <3>5. bytes = s \o (<<0>> \o rest)
      <4>1. bytes = (s \o <<0>>) \o rest
        BY DEF rest
      <4>2. (s \o <<0>>) \o rest = s \o (<<0>> \o rest)
        BY <3>2, <3>3, ConcatAssociative
      <4> QED
        BY <4>1, <4>2
    <3>6. SubSeq(s \o (<<0>> \o rest), 1, Len(s)) = s
      <4> DEFINE t == <<0>> \o rest
      <4>1. t \in Seq(U) /\ Len(t) \in Nat
        BY <3>4
      <4> HIDE DEF t
      <4>2. s \o t \in Seq(U) /\ Len(s \o t) = Len(s) + Len(t)
            /\ \A i \in 1 .. Len(s) : (s \o t)[i] = s[i]
        BY <3>2, <4>1
      <4>3. SubSeq(s \o t, 1, Len(s)) \in Seq(U) /\ Len(SubSeq(s \o t, 1, Len(s))) = Len(s)
            /\ \A i \in 1 .. Len(s) : SubSeq(s \o t, 1, Len(s))[i] = (s \o t)[i]
        BY <3>2, <4>1, <4>2
      <4>4. SubSeq(s \o t, 1, Len(s)) = s
        BY <3>2, <4>2, <4>3, SeqEqual
      <4> QED
        BY <4>4 DEF t
    <3> QED
      BY <3>2, <3>5, <3>6
  <2> HIDE DEF s
  <2>5. new = [o EXCEPT !.bytes = bytes, !.flag = FALSE]
    BY DEF UnescapedIn, s
  <2> HIDE DEF o, new, bytes
  <2>6. new = [raw |-> o.raw, bytes |-> bytes, freed |-> o.freed, flag |-> FALSE]
    BY <2>2, <2>5
  <2>7. /\ new.raw = o.raw /\ new.bytes = bytes /\ new.flag = FALSE
        /\ new.freed = o.freed
    BY <2>6
  <2>8. BufferOK(new)
    BY <2>2, <2>6, <2>7 DEF BufferOK
  <2>9. /\ Sequence(buffers') /\ DOMAIN buffers' = DOMAIN buffers
        /\ \A i \in DOMAIN buffers : buffers'[i] = IF i = b THEN new ELSE buffers[i]
    BY <1>1, <2>1, ReplaceOne DEF Types
  <2>10. o = buffers[b] /\ b = handles[h].start
    BY DEF o
  <2> HIDE DEF b
  <2>11. /\ handles' \in [Handles -> Handle]
         /\ handles'[h].end = Len(s) /\ handles'[h].behind = handles[h].behind
         /\ \A g \in Handles : /\ handles'[g].start = handles[g].start
                               /\ handles'[g].key = handles[g].key
                               /\ handles'[g].owned = handles[g].owned
         /\ \A g \in Handles \ {h} :
              /\ handles'[g].end = handles[g].end
              /\ handles'[g].behind = (handles[g].behind \/ handles[g].start = b)
    <3>1. ASSUME NEW g \in Handles
          PROVE  /\ handles'[g] \in Handle
                 /\ handles'[g].start = handles[g].start /\ handles'[g].key = handles[g].key
                 /\ handles'[g].owned = handles[g].owned
                 /\ g = h => /\ handles'[g].end = Len(s)
                             /\ handles'[g].behind = handles[g].behind
                 /\ g # h => /\ handles'[g].end = handles[g].end
                             /\ handles'[g].behind = (handles[g].behind \/ handles[g].start = b)
      <4>1. handles[g] \in Handle
        BY <1>1 DEF Types
      <4>2. CASE g = h
        BY <2>1, <2>4, <4>1, <4>2 DEF Handle
      <4>3. CASE g # h
        <5> DEFINE missed == handles[g].behind \/ handles[g].start = b
        <5>1. missed \in BOOLEAN
          BY <4>1 DEF Handle
        <5>2. handles'[g] = [handles[g] EXCEPT !.behind = missed]
          BY <2>1, <4>3
        <5> HIDE DEF missed
        <5>3. /\ handles'[g] \in Handle /\ handles'[g].behind = missed
              /\ handles'[g].start = handles[g].start /\ handles'[g].key = handles[g].key
              /\ handles'[g].owned = handles[g].owned /\ handles'[g].end = handles[g].end
          BY <4>1, <5>1, <5>2 DEF Handle
        <5> QED
          BY <4>3, <5>3 DEF missed
      <4> QED
        BY <4>2, <4>3
    <3>2. handles' = [g \in Handles |-> handles'[g]]
      BY <2>1
    <3> QED
      BY <3>1, <3>2
  <2>12. Types'
    <3>1. \A i \in DOMAIN buffers' : BufferOK(buffers'[i])
      BY <1>1, <2>8, <2>9 DEF Types
    <3>2. \A g \in Handles : handles'[g].start # NoBuffer => handles'[g].start \in DOMAIN buffers'
      BY <1>1, <2>9, <2>11 DEF Types
    <3> QED
      BY <2>9, <2>11, <3>1, <3>2 DEF Types
  <2>14. AllKnow'
    <3> SUFFICES ASSUME NEW g \in Handles, handles'[g].start # NoBuffer
                 PROVE  Knows(handles'[g], buffers'[handles'[g].start])
      BY DEF AllKnow
    <3>1. handles'[g].start = handles[g].start /\ handles[g].start \in DOMAIN buffers
      BY <1>1, <2>11 DEF Types
    <3>2. Knows(handles[g], buffers[handles[g].start])
      BY <3>1 DEF StringInv, AllKnow
    <3>3. CASE handles[g].start = b
      <4>1. buffers'[handles'[g].start] = new
        BY <2>9, <3>1, <3>3
      <4>2. ~handles[g].behind /\ handles[g].end = Len(o.raw)
        BY <1>3, <2>10, <3>2, <3>3 DEF Knows
      <4>3. CASE g = h
        <5>1. handles'[g].end = Len(s) /\ ~handles'[g].behind
          BY <2>11, <4>2, <4>3
        <5>2. SubSeq(new.bytes, 1, handles'[g].end) = Unescape(new.raw)
          BY <2>3, <2>4, <2>7, <5>1
        <5> QED
          BY <2>7, <4>1, <5>1, <5>2 DEF Knows
      <4>4. CASE g # h
        <5>1. handles'[g].end = Len(o.raw) /\ handles'[g].behind = TRUE
          BY <2>11, <3>3, <4>2, <4>4
        <5>2. SubSeq(bytes, 1, Len(o.raw)) = LateReading(o.raw)
          BY <2>2, <2>3 DEF LateReading, bytes
        <5> QED
          BY <2>7, <4>1, <5>1, <5>2 DEF Knows
      <4> QED
        BY <4>3, <4>4
    <3>4. CASE handles[g].start # b
      <4>1. handles'[g].end = handles[g].end /\ handles'[g].behind = handles[g].behind
        <5>1. handles[g].behind \in BOOLEAN
          BY <1>1 DEF Types, Handle
        <5> QED
          BY <2>10, <2>11, <3>4, <5>1
      <4>2. buffers'[handles'[g].start] = buffers[handles[g].start]
        BY <2>9, <3>1, <3>4
      <4> QED
        BY <3>2, <4>1, <4>2 DEF Knows
    <3> QED
      BY <3>3, <3>4
  <2>15. Owners'
    <3>1. \A i \in DOMAIN buffers : buffers'[i].freed = buffers[i].freed
      BY <2>7, <2>9, <2>10
    <3>2. \A g \in Handles : handles[g].owned =>
            handles[g].key \in DOMAIN buffers /\ ~buffers[handles[g].key].freed
      BY DEF StringInv, Owners
    <3>3. \A f, g \in Handles :
            handles[f].owned /\ handles[g].owned /\ handles[f].key = handles[g].key => f = g
      BY DEF StringInv, Owners
    <3>4. ASSUME NEW g \in Handles, handles'[g].owned
          PROVE  handles'[g].key \in DOMAIN buffers' /\ ~buffers'[handles'[g].key].freed
      <4>1. handles[g].key \in DOMAIN buffers /\ ~buffers[handles[g].key].freed
            /\ handles'[g].key = handles[g].key
        BY <2>11, <3>2, <3>4
      <4> QED
        BY <2>9, <3>1, <4>1
    <3>5. ASSUME NEW f \in Handles, NEW g \in Handles,
                 handles'[f].owned, handles'[g].owned, handles'[f].key = handles'[g].key
          PROVE  f = g
      BY <2>11, <3>3, <3>5
    <3> QED
      BY <3>4, <3>5 DEF Owners
  <2> QED
    BY <2>12, <2>14, <2>15 DEF StringInv
<1> QED
  BY <1>2, <1>3

(* The invariant of the strings: what the buffers hold, who sees them and  *)
(* who owns them.                                                          *)
LEMMA StringsInvariant == ReadSpec => []StringInv
<1>1. StringInv /\ [ReadStrings \/ ReadLists]_readVars => StringInv'
  <2> SUFFICES ASSUME StringInv, [ReadStrings \/ ReadLists]_readVars PROVE StringInv'
    OBVIOUS
  <2>1. CASE UNCHANGED <<buffers, handles>>
    BY <2>1 DEF StringInv, Types, AllKnow, Owners
  <2>2. CASE ReadLists
    BY <2>1, <2>2 DEF ReadLists, EmplaceBack, CopyList
  <2>3. ASSUME NEW h \in Handles, Read(h) PROVE StringInv'
    BY <2>3, ReadKeeps
  <2>4. ASSUME NEW h \in Handles, Destroy(h) PROVE StringInv'
    BY <2>4, DestroyKeeps
  <2>5. ASSUME NEW h \in Handles, NEW s \in Strings, LoadInto(h, s) PROVE StringInv'
    BY <2>5, LoadKeeps
  <2>6. ASSUME NEW h \in Handles, NEW g \in Handles, Copy(h, g) PROVE StringInv'
    <3> DEFINE owns == handles[h].owned
    <3>1. handles \in [Handles -> Handle] /\ handles[h] \in Handle /\ h # g
          /\ handles[h].start # NoBuffer /\ UNCHANGED buffers /\ owns \in BOOLEAN
      BY <2>6 DEF Copy, StringInv, Types, Handle
    <3>2. handles' = [handles EXCEPT ![g] = [handles[h] EXCEPT !.owned = FALSE],
                                     ![h] = [handles[h] EXCEPT !.owned = owns]]
      <4>1. handles' = [handles EXCEPT ![g] = [handles[h] EXCEPT !.owned = FALSE]]
        BY <2>6 DEF Copy
      <4>2. [handles[h] EXCEPT !.owned = owns] = handles[h]
        BY <3>1 DEF Handle
      <4> QED
        BY <3>1, <4>1, <4>2
    <3> HIDE DEF owns
    <3> QED
      BY <3>1, <3>2, SharedKeeps DEF owns
  <2>7. ASSUME NEW h \in Handles, NEW g \in Handles, Move(h, g) PROVE StringInv'
    <3> DEFINE owns == handles[h].owned
    <3>1. handles \in [Handles -> Handle] /\ handles[h] \in Handle /\ h # g
          /\ handles[h].start # NoBuffer /\ UNCHANGED buffers /\ owns \in BOOLEAN
      BY <2>7 DEF Move, StringInv, Types, Handle
    <3>2. handles' = [handles EXCEPT ![g] = [handles[h] EXCEPT !.owned = owns],
                                     ![h] = [handles[h] EXCEPT !.owned = FALSE]]
      <4>1. handles' = [handles EXCEPT ![g] = handles[h], ![h].owned = FALSE]
        BY <2>7 DEF Move, OwnsMoved
      <4>2. [handles[h] EXCEPT !.owned = owns] = handles[h]
        BY <3>1 DEF Handle
      <4> QED
        BY <3>1, <4>1, <4>2
    <3> HIDE DEF owns
    <3> QED
      BY <3>1, <3>2, SharedKeeps DEF owns
  <2> QED
    BY <2>1, <2>2, <2>3, <2>4, <2>5, <2>6, <2>7 DEF ReadStrings, readVars
<1> QED
  BY <1>1, StringsBegin, PTL DEF ReadSpec

(* However often and through whichever variable it is read, a string reads *)
(* as its text with the escapes replaced, and what was copied or moved     *)
(* before another variable read it first reads exactly what its old end    *)
(* lets it see: for every text, and any number of variables, buffers and   *)
(* steps (json.h, rvalue::s and unescape).                                 *)
THEOREM Reads == ReadSpec => []ReadsAgree
<1>1. StringInv => ReadsAgree
  <2> SUFFICES ASSUME StringInv, NEW h \in Handles, Live(h)
               PROVE  Reading(h) = IF handles[h].behind
                                   THEN LateReading(buffers[handles[h].start].raw)
                                   ELSE Unescape(buffers[handles[h].start].raw)
    BY DEF ReadsAgree
  <2> DEFINE b == buffers[handles[h].start]
  <2>1. BufferOK(b) /\ Knows(handles[h], b)
    BY DEF Live, StringInv, Types, AllKnow
  <2>2. Reading(h) = IF b.flag THEN Unescape(b.bytes) ELSE SubSeq(b.bytes, 1, handles[h].end)
    BY DEF Reading
  <2> HIDE DEF b
  <2>3. Reading(h) = IF handles[h].behind THEN LateReading(b.raw) ELSE Unescape(b.raw)
    BY <2>1, <2>2 DEF BufferOK, Knows
  <2> QED
    BY <2>3 DEF b
<1> QED
  BY <1>1, StringsInvariant, PTL

(* No buffer is deleted twice: it has at most one owner, and none after it *)
(* has been deleted (json.h, r_string's assignments and destructor).       *)
THEOREM Owned == ReadSpec => []OneOwner
<1>1. StringInv => OneOwner
  <2> SUFFICES ASSUME StringInv, NEW b \in DOMAIN buffers
               PROVE  LET owners == {h \in Handles : handles[h].owned /\ handles[h].key = b}
                      IN Cardinality(owners) <= (IF buffers[b].freed THEN 0 ELSE 1)
    BY DEF OneOwner
  <2> DEFINE owners == {h \in Handles : handles[h].owned /\ handles[h].key = b}
  <2>1. CASE owners = {}
    BY <2>1, FS_EmptySet
  <2>2. CASE owners # {}
    <3>1. PICK h \in owners : TRUE
      BY <2>2
    <3>2. owners = {h}
      BY <3>1 DEF StringInv, Owners
    <3>3. ~buffers[b].freed
      BY <3>1 DEF StringInv, Owners
    <3>4. Cardinality({h}) = 1
      BY FS_Singleton
    <3> HIDE DEF owners
    <3> QED
      BY <3>2, <3>3, <3>4 DEF owners
  <2> QED
    BY <2>1, <2>2
<1> QED
  BY <1>1, StringsInvariant, PTL

-----------------------------------------------------------------------------
(* Values that are written: the fields that a value can have.              *)

ScalarTypes == {"Null", "True", "False", "Number", "String"}
Item == [t : ScalarTypes, num : Nat, s : Nat, l : {NoPointer}, o : {NoPointer}]
Lists == UNION {[0 .. (n - 1) -> Item] : n \in Nat}
Objects == UNION {[K -> Item] : K \in SUBSET Keys}
ListPointers == {NoPointer} \cup {To(f) : f \in Lists}
ObjectPointers == {NoPointer} \cup {To(f) : f \in Objects}
Wvalue == [t : ScalarTypes \cup Containers, num : Nat, s : Nat,
           l : ListPointers, o : ObjectPointers]

(* A value of these fields.                                                *)
W(t, num, s, l, o) == [t |-> t, num |-> num, s |-> s, l |-> l, o |-> o]

(* A value is made of its fields.                                          *)
(* A value is made of its fields.                                          *)
LEMMA FieldsOf ==
  ASSUME NEW w \in Wvalue
  PROVE  /\ w = W(w.t, w.num, w.s, w.l, w.o)
         /\ w.t \in ScalarTypes \cup Containers /\ w.num \in Nat /\ w.s \in Nat
         /\ w.l \in ListPointers /\ w.o \in ObjectPointers
BY DEF Wvalue, W

(* So is an item, which has neither list nor object.                       *)
(* So is an item, which has neither list nor object.                       *)
LEMMA ItemFieldsOf ==
  ASSUME NEW w \in Item
  PROVE  /\ w = W(w.t, w.num, w.s, NoPointer, NoPointer)
         /\ w.t \in ScalarTypes /\ w.num \in Nat /\ w.s \in Nat
         /\ w.l = NoPointer /\ w.o = NoPointer
BY DEF Item, W

(* Fields of these kinds make a value.                                     *)
(* Fields of these kinds make a value.                                     *)
LEMMA FieldsMake ==
  ASSUME NEW t \in ScalarTypes \cup Containers, NEW num \in Nat, NEW s \in Nat,
         NEW l \in ListPointers, NEW o \in ObjectPointers
  PROVE  /\ W(t, num, s, l, o) \in Wvalue
         /\ W(t, num, s, l, o).t = t /\ W(t, num, s, l, o).num = num
         /\ W(t, num, s, l, o).s = s /\ W(t, num, s, l, o).l = l /\ W(t, num, s, l, o).o = o
BY DEF Wvalue, W

(* And an item.                                                            *)
(* And an item.                                                            *)
LEMMA ItemFieldsMake ==
  ASSUME NEW t \in ScalarTypes, NEW num \in Nat, NEW s \in Nat
  PROVE  W(t, num, s, NoPointer, NoPointer) \in Item
BY DEF Item, W

(* What the pointers say.                                                  *)
LEMMA Pointers ==
  /\ NoPointer.null = TRUE /\ NoPointer.of = Empty /\ DOMAIN Empty = {}
  /\ \A f : To(f).null = FALSE /\ To(f).of = f
  /\ Empty \in Lists /\ Empty \in Objects
  /\ \A f \in Lists : To(f) \in ListPointers
  /\ \A f \in Objects : To(f) \in ObjectPointers
  /\ NoPointer \in ListPointers /\ NoPointer \in ObjectPointers
<1>1. Empty \in [0 .. (0 - 1) -> Item]
  <2>1. 0 .. (0 - 1) = {}
    OBVIOUS
  <2> QED
    BY <2>1 DEF Empty
<1>2. Empty \in [{} -> Item]
  BY DEF Empty
<1>3. Empty \in Lists /\ Empty \in Objects
  BY <1>1, <1>2 DEF Lists, Objects
<1> QED
  BY <1>3 DEF NoPointer, Empty, To, ListPointers, ObjectPointers

(* What is shown of a value.                                               *)
LEMMA ShownOf ==
  ASSUME NEW t, NEW num, NEW s, NEW l, NEW o
  PROVE  Shown(W(t, num, s, l, o)) =
         [scalar |-> [t |-> t, c |-> CASE t = "Number" -> num [] t = "String" -> s [] OTHER -> 0],
          items |-> CASE t = "List" -> [i \in DOMAIN l.of |-> ShownItem(l.of[i])]
                      [] t = "Object" -> [k \in DOMAIN o.of |-> ShownItem(o.of[k])]
                      [] OTHER -> Empty,
          moved |-> (t = "List" /\ l.null) \/ (t = "Object" /\ o.null)]
BY DEF Shown, ShownItem, W

(* What is shown of a scalar.                                              *)
LEMMA ShownScalar ==
  ASSUME NEW t, NEW num, NEW s, NEW l, NEW o, t # "List", t # "Object"
  PROVE  Shown(W(t, num, s, l, o)) =
         Meant(t, CASE t = "Number" -> num [] t = "String" -> s [] OTHER -> 0, Empty)
<1> DEFINE c == CASE t = "Number" -> num [] t = "String" -> s [] OTHER -> 0
           items == CASE t = "List" -> [i \in DOMAIN l.of |-> ShownItem(l.of[i])]
                      [] t = "Object" -> [k \in DOMAIN o.of |-> ShownItem(o.of[k])]
                      [] OTHER -> Empty
           moved == (t = "List" /\ l.null) \/ (t = "Object" /\ o.null)
<1>1. Shown(W(t, num, s, l, o)) =
        [scalar |-> [t |-> t, c |-> c], items |-> items, moved |-> moved]
  BY ShownOf
<1>2. moved = FALSE
  OBVIOUS
<1>3. items = Empty
  OBVIOUS
<1> HIDE DEF items, moved
<1> QED
  BY <1>1, <1>2, <1>3 DEF Meant

(* What is shown of a list.                                                *)
(* What is shown of a list.                                                *)
LEMMA ShownList ==
  ASSUME NEW num, NEW s, NEW l, NEW o, l.null \in BOOLEAN
  PROVE  Shown(W("List", num, s, l, o)) =
         [scalar |-> [t |-> "List", c |-> 0],
          items |-> [i \in DOMAIN l.of |-> ShownItem(l.of[i])], moved |-> l.null]
<1> DEFINE c == CASE "List" = "Number" -> num [] "List" = "String" -> s [] OTHER -> 0
           items == CASE "List" = "List" -> [i \in DOMAIN l.of |-> ShownItem(l.of[i])]
                      [] "List" = "Object" -> [k \in DOMAIN o.of |-> ShownItem(o.of[k])]
                      [] OTHER -> Empty
           moved == ("List" = "List" /\ l.null) \/ ("List" = "Object" /\ o.null)
<1>1. Shown(W("List", num, s, l, o)) =
        [scalar |-> [t |-> "List", c |-> c], items |-> items, moved |-> moved]
  BY ShownOf
<1>2. moved = l.null
  OBVIOUS
<1>3. items = [i \in DOMAIN l.of |-> ShownItem(l.of[i])]
  OBVIOUS
<1>4. c = 0
  OBVIOUS
<1> HIDE DEF items, moved, c
<1> QED
  BY <1>1, <1>2, <1>3, <1>4, Zenon

(* What is shown of an object.                                             *)
(* What is shown of an object.                                             *)
LEMMA ShownObject ==
  ASSUME NEW num, NEW s, NEW l, NEW o, o.null \in BOOLEAN
  PROVE  Shown(W("Object", num, s, l, o)) =
         [scalar |-> [t |-> "Object", c |-> 0],
          items |-> [k \in DOMAIN o.of |-> ShownItem(o.of[k])], moved |-> o.null]
<1> DEFINE c == CASE "Object" = "Number" -> num [] "Object" = "String" -> s [] OTHER -> 0
           items == CASE "Object" = "List" -> [i \in DOMAIN l.of |-> ShownItem(l.of[i])]
                      [] "Object" = "Object" -> [k \in DOMAIN o.of |-> ShownItem(o.of[k])]
                      [] OTHER -> Empty
           moved == ("Object" = "List" /\ l.null) \/ ("Object" = "Object" /\ o.null)
<1>1. Shown(W("Object", num, s, l, o)) =
        [scalar |-> [t |-> "Object", c |-> c], items |-> items, moved |-> moved]
  BY ShownOf
<1>2. moved = o.null
  OBVIOUS
<1>3. items = [k \in DOMAIN o.of |-> ShownItem(o.of[k])]
  OBVIOUS
<1>4. c = 0
  OBVIOUS
<1> HIDE DEF items, moved, c
<1> QED
  BY <1>1, <1>2, <1>3, <1>4, Zenon

(* What reset() leaves, and what null shows.                               *)
LEMMA ResetShows ==
  ASSUME NEW w \in Wvalue
  PROVE  /\ Reset(w) = W("Null", w.num, w.s, NoPointer, NoPointer)
         /\ Reset(w) \in Wvalue /\ Reset(w).num = w.num /\ Reset(w).s = w.s
         /\ Reset(w).l = NoPointer /\ Reset(w).o = NoPointer
         /\ Shown(Reset(w)) = Meant("Null", 0, Empty)
<1>1. Reset(w) = W("Null", w.num, w.s, NoPointer, NoPointer)
  <2> SUFFICES ASSUME NEW r, r = Reset(w)
               PROVE  r = W("Null", w.num, w.s, NoPointer, NoPointer)
    OBVIOUS
  <2> QED
    BY DEF Reset, W, Wvalue
<1>2. /\ Reset(w) \in Wvalue /\ Reset(w).num = w.num /\ Reset(w).s = w.s
      /\ Reset(w).l = NoPointer /\ Reset(w).o = NoPointer
  <2>1. "Null" \in ScalarTypes \cup Containers
    BY DEF ScalarTypes
  <2> QED
    BY <1>1, <2>1, FieldsOf, Pointers, FieldsMake
<1>3. Shown(Reset(w)) = Meant("Null", 0, Empty)
  <2>1. (CASE "Null" = "Number" -> w.num [] "Null" = "String" -> w.s [] OTHER -> 0) = 0
    OBVIOUS
  <2>2. "Null" # "List" /\ "Null" # "Object"
    OBVIOUS
  <2> QED
    BY <1>1, <2>1, <2>2, ShownScalar, Zenon
<1> QED
  BY <1>1, <1>2, <1>3

(* A new value shows null.                                                 *)
(* A new value shows null.                                                 *)
LEMMA NullShows == WNull \in Wvalue /\ Shown(WNull) = Meant("Null", 0, Empty)
<1>1. WNull = W("Null", 0, 0, NoPointer, NoPointer)
  BY DEF WNull, W
<1>2. "Null" \in ScalarTypes \cup Containers
  BY DEF ScalarTypes
<1>3. W("Null", 0, 0, NoPointer, NoPointer) \in Wvalue
  BY <1>2, Pointers, FieldsMake
<1>4. (CASE "Null" = "Number" -> 0 [] "Null" = "String" -> 0 [] OTHER -> 0) = 0
  OBVIOUS
<1>5. "Null" # "List" /\ "Null" # "Object"
  OBVIOUS
<1> QED
  BY <1>1, <1>3, <1>4, <1>5, ShownScalar, Zenon

(* A scalar: the other fields do not show.                                 *)
LEMMA ScalarWritten ==
  ASSUME NEW w \in Wvalue, NEW v \in Scalars
  PROVE  /\ AssignScalar(w, v) \in Wvalue
         /\ Shown(AssignScalar(w, v)) = Meant(v.t, v.c, Empty)
         /\ AssignScalar(w, v) \in Item
         /\ ShownItem(AssignScalar(w, v)) = v
<1>1. v = [t |-> v.t, c |-> v.c] /\ v.t \in ScalarTypes /\ v.c \in Nat
      /\ (v.t \in {"Number", "String"} \/ v.c = 0)
  BY JsonWriteAssumption DEF ScalarTypes
<1>2. w.num \in Nat /\ w.s \in Nat
  BY FieldsOf
<1>3. /\ Reset(w) = W("Null", w.num, w.s, NoPointer, NoPointer)
      /\ Reset(w) \in Wvalue /\ Reset(w).num = w.num /\ Reset(w).s = w.s
      /\ Reset(w).l = NoPointer /\ Reset(w).o = NoPointer
  BY ResetShows
<1> DEFINE num == IF v.t = "Number" THEN v.c ELSE w.num
           s == IF v.t = "String" THEN v.c ELSE w.s
<1>4. AssignScalar(w, v) = W(v.t, num, s, NoPointer, NoPointer)
  <2>1. CASE v.t = "Number"
    <3> SUFFICES ASSUME NEW r, r = AssignScalar(w, v)
                 PROVE  r = W(v.t, v.c, w.s, NoPointer, NoPointer)
      BY <2>1
    <3>1. r = [Reset(w) EXCEPT !.t = v.t, !.num = v.c]
      BY <2>1 DEF AssignScalar
    <3> QED
      BY <1>3, <3>1 DEF Wvalue, W
  <2>2. CASE v.t = "String"
    <3> SUFFICES ASSUME NEW r, r = AssignScalar(w, v)
                 PROVE  r = W(v.t, w.num, v.c, NoPointer, NoPointer)
      BY <2>2
    <3>1. r = [Reset(w) EXCEPT !.t = v.t, !.s = v.c]
      BY <2>2 DEF AssignScalar
    <3> QED
      BY <1>3, <3>1 DEF Wvalue, W
  <2>3. CASE v.t # "Number" /\ v.t # "String"
    BY <1>3, <2>3 DEF AssignScalar, W
  <2> QED
    BY <2>1, <2>2, <2>3
<1>5. num \in Nat /\ s \in Nat
  BY <1>1, <1>2
<1>6. (CASE v.t = "Number" -> num [] v.t = "String" -> s [] OTHER -> 0) = v.c
  BY <1>1
<1> HIDE DEF num, s
<1>7. NoPointer \in ListPointers /\ NoPointer \in ObjectPointers
  BY Pointers
<1>8. AssignScalar(w, v) \in Item /\ AssignScalar(w, v) \in Wvalue
  BY <1>1, <1>4, <1>5, <1>7, ItemFieldsMake, FieldsMake
<1>9. ShownItem(AssignScalar(w, v)) = v
  BY <1>1, <1>4, <1>6 DEF ShownItem, W
<1>10. v.t # "List" /\ v.t # "Object"
  BY <1>1 DEF ScalarTypes
<1>11. Shown(AssignScalar(w, v)) = Meant(v.t, v.c, Empty)
  <2> DEFINE c == CASE v.t = "Number" -> num [] v.t = "String" -> s [] OTHER -> 0
  <2>1. Shown(W(v.t, num, s, NoPointer, NoPointer)) = Meant(v.t, c, Empty)
    BY <1>10, ShownScalar
  <2>2. c = v.c
    BY <1>6
  <2> HIDE DEF c
  <2> QED
    BY <1>4, <2>1, <2>2
<1> QED
  BY <1>8, <1>9, <1>11

(* The items that a list has or is given, and the members of an object.    *)
ItemsShown(f) == [i \in DOMAIN f |-> ShownItem(f[i])]
ListOf(w) == IF w.t = "List" /\ ~w.l.null THEN w.l.of ELSE Empty
ObjectOf(w) == IF w.t = "Object" /\ ~w.o.null THEN w.o.of ELSE Empty

(* No items show nothing.                                                  *)
(* No items show nothing.                                                  *)
LEMMA NothingShown == ItemsShown(Empty) = Empty
<1>1. DOMAIN Empty = {}
  BY Pointers
<1> QED
  BY <1>1 DEF ItemsShown, Empty

(* A pointer of a value is null or has items of its own.                   *)
(* A pointer of a value is null or has items of its own.                   *)
LEMMA PointersAre ==
  ASSUME NEW w \in Wvalue
  PROVE  /\ w.l = NoPointer \/ (~w.l.null /\ w.l.of \in Lists /\ w.l = To(w.l.of))
         /\ w.o = NoPointer \/ (~w.o.null /\ w.o.of \in Objects /\ w.o = To(w.o.of))
         /\ w.l.null \in BOOLEAN /\ w.o.null \in BOOLEAN
         /\ ListOf(w) \in Lists /\ ObjectOf(w) \in Objects
         /\ w.l.null => w.l = NoPointer
         /\ w.o.null => w.o = NoPointer
<1>1. w.l \in ListPointers /\ w.o \in ObjectPointers
  BY FieldsOf
<1>2. w.l = NoPointer \/ \E f \in Lists : w.l = To(f)
  BY <1>1 DEF ListPointers
<1>3. w.o = NoPointer \/ \E f \in Objects : w.o = To(f)
  BY <1>1 DEF ObjectPointers
<1>4. w.l = NoPointer \/ (~w.l.null /\ w.l.of \in Lists /\ w.l = To(w.l.of))
  <2>1. CASE w.l # NoPointer
    <3>1. PICK f \in Lists : w.l = To(f)
      BY <1>2, <2>1
    <3>2. To(f).of = f /\ To(f).null = FALSE
      BY Pointers
    <3> QED
      BY <3>1, <3>2, Zenon
  <2> QED
    BY <2>1
<1>5. w.o = NoPointer \/ (~w.o.null /\ w.o.of \in Objects /\ w.o = To(w.o.of))
  <2>1. CASE w.o # NoPointer
    <3>1. PICK f \in Objects : w.o = To(f)
      BY <1>3, <2>1
    <3>2. To(f).of = f /\ To(f).null = FALSE
      BY Pointers
    <3> QED
      BY <3>1, <3>2, Zenon
  <2> QED
    BY <2>1
<1> QED
  BY <1>4, <1>5, Pointers DEF ListOf, ObjectOf

(* What is shown of a value, by its type.                                  *)
LEMMA ShownParts ==
  ASSUME NEW w \in Wvalue
  PROVE  /\ Shown(w).scalar.t = w.t
         /\ w.t = "List" => Shown(w) = [scalar |-> [t |-> "List", c |-> 0],
                                        items |-> ItemsShown(ListOf(w)), moved |-> w.l.null]
         /\ w.t = "Object" => Shown(w) = [scalar |-> [t |-> "Object", c |-> 0],
                                          items |-> ItemsShown(ObjectOf(w)), moved |-> w.o.null]
         /\ w.t \notin Containers =>
              Shown(w) = Meant(w.t, CASE w.t = "Number" -> w.num [] w.t = "String" -> w.s
                                   [] OTHER -> 0,
                               Empty)
<1>1. w = W(w.t, w.num, w.s, w.l, w.o)
  BY FieldsOf
<1>2. w.l.null \in BOOLEAN /\ w.o.null \in BOOLEAN
  BY PointersAre
<1>3. Shown(w).scalar.t = w.t
  BY DEF Shown, ShownItem
<1>4. ASSUME w.t = "List"
      PROVE  Shown(w) = [scalar |-> [t |-> "List", c |-> 0],
                         items |-> ItemsShown(ListOf(w)), moved |-> w.l.null]
  <2>1. Shown(w) = [scalar |-> [t |-> "List", c |-> 0],
                    items |-> ItemsShown(w.l.of), moved |-> w.l.null]
    BY <1>1, <1>2, <1>4, ShownList DEF ItemsShown
  <2>2. w.l.of = ListOf(w)
    BY <1>4, PointersAre, Pointers DEF ListOf
  <2> QED
    BY <2>1, <2>2
<1>5. ASSUME w.t = "Object"
      PROVE  Shown(w) = [scalar |-> [t |-> "Object", c |-> 0],
                         items |-> ItemsShown(ObjectOf(w)), moved |-> w.o.null]
  <2>1. Shown(w) = [scalar |-> [t |-> "Object", c |-> 0],
                    items |-> ItemsShown(w.o.of), moved |-> w.o.null]
    BY <1>1, <1>2, <1>5, ShownObject DEF ItemsShown
  <2>2. w.o.of = ObjectOf(w)
    BY <1>5, PointersAre, Pointers DEF ObjectOf
  <2> QED
    BY <2>1, <2>2
<1>6. ASSUME w.t \notin Containers
      PROVE  Shown(w) = Meant(w.t, CASE w.t = "Number" -> w.num [] w.t = "String" -> w.s
                                   [] OTHER -> 0,
                              Empty)
  <2>1. w.t # "List" /\ w.t # "Object"
    BY <1>6 DEF Containers
  <2> QED
    BY <1>1, <2>1, ShownScalar
<1> QED
  BY <1>3, <1>4, <1>5, <1>6

(* A value becomes a list, or an object, with the items it had as such.    *)
LEMMA AsListMakes ==
  ASSUME NEW w \in Wvalue
  PROVE  /\ AsList(w) \in Wvalue /\ AsList(w).t = "List" /\ AsList(w).l = To(ListOf(w))
         /\ AsObject(w) \in Wvalue /\ AsObject(w).t = "Object" /\ AsObject(w).o = To(ObjectOf(w))
<1>1. Reset(w) \in Wvalue /\ Reset(w).l = NoPointer /\ Reset(w).o = NoPointer
  BY ResetShows
<1>2. AsList(w) \in Wvalue /\ AsList(w).t = "List" /\ AsList(w).l = To(ListOf(w))
  <2> DEFINE r == IF w.t = "List" THEN w ELSE Reset(w)
             l == IF r.l.null THEN To(Empty) ELSE r.l
  <2>1. r \in Wvalue
    BY <1>1
  <2>2. l = To(ListOf(w)) /\ l \in ListPointers
    BY <1>1, PointersAre, Pointers DEF ListOf
  <2> SUFFICES ASSUME NEW a, a = AsList(w)
               PROVE  a \in Wvalue /\ a.t = "List" /\ a.l = To(ListOf(w))
    OBVIOUS
  <2>3. a = [r EXCEPT !.t = "List", !.l = l]
    BY DEF AsList
  <2> HIDE DEF r, l
  <2>4. a = W("List", r.num, r.s, l, r.o)
    BY <2>1, <2>3 DEF W, Wvalue
  <2>5. "List" \in ScalarTypes \cup Containers
    BY DEF Containers
  <2>6. /\ r.num \in Nat /\ r.s \in Nat
        /\ r.l \in ListPointers /\ r.o \in ObjectPointers
    BY <2>1, FieldsOf
  <2>7. W("List", r.num, r.s, l, r.o) \in Wvalue
    BY <2>2, <2>5, <2>6, FieldsMake
  <2>8. W("List", r.num, r.s, l, r.o).t = "List" /\ W("List", r.num, r.s, l, r.o).l = l
    BY DEF W
  <2> QED
    BY <2>2, <2>4, <2>7, <2>8, Zenon
<1>3. AsObject(w) \in Wvalue /\ AsObject(w).t = "Object" /\ AsObject(w).o = To(ObjectOf(w))
  <2> DEFINE r == IF w.t = "Object" THEN w ELSE Reset(w)
             o == IF r.o.null THEN To(Empty) ELSE r.o
  <2>1. r \in Wvalue
    BY <1>1
  <2>2. o = To(ObjectOf(w)) /\ o \in ObjectPointers
    BY <1>1, PointersAre, Pointers DEF ObjectOf
  <2> SUFFICES ASSUME NEW a, a = AsObject(w)
               PROVE  a \in Wvalue /\ a.t = "Object" /\ a.o = To(ObjectOf(w))
    OBVIOUS
  <2>3. a = [r EXCEPT !.t = "Object", !.o = o]
    BY DEF AsObject
  <2> HIDE DEF r, o
  <2>4. a = W("Object", r.num, r.s, r.l, o)
    BY <2>1, <2>3 DEF W, Wvalue
  <2>5. "Object" \in ScalarTypes \cup Containers
    BY DEF Containers
  <2>6. /\ r.num \in Nat /\ r.s \in Nat
        /\ r.l \in ListPointers /\ r.o \in ObjectPointers
    BY <2>1, FieldsOf
  <2>7. W("Object", r.num, r.s, r.l, o) \in Wvalue
    BY <2>2, <2>5, <2>6, FieldsMake
  <2>8. W("Object", r.num, r.s, r.l, o).t = "Object" /\ W("Object", r.num, r.s, r.l, o).o = o
    BY DEF W
  <2> QED
    BY <2>2, <2>4, <2>7, <2>8, Zenon
<1> QED
  BY <1>2, <1>3

(* A list is given items.                                                  *)
LEMMA GivenList ==
  ASSUME NEW w \in Wvalue, w.t = "List", NEW f \in Lists, NEW r, r = [w EXCEPT !.l = To(f)]
  PROVE  r \in Wvalue /\ Shown(r) = Meant("List", 0, ItemsShown(f))
<1> DEFINE p == To(f)
<1>1. r = W("List", w.num, w.s, p, w.o)
  BY DEF W, Wvalue
<1>2. p.null = FALSE /\ p.of = f /\ p \in ListPointers
  BY Pointers
<1> HIDE DEF p
<1>3. r \in Wvalue
  <2>1. "List" \in ScalarTypes \cup Containers
    BY DEF Containers
  <2>2. W("List", w.num, w.s, p, w.o) \in Wvalue
    BY <1>2, <2>1, FieldsOf, FieldsMake
  <2> QED
    BY <1>1, <2>2, Zenon
<1>4. Shown(r) = [scalar |-> [t |-> "List", c |-> 0], items |-> ItemsShown(p.of),
                  moved |-> p.null]
  <2>1. p.null \in BOOLEAN
    BY <1>2
  <2>2. Shown(W("List", w.num, w.s, p, w.o)) =
          [scalar |-> [t |-> "List", c |-> 0], items |-> ItemsShown(p.of), moved |-> p.null]
    BY <2>1, ShownList DEF ItemsShown
  <2> QED
    BY <1>1, <2>2, Zenon
<1> QED
  BY <1>2, <1>3, <1>4 DEF Meant

(* An object is given members.                                             *)
(* An object is given members.                                             *)
LEMMA GivenObject ==
  ASSUME NEW w \in Wvalue, w.t = "Object", NEW f \in Objects, NEW r, r = [w EXCEPT !.o = To(f)]
  PROVE  r \in Wvalue /\ Shown(r) = Meant("Object", 0, ItemsShown(f))
<1> DEFINE p == To(f)
<1>1. r = W("Object", w.num, w.s, w.l, p)
  BY DEF W, Wvalue
<1>2. p.null = FALSE /\ p.of = f /\ p \in ObjectPointers
  BY Pointers
<1> HIDE DEF p
<1>3. r \in Wvalue
  <2>1. "Object" \in ScalarTypes \cup Containers
    BY DEF Containers
  <2>2. W("Object", w.num, w.s, w.l, p) \in Wvalue
    BY <1>2, <2>1, FieldsOf, FieldsMake
  <2> QED
    BY <1>1, <2>2, Zenon
<1>4. Shown(r) = [scalar |-> [t |-> "Object", c |-> 0], items |-> ItemsShown(p.of),
                  moved |-> p.null]
  <2>1. p.null \in BOOLEAN
    BY <1>2
  <2>2. Shown(W("Object", w.num, w.s, w.l, p)) =
          [scalar |-> [t |-> "Object", c |-> 0], items |-> ItemsShown(p.of), moved |-> p.null]
    BY <2>1, ShownObject DEF ItemsShown
  <2> QED
    BY <1>1, <2>2, Zenon
<1> QED
  BY <1>2, <1>3, <1>4 DEF Meant

(* An item that is assigned to shows what was assigned, and a new one is   *)
(* null.                                                                   *)
LEMMA ItemWritten ==
  ASSUME NEW v \in Scalars
  PROVE  /\ WNull \in Item /\ WNull \in Wvalue /\ Item \subseteq Wvalue
         /\ ShownItem(WNull) = [t |-> "Null", c |-> 0]
         /\ OfScalar(v) \in Item /\ ShownItem(OfScalar(v)) = v
         /\ \A w \in Item : AssignScalar(w, v) \in Item /\ ShownItem(AssignScalar(w, v)) = v
<1>1. WNull = W("Null", 0, 0, NoPointer, NoPointer)
  BY DEF WNull, W
<1>2. "Null" \in ScalarTypes
  BY DEF ScalarTypes
<1>3. WNull \in Item
  <2>1. W("Null", 0, 0, NoPointer, NoPointer) \in Item
    BY <1>2, ItemFieldsMake
  <2> QED
    BY <1>1, <2>1, Zenon
<1>4. Item \subseteq Wvalue
  BY Pointers DEF Item, Wvalue
<1>5. ShownItem(WNull) = [t |-> "Null", c |-> 0]
  BY DEF ShownItem, WNull
<1>6. \A w \in Item : AssignScalar(w, v) \in Item /\ ShownItem(AssignScalar(w, v)) = v
  BY <1>4, ScalarWritten
<1> QED
  BY <1>3, <1>4, <1>5, <1>6 DEF OfScalar

(* A list is replaced.                                                     *)
LEMMA ListAssigned ==
  ASSUME NEW w \in Wvalue, NEW v \in Scalars, NEW n \in Nat
  PROVE  LET items == [i \in 0 .. (n - 1) |-> v]
         IN AssignList(w, items) \in Wvalue
            /\ Shown(AssignList(w, items)) = Meant("List", 0, items)
<1> DEFINE items == [i \in 0 .. (n - 1) |-> v]
           f == [i \in DOMAIN items |-> OfScalar(items[i])]
<1>1. OfScalar(v) \in Item /\ ShownItem(OfScalar(v)) = v
  BY ItemWritten
<1>2. f = [i \in 0 .. (n - 1) |-> OfScalar(v)]
  OBVIOUS
<1>3. f \in Lists
  <2>1. f \in [0 .. (n - 1) -> Item]
    BY <1>1, <1>2
  <2> HIDE DEF f
  <2> QED
    BY <2>1 DEF Lists
<1>4. ItemsShown(f) = items
  BY <1>1, <1>2 DEF ItemsShown
<1> SUFFICES ASSUME NEW r, r = AssignList(w, items)
             PROVE  r \in Wvalue /\ Shown(r) = Meant("List", 0, items)
  OBVIOUS
<1>5. r = [AsList(w) EXCEPT !.l = To(f)]
  BY DEF AssignList
<1> HIDE DEF f, items
<1>6. AsList(w) \in Wvalue /\ AsList(w).t = "List"
  BY AsListMakes
<1>7. r \in Wvalue /\ Shown(r) = Meant("List", 0, ItemsShown(f))
  BY <1>3, <1>5, <1>6, GivenList
<1> QED
  BY <1>4, <1>7

(* An object is replaced.                                                  *)
(* An object is replaced.                                                  *)
LEMMA ObjectAssigned ==
  ASSUME NEW w \in Wvalue, NEW v \in Scalars, NEW k \in Keys
  PROVE  LET members == [j \in {k} |-> v]
         IN AssignObject(w, members) \in Wvalue
            /\ Shown(AssignObject(w, members)) = Meant("Object", 0, members)
<1> DEFINE members == [j \in {k} |-> v]
           f == [j \in DOMAIN members |-> OfScalar(members[j])]
<1>1. OfScalar(v) \in Item /\ ShownItem(OfScalar(v)) = v
  BY ItemWritten
<1>2. f = [j \in {k} |-> OfScalar(v)]
  OBVIOUS
<1>3. f \in Objects
  <2>1. f \in [{k} -> Item] /\ {k} \in SUBSET Keys
    BY <1>1, <1>2
  <2> HIDE DEF f
  <2> QED
    BY <2>1 DEF Objects
<1>4. ItemsShown(f) = members
  BY <1>1, <1>2 DEF ItemsShown
<1> SUFFICES ASSUME NEW r, r = AssignObject(w, members)
             PROVE  r \in Wvalue /\ Shown(r) = Meant("Object", 0, members)
  OBVIOUS
<1>5. r = [AsObject(w) EXCEPT !.o = To(f)]
  BY DEF AssignObject
<1> HIDE DEF f, members
<1>6. AsObject(w) \in Wvalue /\ AsObject(w).t = "Object"
  BY AsListMakes
<1>7. r \in Wvalue /\ Shown(r) = Meant("Object", 0, ItemsShown(f))
  BY <1>3, <1>5, <1>6, GivenObject
<1> QED
  BY <1>4, <1>7

(* One item of a list: those before it are filled up.                      *)
LEMMA ItemAssigned ==
  ASSUME NEW w \in Wvalue, NEW v \in Scalars, NEW i \in Nat
  PROVE  /\ AssignAt(w, i, v) \in Wvalue
         /\ Shown(AssignAt(w, i, v)) = MeantAt(Shown(w), "List", i, v)
<1> DEFINE l == ListOf(w)
<1>1. PICK n \in Nat : l \in [0 .. (n - 1) -> Item]
  BY PointersAre DEF Lists
<1>2. Cardinality(DOMAIN l) = n /\ DOMAIN l = 0 .. (n - 1)
  <2>1. Cardinality(0 .. (n - 1)) = n
    BY FS_Interval
  <2> HIDE DEF l
  <2> QED
    BY <1>1, <2>1
<1> DEFINE m == Max({n, i + 1})
<1>3. m = IF n >= i + 1 THEN n ELSE i + 1
  BY OfTwo
<1> HIDE DEF m
<1>4. m \in Nat /\ i < m /\ n <= m /\ 0 .. (m - 1) = (0 .. (n - 1)) \cup (0 .. i)
  BY <1>3
<1> DEFINE longer == Resized(l, m)
           f == [longer EXCEPT ![i] = AssignScalar(longer[i], v)]
<1>5. longer = [j \in 0 .. (m - 1) |-> IF j \in 0 .. (n - 1) THEN l[j] ELSE WNull]
  BY <1>2 DEF Resized
<1> HIDE DEF longer, l
<1>6. longer \in [0 .. (m - 1) -> Item]
  BY <1>1, <1>5, ItemWritten
<1>7. i \in 0 .. (m - 1) /\ longer[i] \in Item
  BY <1>4, <1>6
<1>8. f \in [0 .. (m - 1) -> Item] /\ f[i] = AssignScalar(longer[i], v)
      /\ \A j \in 0 .. (m - 1) : j # i => f[j] = longer[j]
  BY <1>6, <1>7, ItemWritten
<1> HIDE DEF f
<1>9. f \in Lists
  BY <1>4, <1>8 DEF Lists
<1>10. ItemsShown(f) = [j \in 0 .. (m - 1) |->
                          IF j = i THEN v
                          ELSE IF j \in 0 .. (n - 1) THEN ShownItem(l[j])
                          ELSE [t |-> "Null", c |-> 0]]
  <2>1. DOMAIN f = 0 .. (m - 1)
    BY <1>8
  <2>2. ASSUME NEW j \in 0 .. (m - 1)
        PROVE  ShownItem(f[j]) = IF j = i THEN v
                                 ELSE IF j \in 0 .. (n - 1) THEN ShownItem(l[j])
                                 ELSE [t |-> "Null", c |-> 0]
    <3>1. CASE j = i
      BY <1>7, <1>8, <3>1, ItemWritten
    <3>2. CASE j # i
      BY <1>5, <1>8, <3>2, ItemWritten
    <3> QED
      BY <3>1, <3>2
  <2> QED
    BY <2>1, <2>2 DEF ItemsShown
<1> SUFFICES ASSUME NEW r, r = AssignAt(w, i, v)
             PROVE  r \in Wvalue /\ Shown(r) = MeantAt(Shown(w), "List", i, v)
  OBVIOUS
<1>11. AsList(w) \in Wvalue /\ AsList(w).t = "List" /\ AsList(w).l = To(l)
  BY AsListMakes DEF l
<1>12. AsList(w).l.of = l
  BY <1>11, Pointers
<1>13. r = [AsList(w) EXCEPT !.l = To(f)]
  BY <1>2, <1>12 DEF AssignAt, f, longer, m
<1>14. r \in Wvalue /\ Shown(r) = Meant("List", 0, ItemsShown(f))
  BY <1>9, <1>11, <1>13, GivenList
<1> DEFINE before == IF Shown(w).scalar.t = "List" THEN Shown(w).items ELSE Empty
<1>15. before = ItemsShown(l)
  <2>1. CASE w.t = "List"
    BY <2>1, ShownParts DEF l
  <2>2. CASE w.t # "List"
    BY <2>2, ShownParts, NothingShown DEF l, ListOf
  <2> QED
    BY <2>1, <2>2
<1>16. DOMAIN before = 0 .. (n - 1) /\ \A j \in 0 .. (n - 1) : before[j] = ShownItem(l[j])
  BY <1>2, <1>15 DEF ItemsShown
<1> DEFINE all == DOMAIN before \cup (IF "List" = "List" THEN 0 .. i ELSE {i})
           meant == [j \in all |-> IF j = i THEN v
                                   ELSE IF j \in DOMAIN before THEN before[j]
                                   ELSE [t |-> "Null", c |-> 0]]
<1>17. MeantAt(Shown(w), "List", i, v) = Meant("List", 0, meant)
  BY DEF MeantAt
<1> HIDE DEF before
<1>18. meant = ItemsShown(f)
  <2>1. all = 0 .. (m - 1)
    BY <1>4, <1>16
  <2> HIDE DEF all
  <2> QED
    BY <1>10, <1>16, <2>1
<1> HIDE DEF meant, all
<1> QED
  BY <1>14, <1>17, <1>18

(* One member of an object.                                                *)
LEMMA MemberAssigned ==
  ASSUME NEW w \in Wvalue, NEW v \in Scalars, NEW k \in Keys
  PROVE  /\ AssignKey(w, k, v) \in Wvalue
         /\ Shown(AssignKey(w, k, v)) = MeantAt(Shown(w), "Object", k, v)
<1> DEFINE o == ObjectOf(w)
<1>1. PICK K \in SUBSET Keys : o \in [K -> Item]
  BY PointersAre DEF Objects
<1>2. DOMAIN o = K
  BY <1>1
<1> HIDE DEF o
<1> DEFINE all == K \cup {k}
           members == [j \in all |-> IF j \in K THEN o[j] ELSE WNull]
           f == [members EXCEPT ![k] = AssignScalar(members[k], v)]
<1>3. all \in SUBSET Keys /\ k \in all
  OBVIOUS
<1> HIDE DEF all
<1>4. members \in [all -> Item] /\ members[k] \in Item
  BY <1>1, <1>3, ItemWritten
<1>5. \A j \in all : members[j] = IF j \in K THEN o[j] ELSE WNull
  OBVIOUS
<1> HIDE DEF members
<1>6. /\ f \in [all -> Item] /\ f[k] = AssignScalar(members[k], v)
      /\ \A j \in all : j # k => f[j] = members[j]
  BY <1>3, <1>4, ItemWritten
<1> HIDE DEF f
<1>7. f \in Objects
  BY <1>3, <1>6 DEF Objects
<1>8. ItemsShown(f) = [j \in all |-> IF j = k THEN v
                                     ELSE IF j \in K THEN ShownItem(o[j])
                                     ELSE [t |-> "Null", c |-> 0]]
  <2>1. DOMAIN f = all
    BY <1>6
  <2>2. ASSUME NEW j \in all
        PROVE  ShownItem(f[j]) = IF j = k THEN v
                                 ELSE IF j \in K THEN ShownItem(o[j])
                                 ELSE [t |-> "Null", c |-> 0]
    <3>1. CASE j = k
      BY <1>4, <1>6, <3>1, ItemWritten
    <3>2. CASE j # k
      BY <1>5, <1>6, <3>2, ItemWritten
    <3> QED
      BY <3>1, <3>2
  <2> QED
    BY <2>1, <2>2 DEF ItemsShown
<1> SUFFICES ASSUME NEW r, r = AssignKey(w, k, v)
             PROVE  r \in Wvalue /\ Shown(r) = MeantAt(Shown(w), "Object", k, v)
  OBVIOUS
<1>9. AsObject(w) \in Wvalue /\ AsObject(w).t = "Object" /\ AsObject(w).o = To(o)
  BY AsListMakes DEF o
<1>10. AsObject(w).o.of = o
  BY <1>9, Pointers
<1>11. r = [AsObject(w) EXCEPT !.o = To(f)]
  BY <1>2, <1>10 DEF AssignKey, f, members, all
<1>12. r \in Wvalue /\ Shown(r) = Meant("Object", 0, ItemsShown(f))
  BY <1>7, <1>9, <1>11, GivenObject
<1> DEFINE before == IF Shown(w).scalar.t = "Object" THEN Shown(w).items ELSE Empty
<1>13. before = ItemsShown(o)
  <2>1. CASE w.t = "Object"
    BY <2>1, ShownParts DEF o
  <2>2. CASE w.t # "Object"
    BY <2>2, ShownParts, NothingShown DEF o, ObjectOf
  <2> QED
    BY <2>1, <2>2
<1>14. DOMAIN before = K /\ \A j \in K : before[j] = ShownItem(o[j])
  BY <1>2, <1>13 DEF ItemsShown
<1> DEFINE named == DOMAIN before \cup (IF "Object" = "List" THEN 0 .. k ELSE {k})
           meant == [j \in named |-> IF j = k THEN v
                                     ELSE IF j \in DOMAIN before THEN before[j]
                                     ELSE [t |-> "Null", c |-> 0]]
<1>15. MeantAt(Shown(w), "Object", k, v) = Meant("Object", 0, meant)
  BY DEF MeantAt
<1> HIDE DEF before
<1>16. meant = ItemsShown(f)
  <2>1. named = all
    BY <1>14 DEF all
  <2> HIDE DEF named
  <2> QED
    BY <1>8, <1>14, <2>1
<1> HIDE DEF meant, named
<1> QED
  BY <1>12, <1>15, <1>16

(* A copy has the field that counts.                                       *)
LEMMA CopiedParts ==
  ASSUME NEW w \in Wvalue
  PROVE  CopiedItem(w) = W(w.t, IF w.t = "Number" THEN w.num ELSE 0,
                           IF w.t = "String" THEN w.s ELSE 0, NoPointer, NoPointer)
<1>1. WNull \in Wvalue /\ WNull = W("Null", 0, 0, NoPointer, NoPointer)
  <2>1. WNull = W("Null", 0, 0, NoPointer, NoPointer)
    BY DEF WNull, W
  <2>2. "Null" \in ScalarTypes \cup Containers
    BY DEF ScalarTypes
  <2>3. W("Null", 0, 0, NoPointer, NoPointer) \in Wvalue
    BY <2>2, Pointers, FieldsMake
  <2> QED
    BY <2>1, <2>3, Zenon
<1>2. WNull.num = 0 /\ WNull.s = 0 /\ WNull.l = NoPointer /\ WNull.o = NoPointer
  BY DEF WNull
<1> SUFFICES ASSUME NEW r, r = CopiedItem(w)
             PROVE  r = W(w.t, IF w.t = "Number" THEN w.num ELSE 0,
                          IF w.t = "String" THEN w.s ELSE 0, NoPointer, NoPointer)
  OBVIOUS
<1> DEFINE num == IF w.t = "Number" THEN w.num ELSE 0
           s == IF w.t = "String" THEN w.s ELSE 0
<1>3. r = [WNull EXCEPT !.t = w.t, !.num = num, !.s = s]
  BY <1>2 DEF CopiedItem
<1> HIDE DEF num, s
<1>4. r = W(w.t, num, s, NoPointer, NoPointer)
  BY <1>1, <1>2, <1>3 DEF W, Wvalue
<1> QED
  BY <1>4 DEF num, s

(* A copied item shows the same.                                           *)
(* A copied item shows the same.                                           *)
LEMMA ItemCopied ==
  ASSUME NEW w \in Item
  PROVE  CopiedItem(w) \in Item /\ ShownItem(CopiedItem(w)) = ShownItem(w)
<1>1. Item \subseteq Wvalue
  BY Pointers DEF Item, Wvalue
<1> DEFINE num == IF w.t = "Number" THEN w.num ELSE 0
           s == IF w.t = "String" THEN w.s ELSE 0
<1>2. CopiedItem(w) = W(w.t, num, s, NoPointer, NoPointer)
  BY <1>1, CopiedParts
<1>3. w.t \in ScalarTypes /\ num \in Nat /\ s \in Nat
  BY ItemFieldsOf
<1>4. (CASE w.t = "Number" -> num [] w.t = "String" -> s [] OTHER -> 0)
        = CASE w.t = "Number" -> w.num [] w.t = "String" -> w.s [] OTHER -> 0
  OBVIOUS
<1> HIDE DEF num, s
<1>5. CopiedItem(w) \in Item
  BY <1>2, <1>3, ItemFieldsMake
<1>6. ShownItem(CopiedItem(w)) = ShownItem(w)
  BY <1>2, <1>4 DEF ShownItem, W
<1> QED
  BY <1>5, <1>6

(* The items of a copied list or object are copies.                        *)
LEMMA ItemsCopied ==
  ASSUME NEW p, NEW D, p.of \in [D -> Item]
  PROVE  LET f == [i \in DOMAIN p.of |-> CopiedItem(p.of[i])]
         IN CopiedItems(p) = To(f) /\ f \in [D -> Item] /\ ItemsShown(f) = ItemsShown(p.of)
<1> DEFINE f == [i \in DOMAIN p.of |-> CopiedItem(p.of[i])]
<1>1. CopiedItems(p) = To(f)
  BY DEF CopiedItems
<1>2. DOMAIN p.of = D
  OBVIOUS
<1>3. f \in [D -> Item] /\ \A i \in D : ShownItem(f[i]) = ShownItem(p.of[i])
  BY <1>2, ItemCopied
<1> HIDE DEF f
<1>4. ItemsShown(f) = ItemsShown(p.of)
  BY <1>2, <1>3 DEF ItemsShown
<1> QED
  BY <1>1, <1>3, <1>4 DEF f

(* A copy of a value that was not moved from shows the same.               *)
LEMMA CopyShows ==
  ASSUME NEW w \in Wvalue,
         ~(w.t = "List" /\ w.l.null), ~(w.t = "Object" /\ w.o.null)
  PROVE  Copied(w) \in Wvalue /\ Shown(Copied(w)) = Shown(w)
<1> DEFINE num == IF w.t = "Number" THEN w.num ELSE 0
           s == IF w.t = "String" THEN w.s ELSE 0
           l == IF w.t = "List" THEN CopiedItems(w.l) ELSE NoPointer
           o == IF w.t = "Object" THEN CopiedItems(w.o) ELSE NoPointer
<1>1. CopiedItem(w) = W(w.t, num, s, NoPointer, NoPointer)
  BY CopiedParts
<1>2. w.t \in ScalarTypes \cup Containers /\ num \in Nat /\ s \in Nat
  BY FieldsOf
<1>3. (CASE w.t = "Number" -> num [] w.t = "String" -> s [] OTHER -> 0)
        = CASE w.t = "Number" -> w.num [] w.t = "String" -> w.s [] OTHER -> 0
  OBVIOUS
<1>4. /\ CopiedItem(w) \in Wvalue /\ CopiedItem(w).l = NoPointer /\ CopiedItem(w).o = NoPointer
      /\ CopiedItem(w).t = w.t /\ CopiedItem(w).num = num /\ CopiedItem(w).s = s
  <2> HIDE DEF num, s
  <2> QED
    BY <1>1, <1>2, Pointers, FieldsMake
<1>5. Copied(w) = W(w.t, num, s, l, o)
  <2> SUFFICES ASSUME NEW r, r = Copied(w)
               PROVE  r = W(w.t, num, s, l, o)
    OBVIOUS
  <2>1. r = [CopiedItem(w) EXCEPT !.l = l, !.o = o]
    BY <1>4 DEF Copied
  <2> HIDE DEF num, s, l, o
  <2> QED
    BY <1>4, <2>1 DEF W, Wvalue
<1>6. CASE w.t = "List"
  <2>1. ~w.l.null /\ w.l.of \in Lists /\ ListOf(w) = w.l.of
    BY <1>6, PointersAre, Pointers DEF ListOf
  <2> DEFINE f == [i \in DOMAIN w.l.of |-> CopiedItem(w.l.of[i])]
  <2>2. PICK n \in Nat : w.l.of \in [0 .. (n - 1) -> Item]
    BY <2>1 DEF Lists
  <2>3. l = To(f) /\ f \in [0 .. (n - 1) -> Item] /\ ItemsShown(f) = ItemsShown(w.l.of)
    BY <1>6, <2>2, ItemsCopied
  <2>4. o = NoPointer
    BY <1>6
  <2> HIDE DEF f, num, s, l, o
  <2>5. f \in Lists
    BY <2>3 DEF Lists
  <2>6. l \in ListPointers /\ l.null = FALSE /\ l.of = f /\ o \in ObjectPointers
    BY <2>3, <2>4, <2>5, Pointers
  <2>7. W(w.t, num, s, l, o) \in Wvalue
    BY <1>2, <2>6, FieldsMake
  <2>8. Shown(W("List", num, s, l, o)) =
          [scalar |-> [t |-> "List", c |-> 0], items |-> ItemsShown(l.of), moved |-> l.null]
    <3>1. l.null \in BOOLEAN
      BY <2>6
    <3> QED
      BY <3>1, ShownList DEF ItemsShown
  <2>9. Shown(w) = [scalar |-> [t |-> "List", c |-> 0], items |-> ItemsShown(w.l.of),
                    moved |-> w.l.null]
    BY <1>6, <2>1, ShownParts
  <2>10. ItemsShown(l.of) = ItemsShown(w.l.of) /\ l.null = w.l.null
    <3>1. w.l.null = FALSE
      BY <2>1, PointersAre
    <3> QED
      BY <2>3, <2>6, <3>1, Zenon
  <2> QED
    BY <1>5, <1>6, <2>7, <2>8, <2>9, <2>10, Zenon
<1>7. CASE w.t = "Object"
  <2>1. ~w.o.null /\ w.o.of \in Objects /\ ObjectOf(w) = w.o.of
    BY <1>7, PointersAre, Pointers DEF ObjectOf
  <2> DEFINE f == [i \in DOMAIN w.o.of |-> CopiedItem(w.o.of[i])]
  <2>2. PICK K \in SUBSET Keys : w.o.of \in [K -> Item]
    BY <2>1 DEF Objects
  <2>3. o = To(f) /\ f \in [K -> Item] /\ ItemsShown(f) = ItemsShown(w.o.of)
    BY <1>7, <2>2, ItemsCopied
  <2>4. l = NoPointer
    BY <1>7
  <2> HIDE DEF f, num, s, l, o
  <2>5. f \in Objects
    BY <2>3 DEF Objects
  <2>6. o \in ObjectPointers /\ o.null = FALSE /\ o.of = f /\ l \in ListPointers
    BY <2>3, <2>4, <2>5, Pointers
  <2>7. W(w.t, num, s, l, o) \in Wvalue
    BY <1>2, <2>6, FieldsMake
  <2>8. Shown(W("Object", num, s, l, o)) =
          [scalar |-> [t |-> "Object", c |-> 0], items |-> ItemsShown(o.of), moved |-> o.null]
    <3>1. o.null \in BOOLEAN
      BY <2>6
    <3> QED
      BY <3>1, ShownObject DEF ItemsShown
  <2>9. Shown(w) = [scalar |-> [t |-> "Object", c |-> 0], items |-> ItemsShown(w.o.of),
                    moved |-> w.o.null]
    BY <1>7, <2>1, ShownParts
  <2>10. ItemsShown(o.of) = ItemsShown(w.o.of) /\ o.null = w.o.null
    <3>1. w.o.null = FALSE
      BY <2>1, PointersAre
    <3> QED
      BY <2>3, <2>6, <3>1, Zenon
  <2> QED
    BY <1>5, <1>7, <2>7, <2>8, <2>9, <2>10, Zenon
<1>8. CASE w.t \notin Containers
  <2>1. w.t # "List" /\ w.t # "Object"
    BY <1>8 DEF Containers
  <2>2. l = NoPointer /\ o = NoPointer
    BY <2>1
  <2> DEFINE c == CASE w.t = "Number" -> num [] w.t = "String" -> s [] OTHER -> 0
  <2>3. Shown(W(w.t, num, s, l, o)) = Meant(w.t, c, Empty)
    BY <2>1, ShownScalar
  <2>4. Shown(w) = Meant(w.t, c, Empty)
    BY <1>3, <1>8, ShownParts
  <2> HIDE DEF num, s, l, o, c
  <2>5. W(w.t, num, s, l, o) \in Wvalue
    BY <1>2, <2>2, Pointers, FieldsMake
  <2> QED
    BY <1>5, <2>3, <2>4, <2>5, Zenon
<1> QED
  BY <1>6, <1>7, <1>8 DEF Containers

(* What is left of a value that was moved from: its type, and its number.  *)
LEMMA MovedShows ==
  ASSUME NEW w \in Wvalue
  PROVE  MovedFrom(w) \in Wvalue /\ Shown(MovedFrom(w)) = MeantMoved(Shown(w))
<1>1. MovedFrom(w) = W(w.t, w.num, 0, NoPointer, NoPointer)
  <2> SUFFICES ASSUME NEW r, r = MovedFrom(w)
               PROVE  r = W(w.t, w.num, 0, NoPointer, NoPointer)
    OBVIOUS
  <2>1. r = [w EXCEPT !.s = 0, !.l = NoPointer, !.o = NoPointer]
    BY DEF MovedFrom
  <2> QED
    BY <2>1 DEF W, Wvalue
<1>2. w.t \in ScalarTypes \cup Containers /\ w.num \in Nat /\ w.s \in Nat
  BY FieldsOf
<1>3. MovedFrom(w) \in Wvalue
  <2>1. W(w.t, w.num, 0, NoPointer, NoPointer) \in Wvalue
    BY <1>2, Pointers, FieldsMake
  <2> QED
    BY <1>1, <2>1, Zenon
<1>4. NoPointer.null = TRUE /\ ItemsShown(NoPointer.of) = Empty
  BY Pointers, NothingShown
<1> DEFINE c == CASE w.t = "Number" -> w.num [] w.t = "String" -> w.s [] OTHER -> 0
           left == IF w.t = "String" THEN 0 ELSE c
<1>5. \E items, moved : moved \in BOOLEAN
        /\ Shown(w) = [scalar |-> [t |-> w.t, c |-> c], items |-> items, moved |-> moved]
  <2>1. CASE w.t = "List"
    <3>1. Shown(w) = [scalar |-> [t |-> w.t, c |-> c], items |-> ItemsShown(ListOf(w)),
                      moved |-> w.l.null]
      BY <2>1, ShownParts
    <3> QED
      BY <3>1, PointersAre
  <2>2. CASE w.t = "Object"
    <3>1. Shown(w) = [scalar |-> [t |-> w.t, c |-> c], items |-> ItemsShown(ObjectOf(w)),
                      moved |-> w.o.null]
      BY <2>2, ShownParts
    <3> QED
      BY <3>1, PointersAre
  <2>3. CASE w.t \notin Containers
    <3>1. Shown(w) = Meant(w.t, c, Empty)
      BY <2>3, ShownParts
    <3> HIDE DEF c
    <3>2. Shown(w) = [scalar |-> [t |-> w.t, c |-> c], items |-> Empty, moved |-> FALSE]
      BY <3>1 DEF Meant
    <3>3. FALSE \in BOOLEAN
      OBVIOUS
    <3> QED
      BY <3>2, <3>3, Zenon
  <2> QED
    BY <2>1, <2>2, <2>3 DEF Containers
<1>6. MeantMoved(Shown(w)) = [scalar |-> [t |-> w.t, c |-> left], items |-> Empty,
                              moved |-> w.t \in Containers]
  <2>1. PICK items, moved : Shown(w) = [scalar |-> [t |-> w.t, c |-> c], items |-> items,
                                        moved |-> moved]
    BY <1>5
  <2> DEFINE m == Shown(w)
  <2>2. m \in [scalar : [t : {w.t}, c : {c}], items : {items}, moved : {moved}]
    BY <2>1
  <2> SUFFICES ASSUME NEW r, r = MeantMoved(m)
               PROVE  r = [scalar |-> [t |-> w.t, c |-> left], items |-> Empty,
                           moved |-> w.t \in Containers]
    OBVIOUS
  <2>3. m.scalar.t = w.t /\ m.scalar.c = c /\ m.scalar \in [t : {w.t}, c : {c}]
    BY <2>2
  <2> HIDE DEF m, c
  <2> DEFINE is == w.t \in Containers
  <2>4. r = [m EXCEPT !.scalar = [m.scalar EXCEPT !.c = left], !.items = Empty, !.moved = is]
    BY <2>3 DEF MeantMoved
  <2>5. \A sc : sc = [m.scalar EXCEPT !.c = left] => sc = [t |-> w.t, c |-> left]
    BY <2>3
  <2> HIDE DEF is, left
  <2> DEFINE sc == [m.scalar EXCEPT !.c = left]
  <2>6. sc = [t |-> w.t, c |-> left]
    BY <2>5
  <2> HIDE DEF sc
  <2>7. r = [scalar |-> sc, items |-> Empty, moved |-> is]
    BY <2>2, <2>4 DEF sc
  <2> QED
    BY <2>6, <2>7 DEF is
<1>7. CASE w.t = "List"
  <2>1. Shown(W("List", w.num, 0, NoPointer, NoPointer)) =
          [scalar |-> [t |-> "List", c |-> 0], items |-> ItemsShown(NoPointer.of),
           moved |-> NoPointer.null]
    <3>1. NoPointer.null \in BOOLEAN
      BY <1>4
    <3> QED
      BY <3>1, ShownList DEF ItemsShown
  <2>2. left = 0
    BY <1>7
  <2>3. (w.t \in Containers) = TRUE
    BY <1>7 DEF Containers
  <2> HIDE DEF left, c
  <2> QED
    BY <1>1, <1>3, <1>4, <1>6, <1>7, <2>1, <2>2, <2>3
<1>8. CASE w.t = "Object"
  <2>1. Shown(W("Object", w.num, 0, NoPointer, NoPointer)) =
          [scalar |-> [t |-> "Object", c |-> 0], items |-> ItemsShown(NoPointer.of),
           moved |-> NoPointer.null]
    <3>1. NoPointer.null \in BOOLEAN
      BY <1>4
    <3> QED
      BY <3>1, ShownObject DEF ItemsShown
  <2>2. left = 0
    BY <1>8
  <2>3. (w.t \in Containers) = TRUE
    BY <1>8 DEF Containers
  <2> HIDE DEF left, c
  <2> QED
    BY <1>1, <1>3, <1>4, <1>6, <1>8, <2>1, <2>2, <2>3
<1>9. CASE w.t \notin Containers
  <2>1. w.t # "List" /\ w.t # "Object"
    BY <1>9 DEF Containers
  <2> DEFINE d == CASE w.t = "Number" -> w.num [] w.t = "String" -> 0 [] OTHER -> 0
  <2>2. Shown(W(w.t, w.num, 0, NoPointer, NoPointer)) = Meant(w.t, d, Empty)
    BY <2>1, ShownScalar
  <2>3. d = left
    OBVIOUS
  <2>4. (w.t \in Containers) = FALSE
    BY <1>9
  <2> HIDE DEF d, left, c
  <2>5. Meant(w.t, d, Empty) = [scalar |-> [t |-> w.t, c |-> left], items |-> Empty,
                                moved |-> w.t \in Containers]
    BY <2>3, <2>4 DEF Meant
  <2> QED
    BY <1>1, <1>3, <1>6, <2>2, <2>5, Zenon
<1> QED
  BY <1>7, <1>8, <1>9 DEF Containers

(* Every value has fields that a value can have, and what was written last *)
(* is what they show.                                                      *)
WriteInv ==
  /\ values \in [Variables -> Wvalue]
  /\ written = [x \in Variables |-> Shown(values[x])]

(* One variable becomes a value that shows what was meant.                 *)
LEMMA BecomesKeeps ==
  ASSUME WriteInv, NEW x \in Variables, NEW w \in Wvalue, NEW m, m = Shown(w), Becomes(x, w, m)
  PROVE  WriteInv'
<1>1. values' = [values EXCEPT ![x] = w] /\ written' = [written EXCEPT ![x] = m]
  BY DEF Becomes
<1>2. values' \in [Variables -> Wvalue] /\ values'[x] = w
      /\ \A y \in Variables : y # x => values'[y] = values[y]
  BY <1>1 DEF WriteInv
<1>3. written' = [y \in Variables |-> Shown(values'[y])]
  BY <1>1, <1>2 DEF WriteInv
<1> QED
  BY <1>2, <1>3 DEF WriteInv

(* Every step keeps the invariant of the written values.                   *)
(* Every step keeps the invariant of the written values.                   *)
LEMMA WriteStep ==
  ASSUME WriteInv, [WriteNext]_writeVars
  PROVE  WriteInv'
<1>1. values \in [Variables -> Wvalue] /\ \A x \in Variables : written[x] = Shown(values[x])
  BY DEF WriteInv
<1>2. CASE UNCHANGED <<values, written>>
  BY <1>2 DEF WriteInv
<1>3. ASSUME NEW x \in Variables, WriteScalar(x) PROVE WriteInv'
  <2>1. PICK v \in Scalars : Becomes(x, AssignScalar(values[x], v), Meant(v.t, v.c, Empty))
    BY <1>3 DEF WriteScalar
  <2>2. AssignScalar(values[x], v) \in Wvalue
        /\ Shown(AssignScalar(values[x], v)) = Meant(v.t, v.c, Empty)
    BY <1>1, ScalarWritten
  <2> QED
    BY <2>1, <2>2, BecomesKeeps
<1>4. ASSUME NEW x \in Variables, Clear_(x) PROVE WriteInv'
  <2>1. Reset(values[x]) \in Wvalue /\ Shown(Reset(values[x])) = Meant("Null", 0, Empty)
    BY <1>1, ResetShows
  <2> QED
    BY <1>4, <2>1, BecomesKeeps DEF Clear_
<1>5. ASSUME NEW x \in Variables, WriteList(x) PROVE WriteInv'
  <2>1. PICK v \in Scalars, n \in 0..1 :
          LET items == [i \in 0..(n - 1) |-> v]
          IN Becomes(x, AssignList(values[x], items), Meant("List", 0, items))
    BY <1>5 DEF WriteList
  <2> DEFINE items == [i \in 0..(n - 1) |-> v]
  <2>2. AssignList(values[x], items) \in Wvalue
        /\ Shown(AssignList(values[x], items)) = Meant("List", 0, items)
    <3>1. n \in Nat
      OBVIOUS
    <3> QED
      BY <1>1, <3>1, ListAssigned
  <2>3. Becomes(x, AssignList(values[x], items), Meant("List", 0, items))
    BY <2>1
  <2> HIDE DEF items
  <2> QED
    BY <2>2, <2>3, BecomesKeeps
<1>6. ASSUME NEW x \in Variables, WriteObject(x) PROVE WriteInv'
  <2>1. PICK v \in Scalars, k \in Keys :
          Becomes(x, AssignObject(values[x], [j \in {k} |-> v]),
                  Meant("Object", 0, [j \in {k} |-> v]))
    BY <1>6 DEF WriteObject
  <2> DEFINE members == [j \in {k} |-> v]
  <2>2. AssignObject(values[x], members) \in Wvalue
        /\ Shown(AssignObject(values[x], members)) = Meant("Object", 0, members)
    BY <1>1, ObjectAssigned
  <2>3. Becomes(x, AssignObject(values[x], members), Meant("Object", 0, members))
    BY <2>1
  <2> HIDE DEF members
  <2> QED
    BY <2>2, <2>3, BecomesKeeps
<1>7. ASSUME NEW x \in Variables, WriteAt(x) PROVE WriteInv'
  <2>1. PICK v \in Scalars, i \in 0..MaxIndex :
          Becomes(x, AssignAt(values[x], i, v), MeantAt(written[x], "List", i, v))
    BY <1>7 DEF WriteAt
  <2>2. i \in Nat
    BY JsonWriteAssumption
  <2>3. AssignAt(values[x], i, v) \in Wvalue
        /\ Shown(AssignAt(values[x], i, v)) = MeantAt(written[x], "List", i, v)
    BY <1>1, <2>2, ItemAssigned
  <2> QED
    BY <2>1, <2>3, BecomesKeeps
<1>8. ASSUME NEW x \in Variables, WriteKey(x) PROVE WriteInv'
  <2>1. PICK v \in Scalars, k \in Keys :
          Becomes(x, AssignKey(values[x], k, v), MeantAt(written[x], "Object", k, v))
    BY <1>8 DEF WriteKey
  <2>2. AssignKey(values[x], k, v) \in Wvalue
        /\ Shown(AssignKey(values[x], k, v)) = MeantAt(written[x], "Object", k, v)
    BY <1>1, MemberAssigned
  <2> QED
    BY <2>1, <2>2, BecomesKeeps
<1>9. ASSUME NEW x \in Variables, Crash(x) PROVE WriteInv'
  BY <1>2, <1>9 DEF Crash
<1>10. ASSUME NEW x \in Variables, NEW y \in Variables, CopyWvalue(x, y) PROVE WriteInv'
  <2>1. Copied(values[x]) \in Wvalue /\ Shown(Copied(values[x])) = written[x]
    BY <1>1, <1>10, CopyShows DEF CopyWvalue, Broken
  <2> QED
    BY <1>10, <2>1, BecomesKeeps DEF CopyWvalue
<1>11. ASSUME NEW x \in Variables, NEW y \in Variables, MoveWvalue(x, y) PROVE WriteInv'
  <2>1. x # y
        /\ values' = [values EXCEPT ![y] = values[x], ![x] = MovedFrom(values[x])]
        /\ written' = [written EXCEPT ![y] = written[x], ![x] = MeantMoved(written[x])]
    BY <1>11 DEF MoveWvalue, WriteInv
  <2>2. MovedFrom(values[x]) \in Wvalue
        /\ Shown(MovedFrom(values[x])) = MeantMoved(written[x])
    BY <1>1, MovedShows
  <2> DEFINE w == MovedFrom(values[x])
             m == MeantMoved(written[x])
  <2>3. w \in Wvalue /\ Shown(w) = m
    BY <2>2
  <2>4. values' = [values EXCEPT ![y] = values[x], ![x] = w]
        /\ written' = [written EXCEPT ![y] = written[x], ![x] = m]
    BY <2>1
  <2> HIDE DEF w, m
  <2>5. values' \in [Variables -> Wvalue] /\ values'[x] = w /\ values'[y] = values[x]
        /\ \A z \in Variables : z # x /\ z # y => values'[z] = values[z]
    BY <1>1, <2>1, <2>3, <2>4
  <2>6. written' = [z \in Variables |-> Shown(values'[z])]
    BY <1>1, <2>1, <2>3, <2>4, <2>5 DEF WriteInv
  <2> QED
    BY <2>5, <2>6 DEF WriteInv
<1> QED
  BY <1>2, <1>3, <1>4, <1>5, <1>6, <1>7, <1>8, <1>9, <1>10, <1>11 DEF WriteNext, writeVars

(* A value shows what was last written to it: for every set of variables,  *)
(* scalars and keys, every index and however many assignments, copies and  *)
(* moves (json.h, wvalue's assignments and dump).                          *)
THEOREM Shows == WriteSpec => []LastWriteShows
<1>1. WriteInit => WriteInv
  <2> SUFFICES ASSUME WriteInit PROVE WriteInv
    OBVIOUS
  <2>1. /\ values = [x \in Variables |-> WNull]
        /\ written = [x \in Variables |-> Meant("Null", 0, Empty)]
    BY DEF WriteInit
  <2>2. WNull \in Wvalue /\ Shown(WNull) = Meant("Null", 0, Empty)
    BY NullShows
  <2> QED
    BY <2>1, <2>2 DEF WriteInv
<1>2. WriteInv => LastWriteShows
  BY DEF WriteInv, LastWriteShows
<1>3. WriteInv /\ [WriteNext]_writeVars => WriteInv'
  BY WriteStep
<1> QED
  BY <1>1, <1>2, <1>3, PTL DEF WriteSpec

-----------------------------------------------------------------------------
(* What parseUri finds in a URL.                                           *)

(* Sequences of the same elements are the same.                            *)
LEMMA SameElements ==
  ASSUME NEW S, NEW s \in Seq(S), NEW t \in Seq(S), Len(s) = Len(t),
         \A i \in 1 .. Len(s) : s[i] = t[i]
  PROVE  s = t
OBVIOUS

(* A sequence of elements of S is one of elements of any larger set.       *)
LEMMA Widens ==
  ASSUME NEW S, NEW T, S \subseteq T, NEW s \in Seq(S)
  PROVE  s \in Seq(T) /\ Len(s) \in Nat
<1>1. Len(s) \in Nat /\ s \in [1 .. Len(s) -> S]
  OBVIOUS
<1>2. s \in [1 .. Len(s) -> T]
  BY <1>1
<1> QED
  BY <1>1, <1>2

(* The least of one number is that number.                                 *)
LEMMA MinOfOne ==
  ASSUME NEW x \in Nat
  PROVE  Min({x}) = x
BY MinIsLeast

(* The codes of the characters parseUri searches for.                      *)
LEMMA CodesOfUri ==
  /\ Ascii["/"] = 47 /\ Ascii[":"] = 58 /\ Ascii["@"] = 64 /\ Ascii["nul"] = 0
  /\ \A c : Codes({c}) = {Ascii[c]}
<1>1. Ascii["/"] = 47 /\ Ascii[":"] = 58
  BY DEF Ascii
<1>2. Ascii["@"] = 64 /\ Ascii["nul"] = 0
  BY DEF Ascii
<1>3. ASSUME NEW c PROVE Codes({c}) = {Ascii[c]}
  BY DEF Codes
<1> QED
  BY <1>1, <1>2, <1>3

(* A part of a part, counted from the beginning of the whole.              *)
LEMMA PartOfPart ==
  ASSUME NEW S, NEW s \in Seq(S), NEW a \in Nat \ {0}, NEW b \in Int, b <= Len(s),
         NEW m \in Nat \ {0}, NEW n \in Int, n <= b - a + 1
  PROVE  SubSeq(SubSeq(s, a, b), m, n) = SubSeq(s, a + m - 1, a + n - 1)
<1> DEFINE t == SubSeq(s, a, b)
           u == SubSeq(t, m, n)
           v == SubSeq(s, a + m - 1, a + n - 1)
<1>1. Len(s) \in Nat /\ \A i \in 1 .. Len(s) : s[i] \in S
  OBVIOUS
<1>2. /\ t \in Seq(S) /\ Len(t) = IF a <= b THEN b - a + 1 ELSE 0
      /\ \A i \in 1 .. b - a + 1 : t[i] = s[a + i - 1]
  BY <1>1, SubSeqProperties
<1> HIDE DEF t
<1>3. \A i \in m .. n : t[i] \in S
  BY <1>1, <1>2
<1>4. /\ u \in Seq(S) /\ Len(u) = IF m <= n THEN n - m + 1 ELSE 0
      /\ \A i \in 1 .. n - m + 1 : u[i] = t[m + i - 1]
  BY <1>3, SubSeqProperties
<1>5. a + m - 1 \in Int /\ a + n - 1 \in Int /\ \A i \in a + m - 1 .. a + n - 1 : s[i] \in S
  BY <1>1
<1>6. /\ v \in Seq(S) /\ Len(v) = IF m <= n THEN n - m + 1 ELSE 0
      /\ \A i \in 1 .. n - m + 1 : v[i] = s[a + m - 1 + i - 1]
  <2> DEFINE x == a + m - 1
             y == a + n - 1
  <2>1. x \in Int /\ y \in Int /\ \A i \in x .. y : s[i] \in S
    BY <1>5
  <2>2. y - x + 1 = n - m + 1 /\ (x <= y <=> m <= n)
    OBVIOUS
  <2> HIDE DEF x, y
  <2>3. /\ SubSeq(s, x, y) \in Seq(S) /\ Len(SubSeq(s, x, y)) = IF x <= y THEN y - x + 1 ELSE 0
        /\ \A i \in 1 .. y - x + 1 : SubSeq(s, x, y)[i] = s[x + i - 1]
    BY <2>1, SubSeqProperties
  <2> QED
    BY <2>2, <2>3 DEF x, y
<1> HIDE DEF u, v
<1>7. Len(u) = Len(v) /\ \A i \in 1 .. Len(u) : u[i] = v[i]
  <2>1. Len(u) = Len(v)
    BY <1>4, <1>6
  <2>2. ASSUME NEW i \in 1 .. Len(u) PROVE u[i] = v[i]
    <3>1. i \in 1 .. n - m + 1 /\ m + i - 1 \in 1 .. b - a + 1
      BY <1>4, <2>2
    <3>2. u[i] = s[a + (m + i - 1) - 1]
      BY <1>2, <1>4, <3>1
    <3> QED
      BY <1>6, <3>1, <3>2
  <2> QED
    BY <2>1, <2>2
<1>8. u = v
  BY <1>4, <1>6, <1>7, SameElements
<1> QED
  BY <1>8 DEF t, u, v

(* Where a character is for the first time from a to b, or b + 1.          *)
First(s, char, a, b) == Min({i \in a .. b : Is(s, i, char)} \cup {b + 1})

(* It is the least of them.                                                *)
LEMMA FirstIsLeast ==
  ASSUME NEW s, NEW char, NEW a \in Nat, NEW b \in Int, a <= b + 1
  PROVE  /\ First(s, char, a, b) \in a .. b + 1
         /\ First(s, char, a, b) # b + 1 => Is(s, First(s, char, a, b), char)
         /\ \A i \in a .. b : Is(s, i, char) => First(s, char, a, b) <= i
<1> DEFINE T == {i \in a .. b : Is(s, i, char)} \cup {b + 1}
<1>1. T \in SUBSET Nat /\ T # {}
  OBVIOUS
<1>2. \A i : i \in T <=> (i \in a .. b /\ Is(s, i, char)) \/ i = b + 1
  OBVIOUS
<1>3. First(s, char, a, b) = Min(T)
  BY DEF First
<1> HIDE DEF T
<1>4. Min(T) \in T /\ \A y \in T : Min(T) <= y
  BY <1>1, MinIsLeast
<1> QED
  BY <1>2, <1>3, <1>4

(* Only one number is that.                                                *)
LEMMA OnlyFirst ==
  ASSUME NEW s, NEW char, NEW a \in Nat, NEW b \in Int, a <= b + 1, NEW m \in a .. b + 1,
         m # b + 1 => Is(s, m, char),
         \A i \in a .. b : Is(s, i, char) => m <= i
  PROVE  m = First(s, char, a, b)
<1>1. First(s, char, a, b) \in a .. b + 1 /\ First(s, char, a, b) \in Int
  BY FirstIsLeast
<1>2. First(s, char, a, b) <= m
  BY <1>1, FirstIsLeast
<1>3. m <= First(s, char, a, b)
  BY <1>1, FirstIsLeast
<1> QED
  BY <1>1, <1>2, <1>3

(* A part of a text cut at a character.                                    *)
LEMMA CutOfPart ==
  ASSUME NEW s \in Seq(Nat), NEW char, NEW a \in Nat \ {0}, NEW b \in Int, a <= b + 1,
         b <= Len(s)
  PROVE  LET m == First(s, char, a, b)
         IN Cut(SubSeq(s, a, b), char) =
              [head |-> SubSeq(s, a, m - 1), tail |-> SubSeq(s, m + 1, b), cut |-> m # b + 1]
<1> DEFINE t == SubSeq(s, a, b)
           m == First(s, char, a, b)
           k == m - a + 1
           head == Before(t, Codes({char}))
<1>1. /\ Len(s) \in Nat /\ DOMAIN s = 1 .. Len(s) /\ b - a + 1 \in Nat
      /\ \A i \in 1 .. Len(s) : s[i] \in Nat
  OBVIOUS
<1>2. /\ t \in Seq(Nat) /\ Len(t) = b - a + 1 /\ DOMAIN t = 1 .. b - a + 1
      /\ \A i \in 1 .. b - a + 1 : t[i] = s[a + i - 1]
  <2>1. \A i \in a .. b : s[i] \in Nat
    BY <1>1
  <2>2. /\ t \in Seq(Nat) /\ Len(t) = IF a <= b THEN b - a + 1 ELSE 0
        /\ \A i \in 1 .. b - a + 1 : t[i] = s[a + i - 1]
    BY <2>1, SubSeqProperties
  <2> HIDE DEF t
  <2> QED
    BY <2>2, <1>1
<1> HIDE DEF t
<1>3. /\ m \in a .. b + 1 /\ (m # b + 1 => Is(s, m, char))
      /\ \A i \in a .. b : Is(s, i, char) => m <= i
  BY FirstIsLeast
<1> HIDE DEF m
<1>4. \A i \in 1 .. Len(t) : Is(t, i, char) <=> Is(s, a + i - 1, char)
  <2> SUFFICES ASSUME NEW i \in 1 .. Len(t) PROVE At(t, i) = At(s, a + i - 1)
    BY DEF Is
  <2>1. i \in DOMAIN t /\ a + i - 1 \in DOMAIN s /\ t[i] = s[a + i - 1]
    BY <1>1, <1>2
  <2> QED
    BY <2>1 DEF At
<1>5. k = First(t, char, 1, Len(t))
  <2>1. k \in 1 .. Len(t) + 1
    BY <1>2, <1>3
  <2>2. ASSUME k # Len(t) + 1 PROVE Is(t, k, char)
    <3>1. m # b + 1 /\ k \in 1 .. Len(t) /\ a + k - 1 = m
      BY <2>1, <2>2, <1>2, <1>3
    <3> HIDE DEF k
    <3> QED
      BY <3>1, <1>3, <1>4
  <2>3. ASSUME NEW i \in 1 .. Len(t), Is(t, i, char) PROVE k <= i
    <3>1. a + i - 1 \in a .. b /\ Is(s, a + i - 1, char)
      BY <2>3, <1>2, <1>4
    <3>2. m <= a + i - 1
      BY <3>1, <1>3
    <3> QED
      BY <3>2, <1>3
  <2>4. 1 \in Nat /\ Len(t) \in Int /\ 1 <= Len(t) + 1
    BY <1>2
  <2> HIDE DEF k
  <2> QED
    BY <2>1, <2>2, <2>3, <2>4, OnlyFirst
<1>6. head = SubSeq(t, 1, k - 1)
  <2> DEFINE U == {i \in DOMAIN t : t[i] \in Codes({char})} \cup {Len(t) + 1}
             V == {i \in 1 .. Len(t) : Is(t, i, char)} \cup {Len(t) + 1}
  <2>1. \A i \in DOMAIN t : t[i] \in Codes({char}) <=> Is(t, i, char)
    <3>1. Codes({char}) = {Ascii[char]}
      BY CodesOfUri
    <3>2. \A i \in DOMAIN t : At(t, i) = t[i]
      BY DEF At
    <3> QED
      BY <3>1, <3>2 DEF Is
  <2>2. DOMAIN t = 1 .. Len(t)
    BY <1>2
  <2>3. U = V
    BY <2>1, <2>2
  <2>4. head = SubSeq(t, 1, Min(U) - 1) /\ Min(V) = k
    BY <1>5 DEF Before, First
  <2> HIDE DEF U, V, k, head
  <2> QED
    BY <2>3, <2>4
<1>7. head = SubSeq(s, a, m - 1)
  <2>1. SubSeq(t, 1, k - 1) = SubSeq(s, a + 1 - 1, a + (k - 1) - 1)
    <3>1. k - 1 \in Int /\ k - 1 <= b - a + 1
      BY <1>3
    <3> HIDE DEF k
    <3> QED
      BY <3>1, PartOfPart DEF t
  <2>2. a + 1 - 1 = a /\ a + (k - 1) - 1 = m - 1
    BY <1>3
  <2> HIDE DEF head, k
  <2> QED
    BY <1>6, <2>1, <2>2
<1>8. Len(head) = k - 1
  <2>1. \A i \in 1 .. k - 1 : t[i] \in Nat
    <3>1. k - 1 <= b - a + 1
      BY <1>3
    <3>3. \A i \in 1 .. b - a + 1 : t[i] \in Nat
      <4>1. \A x \in Seq(Nat) : \A i \in DOMAIN x : x[i] \in Nat
        OBVIOUS
      <4> HIDE DEF k
      <4> QED
        BY <1>2, <4>1
    <3>2. k - 1 \in Int /\ b - a + 1 \in Int
      BY <1>3
    <3> HIDE DEF k
    <3> QED
      BY <3>1, <3>2, <3>3
  <2>2. k - 1 \in Int /\ k - 1 >= 0
    BY <1>3
  <2> HIDE DEF k, head
  <2>3. Len(SubSeq(t, 1, k - 1)) = k - 1
    <3> DEFINE j == k - 1
    <3>1. \A i \in 1 .. j : t[i] \in Nat
      BY <2>1
    <3>2. j \in Int /\ j >= 0
      BY <2>2
    <3> HIDE DEF j
    <3>3. Len(SubSeq(t, 1, j)) = IF 1 <= j THEN j - 1 + 1 ELSE 0
      BY <3>1, <3>2, SubSeqProperties
    <3>4. Len(SubSeq(t, 1, j)) = j
      BY <3>2, <3>3
    <3> QED
      BY <3>4 DEF j
  <2> QED
    BY <1>6, <2>3
<1>9. SubSeq(t, Len(head) + 2, Len(t)) = SubSeq(s, m + 1, b)
  <2>1. SubSeq(t, k + 1, b - a + 1) = SubSeq(s, a + (k + 1) - 1, a + (b - a + 1) - 1)
    <3> DEFINE x == k + 1
               y == b - a + 1
    <3>1. x \in Nat \ {0} /\ y \in Int /\ y <= b - a + 1
      BY <1>3
    <3> HIDE DEF k, x, y
    <3>2. SubSeq(t, x, y) = SubSeq(s, a + x - 1, a + y - 1)
      BY <3>1, PartOfPart DEF t
    <3> QED
      BY <3>2 DEF x, y
  <2>2. a + (k + 1) - 1 = m + 1 /\ a + (b - a + 1) - 1 = b
    BY <1>3
  <2>3. Len(head) + 2 = k + 1
    BY <1>3, <1>8
  <2> HIDE DEF head, k
  <2> QED
    BY <1>2, <2>1, <2>2, <2>3
<1>10. (head # t) = (m # b + 1)
  <2>1. ASSUME m = b + 1 PROVE head = t
    <3>1. m - 1 = b
      BY <2>1
    <3> HIDE DEF head
    <3> QED
      BY <1>7, <3>1 DEF t
  <2>2. ASSUME m # b + 1 PROVE head # t
    <3>1. k - 1 # Len(t)
      BY <1>2, <1>3, <2>2
    <3> HIDE DEF head, k
    <3> QED
      BY <1>8, <3>1
  <2> HIDE DEF head
  <2> QED
    BY <2>1, <2>2
<1>11. Cut(t, char) = [head |-> head, tail |-> SubSeq(t, Len(head) + 2, Len(t)), cut |-> head # t]
  BY DEF Cut
<1> HIDE DEF head, k
<1> QED
  BY <1>7, <1>9, <1>10, <1>11, Zenon DEF t, m

(* The parts behind the user: the address and port up to the slash, the    *)
(* path behind it.                                                         *)
LEMMA PartsOfPlace ==
  ASSUME NEW s \in Seq(Nat), NEW login, NEW a \in Nat \ {0}, a <= Len(s) + 1
  PROVE  LET name == Cut(login, ":")
             slash == First(s, "/", a, Len(s))
             host == First(s, ":", a, slash - 1)
         IN Parts(login, Cut(SubSeq(s, a, Len(s)), "/")) =
              [username |-> name.head, password |-> name.tail, ip |-> SubSeq(s, a, host - 1),
               port |-> IF host = slash THEN DefaultPort ELSE SubSeq(s, host + 1, slash - 1),
               path |-> SubSeq(s, slash + 1, Len(s))]
<1> DEFINE n == Len(s)
           slash == First(s, "/", a, n)
           host == First(s, ":", a, slash - 1)
           place == Cut(SubSeq(s, a, n), "/")
           address == Cut(place.head, ":")
<1>1. n \in Int /\ n <= Len(s) /\ a <= n + 1 /\ slash \in a .. n + 1
  BY FirstIsLeast
<1>2. place = [head |-> SubSeq(s, a, slash - 1), tail |-> SubSeq(s, slash + 1, n),
               cut |-> slash # n + 1]
  <2> HIDE DEF n
  <2>1. Cut(SubSeq(s, a, n), "/") =
          [head |-> SubSeq(s, a, First(s, "/", a, n) - 1),
           tail |-> SubSeq(s, First(s, "/", a, n) + 1, n), cut |-> First(s, "/", a, n) # n + 1]
    BY <1>1, CutOfPart
  <2> QED
    BY <2>1, Zenon
<1> HIDE DEF place
<1>3. place.head = SubSeq(s, a, slash - 1) /\ place.tail = SubSeq(s, slash + 1, n)
  BY <1>2
<1>4. address = [head |-> SubSeq(s, a, host - 1), tail |-> SubSeq(s, host + 1, slash - 1),
                 cut |-> host # slash - 1 + 1]
  <2> DEFINE b == slash - 1
  <2>1. b \in Int /\ a <= b + 1 /\ b <= n
    BY <1>1
  <2>2. Cut(SubSeq(s, a, b), ":") =
          [head |-> SubSeq(s, a, First(s, ":", a, b) - 1),
           tail |-> SubSeq(s, First(s, ":", a, b) + 1, b),
           cut |-> First(s, ":", a, b) # b + 1]
    <3> HIDE DEF b
    <3> QED
      BY <2>1, CutOfPart
  <2> QED
    BY <1>3, <2>2, Zenon
<1>5. slash - 1 + 1 = slash
  BY <1>1
<1> HIDE DEF host, address
<1>6. address.head = SubSeq(s, a, host - 1) /\ address.tail = SubSeq(s, host + 1, slash - 1)
      /\ address.cut = (host # slash)
  <2> HIDE DEF slash
  <2> QED
    BY <1>4, <1>5
<1>7. Parts(login, place) =
        [username |-> Cut(login, ":").head, password |-> Cut(login, ":").tail,
         ip |-> address.head, port |-> IF address.cut THEN address.tail ELSE DefaultPort,
         path |-> place.tail]
  BY Zenon DEF Parts, address
<1>8. (IF address.cut THEN address.tail ELSE DefaultPort)
        = IF host = slash THEN DefaultPort ELSE SubSeq(s, host + 1, slash - 1)
  <2> HIDE DEF slash
  <2> QED
    BY <1>6
<1>9. Parts(login, place) =
        [username |-> Cut(login, ":").head, password |-> Cut(login, ":").tail,
         ip |-> SubSeq(s, a, host - 1),
         port |-> IF host = slash THEN DefaultPort ELSE SubSeq(s, host + 1, slash - 1),
         path |-> SubSeq(s, slash + 1, n)]
  <2> HIDE DEF slash
  <2> QED
    BY <1>3, <1>6, <1>7, <1>8, Zenon
<1> QED
  BY <1>9, Zenon DEF n, slash, host, place

(* parseUri finds the parts of the authority of every URL, unless the only *)
(* "@" is in the path.                                                     *)
LEMMA PartsFound ==
  ASSUME uri \in Seq(1..255)
  PROVE  PartsAreOfAuthority
<1> SUFFICES ASSUME SlashSlash(uri) # {} PROVE PartsAreOfAuthority
  BY DEF PartsAreOfAuthority
<1> DEFINE s == uri
           n == Len(s)
           first == Min(SlashSlash(s)) + 2
           slash == First(s, "/", first, n)
           ats == {i \in first .. n : Is(s, i, "@")}
           named == {i \in ats : i < slash}
           at == IF named = {} THEN first - 1 ELSE Min(named)
           colons(a, b) == {i \in a .. b : Is(s, i, ":")}
           user == Min(colons(first, at - 1) \cup {Max({at, first})})
           host == Min(colons(at + 1, slash - 1) \cup {slash})
           found == [username |-> SubSeq(s, first, user - 1),
                     password |-> SubSeq(s, user + 1, at - 1),
                     ip |-> SubSeq(s, at + 1, host - 1),
                     port |-> IF host = slash THEN DefaultPort ELSE SubSeq(s, host + 1, slash - 1),
                     path |-> SubSeq(s, slash + 1, n)]
           after == SubSeq(s, first, n)
           cut == Cut(after, "@")
           sign == First(s, "@", first, n)
<1>1. n \in Nat /\ DOMAIN s = 1 .. n /\ s \in Seq(Nat) /\ \A i \in 1 .. n : s[i] \in Nat
  <2>1. 1..255 \subseteq Nat /\ s \in Seq(1..255)
    OBVIOUS
  <2> HIDE DEF s
  <2>2. s \in Seq(Nat)
    BY <2>1, Widens
  <2> QED
    BY <2>2
<1>2. \A i \in SlashSlash(s) : i \in Nat \ {0} /\ i + 1 <= n
  <2> SUFFICES ASSUME NEW i \in DOMAIN s, Is(s, i + 1, "/") PROVE i \in Nat \ {0} /\ i + 1 <= n
    BY DEF SlashSlash
  <2>1. i + 1 \in DOMAIN s
    BY CodesOfUri DEF Is, At
  <2> QED
    BY <1>1, <2>1
<1>3. first \in Nat \ {0} /\ first <= n + 1
  <2>1. SlashSlash(s) \in SUBSET Nat
    BY <1>2
  <2>2. Min(SlashSlash(s)) \in SlashSlash(s)
    BY <2>1, MinIsLeast
  <2> QED
    BY <1>1, <1>2, <2>2
<1>4. ParseUri(s) = IF cut.cut THEN Parts(cut.head, Cut(cut.tail, "/"))
                               ELSE Parts(<<>>, Cut(after, "/"))
  BY Zenon DEF ParseUri
<1>5. PartsAreOfAuthority <=> (ParseUri(s) = found <=> (named # {} \/ ats = {}))
  <2>1. slash = Min({i \in first .. n : Is(s, i, "/")} \cup {n + 1})
    BY DEF First
  <2> HIDE DEF slash
  <2> QED
    BY <2>1, Zenon DEF PartsAreOfAuthority
<1> HIDE DEF s, n, first, after
<1>6. /\ slash \in first .. n + 1 /\ (slash # n + 1 => Is(s, slash, "/"))
      /\ \A i \in first .. n : Is(s, i, "/") => slash <= i
  BY <1>1, <1>3, FirstIsLeast
<1>7. /\ sign \in first .. n + 1 /\ (sign # n + 1 => Is(s, sign, "@"))
      /\ \A i \in first .. n : Is(s, i, "@") => sign <= i
  BY <1>1, <1>3, FirstIsLeast
<1>8. /\ cut.head = SubSeq(s, first, sign - 1) /\ cut.tail = SubSeq(s, sign + 1, n)
      /\ cut.cut = (sign # n + 1)
  <2>1. cut = [head |-> SubSeq(s, first, sign - 1), tail |-> SubSeq(s, sign + 1, n),
               cut |-> sign # n + 1]
    <3>1. n \in Int /\ n <= Len(s) /\ first <= n + 1
      BY <1>1, <1>3 DEF n
    <3>2. Cut(SubSeq(s, first, n), "@") =
            [head |-> SubSeq(s, first, First(s, "@", first, n) - 1),
             tail |-> SubSeq(s, First(s, "@", first, n) + 1, n),
             cut |-> First(s, "@", first, n) # n + 1]
      BY <1>1, <1>3, <3>1, CutOfPart
    <3> QED
      BY <3>2, Zenon DEF after
  <2> HIDE DEF cut, sign
  <2> QED
    BY <2>1
<1> HIDE DEF slash, sign, cut
<1>9. (ats = {} <=> sign = n + 1) /\ (sign # n + 1 => sign \in ats)
  BY <1>1, <1>3, <1>7
<1>10. (named # {} <=> sign < slash) /\ (named # {} => Min(named) = sign)
  <2>1. named # {} => sign < slash
    BY <1>1, <1>3, <1>6, <1>7
  <2>2. sign < slash => sign \in named
    BY <1>1, <1>3, <1>6, <1>7
  <2>3. ASSUME named # {} PROVE Min(named) = sign
    <3>1. sign \in named /\ named \in SUBSET Nat
      BY <1>3, <2>1, <2>2, <2>3
    <3>2. \A i \in named : sign <= i
      BY <1>7
    <3> HIDE DEF named
    <3>3. Min(named) \in named /\ Min(named) <= sign
      BY <3>1, MinIsLeast
    <3>4. sign <= Min(named) /\ sign \in Nat /\ Min(named) \in Nat
      BY <3>1, <3>2, <3>3
    <3> QED
      BY <3>3, <3>4
  <2> HIDE DEF named
  <2> QED
    BY <2>1, <2>2, <2>3
<1> HIDE DEF ats, named
<1>11. ASSUME named # {} PROVE ParseUri(s) = found
  <2>1. at = sign /\ sign < slash /\ sign \in Nat \ {0} /\ first <= sign /\ sign <= n
    BY <1>1, <1>3, <1>6, <1>7, <1>10, <1>11
  <2>2. slash = First(s, "/", sign + 1, n)
    <3>1. sign + 1 \in Nat /\ sign + 1 <= n + 1 /\ slash \in sign + 1 .. n + 1
      BY <1>1, <1>6, <2>1
    <3>2. \A i \in sign + 1 .. n : Is(s, i, "/") => slash <= i
      BY <1>1, <1>3, <1>6, <2>1
    <3> DEFINE a == sign + 1
    <3>3. /\ a \in Nat /\ n \in Int /\ a <= n + 1 /\ slash \in a .. n + 1
          /\ \A i \in a .. n : Is(s, i, "/") => slash <= i
      BY <1>1, <3>1, <3>2
    <3> HIDE DEF a
    <3>4. slash = First(s, "/", a, n)
      BY <1>6, <3>3, OnlyFirst
    <3> QED
      BY <3>4 DEF a
  <2>3. user = First(s, ":", first, sign - 1)
    <3>1. Max({at, first}) = sign - 1 + 1
      <4>1. sign \in Int /\ first \in Int
        BY <1>3, <2>1
      <4>2. Max({sign, first}) = sign
        BY <2>1, <4>1, OfTwo
      <4> HIDE DEF at
      <4> QED
        BY <2>1, <4>1, <4>2
    <3> HIDE DEF at
    <3> QED
      BY <2>1, <3>1 DEF First
  <2>4. host = First(s, ":", sign + 1, slash - 1)
    <3>1. slash - 1 + 1 = slash
      BY <1>1, <1>6
    <3> HIDE DEF at
    <3> QED
      BY <2>1, <3>1 DEF First
  <2> HIDE DEF at, user, host
  <2>5. ParseUri(s) = Parts(cut.head, Cut(cut.tail, "/"))
    <3>1. sign # n + 1
      BY <1>1, <2>1
    <3>2. cut.cut
      BY <1>8, <3>1
    <3> QED
      BY <1>4, <3>2
  <2>6. Parts(cut.head, Cut(SubSeq(s, sign + 1, n), "/")) =
          [username |-> Cut(cut.head, ":").head, password |-> Cut(cut.head, ":").tail,
           ip |-> SubSeq(s, sign + 1, host - 1),
           port |-> IF host = slash THEN DefaultPort ELSE SubSeq(s, host + 1, slash - 1),
           path |-> SubSeq(s, slash + 1, n)]
    <3> DEFINE a == sign + 1
    <3>1. a \in Nat \ {0} /\ a <= Len(s) + 1
      BY <1>1, <2>1 DEF n
    <3>2. slash = First(s, "/", a, Len(s)) /\ host = First(s, ":", a, slash - 1)
      BY <2>2, <2>4 DEF n
    <3> HIDE DEF a
    <3>3. Parts(cut.head, Cut(SubSeq(s, a, Len(s)), "/")) =
          [username |-> Cut(cut.head, ":").head, password |-> Cut(cut.head, ":").tail,
           ip |-> SubSeq(s, a, host - 1),
           port |-> IF host = slash THEN DefaultPort ELSE SubSeq(s, host + 1, slash - 1),
           path |-> SubSeq(s, slash + 1, Len(s))]
      BY <1>1, <3>1, <3>2, PartsOfPlace
    <3> QED
      BY <3>3, Zenon DEF a, n
  <2>7. Cut(cut.head, ":").head = SubSeq(s, first, user - 1)
        /\ Cut(cut.head, ":").tail = SubSeq(s, user + 1, sign - 1)
    <3> DEFINE b == sign - 1
    <3>1. b \in Int /\ first <= b + 1 /\ b <= Len(s)
      BY <1>1, <1>3, <2>1 DEF n
    <3>2. user = First(s, ":", first, b)
      BY <2>3
    <3> HIDE DEF b
    <3>3. Cut(SubSeq(s, first, b), ":") =
            [head |-> SubSeq(s, first, user - 1), tail |-> SubSeq(s, user + 1, b),
             cut |-> user # b + 1]
      BY <1>1, <1>3, <3>1, <3>2, CutOfPart
    <3>4. cut.head = SubSeq(s, first, b)
      BY <1>8 DEF b
    <3>5. Cut(cut.head, ":").head = SubSeq(s, first, user - 1)
          /\ Cut(cut.head, ":").tail = SubSeq(s, user + 1, b)
      BY <3>3, <3>4
    <3> QED
      BY <3>5 DEF b
  <2> QED
    BY <1>8, <2>1, <2>5, <2>6, <2>7, Zenon
<1>12. ASSUME named = {}, ats = {} PROVE ParseUri(s) = found
  <2>1. at = first - 1 /\ at \in Int /\ at + 1 = first /\ at - 1 < first
    BY <1>3, <1>12
  <2>2. user = first
    <3>1. Max({at, first}) = first
      BY <1>3, <2>1, OfTwo
    <3> HIDE DEF at
    <3>2. colons(first, at - 1) = {}
      BY <1>3, <2>1
    <3>3. user = Min({first})
      BY <3>1, <3>2
    <3>4. Min({first}) = first
      BY <1>3, MinOfOne
    <3> QED
      BY <3>3, <3>4
  <2>3. host = First(s, ":", first, slash - 1)
    <3>1. slash - 1 + 1 = slash
      BY <1>1, <1>6
    <3> HIDE DEF at
    <3> QED
      BY <2>1, <3>1 DEF First
  <2> HIDE DEF at, user, host
  <2>4. ParseUri(s) = Parts(<<>>, Cut(after, "/"))
    <3>1. ~cut.cut
      BY <1>8, <1>9, <1>12
    <3> QED
      BY <1>4, <3>1
  <2>5. Parts(<<>>, Cut(after, "/")) =
          [username |-> Cut(<<>>, ":").head, password |-> Cut(<<>>, ":").tail,
           ip |-> SubSeq(s, first, host - 1),
           port |-> IF host = slash THEN DefaultPort ELSE SubSeq(s, host + 1, slash - 1),
           path |-> SubSeq(s, slash + 1, n)]
    <3>1. slash = First(s, "/", first, Len(s))
      BY DEF n, slash
    <3> QED
      BY <1>1, <1>3, <2>3, <3>1, PartsOfPlace DEF after, n
  <2>6. Cut(<<>>, ":").head = <<>> /\ Cut(<<>>, ":").tail = <<>>
    <3>1. \A j \in Int : SubSeq(<<>>, 1, 0) = <<>> /\ SubSeq(<<>>, 2, 0) = <<>>
      BY SubSeqEmpty
    <3>2. Before(<<>>, Codes({":"})) = SubSeq(<<>>, 1, Min({1}) - 1)
      <4>1. {i \in DOMAIN <<>> : (<<>>)[i] \in Codes({":"})} \cup {Len(<<>>) + 1} = {1}
        OBVIOUS
      <4> QED
        BY <4>1, Zenon DEF Before
    <3>3. Min({1}) = 1
      BY MinOfOne
    <3>4. Before(<<>>, Codes({":"})) = <<>>
      BY <3>1, <3>2, <3>3
    <3>5. SubSeq(<<>>, Len(<<>>) + 2, Len(<<>>)) = <<>>
      BY <3>1
    <3> QED
      BY <3>4, <3>5 DEF Cut
  <2>7. SubSeq(s, first, user - 1) = <<>> /\ SubSeq(s, user + 1, at - 1) = <<>>
    <3>1. first - 1 \in Int /\ first - 1 < first /\ first + 1 \in Int /\ at - 1 \in Int
          /\ at - 1 < first + 1
      BY <1>3, <2>1
    <3>2. SubSeq(s, first, first - 1) = <<>> /\ SubSeq(s, first + 1, at - 1) = <<>>
      BY <1>3, <3>1, SubSeqEmpty
    <3> QED
      BY <2>2, <3>2
  <2> QED
    BY <2>1, <2>4, <2>5, <2>6, <2>7, Zenon
<1>13. ASSUME named = {}, ats # {} PROVE ParseUri(s) # found
  <2>1. sign # n + 1 /\ ~(sign < slash) /\ sign <= n /\ sign \in Nat \ {0} /\ slash \in Nat \ {0}
    BY <1>1, <1>3, <1>6, <1>7, <1>9, <1>10, <1>13
  <2>2. slash < sign
    <3>1. Is(s, slash, "/") /\ Is(s, sign, "@")
      BY <1>1, <1>6, <1>7, <2>1
    <3>2. slash # sign
      BY <3>1, CodesOfUri DEF Is
    <3> QED
      BY <2>1, <3>2
  <2> DEFINE a == sign + 1
             late == First(s, "/", a, n)
  <2>3. a \in Nat \ {0} /\ a <= n + 1
    BY <1>1, <2>1
  <2>4. late \in a .. n + 1
    <3> HIDE DEF a
    <3> QED
      BY <1>1, <2>3, FirstIsLeast
  <2>5. ParseUri(s) = Parts(cut.head, Cut(SubSeq(s, a, n), "/"))
    <3>1. cut.cut
      BY <1>8, <2>1
    <3> QED
      BY <1>4, <1>8, <3>1
  <2> HIDE DEF a
  <2>6. Parts(cut.head, Cut(SubSeq(s, a, n), "/")).path = SubSeq(s, late + 1, n)
    <3> DEFINE host1 == First(s, ":", a, First(s, "/", a, Len(s)) - 1)
               port1 == IF host1 = First(s, "/", a, Len(s)) THEN DefaultPort
                        ELSE SubSeq(s, host1 + 1, First(s, "/", a, Len(s)) - 1)
    <3>1. a \in Nat \ {0} /\ a <= Len(s) + 1
      BY <2>3 DEF n
    <3>2. Parts(cut.head, Cut(SubSeq(s, a, Len(s)), "/")) =
            [username |-> Cut(cut.head, ":").head, password |-> Cut(cut.head, ":").tail,
             ip |-> SubSeq(s, a, host1 - 1), port |-> port1,
             path |-> SubSeq(s, First(s, "/", a, Len(s)) + 1, Len(s))]
      BY <1>1, <3>1, PartsOfPlace
    <3> HIDE DEF host1, port1
    <3>3. Parts(cut.head, Cut(SubSeq(s, a, Len(s)), "/")).path
            = SubSeq(s, First(s, "/", a, Len(s)) + 1, Len(s))
      BY <3>2
    <3> QED
      BY <3>3, Zenon DEF n
  <2>7. \A k \in Nat \ {0} : k <= n + 1 => Len(SubSeq(s, k + 1, n)) = IF k <= n THEN n - k ELSE 0
    <3> SUFFICES ASSUME NEW k \in Nat \ {0}, k <= n + 1
                 PROVE  Len(SubSeq(s, k + 1, n)) = IF k <= n THEN n - k ELSE 0
      OBVIOUS
    <3>1. \A i \in k + 1 .. n : s[i] \in Nat
      BY <1>1
    <3> DEFINE j == k + 1
    <3>2. j \in Int /\ \A i \in j .. n : s[i] \in Nat
      BY <3>1
    <3> HIDE DEF j
    <3>3. Len(SubSeq(s, j, n)) = IF j <= n THEN n - j + 1 ELSE 0
      BY <1>1, <3>2, SubSeqProperties
    <3>4. (IF j <= n THEN n - j + 1 ELSE 0) = IF k <= n THEN n - k ELSE 0
      BY <1>1 DEF j
    <3> QED
      BY <3>3, <3>4 DEF j
  <2>8. Len(SubSeq(s, late + 1, n)) # Len(SubSeq(s, slash + 1, n))
    <3>1. /\ late \in Nat \ {0} /\ late <= n + 1 /\ slash < late /\ slash <= n
      BY <1>1, <2>1, <2>2, <2>3, <2>4 DEF a
    <3> HIDE DEF late
    <3>2. /\ Len(SubSeq(s, late + 1, n)) = IF late <= n THEN n - late ELSE 0
          /\ Len(SubSeq(s, slash + 1, n)) = IF slash <= n THEN n - slash ELSE 0
      BY <1>1, <2>1, <2>7, <3>1
    <3>3. (IF late <= n THEN n - late ELSE 0) # IF slash <= n THEN n - slash ELSE 0
      BY <1>1, <2>1, <2>2, <3>1
    <3> QED
      BY <3>2, <3>3
  <2>9. found.path = SubSeq(s, slash + 1, n)
    <3> HIDE DEF user, host, at
    <3> QED
      OBVIOUS
  <2> HIDE DEF found, late
  <2> QED
    BY <2>5, <2>6, <2>8, <2>9
<1> HIDE DEF found
<1> QED
  BY <1>5, <1>11, <1>12, <1>13

(* A URL stays a sequence of bytes.                                        *)
LEMMA BytesStay == UriSpec => []UriTypeOK
<1>1. UriInit => UriTypeOK
  BY UriPartsAssumption DEF UriInit, UriTypeOK
<1>2. UriTypeOK /\ [Spell]_uriVars => UriTypeOK'
  <2> SUFFICES ASSUME UriTypeOK, [Spell]_uriVars PROVE UriTypeOK'
    OBVIOUS
  <2>1. CASE Spell
    BY <2>1, UriPartsAssumption DEF UriTypeOK, Spell
  <2>2. CASE UNCHANGED uriVars
    BY <2>2 DEF UriTypeOK, uriVars
  <2> QED
    BY <2>1, <2>2
<1> QED
  BY <1>1, <1>2, PTL DEF UriSpec

(* Whatever URL the operator types for a camera, parseUri takes it apart   *)
(* into the parts of its authority, exactly unless its only "@" is in the  *)
(* path, where the user and the address it finds are not those of the URL. *)
THEOREM Authority == UriSpec => []PartsAreOfAuthority
<1>1. UriTypeOK => PartsAreOfAuthority
  BY PartsFound DEF UriTypeOK
<1> QED
  BY <1>1, BytesStay, PTL

-----------------------------------------------------------------------------
(* Query strings: the loops.                                               *)

(* The first n rounds of a loop.                                           *)
Rounds(f, step, a, n) ==
  /\ f \in [0 .. n -> Nat]
  /\ f[0] = a
  /\ \A k \in 0 .. n - 1 : f[k + 1] = step[f[k]]

(* Where a loop is, as Loop says it.                                       *)
Looping(at, step, a) ==
  at = [k \in Nat |-> IF k = 0 THEN a ELSE step[at[k - 1]]]

LEMMA LoopIs ==
  ASSUME NEW step, NEW a
  PROVE  Loop(step, a) = CHOOSE at : Looping(at, step, a)
BY DEF Loop, Looping

(* There are n rounds, for every n.                                        *)
LEMMA RoundsExist ==
  ASSUME NEW step \in [Nat -> Nat], NEW a \in Nat, NEW n \in Nat
  PROVE  \E f : Rounds(f, step, a, n)
<1> DEFINE N == {m \in Nat : ~\E f : Rounds(f, step, a, m)}
<1> SUFFICES ASSUME N # {} PROVE FALSE
  OBVIOUS
<1>1. N \in SUBSET Nat
  OBVIOUS
<1>2. PICK m \in N : \A k \in N : m <= k
  <2> HIDE DEF N
  <2> QED
    BY <1>1, LeastNat
<1>3. m \in Nat
  OBVIOUS
<1>4. CASE m = 0
  <2> DEFINE f == [k \in 0 .. m |-> a]
  <2>1. Rounds(f, step, a, m)
    BY <1>4 DEF Rounds
  <2> QED
    BY <1>2, <2>1
<1>5. CASE m # 0
  <2>1. m - 1 \in Nat /\ m - 1 \notin N
    BY <1>2, <1>3, <1>5
  <2>2. PICK f : Rounds(f, step, a, m - 1)
    BY <2>1
  <2>3. f[m - 1] \in Nat /\ step[f[m - 1]] \in Nat
    BY <2>1, <2>2 DEF Rounds
  <2> DEFINE g == [k \in 0 .. m |-> IF k = m THEN step[f[m - 1]] ELSE f[k]]
  <2>4. g \in [0 .. m -> Nat] /\ g[0] = a
    <3>1. f[0] = a /\ \A k \in 0 .. m - 1 : f[k] \in Nat
      BY <2>2 DEF Rounds
    <3>2. \A k \in 0 .. m : k # m => k \in 0 .. m - 1
      BY <1>3
    <3>3. 0 \in 0 .. m
      BY <1>3
    <3> QED
      BY <1>5, <2>3, <3>1, <3>2, <3>3
  <2>5. ASSUME NEW k \in 0 .. m - 1 PROVE g[k + 1] = step[g[k]]
    <3>1. g[k] = f[k] /\ k \in 0 .. m - 1
      BY <1>3, <2>5
    <3>2. CASE k = m - 1
      <4>1. k + 1 = m /\ k + 1 \in 0 .. m
        BY <1>3, <3>2
      <4> QED
        BY <3>1, <3>2, <4>1
    <3>3. CASE k # m - 1
      <4>1. k \in 0 .. (m - 1) - 1 /\ k + 1 # m /\ k + 1 \in 0 .. m
        BY <1>3, <2>5, <3>3
      <4>2. f[k + 1] = step[f[k]]
        BY <2>2, <4>1 DEF Rounds
      <4> QED
        BY <3>1, <4>1, <4>2
    <3> QED
      BY <3>2, <3>3
  <2>6. Rounds(g, step, a, m)
    BY <2>4, <2>5 DEF Rounds
  <2> QED
    BY <1>2, <2>6
<1> QED
  BY <1>4, <1>5

(* Two of them go the same way as long as both last.                       *)
LEMMA RoundsAgree ==
  ASSUME NEW step \in [Nat -> Nat], NEW a \in Nat, NEW m \in Nat, NEW n \in Nat, NEW f, NEW g,
         Rounds(f, step, a, m), Rounds(g, step, a, n), NEW k \in Nat, k <= m, k <= n
  PROVE  f[k] = g[k]
<1> DEFINE N == {j \in Nat : j <= m /\ j <= n /\ f[j] # g[j]}
<1> SUFFICES ASSUME N # {} PROVE FALSE
  OBVIOUS
<1>1. N \in SUBSET Nat
  OBVIOUS
<1>2. PICK j \in N : \A i \in N : j <= i
  <2> HIDE DEF N
  <2> QED
    BY <1>1, LeastNat
<1>3. j \in Nat /\ j <= m /\ j <= n /\ f[j] # g[j]
  OBVIOUS
<1>4. j # 0
  BY <1>3 DEF Rounds
<1>5. j - 1 \in Nat /\ j - 1 \notin N
  BY <1>2, <1>3, <1>4
<1>6. f[j - 1] = g[j - 1]
  BY <1>3, <1>5
<1>7. j - 1 \in 0 .. m - 1 /\ j - 1 \in 0 .. n - 1 /\ (j - 1) + 1 = j
  BY <1>3, <1>5
<1>8. f[j] = step[f[j - 1]]
  BY <1>7 DEF Rounds
<1>9. g[j] = step[g[j - 1]]
  BY <1>7 DEF Rounds
<1> QED
  BY <1>3, <1>6, <1>8, <1>9

(* A loop begins at a and goes on by step.                                 *)
LEMMA Loops ==
  ASSUME NEW step \in [Nat -> Nat], NEW a \in Nat
  PROVE  /\ Loop(step, a) \in [Nat -> Nat]
         /\ Loop(step, a)[0] = a
         /\ \A k \in Nat : Loop(step, a)[k + 1] = step[Loop(step, a)[k]]
<1> DEFINE some(n) == CHOOSE f : Rounds(f, step, a, n)
           at == [n \in Nat |-> some(n)[n]]
<1>1. \A n \in Nat : Rounds(some(n), step, a, n)
  BY RoundsExist
<1> HIDE DEF some
<1>2. at \in [Nat -> Nat]
  <2> SUFFICES ASSUME NEW n \in Nat PROVE some(n)[n] \in Nat
    OBVIOUS
  <2>1. Rounds(some(n), step, a, n)
    BY <1>1
  <2> QED
    BY <2>1 DEF Rounds
<1>3. at[0] = a
  BY <1>1 DEF Rounds
<1>4. ASSUME NEW k \in Nat PROVE at[k + 1] = step[at[k]]
  <2>1. k + 1 \in Nat /\ Rounds(some(k), step, a, k) /\ Rounds(some(k + 1), step, a, k + 1)
    BY <1>1
  <2>2. some(k)[k] = some(k + 1)[k]
    BY <2>1, RoundsAgree
  <2>3. some(k + 1)[k + 1] = step[some(k + 1)[k]]
    <3>1. k \in 0 .. (k + 1) - 1
      OBVIOUS
    <3> QED
      BY <2>1, <3>1 DEF Rounds
  <2> QED
    BY <2>1, <2>2, <2>3
<1> HIDE DEF at
<1>5. at = [k \in Nat |-> IF k = 0 THEN a ELSE step[at[k - 1]]]
  <2>1. \A k \in Nat : at[k] = IF k = 0 THEN a ELSE step[at[k - 1]]
    <3> SUFFICES ASSUME NEW k \in Nat, k # 0 PROVE at[k] = step[at[k - 1]]
      BY <1>3
    <3>1. k - 1 \in Nat /\ (k - 1) + 1 = k
      OBVIOUS
    <3> QED
      BY <1>4, <3>1
  <2>2. at = [k \in Nat |-> at[k]]
    BY <1>2
  <2> QED
    BY <2>1, <2>2
<1>6. Looping(at, step, a)
  BY <1>5, Zenon DEF Looping
<1> DEFINE l == Loop(step, a)
<1>7. Looping(l, step, a)
  BY <1>6, LoopIs
<1> HIDE DEF l
<1>8. l = [k \in Nat |-> IF k = 0 THEN a ELSE step[l[k - 1]]]
  BY <1>7 DEF Looping
<1>9. l[0] = a /\ \A k \in Nat : l[k + 1] = step[l[k]]
  <2>1. l[0] = a
    BY <1>8
  <2>2. ASSUME NEW k \in Nat PROVE l[k + 1] = step[l[k]]
    <3>1. k + 1 \in Nat /\ k + 1 # 0 /\ (k + 1) - 1 = k
      OBVIOUS
    <3>2. l[k + 1] = IF k + 1 = 0 THEN a ELSE step[l[(k + 1) - 1]]
      BY <1>8, <3>1
    <3> QED
      BY <3>1, <3>2
  <2> QED
    BY <2>1, <2>2
<1>10. \A k \in Nat : l[k] \in Nat
  <2> DEFINE N == {k \in Nat : l[k] \notin Nat}
  <2> SUFFICES ASSUME N # {} PROVE FALSE
    OBVIOUS
  <2>1. N \in SUBSET Nat
    OBVIOUS
  <2>2. PICK k \in N : \A j \in N : k <= j
    <3> HIDE DEF N
    <3> QED
      BY <2>1, LeastNat
  <2>3. k \in Nat /\ l[k] \notin Nat /\ k # 0
    BY <1>9
  <2>4. k - 1 \in Nat /\ k - 1 \notin N /\ (k - 1) + 1 = k
    BY <2>2, <2>3
  <2>5. l[k] = step[l[k - 1]]
    BY <1>9, <2>4
  <2> QED
    BY <2>3, <2>4, <2>5
<1>11. l \in [Nat -> Nat]
  BY <1>8, <1>10
<1> QED
  BY <1>9, <1>11 DEF l

-----------------------------------------------------------------------------
(* Query strings: bytes, escapes and what is before a character.           *)

Byte == 1 .. 255
Plain == Byte \ Codes({"=", "#", "&", "+", "%"})

(* The codes of the characters that mean something in a query string.      *)
LEMMA CodesOfQuery ==
  /\ Ascii["="] = 61 /\ Ascii["#"] = 35 /\ Ascii["&"] = 38 /\ Ascii["nul"] = 0
  /\ Ascii["+"] = 43 /\ Ascii["%"] = 37 /\ Ascii[" "] = 32
  /\ Ascii["["] = 91 /\ Ascii["]"] = 93 /\ Ascii["?"] = 63
<1>1. Ascii["="] = 61 /\ Ascii["#"] = 35
  BY DEF Ascii
<1>2. Ascii["&"] = 38 /\ Ascii["nul"] = 0
  BY DEF Ascii
<1>3. Ascii["+"] = 43 /\ Ascii["%"] = 37
  BY DEF Ascii
<1>4. Ascii[" "] = 32 /\ Ascii["["] = 91
  BY DEF Ascii
<1>5. Ascii["]"] = 93 /\ Ascii["?"] = 63
  BY DEF Ascii
<1> QED
  BY <1>1, <1>2, <1>3, <1>4, <1>5

LEMMA IsCode ==
  ASSUME NEW s, NEW i
  PROVE  /\ Is(s, i, "%") <=> At(s, i) = 37
         /\ Is(s, i, "+") <=> At(s, i) = 43
         /\ Is(s, i, "&") <=> At(s, i) = 38
         /\ Is(s, i, "=") <=> At(s, i) = 61
         /\ Is(s, i, "#") <=> At(s, i) = 35
<1>1. Ascii["%"] = 37 /\ Ascii["+"] = 43 /\ Ascii["&"] = 38 /\ Ascii["="] = 61 /\ Ascii["#"] = 35
  BY CodesOfQuery
<1> QED
  BY <1>1 DEF Is

LEMMA SetsOfCodes ==
  /\ Ends = {61, 35, 38, 0}
  /\ Codes({"=", "#"}) = {61, 35} /\ Codes({"&"}) = {38} /\ Codes({"="}) = {61}
  /\ Codes({"["}) = {91} /\ Codes({"]"}) = {93} /\ Codes({"?", "#"}) = {63, 35}
  /\ Codes({"=", "#", "&", "+", "%"}) = {61, 35, 38, 43, 37}
  /\ Codes({"=", "#", "&", "+", "%", "[", "]"}) = {61, 35, 38, 43, 37, 91, 93}
<1>1. Ends = {Ascii["="], Ascii["#"], Ascii["&"], Ascii["nul"]}
  BY DEF Ends, Codes
<1>2. Codes({"=", "#"}) = {Ascii["="], Ascii["#"]} /\ Codes({"?", "#"}) = {Ascii["?"], Ascii["#"]}
  BY DEF Codes
<1>3. Codes({"&"}) = {Ascii["&"]} /\ Codes({"="}) = {Ascii["="]}
  BY DEF Codes
<1>4. Codes({"["}) = {Ascii["["]} /\ Codes({"]"}) = {Ascii["]"]}
  BY DEF Codes
<1>5. Codes({"=", "#", "&", "+", "%"})
        = {Ascii["="], Ascii["#"], Ascii["&"], Ascii["+"], Ascii["%"]}
  BY DEF Codes
<1>6. Codes({"=", "#", "&", "+", "%", "[", "]"})
        = {Ascii["="], Ascii["#"], Ascii["&"], Ascii["+"], Ascii["%"], Ascii["["], Ascii["]"]}
  BY DEF Codes
<1> QED
  BY <1>1, <1>2, <1>3, <1>4, <1>5, <1>6, CodesOfQuery

(* The byte at a place.                                                    *)
LEMMA AtIs ==
  ASSUME NEW s \in Seq(Byte), NEW p \in Int
  PROVE  /\ Len(s) \in Nat
         /\ p \in DOMAIN s <=> p \in 1 .. Len(s)
         /\ p \in 1 .. Len(s) => At(s, p) = s[p] /\ s[p] \in Byte
         /\ p \notin 1 .. Len(s) => At(s, p) = 0
         /\ At(s, p) \in 0 .. 255
         /\ At(s, p) # 0 => p \in 1 .. Len(s)
         /\ \A char : Is(s, p, char) <=> At(s, p) = Ascii[char]
<1>1. Len(s) \in Nat /\ DOMAIN s = 1 .. Len(s)
  OBVIOUS
<1>2. p \in 1 .. Len(s) => At(s, p) = s[p] /\ s[p] \in Byte
  BY <1>1 DEF At
<1>3. p \notin 1 .. Len(s) => At(s, p) = 0
  BY <1>1, CodesOfQuery DEF At
<1>4. At(s, p) \in 0 .. 255
  <2>1. CASE p \in 1 .. Len(s)
    <3>1. At(s, p) \in 1 .. 255
      BY <1>2, <2>1 DEF Byte
    <3> QED
      BY <3>1
  <2>2. CASE p \notin 1 .. Len(s)
    BY <1>3, <2>2
  <2> QED
    BY <2>1, <2>2
<1>5. \A char : Is(s, p, char) <=> At(s, p) = Ascii[char]
  BY DEF Is
<1> QED
  BY <1>1, <1>2, <1>3, <1>4, <1>5

(* A hexadecimal digit.                                                    *)
LEMMA HexIs ==
  ASSUME NEW b \in 0 .. 255, IsHex(b)
  PROVE  FromHex(b) \in 0 .. 15 /\ b \notin {61, 35, 38, 0, 37}
<1>1. Ascii["0"] = 48 /\ Ascii["9"] = 57
  BY DEF Ascii
<1>2. Ascii["a"] = 97 /\ Ascii["f"] = 102
  BY DEF Ascii
<1>3. Ascii["A"] = 65 /\ Ascii["F"] = 70
  BY DEF Ascii
<1>4. b \in 48 .. 57 \/ b \in 97 .. 102 \/ b \in 65 .. 70
  BY <1>1, <1>2, <1>3 DEF IsHex, Digits
<1>5. FromHex(b) = CASE b >= 97 -> b - 97 + 10
                     [] b < 97 /\ b >= 65 -> b - 65 + 10
                     [] OTHER -> b - 48
  BY <1>1, <1>2, <1>3 DEF FromHex
<1> QED
  BY <1>4, <1>5

(* An escape with two digits is well written, and says this byte.          *)
Good(s, p) == IsHex(At(s, p + 1)) /\ IsHex(At(s, p + 2))
Coded(s, p) == 16 * FromHex(At(s, p + 1)) + FromHex(At(s, p + 2))

LEMMA CodedIs ==
  ASSUME NEW s \in Seq(Byte), NEW p \in Nat, Good(s, p)
  PROVE  /\ Coded(s, p) \in 0 .. 255
         /\ p + 1 \in 1 .. Len(s) /\ p + 2 \in 1 .. Len(s)
         /\ s[p + 1] \notin {61, 35, 38, 0, 37} /\ s[p + 2] \notin {61, 35, 38, 0, 37}
<1>1. At(s, p + 1) \in 0 .. 255 /\ At(s, p + 2) \in 0 .. 255
  BY AtIs
<1>2. /\ FromHex(At(s, p + 1)) \in 0 .. 15 /\ At(s, p + 1) \notin {61, 35, 38, 0, 37}
      /\ FromHex(At(s, p + 2)) \in 0 .. 15 /\ At(s, p + 2) \notin {61, 35, 38, 0, 37}
  BY <1>1, HexIs DEF Good
<1>3. p + 1 \in 1 .. Len(s) /\ p + 2 \in 1 .. Len(s)
  BY <1>2, AtIs
<1>4. Coded(s, p) \in 0 .. 255
  <2> DEFINE h == FromHex(At(s, p + 1))
             l == FromHex(At(s, p + 2))
  <2>1. h \in 0 .. 15 /\ l \in 0 .. 15
    BY <1>2
  <2>2. Coded(s, p) = 16 * h + l
    BY DEF Coded
  <2> HIDE DEF h, l
  <2> QED
    BY <2>1, <2>2
<1>5. At(s, p + 1) = s[p + 1] /\ At(s, p + 2) = s[p + 2]
  BY <1>3, AtIs
<1> QED
  BY <1>2, <1>3, <1>4, <1>5

(* What qs_strncmp and qs_decode see at a place, and where they go on.     *)
LEMMA QsByteIs ==
  ASSUME NEW s \in Seq(Byte), NEW p \in Nat
  PROVE  /\ QsByte(s, p).p = IF At(s, p) = 37 THEN p + 3 ELSE p + 1
         /\ QsByte(s, p).b \in 0 .. 255
         /\ QsByte(s, p).b =
              IF At(s, p) \in Ends THEN 0
              ELSE IF At(s, p) = 43 THEN 32
              ELSE IF At(s, p) = 37 THEN (IF Good(s, p) THEN Coded(s, p) ELSE 0)
              ELSE At(s, p)
<1> DEFINE c == At(s, p)
           code == IF Good(s, p) THEN Coded(s, p) ELSE 0
<1>1. c \in 0 .. 255
  <2>1. p \in Int
    OBVIOUS
  <2> QED
    BY <2>1, AtIs
<1>2. code \in 0 .. 255
  <2>1. Good(s, p) => Coded(s, p) \in 0 .. 255
    BY CodedIs
  <2> QED
    BY <2>1
<1>3. QsByte(s, p) = CASE c \in Ends -> [b |-> 0, p |-> p + 1]
                       [] c = 43 -> [b |-> 32, p |-> p + 1]
                       [] c = 37 -> [b |-> code, p |-> p + 3]
                       [] OTHER -> [b |-> c, p |-> p + 1]
  BY CodesOfQuery, Zenon DEF QsByte, Good, Coded
<1> HIDE DEF c, code
<1>4. (c \in Ends => c # 43 /\ c # 37) /\ (c = 43 => c # 37)
  BY SetsOfCodes
<1>5. CASE c \in Ends
  BY <1>3, <1>4, <1>5 DEF c, code
<1>6. CASE c = 43
  BY <1>3, <1>4, <1>6 DEF c, code
<1>7. CASE c = 37
  <2>1. QsByte(s, p) = [b |-> code, p |-> p + 3]
    BY <1>3, <1>4, <1>7
  <2>2. QsByte(s, p).b = code /\ QsByte(s, p).p = p + 3
    BY <2>1
  <2> QED
    BY <1>2, <1>4, <1>7, <2>2 DEF c, code
<1>8. CASE c \notin Ends /\ c # 43 /\ c # 37
  <2>1. QsByte(s, p) = [b |-> c, p |-> p + 1]
    BY <1>3, <1>8
  <2>2. QsByte(s, p).b = c /\ QsByte(s, p).p = p + 1
    BY <2>1
  <2> QED
    BY <1>1, <1>8, <2>2 DEF c, code
<1> QED
  BY <1>5, <1>6, <1>7, <1>8

(* Where the bytes of a text begin.                                        *)
LEMMA StartsAre ==
  ASSUME NEW s \in Seq(Byte)
  PROVE  /\ Starts(s) \in [Nat -> Nat]
         /\ Starts(s)[0] = 1
         /\ \A k \in Nat : /\ Starts(s)[k] \in Nat /\ Starts(s)[k + 1] \in Nat
                           /\ Starts(s)[k + 1] = IF At(s, Starts(s)[k]) = 37
                                                 THEN Starts(s)[k] + 3 ELSE Starts(s)[k] + 1
         /\ \A k \in Nat : Starts(s)[k] > k
<1> DEFINE step == [p \in Nat |-> QsByte(s, p).p]
           at == Starts(s)
<1>1. step \in [Nat -> Nat]
  BY QsByteIs
<1>2. \A p \in Nat : step[p] = IF At(s, p) = 37 THEN p + 3 ELSE p + 1
  BY QsByteIs
<1>3. at = Loop(step, 1)
  BY DEF Starts
<1> HIDE DEF step, at
<1>4. /\ at \in [Nat -> Nat] /\ at[0] = 1
      /\ \A k \in Nat : at[k + 1] = step[at[k]]
  <2>1. 1 \in Nat
    OBVIOUS
  <2>2. /\ Loop(step, 1) \in [Nat -> Nat] /\ Loop(step, 1)[0] = 1
        /\ \A k \in Nat : Loop(step, 1)[k + 1] = step[Loop(step, 1)[k]]
    BY <1>1, <2>1, Loops
  <2> QED
    BY <1>3, <2>2
<1>5. ASSUME NEW k \in Nat
      PROVE  /\ at[k] \in Nat /\ at[k + 1] \in Nat
             /\ at[k + 1] = IF At(s, at[k]) = 37 THEN at[k] + 3 ELSE at[k] + 1
  <2>1. k + 1 \in Nat
    OBVIOUS
  <2> QED
    BY <1>2, <1>4, <2>1
<1>6. \A k \in Nat : at[k] > k
  <2> DEFINE N == {k \in Nat : ~(at[k] > k)}
  <2> SUFFICES ASSUME N # {} PROVE FALSE
    OBVIOUS
  <2>1. N \in SUBSET Nat
    OBVIOUS
  <2>2. PICK k \in N : \A j \in N : k <= j
    <3> HIDE DEF N
    <3> QED
      BY <2>1, LeastNat
  <2>3. k \in Nat /\ ~(at[k] > k) /\ k # 0
    BY <1>4
  <2>4. k - 1 \in Nat /\ k - 1 \notin N /\ (k - 1) + 1 = k
    BY <2>2, <2>3
  <2>5. at[k - 1] \in Nat /\ at[k] \in Nat /\ at[k] > at[k - 1]
    <3> DEFINE j == k - 1
    <3>1. j \in Nat /\ j + 1 = k
      BY <2>4
    <3> HIDE DEF j
    <3>2. /\ at[j] \in Nat /\ at[j + 1] \in Nat
          /\ at[j + 1] = IF At(s, at[j]) = 37 THEN at[j] + 3 ELSE at[j] + 1
      BY <1>5, <3>1
    <3>3. at[j] \in Nat /\ at[k] \in Nat /\ at[k] > at[j]
      BY <3>1, <3>2
    <3> QED
      BY <3>3 DEF j
  <2> QED
    BY <2>3, <2>4, <2>5
<1> QED
  BY <1>4, <1>5, <1>6 DEF at

(* What is before the first of these bytes.                                *)
LEMMA BeforeIs ==
  ASSUME NEW S, NEW s \in Seq(S), NEW codes
  PROVE  LET m == Len(Before(s, codes))
         IN /\ m \in 0 .. Len(s)
            /\ Before(s, codes) = SubSeq(s, 1, m)
            /\ Before(s, codes) \in Seq(S)
            /\ \A i \in 1 .. m : s[i] \notin codes /\ Before(s, codes)[i] = s[i]
            /\ m < Len(s) => s[m + 1] \in codes
<1> DEFINE T == {i \in DOMAIN s : s[i] \in codes} \cup {Len(s) + 1}
           u == SubSeq(s, 1, Min(T) - 1)
<1>1. Len(s) \in Nat /\ DOMAIN s = 1 .. Len(s)
  OBVIOUS
<1>2. T \in SUBSET Nat /\ T # {}
  BY <1>1
<1>3. \A i : i \in T <=> (i \in 1 .. Len(s) /\ s[i] \in codes) \/ i = Len(s) + 1
  BY <1>1
<1>4. Before(s, codes) = u
  BY DEF Before
<1> HIDE DEF T
<1>5. Min(T) \in T /\ \A y \in T : Min(T) <= y
  BY <1>2, MinIsLeast
<1>6. Min(T) \in 1 .. Len(s) + 1
  BY <1>1, <1>3, <1>5
<1>7. \A i \in 1 .. Min(T) - 1 : s[i] \in S
  BY <1>1, <1>6
<1>8. u \in Seq(S) /\ Len(u) = Min(T) - 1 /\ \A i \in 1 .. Min(T) - 1 : u[i] = s[i]
  <2>1. Min(T) - 1 \in Int /\ 1 \in Int
    BY <1>6
  <2>2. /\ u \in Seq(S) /\ Len(u) = IF 1 <= Min(T) - 1 THEN Min(T) - 1 - 1 + 1 ELSE 0
        /\ \A i \in 1 .. Min(T) - 1 - 1 + 1 : u[i] = s[1 + i - 1]
    BY <1>7, <2>1, SubSeqProperties
  <2>3. Len(u) = Min(T) - 1
    BY <1>6, <2>2
  <2>4. \A i \in 1 .. Min(T) - 1 : u[i] = s[i]
    BY <1>6, <2>2
  <2> QED
    BY <2>2, <2>3, <2>4
<1>9. \A i \in 1 .. Min(T) - 1 : s[i] \notin codes
  BY <1>1, <1>3, <1>5, <1>6
<1>10. Min(T) - 1 < Len(s) => s[Min(T) - 1 + 1] \in codes
  <2> SUFFICES ASSUME Min(T) - 1 < Len(s) PROVE s[Min(T) - 1 + 1] \in codes
    OBVIOUS
  <2>1. Min(T) - 1 + 1 = Min(T) /\ Min(T) # Len(s) + 1
    BY <1>1, <1>6
  <2> QED
    BY <1>3, <1>5, <2>1
<1> HIDE DEF u
<1>11. Min(T) - 1 \in 0 .. Len(s)
  BY <1>1, <1>6
<1>12. u = SubSeq(s, 1, Len(u))
  BY <1>8 DEF u
<1> QED
  BY <1>4, <1>8, <1>9, <1>10, <1>11, <1>12

(* Only one number is the length of that.                                  *)
LEMMA BeforeHas ==
  ASSUME NEW S, NEW s \in Seq(S), NEW codes, NEW m \in 0 .. Len(s),
         \A i \in 1 .. m : s[i] \notin codes,
         m < Len(s) => s[m + 1] \in codes
  PROVE  Len(Before(s, codes)) = m
<1> DEFINE n == Len(Before(s, codes))
<1>1. /\ n \in 0 .. Len(s)
      /\ \A i \in 1 .. n : s[i] \notin codes
      /\ n < Len(s) => s[n + 1] \in codes
  BY BeforeIs
<1> HIDE DEF n
<1>2. Len(s) \in Nat
  OBVIOUS
<1>3. ~(n < m)
  BY <1>1, <1>2
<1>4. ~(m < n)
  BY <1>1, <1>2
<1> QED
  BY <1>1, <1>2, <1>3, <1>4 DEF n

-----------------------------------------------------------------------------
(* Query strings: what a text says, and how a loop comes through it.       *)

LEMMA EscapesAre ==
  ASSUME NEW s \in Seq(Byte)
  PROVE  /\ \A i : i \in Escapes(s) <=> i \in 1 .. Len(s) /\ s[i] = 37
         /\ \A i : i \in Whole(s) <=> /\ i \in 1 .. Len(s)
                                      /\ i - 1 \notin Escapes(s) /\ i - 2 \notin Escapes(s)
         /\ \A i \in 1 .. Len(s) : WholeByte(s, i) = IF s[i] = 37 THEN Coded(s, i)
                                                     ELSE IF s[i] = 43 THEN 32 ELSE s[i]
         /\ Sound(s) <=> \A i \in Escapes(s) : Good(s, i)
<1>1. DOMAIN s = 1 .. Len(s)
  OBVIOUS
<1>2. \A i \in 1 .. Len(s) : At(s, i) = s[i]
  BY <1>1 DEF At
<1>3. \A i : i \in Escapes(s) <=> i \in 1 .. Len(s) /\ s[i] = 37
  BY <1>1, <1>2, IsCode DEF Escapes
<1>4. \A i : i \in Whole(s) <=> /\ i \in 1 .. Len(s)
                                /\ i - 1 \notin Escapes(s) /\ i - 2 \notin Escapes(s)
  BY <1>1 DEF Whole
<1>5. ASSUME NEW i \in 1 .. Len(s)
      PROVE  WholeByte(s, i) = IF s[i] = 37 THEN Coded(s, i) ELSE IF s[i] = 43 THEN 32 ELSE s[i]
  <2>1. Is(s, i, "+") <=> s[i] = 43
    BY <1>2, IsCode
  <2>2. i \in Escapes(s) <=> s[i] = 37
    BY <1>3
  <2>3. Ascii[" "] = 32
    BY CodesOfQuery
  <2> QED
    BY <2>1, <2>2, <2>3 DEF WholeByte, Coded
<1>6. Sound(s) <=> \A i \in Escapes(s) : Good(s, i)
  BY DEF Sound, Good
<1> QED
  BY <1>3, <1>4, <1>5, <1>6

(* A loop has come to at[k], through k whole bytes and good escapes.       *)
Passed(s, p) == {j \in Whole(s) : j < p}
Reached(s, at, k) ==
  /\ at[k] \in 1 .. Len(s) + 1
  /\ \A i \in Escapes(s) : i < at[k] => Good(s, i) /\ i + 2 < at[k]
  /\ Cardinality(Passed(s, at[k])) = k
  /\ \A i \in Whole(s) : i < at[k] => \E m \in 0 .. k - 1 : i = at[m]

LEMMA PassedFinite ==
  ASSUME NEW s \in Seq(Byte), NEW p
  PROVE  /\ IsFiniteSet(Whole(s)) /\ IsFiniteSet(Passed(s, p))
         /\ Passed(s, p) \subseteq Whole(s)
         /\ Cardinality(Passed(s, p)) \in Nat /\ Cardinality(Whole(s)) \in Nat
<1>1. Len(s) \in Int /\ 1 \in Int
  OBVIOUS
<1>2. IsFiniteSet(1 .. Len(s))
  BY <1>1, FS_Interval
<1>3. Whole(s) \in SUBSET (1 .. Len(s))
  BY EscapesAre
<1>4. Passed(s, p) \in SUBSET Whole(s)
  BY DEF Passed
<1>5. IsFiniteSet(Whole(s))
  BY <1>2, <1>3, FS_Subset
<1>6. IsFiniteSet(Passed(s, p))
  BY <1>4, <1>5, FS_Subset
<1> QED
  BY <1>4, <1>5, <1>6, FS_CardinalityType

LEMMA ReachedFirst ==
  ASSUME NEW s \in Seq(Byte), NEW at, at[0] = 1
  PROVE  Reached(s, at, 0)
<1>1. Len(s) \in Nat /\ \A i \in Escapes(s) : i \in Nat /\ ~(i < 1)
  BY EscapesAre
<1>2. \A i \in Whole(s) : i \in Nat /\ ~(i < 1)
  BY EscapesAre
<1>3. Passed(s, 1) = {}
  BY <1>2 DEF Passed
<1>4. Cardinality(Passed(s, 1)) = 0
  BY <1>3, FS_EmptySet
<1>5. 1 \in 1 .. Len(s) + 1
  BY <1>1
<1> QED
  BY <1>1, <1>2, <1>4, <1>5 DEF Reached

(* Where it has come to is no part of an escape.                           *)
LEMMA ReachedWhole ==
  ASSUME NEW s \in Seq(Byte), NEW at, NEW k \in Nat, Reached(s, at, k), at[k] <= Len(s)
  PROVE  /\ at[k] \in Whole(s)
         /\ Cardinality({j \in Whole(s) : j <= at[k]}) = k + 1
<1> DEFINE t == at[k]
<1>1. t \in 1 .. Len(s) + 1 /\ Len(s) \in Nat
  BY DEF Reached
<1>2. \A i \in Escapes(s) : i < t => i + 2 < t
  BY DEF Reached
<1> HIDE DEF t
<1>3. t - 1 \notin Escapes(s) /\ t - 2 \notin Escapes(s)
  <2>1. t - 1 < t /\ ~(t - 1 + 2 < t) /\ t - 2 < t /\ ~(t - 2 + 2 < t)
    BY <1>1
  <2> QED
    BY <1>2, <2>1
<1>4. t \in 1 .. Len(s)
  BY <1>1 DEF t
<1>5. t \in Whole(s)
  BY <1>3, <1>4, EscapesAre
<1>6. {j \in Whole(s) : j <= t} = Passed(s, t) \cup {t}
  <2>1. \A j \in Whole(s) : j <= t <=> j < t \/ j = t
    BY <1>1, EscapesAre
  <2> QED
    BY <1>5, <2>1 DEF Passed
<1>7. t \notin Passed(s, t)
  BY <1>1 DEF Passed
<1>8. Cardinality(Passed(s, t)) = k
  BY DEF Reached, t
<1>9. Cardinality(Passed(s, t) \cup {t}) = k + 1
  BY <1>7, <1>8, PassedFinite, FS_AddElement
<1> QED
  BY <1>5, <1>6, <1>9 DEF t

(* One more byte, if it is no bad escape.                                  *)
LEMMA ReachedNext ==
  ASSUME NEW s \in Seq(Byte), NEW at, NEW k \in Nat, Reached(s, at, k), at[k] <= Len(s),
         s[at[k]] = 37 => Good(s, at[k]),
         at[k + 1] = IF s[at[k]] = 37 THEN at[k] + 3 ELSE at[k] + 1
  PROVE  Reached(s, at, k + 1)
<1> DEFINE t == at[k]
           u == at[k + 1]
<1>1. t \in 1 .. Len(s) /\ Len(s) \in Nat /\ t \in Nat
  BY DEF Reached
<1>2. \A i \in Escapes(s) : i < t => Good(s, i) /\ i + 2 < t
  BY DEF Reached
<1>3. t \in Whole(s) /\ Cardinality({j \in Whole(s) : j <= t}) = k + 1
  BY ReachedWhole
<1>4. \A i \in Whole(s) : i < t => \E m \in 0 .. k - 1 : i = at[m]
  BY DEF Reached
<1>5. s[t] = 37 => Good(s, t)
  OBVIOUS
<1>6. u = IF s[t] = 37 THEN t + 3 ELSE t + 1
  OBVIOUS
<1>7. k + 1 \in Nat /\ k \in 0 .. (k + 1) - 1 /\ \A m \in 0 .. k - 1 : m \in 0 .. (k + 1) - 1
  OBVIOUS
<1>8. t = at[k] /\ u = at[k + 1]
  OBVIOUS
<1> HIDE DEF t, u
<1>9. /\ u \in 1 .. Len(s) + 1 /\ t < u
      /\ \A i \in Escapes(s) : i < u => i <= t
      /\ \A i \in Whole(s) : i < u => i <= t
      /\ s[t] = 37 => t + 2 < u
  <2>1. CASE s[t] = 37
    <3>1. t + 1 \in 1 .. Len(s) /\ t + 2 \in 1 .. Len(s) /\ s[t + 1] # 37 /\ s[t + 2] # 37
      BY <1>1, <1>5, <2>1, CodedIs
    <3>2. t \in Escapes(s)
      BY <1>1, <2>1, EscapesAre
    <3>3. u = t + 3 /\ u \in 1 .. Len(s) + 1
      BY <1>1, <1>6, <2>1, <3>1
    <3>4. t + 1 \notin Escapes(s) /\ t + 2 \notin Escapes(s)
      BY <3>1, EscapesAre
    <3>5. t + 1 \notin Whole(s) /\ t + 2 \notin Whole(s)
      <4>1. (t + 1) - 1 = t /\ (t + 2) - 2 = t
        BY <1>1
      <4> QED
        BY <3>2, <4>1, EscapesAre
    <3>6. \A i \in Int : i < u => i <= t \/ i = t + 1 \/ i = t + 2
      BY <1>1, <3>3
    <3>7. \A i : i \in Escapes(s) \/ i \in Whole(s) => i \in Int
      BY EscapesAre
    <3> QED
      BY <1>1, <3>3, <3>4, <3>5, <3>6, <3>7
  <2>2. CASE s[t] # 37
    <3>1. u = t + 1
      BY <1>6, <2>2
    <3>2. \A i : i \in Escapes(s) \/ i \in Whole(s) => i \in Int
      BY EscapesAre
    <3>3. \A i \in Int : i < u => i <= t
      BY <1>1, <3>1
    <3> QED
      BY <1>1, <2>2, <3>1, <3>2, <3>3
  <2> QED
    BY <2>1, <2>2
<1>10. Passed(s, u) = {j \in Whole(s) : j <= t}
  <2>1. \A j \in Whole(s) : j \in Int
    BY EscapesAre
  <2>2. \A j \in Whole(s) : j < u <=> j <= t
    BY <1>1, <1>9, <2>1
  <2> QED
    BY <2>2 DEF Passed
<1>11. ASSUME NEW i \in Escapes(s), i < u PROVE Good(s, i) /\ i + 2 < u
  <2>1. i \in Int /\ i <= t
    BY <1>9, <1>11, EscapesAre
  <2>2. CASE i = t
    <3>1. s[t] = 37
      BY <2>2, EscapesAre
    <3> QED
      BY <1>5, <1>9, <2>2, <3>1
  <2>3. CASE i # t
    <3>1. i < t
      BY <1>1, <2>1, <2>3
    <3>2. Good(s, i) /\ i + 2 < t
      BY <1>2, <3>1
    <3> QED
      BY <1>1, <1>9, <2>1, <3>2
  <2> QED
    BY <2>2, <2>3
<1>12. ASSUME NEW i \in Whole(s), i < u PROVE \E m \in 0 .. (k + 1) - 1 : i = at[m]
  <2>1. i \in Int /\ i <= t
    BY <1>9, <1>12, EscapesAre
  <2>2. CASE i = t
    BY <1>7, <1>8, <2>2
  <2>3. CASE i # t
    <3>1. i < t
      BY <1>1, <2>1, <2>3
    <3>2. PICK m \in 0 .. k - 1 : i = at[m]
      BY <1>4, <3>1
    <3> QED
      BY <1>7, <3>2
  <2> QED
    BY <2>2, <2>3
<1>13. Cardinality(Passed(s, u)) = k + 1
  BY <1>3, <1>10
<1> QED
  BY <1>8, <1>9, <1>11, <1>12, <1>13 DEF Reached

(* At the end it has come through everything, and knows what the text says.*)
LEMMA ReachedEnd ==
  ASSUME NEW s \in Seq(Byte), NEW at, NEW n \in Nat, NEW bytes,
         \A k \in 0 .. n : Reached(s, at, k), at[n] = Len(s) + 1, Len(bytes) = n,
         \A k \in 0 .. n - 1 : at[k] <= Len(s) /\ bytes[k + 1] = WholeByte(s, at[k])
  PROVE  Says(s, bytes)
<1>1. Len(s) \in Nat /\ n \in 0 .. n
  OBVIOUS
<1>2. Reached(s, at, n)
  BY <1>1
<1>3. \A i \in Escapes(s) : i < Len(s) + 1
  BY <1>1, EscapesAre
<1>4. \A i \in Whole(s) : i < Len(s) + 1
  BY <1>1, EscapesAre
<1>5. Sound(s)
  BY <1>2, <1>3, EscapesAre DEF Reached
<1>6. Passed(s, at[n]) = Whole(s)
  BY <1>4 DEF Passed
<1>7. Cardinality(Whole(s)) = n
  BY <1>2, <1>6 DEF Reached
<1>8. ASSUME NEW i \in Whole(s)
      PROVE  bytes[Cardinality({j \in Whole(s) : j <= i})] = WholeByte(s, i)
  <2>1. PICK m \in 0 .. n - 1 : i = at[m]
    BY <1>2, <1>4, <1>8 DEF Reached
  <2>2. m \in 0 .. n /\ m \in Nat
    BY <2>1
  <2>3. Reached(s, at, m) /\ at[m] <= Len(s)
    BY <2>1, <2>2
  <2>4. Cardinality({j \in Whole(s) : j <= at[m]}) = m + 1
    BY <2>2, <2>3, ReachedWhole
  <2> QED
    BY <2>1, <2>4
<1> QED
  BY <1>5, <1>7, <1>8 DEF Says

(* What qs_strncmp and qs_decode see of the text in front of its end.      *)
Ended(s, l) ==
  /\ l \in 0 .. Len(s)
  /\ \A i \in 1 .. l : s[i] \notin Ends
  /\ ~IsHex(At(s, l + 1))

LEMMA PartIs ==
  ASSUME NEW s \in Seq(Byte), NEW l, Ended(s, l)
  PROVE  LET part == SubSeq(s, 1, l)
         IN /\ part \in Seq(Byte) /\ Len(part) = l
            /\ \A i \in 1 .. l : /\ part[i] = s[i]
                                 /\ QsByte(s, i).b = IF s[i] = 37 /\ ~Good(part, i) THEN 0
                                                     ELSE WholeByte(part, i)
<1> DEFINE part == SubSeq(s, 1, l)
<1>1. l \in 0 .. Len(s) /\ Len(s) \in Nat /\ l \in Nat /\ 1 \in Int /\ l \in Int
  BY DEF Ended
<1>2. \A i \in 1 .. l : i \in 1 .. Len(s)
  BY <1>1
<1>3. \A i \in 1 .. l : s[i] \in Byte
  BY <1>2, AtIs
<1>4. part \in Seq(Byte) /\ Len(part) = l /\ \A i \in 1 .. l : part[i] = s[i]
  <2>1. /\ part \in Seq(Byte) /\ Len(part) = IF 1 <= l THEN l - 1 + 1 ELSE 0
        /\ \A i \in 1 .. l - 1 + 1 : part[i] = s[1 + i - 1]
    BY <1>1, <1>3, SubSeqProperties
  <2>2. Len(part) = l
    BY <1>1, <2>1
  <2>3. \A i \in 1 .. l : part[i] = s[i]
    BY <1>1, <2>1
  <2> QED
    BY <2>1, <2>2, <2>3
<1> HIDE DEF part
<1>5. \A i \in 1 .. l : At(part, i) = At(s, i) /\ At(s, i) = s[i]
  BY <1>2, <1>4, AtIs
<1>6. ASSUME NEW i \in 1 .. l
      PROVE  /\ Good(s, i) <=> Good(part, i)
             /\ Good(part, i) => Coded(part, i) = Coded(s, i)
  <2>1. i \in Nat /\ i + 1 \in 1 .. l + 1
    BY <1>1
  <2>2. ~IsHex(0)
    BY HexIs
  <2>3. At(part, l + 1) = 0 /\ At(part, l + 2) = 0
    <3>1. l + 1 \in Int /\ l + 2 \in Int /\ l + 1 \notin 1 .. l /\ l + 2 \notin 1 .. l
      BY <1>1
    <3> QED
      BY <1>4, <3>1, AtIs
  <2>4. CASE i = l
    <3>1. ~Good(s, i)
      BY <2>4 DEF Ended, Good
    <3>2. ~Good(part, i)
      BY <2>2, <2>3, <2>4 DEF Good
    <3> QED
      BY <3>1, <3>2
  <2>5. CASE i + 1 = l
    <3>1. i + 2 = l + 1
      BY <2>1, <2>5
    <3>2. ~Good(s, i)
      BY <3>1 DEF Ended, Good
    <3>3. ~Good(part, i)
      BY <2>2, <2>3, <3>1 DEF Good
    <3> QED
      BY <3>2, <3>3
  <2>6. CASE i # l /\ i + 1 # l
    <3>1. i + 1 \in 1 .. l /\ i + 2 \in 1 .. l
      BY <1>1, <2>1, <2>6
    <3>2. At(part, i + 1) = At(s, i + 1) /\ At(part, i + 2) = At(s, i + 2)
      BY <1>5, <3>1
    <3> QED
      BY <3>2 DEF Good, Coded
  <2> QED
    BY <2>4, <2>5, <2>6
<1>7. ASSUME NEW i \in 1 .. l
      PROVE  QsByte(s, i).b = IF s[i] = 37 /\ ~Good(part, i) THEN 0 ELSE WholeByte(part, i)
  <2>1. i \in Nat /\ s[i] \notin Ends /\ At(s, i) = s[i] /\ part[i] = s[i]
    BY <1>4, <1>5 DEF Ended
  <2>2. QsByte(s, i).b = IF s[i] = 43 THEN 32
                         ELSE IF s[i] = 37 THEN (IF Good(s, i) THEN Coded(s, i) ELSE 0)
                         ELSE s[i]
    BY <2>1, QsByteIs
  <2>3. WholeByte(part, i) = IF s[i] = 37 THEN Coded(part, i) ELSE IF s[i] = 43 THEN 32 ELSE s[i]
    BY <1>4, <2>1, EscapesAre
  <2> QED
    BY <1>6, <2>2, <2>3
<1> QED
  BY <1>4, <1>7 DEF part

(* A loop comes through the part as long as it meets no bad escape.        *)
LEMMA Walk ==
  ASSUME NEW s \in Seq(Byte), NEW l, Ended(s, l), NEW part, part = SubSeq(s, 1, l), NEW n \in Nat,
         \A k \in 0 .. n - 1 : Reached(part, Starts(s), k) =>
            /\ Starts(s)[k] <= l
            /\ s[Starts(s)[k]] = 37 => Good(part, Starts(s)[k])
  PROVE  /\ \A k \in 0 .. n : Reached(part, Starts(s), k)
         /\ \A k \in 0 .. n - 1 : Starts(s)[k] \in 1 .. l
<1> DEFINE at == Starts(s)
           N == {k \in Nat : k <= n /\ ~Reached(part, at, k)}
<1>1. /\ at[0] = 1
      /\ \A k \in Nat : /\ at[k] \in Nat /\ at[k + 1] \in Nat
                        /\ at[k + 1] = IF At(s, at[k]) = 37 THEN at[k] + 3 ELSE at[k] + 1
  BY StartsAre
<1>2. part \in Seq(Byte) /\ Len(part) = l /\ l \in 0 .. Len(s) /\ Len(s) \in Nat
      /\ \A i \in 1 .. l : part[i] = s[i]
  BY PartIs DEF Ended
<1>3. \A k \in 0 .. n - 1 : Reached(part, at, k) =>
            at[k] <= l /\ (s[at[k]] = 37 => Good(part, at[k]))
  OBVIOUS
<1> HIDE DEF at
<1>4. N = {}
  <2> SUFFICES ASSUME N # {} PROVE FALSE
    OBVIOUS
  <2>1. N \in SUBSET Nat
    OBVIOUS
  <2>2. PICK m \in N : \A k \in N : m <= k
    <3> HIDE DEF N
    <3> QED
      BY <2>1, LeastNat
  <2>3. m \in Nat /\ m <= n /\ ~Reached(part, at, m)
    OBVIOUS
  <2>4. m # 0
    BY <1>1, <1>2, <2>3, ReachedFirst
  <2> DEFINE k == m - 1
  <2>5. k \in Nat /\ k + 1 = m /\ k \in 0 .. n - 1 /\ k \notin N /\ k <= n
    BY <2>2, <2>3, <2>4
  <2> HIDE DEF k
  <2>6. Reached(part, at, k)
    BY <2>5
  <2>7. at[k] <= l /\ (s[at[k]] = 37 => Good(part, at[k]))
    BY <1>3, <2>5, <2>6
  <2>8. at[k] \in 1 .. l
    BY <1>2, <2>6, <2>7 DEF Reached
  <2>9. part[at[k]] = s[at[k]] /\ At(s, at[k]) = s[at[k]]
    <3>1. at[k] \in 1 .. Len(s) /\ at[k] \in Int
      BY <1>2, <2>8
    <3> QED
      BY <1>2, <2>8, <3>1, AtIs
  <2>10. at[k + 1] = IF part[at[k]] = 37 THEN at[k] + 3 ELSE at[k] + 1
    BY <1>1, <2>5, <2>9
  <2>11. Reached(part, at, k + 1)
    BY <1>2, <2>5, <2>6, <2>7, <2>9, <2>10, ReachedNext
  <2> QED
    BY <2>3, <2>5, <2>11
<1>5. \A k \in 0 .. n : Reached(part, at, k)
  BY <1>4
<1>6. \A k \in 0 .. n - 1 : at[k] \in 1 .. l
  <2> SUFFICES ASSUME NEW k \in 0 .. n - 1 PROVE at[k] \in 1 .. l
    OBVIOUS
  <2>1. Reached(part, at, k)
    BY <1>5
  <2>2. at[k] <= l
    BY <1>3, <2>1
  <2> QED
    BY <1>2, <2>1, <2>2 DEF Reached
<1> QED
  BY <1>5, <1>6 DEF at

(* A name that needs no escape is compared byte by byte.                   *)
LEMMA PlainIs ==
  ASSUME NEW name \in Seq(Plain)
  PROVE  /\ name \in Seq(Byte) /\ Len(name) \in Nat
         /\ \A k \in 0 .. Len(name) : Starts(name)[k] = k + 1
         /\ \A k \in 0 .. Len(name) - 1 : /\ QsByte(name, Starts(name)[k]).b = name[k + 1]
                                          /\ name[k + 1] \in Plain
         /\ \A b \in Plain : b \in Byte /\ b # 0 /\ b \notin {61, 35, 38, 43, 37}
<1>1. Plain \subseteq Byte
  BY DEF Plain
<1>2. \A b \in Plain : b \in Byte /\ b # 0 /\ b \notin {61, 35, 38, 43, 37}
  BY SetsOfCodes DEF Plain, Byte
<1>3. name \in Seq(Byte) /\ Len(name) \in Nat
  BY <1>1, Widens
<1>4. \A i \in 1 .. Len(name) : name[i] \in Plain
  OBVIOUS
<1>5. \A i \in 1 .. Len(name) : At(name, i) = name[i]
  BY <1>3, AtIs
<1> DEFINE N == {k \in Nat : k <= Len(name) /\ Starts(name)[k] # k + 1}
<1>6. N = {}
  <2> SUFFICES ASSUME N # {} PROVE FALSE
    OBVIOUS
  <2>1. N \in SUBSET Nat
    OBVIOUS
  <2>2. PICK m \in N : \A k \in N : m <= k
    <3> HIDE DEF N
    <3> QED
      BY <2>1, LeastNat
  <2>3. m \in Nat /\ m <= Len(name) /\ Starts(name)[m] # m + 1
    OBVIOUS
  <2>4. m # 0
    <3>1. Starts(name)[0] = 1
      BY <1>3, StartsAre
    <3> QED
      BY <2>3, <3>1
  <2> DEFINE k == m - 1
  <2>5. k \in Nat /\ k + 1 = m /\ k \notin N /\ k <= Len(name) /\ k + 1 \in 1 .. Len(name)
    BY <1>3, <2>2, <2>3, <2>4
  <2> HIDE DEF k
  <2>6. Starts(name)[k] = k + 1
    BY <2>5
  <2>7. At(name, k + 1) # 37
    BY <1>2, <1>4, <1>5, <2>5
  <2>8. Starts(name)[k + 1] = (k + 1) + 1
    BY <1>3, <2>5, <2>6, <2>7, StartsAre
  <2> QED
    BY <2>3, <2>5, <2>8
<1>7. ASSUME NEW k \in 0 .. Len(name) - 1
      PROVE  QsByte(name, Starts(name)[k]).b = name[k + 1] /\ name[k + 1] \in Plain
  <2>1. k \in Nat /\ k <= Len(name) /\ k + 1 \in 1 .. Len(name) /\ k + 1 \in Nat
    BY <1>3
  <2>2. Starts(name)[k] = k + 1
    BY <1>6, <2>1
  <2>3. name[k + 1] \in Plain /\ At(name, k + 1) = name[k + 1]
    BY <1>4, <1>5, <2>1
  <2>4. name[k + 1] \notin Ends /\ name[k + 1] # 43 /\ name[k + 1] # 37
    BY <1>2, <2>3, SetsOfCodes
  <2>5. QsByte(name, k + 1).b = name[k + 1]
    BY <1>3, <2>1, <2>3, <2>4, QsByteIs
  <2> QED
    BY <2>2, <2>3, <2>5
<1> QED
  BY <1>2, <1>3, <1>6, <1>7

(* So a pair is equal to a name when all bytes are the same and the key    *)
(* ends behind them.                                                       *)
LEMMA EqualIs ==
  ASSUME NEW name \in Seq(Plain), NEW pair
  PROVE  QsEqual(name, pair) <=>
           /\ \A k \in 0 .. Len(name) - 1 : QsByte(pair, Starts(pair)[k]).b = name[k + 1]
           /\ At(pair, Starts(pair)[Len(name)]) \in Ends
<1> DEFINE at == Starts(name)
           to == Starts(pair)
           same(k) == QsByte(name, at[k]).b = QsByte(pair, to[k]).b
           over == {k \in 0 .. (Len(name) - 1) : ~same(k) \/ QsByte(name, at[k]).b = 0}
<1>1. QsEqual(name, pair) <=> IF over = {} THEN At(pair, to[Len(name)]) \in Ends ELSE same(Min(over))
  BY DEF QsEqual
<1>2. \A k \in 0 .. Len(name) - 1 : QsByte(name, at[k]).b = name[k + 1] /\ name[k + 1] # 0
  BY PlainIs
<1>3. Len(name) \in Nat
  OBVIOUS
<1>4. over = {k \in 0 .. Len(name) - 1 : ~same(k)}
  BY <1>2
<1>5. CASE over = {}
  <2>1. \A k \in 0 .. Len(name) - 1 : QsByte(pair, to[k]).b = name[k + 1]
    BY <1>2, <1>5
  <2> QED
    BY <1>1, <1>5, <2>1
<1>6. CASE over # {}
  <2>1. over \in SUBSET Nat
    BY <1>3
  <2>2. Min(over) \in over
    <3> HIDE DEF over
    <3> QED
      BY <1>6, <2>1, MinIsLeast
  <2>3. Min(over) \in 0 .. Len(name) - 1 /\ ~same(Min(over))
    BY <1>4, <2>2
  <2>4. ~QsEqual(name, pair)
    BY <1>1, <1>6, <2>3
  <2>5. QsByte(pair, to[Min(over)]).b # name[Min(over) + 1]
    BY <1>2, <2>3
  <2> HIDE DEF over
  <2> QED
    BY <2>3, <2>4, <2>5
<1> QED
  BY <1>5, <1>6

(* qs_strncmp finds a name equal to a key that says it, and to no other.   *)
LEMMA EqualSays ==
  ASSUME NEW name \in Seq(Plain), NEW pair \in Seq(Byte), NEW l \in 0 .. Len(pair),
         \A i \in 1 .. l : pair[i] \notin Ends, At(pair, l + 1) \in Ends
  PROVE  QsEqual(name, pair) <=> Says(SubSeq(pair, 1, l), name)
<1> DEFINE key == SubSeq(pair, 1, l)
           at == Starts(pair)
           n == Len(name)
<1>1. Len(pair) \in Nat /\ l \in Nat /\ l + 1 \in Nat /\ l + 1 \in Int /\ n \in Nat
  OBVIOUS
<1>2. Ended(pair, l)
  <2>1. At(pair, l + 1) \in 0 .. 255
    BY <1>1, AtIs
  <2>2. ~IsHex(At(pair, l + 1))
    BY <2>1, HexIs, SetsOfCodes
  <2> QED
    BY <2>2 DEF Ended
<1>3. /\ key \in Seq(Byte) /\ Len(key) = l
      /\ \A i \in 1 .. l : /\ key[i] = pair[i]
                           /\ QsByte(pair, i).b = IF pair[i] = 37 /\ ~Good(key, i) THEN 0
                                                  ELSE WholeByte(key, i)
  BY <1>2, PartIs
<1>4. QsByte(pair, l + 1).b = 0
  BY <1>1, QsByteIs
<1>5. \A k \in 0 .. n - 1 : name[k + 1] # 0
  BY PlainIs
<1>6. QsEqual(name, pair) <=> /\ \A k \in 0 .. n - 1 : QsByte(pair, at[k]).b = name[k + 1]
                              /\ At(pair, at[n]) \in Ends
  BY EqualIs
<1>7. \A k \in Nat : Reached(key, at, k) => at[k] \in 1 .. l + 1
  BY <1>3 DEF Reached
<1>8. \A k \in Nat : Reached(key, at, k) /\ At(pair, at[k]) \in Ends => at[k] = l + 1
  <2> SUFFICES ASSUME NEW k \in Nat, Reached(key, at, k), At(pair, at[k]) \in Ends, at[k] # l + 1
               PROVE  FALSE
    OBVIOUS
  <2>1. at[k] \in 1 .. l /\ at[k] \in 1 .. Len(pair)
    BY <1>1, <1>7
  <2>2. At(pair, at[k]) = pair[at[k]]
    BY <2>1, AtIs
  <2> QED
    BY <2>1, <2>2
<1> HIDE DEF key, at
<1>9. ASSUME QsEqual(name, pair) PROVE Says(key, name)
  <2>1. /\ \A k \in 0 .. n - 1 : QsByte(pair, at[k]).b = name[k + 1]
        /\ At(pair, at[n]) \in Ends
    BY <1>6, <1>9
  <2>2. ASSUME NEW k \in 0 .. n - 1, Reached(key, at, k)
        PROVE  at[k] <= l /\ (pair[at[k]] = 37 => Good(key, at[k]))
    <3>1. QsByte(pair, at[k]).b # 0
      BY <1>5, <2>1
    <3>2. at[k] \in 1 .. l
      BY <1>1, <1>4, <1>7, <2>2, <3>1
    <3> QED
      BY <1>1, <1>3, <3>1, <3>2
  <2>3. /\ \A k \in 0 .. n : Reached(key, at, k)
        /\ \A k \in 0 .. n - 1 : at[k] \in 1 .. l
    BY <1>1, <1>2, <2>2, Walk DEF at, key
  <2>4. at[n] = Len(key) + 1
    BY <1>1, <1>3, <1>8, <2>1, <2>3
  <2>5. ASSUME NEW k \in 0 .. n - 1 PROVE at[k] <= Len(key) /\ name[k + 1] = WholeByte(key, at[k])
    <3>1. at[k] \in 1 .. l /\ QsByte(pair, at[k]).b = name[k + 1] /\ name[k + 1] # 0
      BY <1>5, <2>1, <2>3
    <3> QED
      BY <1>1, <1>3, <3>1
  <2> QED
    BY <1>1, <1>3, <2>3, <2>4, <2>5, ReachedEnd
<1>10. ASSUME Says(key, name) PROVE QsEqual(name, pair)
  <2>1. Sound(key) /\ n = Cardinality(Whole(key))
    BY <1>10 DEF Says
  <2>2. \A i \in Whole(key) : name[Cardinality({j \in Whole(key) : j <= i})] = WholeByte(key, i)
    BY <1>10 DEF Says
  <2>3. ASSUME NEW k \in 0 .. n - 1, Reached(key, at, k)
        PROVE  at[k] <= l /\ (pair[at[k]] = 37 => Good(key, at[k]))
    <3>1. k \in Nat /\ k # n /\ at[k] \in 1 .. l + 1
      BY <1>1, <1>7, <2>3
    <3>2. at[k] # l + 1
      <4> SUFFICES ASSUME at[k] = l + 1 PROVE FALSE
        OBVIOUS
      <4>1. Passed(key, at[k]) = Whole(key)
        <5>1. \A j \in Whole(key) : j < at[k]
          BY <1>1, <1>3, EscapesAre
        <5> QED
          BY <5>1 DEF Passed
      <4>2. Cardinality(Passed(key, at[k])) = k
        BY <2>3 DEF Reached
      <4> QED
        BY <2>1, <3>1, <4>1, <4>2
    <3>3. at[k] \in 1 .. l
      BY <1>1, <3>1, <3>2
    <3>4. pair[at[k]] = 37 => at[k] \in Escapes(key)
      BY <1>3, <3>3, EscapesAre
    <3>5. pair[at[k]] = 37 => Good(key, at[k])
      BY <1>3, <2>1, <3>4, EscapesAre
    <3> QED
      BY <1>1, <3>3, <3>5
  <2>4. /\ \A k \in 0 .. n : Reached(key, at, k)
        /\ \A k \in 0 .. n - 1 : at[k] \in 1 .. l
    BY <1>1, <1>2, <2>3, Walk DEF at, key
  <2>5. ASSUME NEW k \in 0 .. n - 1 PROVE QsByte(pair, at[k]).b = name[k + 1]
    <3>1. k \in Nat /\ k \in 0 .. n /\ at[k] \in 1 .. l
      BY <1>1, <2>4
    <3>2. Reached(key, at, k) /\ at[k] <= Len(key)
      BY <1>1, <1>3, <2>4, <3>1
    <3>3. at[k] \in Whole(key) /\ Cardinality({j \in Whole(key) : j <= at[k]}) = k + 1
      BY <1>3, <3>1, <3>2, ReachedWhole
    <3>4. name[k + 1] = WholeByte(key, at[k])
      BY <2>2, <3>3
    <3>5. pair[at[k]] = 37 => Good(key, at[k])
      BY <2>3, <3>2
    <3> QED
      BY <1>3, <3>1, <3>4, <3>5
  <2>6. At(pair, at[n]) \in Ends
    <3>1. n \in 0 .. n
      BY <1>1
    <3>2. Reached(key, at, n)
      BY <2>4, <3>1
    <3>3. at[n] \in 1 .. l + 1
      BY <1>1, <1>7, <3>2
    <3>4. at[n] # l + 1 => FALSE
      <4> SUFFICES ASSUME at[n] # l + 1 PROVE FALSE
        OBVIOUS
      <4>1. at[n] <= Len(key) /\ key \in Seq(Byte) /\ n \in Nat
        BY <1>1, <1>3, <3>3
      <4>2. Cardinality({j \in Whole(key) : j <= at[n]}) = n + 1
        BY <3>2, <4>1, ReachedWhole
      <4>3. {j \in Whole(key) : j <= at[n]} \in SUBSET Whole(key)
        OBVIOUS
      <4>4. n + 1 <= n
        BY <1>3, <2>1, <4>2, <4>3, PassedFinite, FS_Subset
      <4> QED
        BY <1>1, <4>4
    <3> QED
      BY <3>4
  <2> QED
    BY <1>6, <2>5, <2>6
<1> QED
  BY <1>9, <1>10 DEF key

(* Where a value ends.                                                     *)
LEMMA ValueEnd ==
  ASSUME NEW v \in Seq(Byte), \A i \in 1 .. Len(v) : v[i] # 38
  PROVE  \E l \in 0 .. Len(v) :
           /\ ValueText(v) = SubSeq(v, 1, l)
           /\ Ended(v, l)
           /\ QsByte(v, l + 1).b = 0
           /\ \A i \in 1 .. l : QsByte(v, i).b # 0
<1> DEFINE T == {i \in DOMAIN v : EndsValue(v, i)} \cup {Len(v) + 1}
           e == Min(T)
           l == e - 1
<1>1. Len(v) \in Nat /\ DOMAIN v = 1 .. Len(v)
  OBVIOUS
<1>2. T \in SUBSET Nat /\ T # {}
  BY <1>1
<1>3. \A i : i \in T <=> (i \in 1 .. Len(v) /\ EndsValue(v, i)) \/ i = Len(v) + 1
  BY <1>1
<1>4. ValueText(v) = SubSeq(v, 1, l)
  BY DEF ValueText
<1> HIDE DEF T
<1>5. e \in T /\ \A y \in T : e <= y
  BY <1>2, MinIsLeast
<1> HIDE DEF e
<1>6. e \in 1 .. Len(v) + 1 /\ l \in 0 .. Len(v) /\ l + 1 = e
  BY <1>1, <1>3, <1>5
<1>7. \A i \in 1 .. l : i \in 1 .. Len(v) /\ i \in Nat /\ ~EndsValue(v, i)
  BY <1>1, <1>3, <1>5, <1>6
<1>8. ASSUME NEW i \in 1 .. Len(v)
      PROVE  EndsValue(v, i) <=> \/ v[i] \in {61, 35}
                                 \/ v[i] = 37 /\ (Good(v, i) => Coded(v, i) = 0)
  <2>1. At(v, i) = v[i] /\ (Is(v, i, "%") <=> v[i] = 37)
    <3>1. i \in Int
      OBVIOUS
    <3>2. At(v, i) = v[i]
      BY <3>1, AtIs
    <3> QED
      BY <3>2, IsCode
  <2>2. v[i] = 37 => WholeByte(v, i) = Coded(v, i)
    BY EscapesAre
  <2> QED
    BY <2>1, <2>2, SetsOfCodes DEF EndsValue, Good
<1>9. ASSUME NEW i \in 1 .. Len(v)
      PROVE  QsByte(v, i).b = 0 <=> EndsValue(v, i)
  <2>1. At(v, i) = v[i] /\ v[i] \in Byte /\ i \in Nat
    BY AtIs
  <2>2. v[i] # 0 /\ v[i] # 38
    <3>1. v[i] # 38
      BY <2>1
    <3>2. \A b \in Byte : b # 0
      BY DEF Byte
    <3> QED
      BY <2>1, <3>1, <3>2
  <2>3. v[i] \in Ends <=> v[i] \in {61, 35}
    BY <2>2, SetsOfCodes
  <2>4. QsByte(v, i).b = IF v[i] \in Ends THEN 0
                         ELSE IF v[i] = 43 THEN 32
                         ELSE IF v[i] = 37 THEN (IF Good(v, i) THEN Coded(v, i) ELSE 0)
                         ELSE v[i]
    BY <2>1, QsByteIs
  <2> QED
    BY <1>8, <2>2, <2>3, <2>4
<1>10. QsByte(v, l + 1).b = 0
  <2>1. CASE e = Len(v) + 1
    <3>1. e \in Nat /\ e \in Int /\ e \notin 1 .. Len(v)
      BY <1>1, <2>1
    <3>2. At(v, e) = 0
      BY <3>1, AtIs
    <3> QED
      BY <1>6, <3>1, <3>2, QsByteIs, SetsOfCodes
  <2>2. CASE e # Len(v) + 1
    <3>1. e \in 1 .. Len(v) /\ EndsValue(v, e)
      BY <1>3, <1>5, <2>2
    <3> QED
      BY <1>6, <1>9, <3>1
  <2> QED
    BY <2>1, <2>2
<1>11. ASSUME NEW b \in 0 .. 255, IsHex(b) PROVE b \notin {61, 35, 37, 0}
  BY <1>11, HexIs
<1>12. ~IsHex(At(v, l + 1))
  <2>1. CASE e = Len(v) + 1
    <3>1. e \in Int /\ e \notin 1 .. Len(v)
      BY <1>1, <2>1
    <3>2. At(v, e) = 0
      BY <3>1, AtIs
    <3> QED
      BY <1>6, <1>11, <3>2
  <2>2. CASE e # Len(v) + 1
    <3>1. e \in 1 .. Len(v) /\ EndsValue(v, e) /\ e \in Int
      BY <1>3, <1>5, <2>2
    <3>2. At(v, e) = v[e] /\ At(v, e) \in 0 .. 255
      BY <3>1, AtIs
    <3>3. v[e] \in {61, 35, 37}
      BY <1>8, <3>1
    <3> QED
      BY <1>6, <1>11, <3>2, <3>3
  <2> QED
    BY <2>1, <2>2
<1>13. \A i \in 1 .. l : v[i] \notin Ends
  <2> SUFFICES ASSUME NEW i \in 1 .. l PROVE v[i] \notin Ends
    OBVIOUS
  <2>1. i \in 1 .. Len(v) /\ ~EndsValue(v, i) /\ v[i] \in Byte
    BY <1>7, AtIs
  <2>2. v[i] # 0 /\ v[i] # 38
    <3>1. v[i] # 38
      BY <2>1
    <3>2. \A b \in Byte : b # 0
      BY DEF Byte
    <3> QED
      BY <2>1, <3>1, <3>2
  <2> QED
    BY <1>8, <2>1, <2>2, SetsOfCodes
<1>14. Ended(v, l)
  BY <1>6, <1>12, <1>13 DEF Ended
<1>15. \A i \in 1 .. l : QsByte(v, i).b # 0
  BY <1>7, <1>9
<1> QED
  BY <1>4, <1>6, <1>10, <1>14, <1>15

(* qs_decode writes what the text of the value says.                       *)
LEMMA DecodeSays ==
  ASSUME NEW v \in Seq(Byte), \A i \in 1 .. Len(v) : v[i] # 38
  PROVE  QsDecode(v) \in Seq(Byte) /\ Says(ValueText(v), QsDecode(v))
<1>1. PICK l \in 0 .. Len(v) :
           /\ ValueText(v) = SubSeq(v, 1, l)
           /\ Ended(v, l)
           /\ QsByte(v, l + 1).b = 0
           /\ \A i \in 1 .. l : QsByte(v, i).b # 0
  BY ValueEnd
<1> DEFINE part == SubSeq(v, 1, l)
           at == Starts(v)
           over == {k \in 0 .. Len(v) : QsByte(v, at[k]).b = 0}
           m == Min(over)
           out == [k \in 1 .. m |-> QsByte(v, at[k - 1]).b]
<1>2. Len(v) \in Nat /\ l \in Nat
  OBVIOUS
<1>3. QsDecode(v) = out
  BY DEF QsDecode
<1>4. /\ part \in Seq(Byte) /\ Len(part) = l
      /\ \A i \in 1 .. l : /\ part[i] = v[i]
                           /\ QsByte(v, i).b = IF v[i] = 37 /\ ~Good(part, i) THEN 0
                                               ELSE WholeByte(part, i)
  BY <1>1, PartIs
<1>5. \A k \in Nat : at[k] \in Nat /\ at[k] > k
  BY StartsAre
<1>6. \A k \in Nat : Reached(part, at, k) => at[k] \in 1 .. l + 1
  BY <1>4 DEF Reached
<1> HIDE DEF part, at
<1>7. over \in SUBSET Nat /\ over # {}
  <2>1. at[Len(v)] \in Nat /\ at[Len(v)] \in Int /\ at[Len(v)] \notin 1 .. Len(v)
    BY <1>2, <1>5
  <2>2. At(v, at[Len(v)]) = 0
    BY <2>1, AtIs
  <2>3. QsByte(v, at[Len(v)]).b = 0
    BY <2>1, <2>2, QsByteIs, SetsOfCodes
  <2>4. Len(v) \in over
    BY <1>2, <2>3
  <2> QED
    BY <1>2, <2>4
<1>8. \A k : k \in over <=> k \in 0 .. Len(v) /\ QsByte(v, at[k]).b = 0
  OBVIOUS
<1>9. m \in over /\ \A k \in over : m <= k
  <2> HIDE DEF over
  <2> QED
    BY <1>7, MinIsLeast
<1> HIDE DEF over
<1>10. m \in Nat /\ m \in 0 .. Len(v) /\ QsByte(v, at[m]).b = 0
  BY <1>2, <1>8, <1>9
<1>11. \A k \in 0 .. m - 1 : k \in Nat /\ QsByte(v, at[k]).b # 0
  <2> SUFFICES ASSUME NEW k \in 0 .. m - 1 PROVE k \in Nat /\ QsByte(v, at[k]).b # 0
    OBVIOUS
  <2>1. k \in 0 .. Len(v) /\ k \in Nat /\ ~(m <= k)
    BY <1>2, <1>10
  <2> QED
    BY <1>8, <1>9, <2>1
<1> HIDE DEF m
<1>12. ASSUME NEW k \in 0 .. m - 1, Reached(part, at, k)
       PROVE  at[k] <= l /\ (v[at[k]] = 37 => Good(part, at[k]))
  <2>1. k \in Nat /\ QsByte(v, at[k]).b # 0
    BY <1>11
  <2>2. at[k] \in 1 .. l + 1 /\ at[k] # l + 1
    BY <1>1, <1>6, <1>12, <2>1
  <2>3. at[k] \in 1 .. l
    BY <1>2, <2>2
  <2> QED
    BY <1>2, <1>4, <2>1, <2>3
<1>13. /\ \A k \in 0 .. m : Reached(part, at, k)
       /\ \A k \in 0 .. m - 1 : at[k] \in 1 .. l
  BY <1>1, <1>10, <1>12, Walk DEF at, part
<1>14. at[m] = Len(part) + 1
  <2>1. m \in 0 .. m
    BY <1>10
  <2>2. at[m] \in 1 .. l + 1
    BY <1>6, <1>10, <1>13, <2>1
  <2>3. at[m] \notin 1 .. l
    BY <1>1, <1>10
  <2> QED
    BY <1>2, <1>4, <2>2, <2>3
<1>15. out \in Seq(Byte) /\ Len(out) = m
  <2>1. \A k \in 1 .. m : QsByte(v, at[k - 1]).b \in Byte
    <3> SUFFICES ASSUME NEW k \in 1 .. m PROVE QsByte(v, at[k - 1]).b \in Byte
      OBVIOUS
    <3>1. k - 1 \in 0 .. m - 1
      BY <1>10
    <3>2. k - 1 \in Nat /\ QsByte(v, at[k - 1]).b # 0
      BY <1>11, <3>1
    <3>3. at[k - 1] \in Nat
      BY <1>5, <3>2
    <3>4. QsByte(v, at[k - 1]).b \in 0 .. 255
      BY <3>3, QsByteIs
    <3> QED
      BY <3>2, <3>4 DEF Byte
  <2> QED
    BY <1>10, <2>1
<1>16. ASSUME NEW k \in 0 .. m - 1 PROVE at[k] <= Len(part) /\ out[k + 1] = WholeByte(part, at[k])
  <2>1. at[k] \in 1 .. l /\ QsByte(v, at[k]).b # 0
    BY <1>11, <1>13
  <2>2. k + 1 \in 1 .. m /\ (k + 1) - 1 = k
    BY <1>10
  <2>3. out[k + 1] = QsByte(v, at[k]).b
    BY <2>2
  <2> QED
    BY <1>2, <1>4, <2>1, <2>3
<1> HIDE DEF out
<1>17. Says(part, out)
  BY <1>4, <1>10, <1>13, <1>14, <1>15, <1>16, ReachedEnd
<1> QED
  BY <1>1, <1>3, <1>15, <1>17 DEF part

(* The end of a sequence.                                                  *)
LEMMA TailIs ==
  ASSUME NEW S, NEW s \in Seq(S), NEW p \in Nat \ {0}
  PROVE  LET tail == SubSeq(s, p, Len(s))
         IN /\ tail \in Seq(S)
            /\ Len(tail) = IF p <= Len(s) THEN Len(s) - p + 1 ELSE 0
            /\ \A i \in 1 .. Len(tail) : tail[i] = s[p + i - 1]
<1> DEFINE tail == SubSeq(s, p, Len(s))
<1>1. p \in Int /\ Len(s) \in Int /\ \A i \in p .. Len(s) : s[i] \in S
  OBVIOUS
<1>2. /\ tail \in Seq(S)
      /\ Len(tail) = IF p <= Len(s) THEN Len(s) - p + 1 ELSE 0
      /\ \A i \in 1 .. Len(s) - p + 1 : tail[i] = s[p + i - 1]
  BY <1>1, SubSeqProperties
<1> HIDE DEF tail
<1>3. \A i \in 1 .. Len(tail) : i \in 1 .. Len(s) - p + 1
  BY <1>1, <1>2
<1> QED
  BY <1>2, <1>3 DEF tail

(* What a pair is made of: its key, as it was sent, and its value.         *)
LEMMA PairIs ==
  ASSUME NEW segment \in Seq(Byte), \A i \in 1 .. Len(segment) : segment[i] # 38
  PROVE  LET key == Before(segment, Codes({"=", "#"}))
             pair == Pair(segment)
         IN /\ pair \in Seq(Byte)
            /\ Len(key) \in 0 .. Len(pair)
            /\ SubSeq(pair, 1, Len(key)) = key
            /\ \A i \in 1 .. Len(key) : pair[i] \notin Ends
            /\ At(pair, Len(key) + 1) \in Ends
            /\ ~Is(segment, Len(key) + 1, "#") =>
                 Says(ValueText(SubSeq(segment, Len(key) + 2, Len(segment))), ValueOf(pair))
<1> DEFINE key == Before(segment, Codes({"=", "#"}))
           l == Len(key)
           v == SubSeq(segment, l + 2, Len(segment))
           pair == Pair(segment)
           skip == Len(Before(pair, Codes({"="})))
<1>1. /\ l \in 0 .. Len(segment)
      /\ key = SubSeq(segment, 1, l)
      /\ key \in Seq(Byte)
      /\ \A i \in 1 .. l : segment[i] \notin {61, 35}
      /\ l < Len(segment) => segment[l + 1] \in {61, 35}
  BY BeforeIs, SetsOfCodes
<1>2. Len(segment) \in Nat /\ l \in Nat /\ l + 2 \in Nat \ {0} /\ l + 1 \in Int
  BY <1>1
<1>3. \A i \in 1 .. Len(segment) : segment[i] \in Byte /\ segment[i] # 0 /\ segment[i] # 38
  <2>1. \A b \in Byte : b # 0
    BY DEF Byte
  <2> QED
    BY <2>1
<1>4. \A i \in 1 .. l : segment[i] \notin Ends
  BY <1>1, <1>2, <1>3, SetsOfCodes
<1>5. /\ v \in Seq(Byte) /\ Len(v) = IF l + 2 <= Len(segment) THEN Len(segment) - (l + 2) + 1 ELSE 0
      /\ \A i \in 1 .. Len(v) : v[i] = segment[l + 2 + i - 1]
  BY <1>2, TailIs
<1>6. ValueOf(pair) = SubSeq(pair, skip + 2, Len(pair))
  BY DEF ValueOf
<1>7. pair = IF key = segment THEN segment ELSE SubSeq(segment, 1, l + 1) \o QsDecode(v)
  BY DEF Pair
<1> HIDE DEF key, pair, v
<1>8. CASE key = segment
  <2>1. pair = segment /\ l = Len(segment)
    BY <1>7, <1>8
  <2>2. Len(v) = 0
    BY <1>2, <1>5, <2>1
  <2>3. v = <<>>
    BY <1>5, <2>2, EmptySeq
  <2>4. At(pair, l + 1) = 0
    BY <1>2, <2>1, AtIs
  <2>5. skip = l
    <3>1. l \in 0 .. Len(pair) /\ \A i \in 1 .. l : pair[i] \notin {61}
      BY <1>1, <2>1
    <3>2. ~(l < Len(pair))
      BY <1>2, <2>1
    <3> QED
      BY <2>1, <3>1, <3>2, BeforeHas, SetsOfCodes
  <2>6. ValueOf(pair) = <<>>
    BY <1>6, <2>1, <2>3, <2>5 DEF v
  <2>7. ValueText(v) = <<>>
    <3>0. \A i \in 1 .. Len(v) : v[i] # 38
      BY <2>2
    <3>1. PICK n \in 0 .. Len(v) : ValueText(v) = SubSeq(v, 1, n)
      BY <1>5, <3>0, ValueEnd
    <3>2. n = 0
      BY <2>2, <3>1
    <3> QED
      BY <3>1, <3>2
  <2>8. Says(<<>>, <<>>)
    <3>1. <<>> \in Seq(Byte) /\ Len(<<>>) = 0
      OBVIOUS
    <3>2. \A i : i \notin 1 .. Len(<<>>)
      BY <3>1
    <3>3. Whole(<<>>) = {} /\ Escapes(<<>>) = {}
      BY <3>1, <3>2, EscapesAre
    <3>4. Cardinality(Whole(<<>>)) = 0
      BY <3>3, FS_EmptySet
    <3> QED
      BY <3>1, <3>3, <3>4 DEF Says, Sound
  <2>9. Says(ValueText(v), ValueOf(pair))
    BY <2>6, <2>7, <2>8
  <2>10. SubSeq(pair, 1, l) = key
    BY <1>1, <2>1
  <2> QED
    BY <1>1, <1>4, <2>1, <2>4, <2>9, <2>10, SetsOfCodes DEF key, v, pair
<1>9. CASE key # segment
  <2> DEFINE head == SubSeq(segment, 1, l + 1)
             d == QsDecode(v)
  <2>1. l < Len(segment)
    <3> SUFFICES ASSUME l = Len(segment) PROVE FALSE
      BY <1>1
    <3>1. key = segment
      BY <1>1, SubSeqFull
    <3> QED
      BY <1>9, <3>1
  <2>2. l + 1 \in 1 .. Len(segment) /\ segment[l + 1] \in {61, 35}
    BY <1>1, <1>2, <2>1
  <2>3. /\ head \in Seq(Byte) /\ Len(head) = l + 1
        /\ \A i \in 1 .. l + 1 : head[i] = segment[i]
    <3>1. 1 \in Int /\ \A i \in 1 .. l + 1 : segment[i] \in Byte
      BY <1>2, <1>3, <2>2
    <3>2. /\ head \in Seq(Byte) /\ Len(head) = IF 1 <= l + 1 THEN l + 1 - 1 + 1 ELSE 0
          /\ \A i \in 1 .. l + 1 - 1 + 1 : head[i] = segment[1 + i - 1]
      BY <1>2, <3>1, SubSeqProperties
    <3>3. Len(head) = l + 1
      BY <1>2, <3>2
    <3>4. \A i \in 1 .. l + 1 : head[i] = segment[i]
      BY <1>2, <3>2
    <3> QED
      BY <3>2, <3>3, <3>4
  <2>4. \A i \in 1 .. Len(v) : v[i] # 38
    <3> SUFFICES ASSUME NEW i \in 1 .. Len(v) PROVE v[i] # 38
      OBVIOUS
    <3>1. l + 2 + i - 1 \in 1 .. Len(segment)
      BY <1>2, <1>5
    <3> QED
      BY <1>3, <1>5, <3>1
  <2>5. d \in Seq(Byte) /\ Says(ValueText(v), d)
    BY <1>5, <2>4, DecodeSays
  <2>6. pair = head \o d
    BY <1>7, <1>9
  <2> HIDE DEF head, d
  <2>7. /\ pair \in Seq(Byte) /\ Len(pair) = l + 1 + Len(d) /\ Len(d) \in Nat
        /\ \A i \in 1 .. l + 1 : pair[i] = segment[i]
        /\ \A i \in 1 .. Len(d) : pair[l + 1 + i] = d[i]
    <3>0. /\ head \o d \in Seq(Byte) /\ Len(head \o d) = Len(head) + Len(d)
          /\ \A i \in 1 .. Len(head) + Len(d) : (head \o d)[i] = IF i <= Len(head) THEN head[i]
                                                               ELSE d[i - Len(head)]
      BY <2>3, <2>5, ConcatProperties
    <3>1. /\ pair \in Seq(Byte) /\ Len(pair) = Len(head) + Len(d) /\ Len(d) \in Nat
          /\ \A i \in 1 .. Len(head) + Len(d) : pair[i] = IF i <= Len(head) THEN head[i]
                                                          ELSE d[i - Len(head)]
      <4>1. Len(d) \in Nat
        BY <2>5
      <4> QED
        BY <2>6, <3>0, <4>1
    <3>2. ASSUME NEW i \in 1 .. l + 1 PROVE pair[i] = segment[i]
      <4>1. i \in 1 .. Len(head) + Len(d) /\ i <= Len(head)
        BY <1>2, <2>3, <3>1
      <4> QED
        BY <2>3, <3>1, <4>1
    <3>3. ASSUME NEW i \in 1 .. Len(d) PROVE pair[l + 1 + i] = d[i]
      <4>1. l + 1 + i \in 1 .. Len(head) + Len(d) /\ ~(l + 1 + i <= Len(head))
            /\ l + 1 + i - Len(head) = i
        BY <1>2, <2>3, <3>1
      <4> QED
        BY <3>1, <4>1
    <3> QED
      BY <2>3, <3>1, <3>2, <3>3
  <2>8. l \in 0 .. Len(pair) /\ l + 1 \in 1 .. Len(pair) /\ \A i \in 1 .. l : i \in 1 .. l + 1
    BY <1>2, <2>7
  <2>9. \A i \in 1 .. l : pair[i] = segment[i] /\ pair[i] \notin Ends
    BY <1>4, <2>7, <2>8
  <2>10. At(pair, l + 1) = pair[l + 1] /\ pair[l + 1] = segment[l + 1]
    <3>1. l + 1 \in 1 .. l + 1
      BY <1>2
    <3> QED
      BY <1>2, <2>7, <2>8, <3>1, AtIs
  <2>11. At(pair, l + 1) \in Ends
    BY <2>2, <2>10, SetsOfCodes
  <2>12. SubSeq(pair, 1, l) = key
    <3> DEFINE begin == SubSeq(pair, 1, l)
    <3>1. 1 \in Int /\ l \in Int /\ \A i \in 1 .. l : pair[i] \in Byte
      BY <1>2, <1>3, <2>7, <2>8, <2>9
    <3>2. /\ begin \in Seq(Byte) /\ Len(begin) = IF 1 <= l THEN l - 1 + 1 ELSE 0
          /\ \A i \in 1 .. l - 1 + 1 : begin[i] = pair[1 + i - 1]
      BY <3>1, SubSeqProperties
    <3> HIDE DEF begin
    <3>3. Len(begin) = l
      BY <1>2, <3>2
    <3>4. \A i \in 1 .. l : begin[i] = segment[i]
      <4> SUFFICES ASSUME NEW i \in 1 .. l PROVE begin[i] = segment[i]
        OBVIOUS
      <4>1. i \in 1 .. l - 1 + 1 /\ 1 + i - 1 = i
        BY <1>2
      <4> QED
        BY <2>9, <3>2, <4>1
    <3>5. \A i \in 1 .. l : key[i] = segment[i]
      BY BeforeIs DEF key
    <3>6. begin = key
      BY <1>1, <3>2, <3>3, <3>4, <3>5, SameElements
    <3> QED
      BY <3>6 DEF begin
  <2>13. ASSUME ~Is(segment, l + 1, "#") PROVE Says(ValueText(v), ValueOf(pair))
    <3>1. segment[l + 1] = 61
      <4>1. At(segment, l + 1) = segment[l + 1]
        BY <1>2, <2>2, AtIs
      <4> QED
        BY <2>2, <2>13, <4>1, IsCode
    <3>2. skip = l
      <4>1. \A i \in 1 .. l : pair[i] \notin Codes({"="})
        BY <2>9, SetsOfCodes
      <4>2. pair[l + 1] \in Codes({"="})
        BY <2>10, <3>1, SetsOfCodes
      <4>3. pair \in Seq(Byte) /\ l \in 0 .. Len(pair)
        BY <2>7, <2>8
      <4> QED
        BY <4>1, <4>2, <4>3, BeforeHas
    <3> DEFINE value == SubSeq(pair, l + 2, Len(pair))
    <3>3. /\ value \in Seq(Byte) /\ Len(value) = IF l + 2 <= Len(pair) THEN Len(pair) - (l + 2) + 1 ELSE 0
          /\ \A i \in 1 .. Len(value) : value[i] = pair[l + 2 + i - 1]
      BY <1>2, <2>7, TailIs
    <3>4. Len(value) = Len(d)
      BY <1>2, <2>7, <3>3
    <3> HIDE DEF value
    <3>5. \A i \in 1 .. Len(d) : value[i] = d[i]
      <4> SUFFICES ASSUME NEW i \in 1 .. Len(d) PROVE value[i] = d[i]
        OBVIOUS
      <4>1. l + 2 + i - 1 = l + 1 + i
        BY <1>2
      <4>2. value[i] = pair[l + 1 + i]
        BY <3>3, <3>4, <4>1
      <4> QED
        BY <2>7, <4>2
    <3>6. value = d
      BY <2>5, <3>3, <3>4, <3>5, SameElements
    <3>7. ValueOf(pair) = d
      BY <1>6, <3>2, <3>6 DEF value
    <3> QED
      BY <2>5, <3>7
  <2> QED
    BY <2>7, <2>8, <2>9, <2>11, <2>12, <2>13 DEF key, v, pair
<1> QED
  BY <1>8, <1>9

-----------------------------------------------------------------------------
(* Query strings: where the pairs begin.                                   *)

(* The text of a pair ends at the next & or with the URL.                  *)
LEMMA SegmentIs ==
  ASSUME NEW s \in Seq(Byte), NEW b \in Nat \ {0}
  PROVE  LET segment == Segment(s, b)
         IN /\ segment \in Seq(Byte) /\ Len(segment) \in Nat
            /\ b <= Len(s) + 1 => b + Len(segment) <= Len(s) + 1
            /\ \A i \in 1 .. Len(segment) : segment[i] # 38
            /\ \A c \in b .. b + Len(segment) - 1 : s[c] # 38
            /\ b + Len(segment) <= Len(s) => s[b + Len(segment)] = 38
<1> DEFINE tail == SubSeq(s, b, Len(s))
           segment == Segment(s, b)
           n == Len(segment)
<1>1. /\ tail \in Seq(Byte) /\ Len(tail) = IF b <= Len(s) THEN Len(s) - b + 1 ELSE 0
      /\ \A i \in 1 .. Len(tail) : tail[i] = s[b + i - 1]
  BY TailIs
<1>2. segment = Before(tail, Codes({"&"}))
  BY DEF Segment
<1> HIDE DEF tail, segment
<1>3. /\ n \in 0 .. Len(tail) /\ segment \in Seq(Byte)
      /\ \A i \in 1 .. n : tail[i] \notin {38} /\ segment[i] = tail[i]
      /\ n < Len(tail) => tail[n + 1] \in {38}
  <2> DEFINE codes == Codes({"&"})
  <2>1. codes = {38}
    BY SetsOfCodes
  <2>2. segment = Before(tail, codes)
    BY <1>2
  <2> HIDE DEF codes
  <2>3. /\ n \in 0 .. Len(tail) /\ segment \in Seq(Byte)
        /\ \A i \in 1 .. n : tail[i] \notin codes /\ segment[i] = tail[i]
        /\ n < Len(tail) => tail[n + 1] \in codes
    BY <1>1, <2>2, BeforeIs
  <2> QED
    BY <2>1, <2>3
<1>4. Len(s) \in Nat /\ Len(tail) \in Nat /\ n \in Nat
  BY <1>1, <1>3
<1>5. b <= Len(s) + 1 => b + n <= Len(s) + 1
  BY <1>1, <1>3, <1>4
<1>6. \A i \in 1 .. n : segment[i] # 38
  BY <1>3
<1>7. ASSUME NEW c \in b .. b + n - 1 PROVE s[c] # 38
  <2>1. c - b + 1 \in 1 .. n /\ c - b + 1 \in 1 .. Len(tail) /\ b + (c - b + 1) - 1 = c
    BY <1>3, <1>4
  <2>2. tail[c - b + 1] = s[b + (c - b + 1) - 1]
    BY <1>1, <2>1
  <2> QED
    BY <1>3, <2>1, <2>2
<1>8. ASSUME b + n <= Len(s) PROVE s[b + n] = 38
  <2>1. n < Len(tail) /\ n + 1 \in 1 .. Len(tail) /\ b + (n + 1) - 1 = b + n
    BY <1>1, <1>4, <1>8
  <2>2. tail[n + 1] = s[b + (n + 1) - 1]
    BY <1>1, <2>1
  <2> QED
    BY <1>3, <2>1, <2>2
<1> QED
  BY <1>3, <1>4, <1>5, <1>6, <1>7, <1>8 DEF segment

LEMMA BeginsAre ==
  ASSUME NEW s \in Seq(Byte), NEW first \in 1 .. Len(s) + 1
  PROVE  /\ \A b : b \in Begins(s, first) <=>
              b \in first .. Len(s) + 1 /\ (b = first \/ s[b - 1] = 38)
         /\ first \in Begins(s, first) /\ Begins(s, first) \subseteq Nat
         /\ \A b \in Begins(s, first) : b \in 1 .. Len(s) + 1 /\ b \in Nat \ {0} /\ b >= first
         /\ IsFiniteSet(Begins(s, first))
<1>1. Len(s) \in Nat /\ 1 \in Int /\ Len(s) + 1 \in Int /\ first \in Int
  OBVIOUS
<1>2. ASSUME NEW b \in 1 .. Len(s) + 1, b > first PROVE Is(s, b - 1, "&") <=> s[b - 1] = 38
  <2>1. b - 1 \in 1 .. Len(s) /\ b - 1 \in Int
    BY <1>1, <1>2
  <2>2. At(s, b - 1) = s[b - 1]
    BY <2>1, AtIs
  <2> QED
    BY <2>2, IsCode
<1>3. ASSUME NEW b
      PROVE  b \in Begins(s, first) <=> b \in first .. Len(s) + 1 /\ (b = first \/ s[b - 1] = 38)
  <2>1. b \in Begins(s, first) <=> b \in 1 .. Len(s) + 1 /\ (b = first \/ (b > first /\ Is(s, b - 1, "&")))
    BY DEF Begins
  <2>2. b \in first .. Len(s) + 1 <=> b \in 1 .. Len(s) + 1 /\ (b = first \/ b > first)
    BY <1>1
  <2> QED
    BY <1>2, <2>1, <2>2
<1>4. \A b \in Begins(s, first) : b \in 1 .. Len(s) + 1 /\ b \in Nat \ {0} /\ b >= first
  BY <1>1, <1>3
<1>5. first \in Begins(s, first)
  BY <1>1, <1>3
<1>6. IsFiniteSet(1 .. Len(s) + 1)
  BY <1>1, FS_Interval
<1>7. IsFiniteSet(Begins(s, first))
  <2>1. Begins(s, first) \in SUBSET (1 .. Len(s) + 1)
    BY <1>4
  <2> QED
    BY <1>6, <2>1, FS_Subset
<1> QED
  BY <1>3, <1>4, <1>5, <1>7

(* Following leads to the next place where one begins.                     *)
LEMMA FollowingIs ==
  ASSUME NEW s \in Seq(Byte)
  PROVE  /\ \A p \in Nat : Following(s, p) \in Nat
         /\ Following(s, 0) = 0
         /\ \A first \in 1 .. Len(s) + 1 : \A b \in Begins(s, first) :
              /\ Following(s, b) # 0 =>
                   Following(s, b) \in Begins(s, first) /\ Following(s, b) > b
              /\ \A c \in Begins(s, first) : c > b => Following(s, b) # 0 /\ Following(s, b) <= c
<1>1. Len(s) \in Nat
  OBVIOUS
<1>2. Following(s, 0) = 0
  BY DEF Following
<1>3. ASSUME NEW p \in Nat, p # 0
      PROVE  /\ Following(s, p) = IF p + Len(Segment(s, p)) > Len(s) THEN 0
                                  ELSE p + Len(Segment(s, p)) + 1
             /\ Len(Segment(s, p)) \in Nat
  BY <1>3, SegmentIs DEF Following
<1>4. \A p \in Nat : Following(s, p) \in Nat
  <2> SUFFICES ASSUME NEW p \in Nat PROVE Following(s, p) \in Nat
    OBVIOUS
  <2>1. CASE p = 0
    BY <1>2, <2>1
  <2>2. CASE p # 0
    <3> DEFINE n == Len(Segment(s, p))
    <3>1. Following(s, p) = (IF p + n > Len(s) THEN 0 ELSE p + n + 1) /\ n \in Nat
      BY <1>3, <2>2
    <3> HIDE DEF n
    <3> QED
      BY <3>1
  <2> QED
    BY <2>1, <2>2
<1>5. ASSUME NEW first \in 1 .. Len(s) + 1, NEW b \in Begins(s, first)
      PROVE  /\ Following(s, b) # 0 =>
                  Following(s, b) \in Begins(s, first) /\ Following(s, b) > b
             /\ \A c \in Begins(s, first) : c > b => Following(s, b) # 0 /\ Following(s, b) <= c
  <2> DEFINE n == Len(Segment(s, b))
  <2>1. b \in 1 .. Len(s) + 1 /\ b \in Nat \ {0} /\ b >= first /\ b \in Nat /\ b # 0
    BY BeginsAre
  <2>2. /\ n \in Nat /\ b + n <= Len(s) + 1
        /\ \A c \in b .. b + n - 1 : s[c] # 38
        /\ b + n <= Len(s) => s[b + n] = 38
    BY <1>1, <2>1, SegmentIs
  <2>3. Following(s, b) = IF b + n > Len(s) THEN 0 ELSE b + n + 1
    BY <1>3, <2>1
  <2> HIDE DEF n
  <2>4. ASSUME Following(s, b) # 0
        PROVE  Following(s, b) \in Begins(s, first) /\ Following(s, b) > b
    <3>1. Following(s, b) = b + n + 1 /\ b + n <= Len(s)
      BY <1>1, <2>1, <2>2, <2>3, <2>4
    <3>2. b + n + 1 \in first .. Len(s) + 1 /\ (b + n + 1) - 1 = b + n /\ b + n + 1 > b
      BY <1>1, <2>1, <2>2, <3>1
    <3> QED
      BY <2>2, <3>1, <3>2, BeginsAre
  <2>5. ASSUME NEW c \in Begins(s, first), c > b
        PROVE  Following(s, b) # 0 /\ Following(s, b) <= c
    <3>1. c \in 1 .. Len(s) + 1 /\ c \in Nat
      BY BeginsAre
    <3>2. c # first
      BY <1>1, <2>1, <2>5, <3>1
    <3>3. s[c - 1] = 38
      BY <3>2, BeginsAre
    <3>4. c - 1 \notin b .. b + n - 1
      BY <2>2, <3>3
    <3>5. c - 1 >= b + n /\ b + n <= Len(s)
      BY <1>1, <2>1, <2>2, <2>5, <3>1, <3>4
    <3> QED
      BY <1>1, <2>1, <2>2, <2>3, <3>1, <3>5
  <2> QED
    BY <2>4, <2>5
<1> QED
  BY <1>2, <1>4, <1>5

(* How many pairs there are before a place.                                *)
Earlier(s, first, b) == {c \in Begins(s, first) : c < b}
Rank(s, first, b) == Cardinality(Earlier(s, first, b))

LEMMA RankIs ==
  ASSUME NEW s \in Seq(Byte), NEW first \in 1 .. Len(s) + 1
  PROVE  /\ \A b : Rank(s, first, b) \in Nat
         /\ Rank(s, first, first) = 0
         /\ \A b, c \in Begins(s, first) : b < c => Rank(s, first, b) < Rank(s, first, c)
         /\ \A b, c \in Begins(s, first) :
              b < c /\ (\A d \in Begins(s, first) : d > b => c <= d) =>
                Rank(s, first, c) = Rank(s, first, b) + 1
<1> DEFINE all == Begins(s, first)
           before(b) == Earlier(s, first, b)
<1>1. all \subseteq Nat /\ IsFiniteSet(all) /\ first \in all /\ \A b \in all : b >= first
  BY BeginsAre
<1>2. \A b : before(b) = {c \in all : c < b}
  BY DEF Earlier
<1>3. \A b : Rank(s, first, b) = Cardinality(before(b))
  BY DEF Rank
<1> HIDE DEF all, before
<1>4. \A b : before(b) \in SUBSET all
  BY <1>2
<1>5. \A b : IsFiniteSet(before(b)) /\ Cardinality(before(b)) \in Nat
  BY <1>1, <1>4, FS_Subset, FS_CardinalityType
<1>6. Cardinality(before(first)) = 0
  <2>1. first \in Nat
    BY <1>1
  <2>2. \A d \in all : ~(d < first)
    <3> SUFFICES ASSUME NEW d \in all PROVE ~(d < first)
      OBVIOUS
    <3>1. d \in Nat /\ d >= first
      BY <1>1
    <3> QED
      BY <2>1, <3>1
  <2>3. before(first) = {}
    BY <1>2, <2>2
  <2> QED
    BY <2>3, FS_EmptySet
<1>7. ASSUME NEW b \in all
      PROVE  Cardinality(before(b) \cup {b}) = Cardinality(before(b)) + 1
  <2>1. b \in Nat /\ b \notin before(b)
    BY <1>1, <1>2
  <2> QED
    BY <1>5, <2>1, FS_AddElement
<1>8. ASSUME NEW b \in all, NEW c \in all, b < c
      PROVE  Cardinality(before(b)) < Cardinality(before(c))
  <2>1. b \in Nat /\ c \in Nat
    BY <1>1
  <2>2. before(b) \cup {b} \in SUBSET before(c)
    <3>1. \A d \in before(b) : d \in all /\ d < b /\ d \in Nat
      BY <1>1, <1>2
    <3>2. \A d \in before(b) : d < c
      BY <1>8, <2>1, <3>1
    <3> QED
      BY <1>2, <1>8, <3>1, <3>2
  <2>3. Cardinality(before(b) \cup {b}) <= Cardinality(before(c))
    BY <1>5, <2>2, FS_Subset
  <2> QED
    BY <1>5, <1>7, <2>3
<1>9. ASSUME NEW b \in all, NEW c \in all, b < c, \A d \in all : d > b => c <= d
      PROVE  Cardinality(before(c)) = Cardinality(before(b)) + 1
  <2>1. \A d \in all : d < c <=> d < b \/ d = b
    BY <1>1, <1>9
  <2>2. before(c) = before(b) \cup {b}
    BY <1>2, <2>1
  <2> QED
    BY <1>7, <2>2
<1> QED
  BY <1>3, <1>5, <1>6, <1>8, <1>9 DEF all

(* The k-th pair begins where k others begin before it.                    *)
LEMMA BeginIs ==
  ASSUME NEW s \in Seq(Byte), NEW first \in 1 .. Len(s) + 1, NEW begin,
         begin = Loop([p \in Nat |-> Following(s, p)], first)
  PROVE  /\ \A k \in Nat : begin[k + 1] # 0 => begin[k] # 0
         /\ \A k \in Nat : begin[k] # 0 =>
              begin[k] \in Begins(s, first) /\ Rank(s, first, begin[k]) = k
         /\ \A b \in Begins(s, first) : begin[Rank(s, first, b)] = b
<1> DEFINE step == [p \in Nat |-> Following(s, p)]
           all == Begins(s, first)
<1>1. step \in [Nat -> Nat] /\ \A p \in Nat : step[p] = Following(s, p)
  BY FollowingIs
<1>2. first \in Nat /\ begin = Loop(step, first)
  OBVIOUS
<1> HIDE DEF step
<1>3. /\ begin \in [Nat -> Nat] /\ begin[0] = first
      /\ \A k \in Nat : begin[k + 1] = step[begin[k]]
  <2>1. /\ Loop(step, first) \in [Nat -> Nat] /\ Loop(step, first)[0] = first
        /\ \A k \in Nat : Loop(step, first)[k + 1] = step[Loop(step, first)[k]]
    BY <1>1, <1>2, Loops
  <2> QED
    BY <1>2, <2>1
<1>4. \A k \in Nat : begin[k] \in Nat /\ begin[k + 1] = Following(s, begin[k])
  BY <1>1, <1>3
<1>5. \A k \in Nat : begin[k + 1] # 0 => begin[k] # 0
  BY <1>4, FollowingIs
<1>6. first \in all /\ all \subseteq Nat /\ Rank(s, first, first) = 0
  BY BeginsAre, RankIs
<1>7. \A b \in all : /\ Following(s, b) # 0 => Following(s, b) \in all /\ Following(s, b) > b
                     /\ \A c \in all : c > b => Following(s, b) # 0 /\ Following(s, b) <= c
  BY FollowingIs
<1>8. /\ \A b : Rank(s, first, b) \in Nat
      /\ \A b, c \in all : b < c => Rank(s, first, b) < Rank(s, first, c)
      /\ \A b, c \in all : b < c /\ (\A d \in all : d > b => c <= d) =>
            Rank(s, first, c) = Rank(s, first, b) + 1
  BY RankIs
<1> HIDE DEF all
<1> DEFINE N == {k \in Nat : begin[k] # 0 /\ ~(begin[k] \in all /\ Rank(s, first, begin[k]) = k)}
<1>9. N = {}
  <2> SUFFICES ASSUME N # {} PROVE FALSE
    OBVIOUS
  <2>1. N \in SUBSET Nat
    OBVIOUS
  <2>2. PICK m \in N : \A k \in N : m <= k
    <3> HIDE DEF N
    <3> QED
      BY <2>1, LeastNat
  <2>3. m \in Nat /\ begin[m] # 0 /\ ~(begin[m] \in all /\ Rank(s, first, begin[m]) = m)
    OBVIOUS
  <2>4. m # 0
    BY <1>3, <1>6, <2>3
  <2> DEFINE k == m - 1
  <2>5. k \in Nat /\ k + 1 = m /\ k \notin N
    BY <2>2, <2>3, <2>4
  <2> HIDE DEF k
  <2>6. begin[k] # 0
    BY <1>5, <2>3, <2>5
  <2>7. begin[k] \in all /\ Rank(s, first, begin[k]) = k
    BY <2>5, <2>6
  <2>8. begin[m] = Following(s, begin[k])
    BY <1>4, <2>5
  <2>9. begin[m] \in all /\ begin[m] > begin[k] /\ \A d \in all : d > begin[k] => begin[m] <= d
    BY <1>7, <2>3, <2>7, <2>8
  <2>10. begin[k] < begin[m]
    BY <1>4, <2>3, <2>5, <2>9
  <2>11. Rank(s, first, begin[m]) = k + 1
    BY <1>8, <2>7, <2>9, <2>10
  <2> QED
    BY <2>3, <2>5, <2>9, <2>11
<1>10. ASSUME NEW b \in all PROVE begin[Rank(s, first, b)] = b
  <2> DEFINE M == {c \in all : begin[Rank(s, first, c)] # c}
  <2> SUFFICES ASSUME M # {} PROVE FALSE
    OBVIOUS
  <2>1. M \in SUBSET Nat
    BY <1>6
  <2>2. PICK c \in M : \A d \in M : c <= d
    <3> HIDE DEF M
    <3> QED
      BY <2>1, LeastNat
  <2>3. c \in all /\ c \in Nat /\ begin[Rank(s, first, c)] # c
    BY <1>6
  <2>4. c # first
    BY <1>3, <1>6, <2>3
  <2> DEFINE E == {d \in all : d < c}
  <2>5. E \in SUBSET (0 .. c) /\ E # {}
    <3>1. first < c
      BY <1>2, <2>3, <2>4, BeginsAre DEF all
    <3>2. first \in E
      BY <1>6, <3>1
    <3>3. ASSUME NEW d \in E PROVE d \in 0 .. c
      <4>1. d \in Nat /\ d < c
        BY <1>6, <3>3
      <4> QED
        BY <2>3, <4>1
    <3> QED
      BY <3>2, <3>3
  <2>6. Max(E) \in E /\ \A y \in E : y <= Max(E)
    <3> HIDE DEF E
    <3> QED
      BY <2>3, <2>5, MaxIsGreatest
  <2> DEFINE d == Max(E)
  <2>7. d \in all /\ d < c /\ d \in Nat /\ d \notin M
    <3>1. d \in all /\ d < c
      BY <2>6
    <3>2. d \in Nat
      BY <1>6, <3>1
    <3>3. ~(c <= d)
      BY <2>3, <3>1, <3>2
    <3> QED
      BY <2>2, <3>1, <3>2, <3>3
  <2>8. \A e \in all : e > d => c <= e
    <3> SUFFICES ASSUME NEW e \in all, e > d, ~(c <= e) PROVE FALSE
      OBVIOUS
    <3>1. e \in Nat /\ e < c
      BY <1>6, <2>3
    <3>2. e \in E
      BY <3>1
    <3> QED
      BY <2>6, <2>7, <3>1, <3>2
  <2> HIDE DEF d, E
  <2>9. begin[Rank(s, first, d)] = d
    BY <2>7
  <2>10. Rank(s, first, c) = Rank(s, first, d) + 1
    BY <1>8, <2>3, <2>7, <2>8
  <2>11. begin[Rank(s, first, c)] = Following(s, d)
    BY <1>4, <1>8, <2>9, <2>10
  <2>12. Following(s, d) \in all /\ Following(s, d) > d /\ Following(s, d) <= c
    BY <1>7, <2>3, <2>7
  <2>13. Following(s, d) = c
    <3>1. c <= Following(s, d) /\ Following(s, d) \in Nat
      BY <1>6, <2>8, <2>12
    <3> QED
      BY <2>3, <2>12, <3>1
  <2> QED
    BY <2>3, <2>11, <2>13
<1> QED
  BY <1>5, <1>9, <1>10 DEF all

(* A set of numbers below n without gaps is an interval.                   *)
LEMMA NoGaps ==
  ASSUME NEW n \in Nat, NEW D \in SUBSET (0 .. n - 1),
         \A k \in D : k # 0 => k - 1 \in D
  PROVE  /\ Cardinality(D) \in 0 .. n
         /\ D = 0 .. Cardinality(D) - 1
<1>1. CASE D = {}
  <2>1. Cardinality(D) = 0
    BY <1>1, FS_EmptySet
  <2>2. 0 .. 0 - 1 = {}
    OBVIOUS
  <2> QED
    BY <1>1, <2>1, <2>2
<1>2. CASE D # {}
  <2>1. D \in SUBSET (0 .. n)
    OBVIOUS
  <2> DEFINE m == Max(D)
  <2>2. m \in D /\ \A k \in D : k <= m
    BY <1>2, <2>1, MaxIsGreatest
  <2> HIDE DEF m
  <2>3. m \in 0 .. n - 1 /\ m \in Nat
    BY <2>2
  <2> DEFINE G == {g \in Nat : g <= m /\ m - g \notin D}
  <2>4. G = {}
    <3> SUFFICES ASSUME G # {} PROVE FALSE
      OBVIOUS
    <3>1. G \in SUBSET Nat
      OBVIOUS
    <3>2. PICK g \in G : \A h \in G : g <= h
      <4> HIDE DEF G
      <4> QED
        BY <3>1, LeastNat
    <3>3. g \in Nat /\ g <= m /\ m - g \notin D
      OBVIOUS
    <3>4. g # 0
      BY <2>2, <2>3, <3>3
    <3>5. g - 1 \in Nat /\ g - 1 \notin G /\ g - 1 <= m
      BY <2>3, <3>2, <3>3, <3>4
    <3>6. m - (g - 1) \in D /\ m - (g - 1) # 0 /\ (m - (g - 1)) - 1 = m - g
      BY <2>3, <3>3, <3>5
    <3> QED
      BY <3>3, <3>6
  <2>5. D = 0 .. m
    <3>1. ASSUME NEW k \in 0 .. m PROVE k \in D
      <4>1. m - k \in Nat /\ m - k <= m /\ m - (m - k) = k
        BY <2>3, <3>1
      <4>2. m - k \notin G
        BY <2>4
      <4> HIDE DEF G
      <4>3. m - (m - k) \in D
        BY <4>1, <4>2 DEF G
      <4> QED
        BY <4>1, <4>3
    <3>2. ASSUME NEW k \in D PROVE k \in 0 .. m
      BY <2>2, <2>3, <3>2
    <3> QED
      BY <3>1, <3>2
  <2>6. Cardinality(D) = m + 1
    <3>1. 0 \in Int /\ m \in Int /\ ~(0 > m) /\ m - 0 + 1 = m + 1
      BY <2>3
    <3>2. Cardinality(0 .. m) = m - 0 + 1
      BY <3>1, FS_Interval
    <3> QED
      BY <2>5, <3>1, <3>2
  <2> QED
    BY <2>3, <2>5, <2>6
<1> QED
  BY <1>1, <1>2

(* What there is of pairs: one for each place they begin, up to n.         *)
LEMMA PairsAre ==
  ASSUME NEW s \in Seq(Byte), NEW first \in 1 .. Len(s) + 1, NEW n \in Nat
  PROVE  /\ Pairs(s, first, n) \in Seq(Seq(Byte)) /\ Len(Pairs(s, first, n)) <= n
         /\ \A b \in Begins(s, first) : Rank(s, first, b) < n =>
              /\ Rank(s, first, b) + 1 \in DOMAIN Pairs(s, first, n)
              /\ Pairs(s, first, n)[Rank(s, first, b) + 1] = Pair(Segment(s, b))
         /\ \A i \in DOMAIN Pairs(s, first, n) : \E b \in Begins(s, first) :
              Rank(s, first, b) = i - 1 /\ i - 1 < n
<1> DEFINE begin == Loop([p \in Nat |-> Following(s, p)], first)
           D == {k \in 0 .. n - 1 : begin[k] # 0}
           count == Cardinality(D)
           pairs == [k \in 1 .. count |-> Pair(Segment(s, begin[k - 1]))]
<1>1. Pairs(s, first, n) = pairs
  BY DEF Pairs
<1>2. /\ \A k \in Nat : begin[k + 1] # 0 => begin[k] # 0
      /\ \A k \in Nat : begin[k] # 0 =>
           begin[k] \in Begins(s, first) /\ Rank(s, first, begin[k]) = k
      /\ \A b \in Begins(s, first) : begin[Rank(s, first, b)] = b
  BY BeginIs
<1> HIDE DEF begin
<1>3. \A k : k \in D <=> k \in 0 .. n - 1 /\ begin[k] # 0
  OBVIOUS
<1> HIDE DEF D
<1>4. count \in 0 .. n /\ D = 0 .. count - 1
  <2>1. D \in SUBSET (0 .. n - 1)
    BY <1>3
  <2>2. ASSUME NEW k \in D, k # 0 PROVE k - 1 \in D
    <3>1. k - 1 \in Nat /\ k - 1 \in 0 .. n - 1 /\ (k - 1) + 1 = k /\ begin[k] # 0
      BY <1>3, <2>2
    <3>2. begin[k - 1] # 0
      BY <1>2, <3>1
    <3> QED
      BY <1>3, <3>1, <3>2
  <2> QED
    BY <2>1, <2>2, NoGaps
<1> HIDE DEF count
<1>5. \A b \in Begins(s, first) : b \in Nat \ {0} /\ b # 0
  BY BeginsAre
<1>6. ASSUME NEW k \in 1 .. count
      PROVE  /\ k - 1 \in Nat /\ k - 1 < n
             /\ begin[k - 1] \in Begins(s, first) /\ Rank(s, first, begin[k - 1]) = k - 1
             /\ Pair(Segment(s, begin[k - 1])) \in Seq(Byte)
  <2>1. k - 1 \in D /\ k - 1 \in Nat /\ k - 1 < n
    BY <1>4
  <2>2. begin[k - 1] \in Begins(s, first) /\ Rank(s, first, begin[k - 1]) = k - 1
    BY <1>2, <1>3, <2>1
  <2>3. begin[k - 1] \in Nat \ {0}
    BY <1>5, <2>2
  <2>4. Segment(s, begin[k - 1]) \in Seq(Byte)
        /\ \A i \in 1 .. Len(Segment(s, begin[k - 1])) : Segment(s, begin[k - 1])[i] # 38
    BY <2>3, SegmentIs
  <2>5. Pair(Segment(s, begin[k - 1])) \in Seq(Byte)
    BY <2>4, PairIs
  <2> QED
    BY <2>1, <2>2, <2>5
<1>7. pairs \in Seq(Seq(Byte)) /\ Len(pairs) = count
  <2>1. count \in Nat /\ \A k \in 1 .. count : Pair(Segment(s, begin[k - 1])) \in Seq(Byte)
    BY <1>4, <1>6
  <2> QED
    BY <2>1
<1>8. ASSUME NEW b \in Begins(s, first), Rank(s, first, b) < n
      PROVE  /\ Rank(s, first, b) + 1 \in DOMAIN pairs
             /\ pairs[Rank(s, first, b) + 1] = Pair(Segment(s, b))
  <2> DEFINE r == Rank(s, first, b)
  <2>1. r \in Nat /\ r < n /\ begin[r] = b
    BY <1>2, <1>8, RankIs
  <2> HIDE DEF r
  <2>2. r \in D
    BY <1>3, <1>5, <2>1
  <2>3. r + 1 \in 1 .. count /\ (r + 1) - 1 = r
    BY <1>4, <2>1, <2>2
  <2>4. r + 1 \in DOMAIN pairs /\ pairs[r + 1] = Pair(Segment(s, b))
    BY <2>1, <2>3
  <2> QED
    BY <2>4 DEF r
<1>9. ASSUME NEW i \in DOMAIN pairs
      PROVE  \E b \in Begins(s, first) : Rank(s, first, b) = i - 1 /\ i - 1 < n
  BY <1>6, <1>9
<1> HIDE DEF pairs
<1>10. Len(pairs) <= n
  BY <1>4, <1>7
<1> QED
  BY <1>1, <1>7, <1>8, <1>9, <1>10

(* Without a ? or a # there are none.                                      *)
LEMMA NoPairs ==
  ASSUME NEW s \in Seq(Byte), NEW n \in Nat
  PROVE  Pairs(s, 0, n) = <<>>
<1> DEFINE step == [p \in Nat |-> Following(s, p)]
           begin == Loop(step, 0)
           D == {k \in 0 .. n - 1 : begin[k] # 0}
<1>1. step \in [Nat -> Nat] /\ step[0] = 0
  BY FollowingIs
<1>2. Pairs(s, 0, n) = [k \in 1 .. Cardinality(D) |-> Pair(Segment(s, begin[k - 1]))]
  BY DEF Pairs
<1> HIDE DEF step
<1>3. begin[0] = 0 /\ \A k \in Nat : begin[k + 1] = step[begin[k]]
  BY <1>1, Loops
<1> HIDE DEF begin
<1>4. D = {}
  <2> SUFFICES ASSUME D # {} PROVE FALSE
    OBVIOUS
  <2>1. D \in SUBSET Nat
    OBVIOUS
  <2>2. PICK m \in D : \A k \in D : m <= k
    <3> HIDE DEF D
    <3> QED
      BY <2>1, LeastNat
  <2>3. m \in Nat /\ m \in 0 .. n - 1 /\ begin[m] # 0 /\ m # 0
    <3>1. m \in Nat /\ m \in 0 .. n - 1 /\ begin[m] # 0
      OBVIOUS
    <3> QED
      BY <1>3, <3>1
  <2>4. m - 1 \in Nat /\ m - 1 \in 0 .. n - 1 /\ (m - 1) + 1 = m /\ ~(m <= m - 1)
    BY <2>3
  <2>5. begin[m - 1] = 0
    BY <2>2, <2>4
  <2>6. begin[m] = step[begin[m - 1]]
    BY <1>3, <2>4
  <2> QED
    BY <1>1, <2>3, <2>5, <2>6
<1>5. Cardinality(D) = 0
  BY <1>4, FS_EmptySet
<1> HIDE DEF D
<1> DEFINE none == [k \in 1 .. 0 |-> Pair(Segment(s, begin[k - 1]))]
<1>6. none = <<>>
  <2>1. none \in Seq({}) /\ Len(none) = 0
    OBVIOUS
  <2> HIDE DEF none
  <2> QED
    BY <2>1, EmptySeq
<1> QED
  BY <1>2, <1>5, <1>6

-----------------------------------------------------------------------------
(* Query strings: what an erase leaves.                                    *)

(* The n-th pair that is left is the one with n - 1 others before it.      *)
LEMMA LeftIs ==
  ASSUME NEW S, NEW pairs \in Seq(S), NEW taken \in SUBSET (DOMAIN pairs)
  PROVE  LET kept == DOMAIN pairs \ taken
         IN /\ IsFiniteSet(kept) /\ Cardinality(kept) \in 0 .. Len(pairs)
            /\ Left(pairs, taken) \in Seq(S)
            /\ Len(Left(pairs, taken)) = Cardinality(kept)
            /\ \A n \in 1 .. Cardinality(kept) :
                 \E x \in kept : /\ Left(pairs, taken)[n] = pairs[x]
                                 /\ Cardinality({q \in kept : q <= x}) = n
<1> DEFINE kept == DOMAIN pairs \ taken
           ahead(p) == {q \in kept : q > p} \cup {Len(pairs) + 1}
           step == [p \in Nat |-> Min(ahead(p))]
           at == Loop(step, 0)
           upto(x) == {q \in kept : q <= x}
           m == Cardinality(kept)
           left == [n \in 1 .. m |-> pairs[at[n]]]
<1>1. Len(pairs) \in Nat /\ DOMAIN pairs = 1 .. Len(pairs)
  OBVIOUS
<1>2. Left(pairs, taken) = left
  BY DEF Left
<1>3. kept \in SUBSET (1 .. Len(pairs)) /\ kept \subseteq Nat
  BY <1>1
<1> HIDE DEF kept
<1>4. IsFiniteSet(kept) /\ m \in 0 .. Len(pairs)
  <2>1. IsFiniteSet(1 .. Len(pairs)) /\ Cardinality(1 .. Len(pairs)) = Len(pairs)
    <3>1. \A k \in Nat : IsFiniteSet(1 .. k) /\ Cardinality(1 .. k) = k
      BY FS_Interval
    <3> QED
      BY <1>1, <3>1
  <2>2. IsFiniteSet(kept) /\ m <= Len(pairs) /\ m \in Nat
    BY <1>3, <2>1, FS_Subset, FS_CardinalityType
  <2> QED
    BY <1>1, <2>2
<1>5. ASSUME NEW p \in Nat
      PROVE  /\ Min(ahead(p)) \in Nat
             /\ (\E q \in kept : q > p) =>
                  /\ Min(ahead(p)) \in kept /\ Min(ahead(p)) > p
                  /\ \A q \in kept : q > p => Min(ahead(p)) <= q
  <2> DEFINE A == ahead(p)
  <2>1. A \in SUBSET Nat /\ A # {}
    <3>1. Len(pairs) + 1 \in Nat /\ Len(pairs) + 1 \in A
      BY <1>1
    <3>2. {q \in kept : q > p} \in SUBSET Nat
      BY <1>3
    <3> QED
      BY <3>1, <3>2
  <2>2. \A q : q \in A <=> (q \in kept /\ q > p) \/ q = Len(pairs) + 1
    OBVIOUS
  <2> HIDE DEF A
  <2>3. Min(A) \in A /\ \A q \in A : Min(A) <= q
    BY <2>1, MinIsLeast
  <2>4. ASSUME NEW r \in kept, r > p
        PROVE  /\ Min(A) \in kept /\ Min(A) > p
               /\ \A q \in kept : q > p => Min(A) <= q
    <3>1. r \in 1 .. Len(pairs) /\ Min(A) <= r
      BY <1>3, <2>2, <2>3, <2>4
    <3>2. Min(A) # Len(pairs) + 1
      BY <1>1, <2>1, <2>3, <3>1
    <3> QED
      BY <2>2, <2>3, <3>2
  <2>5. Min(A) \in Nat
    BY <2>1, <2>3
  <2> QED
    BY <2>4, <2>5 DEF A
<1>6. step \in [Nat -> Nat] /\ \A p \in Nat : step[p] = Min(ahead(p))
  BY <1>5
<1> HIDE DEF step
<1>7. /\ at \in [Nat -> Nat] /\ at[0] = 0
      /\ \A k \in Nat : at[k + 1] = step[at[k]]
  <2>1. 0 \in Nat
    OBVIOUS
  <2> QED
    BY <1>6, <2>1, Loops
<1> HIDE DEF at, ahead
<1>8. \A x : upto(x) \in SUBSET kept /\ IsFiniteSet(upto(x)) /\ Cardinality(upto(x)) \in Nat
  BY <1>4, FS_Subset, FS_CardinalityType
<1> DEFINE right(k) == (k # 0 => at[k] \in kept) /\ Cardinality(upto(at[k])) = k
           N == {k \in Nat : k <= m /\ ~right(k)}
<1>9. right(0)
  <2>1. upto(0) = {}
    <3>1. \A q \in kept : ~(q <= 0)
      BY <1>3
    <3> HIDE DEF kept
    <3> QED
      BY <3>1
  <2>2. Cardinality(upto(0)) = 0
    BY <2>1, FS_EmptySet
  <2> QED
    BY <1>7, <2>2
<1>10. ASSUME NEW k \in Nat, k < m, right(k) PROVE right(k + 1)
  <2> DEFINE x == at[k]
             y == at[k + 1]
  <2>1. x \in Nat /\ y = Min(ahead(x)) /\ Cardinality(upto(x)) = k
    BY <1>6, <1>7, <1>10
  <2> HIDE DEF x, y
  <2>2. \E q \in kept : q > x
    <3> SUFFICES ASSUME \A q \in kept : ~(q > x) PROVE FALSE
      OBVIOUS
    <3>1. \A q \in kept : q <= x
      BY <1>3, <2>1
    <3>2. upto(x) = kept
      BY <3>1
    <3>3. k = m
      BY <2>1, <3>2
    <3> QED
      BY <1>10, <3>3
  <2>3. y \in kept /\ y > x /\ (\A q \in kept : q > x => y <= q)
    BY <1>5, <2>1, <2>2
  <2>4. \A q \in kept : q <= y <=> q <= x \/ q = y
    <3> SUFFICES ASSUME NEW q \in kept PROVE q <= y <=> q <= x \/ q = y
      OBVIOUS
    <3>1. q \in Nat /\ y \in Nat
      BY <1>3, <2>3
    <3> QED
      BY <2>1, <2>3, <3>1
  <2>5. upto(y) = upto(x) \cup {y}
    BY <2>3, <2>4
  <2>6. y \notin upto(x)
    <3>1. y \in Nat /\ ~(y <= x)
      BY <1>3, <2>1, <2>3
    <3> QED
      BY <3>1
  <2> HIDE DEF upto
  <2>7. Cardinality(upto(y)) = k + 1
    BY <1>8, <2>1, <2>5, <2>6, FS_AddElement
  <2> QED
    BY <2>3, <2>7 DEF y
<1> HIDE DEF right, upto
<1>11. N = {}
  <2> SUFFICES ASSUME N # {} PROVE FALSE
    OBVIOUS
  <2>1. N \in SUBSET Nat
    OBVIOUS
  <2>2. PICK j \in N : \A k \in N : j <= k
    <3> HIDE DEF N
    <3> QED
      BY <2>1, LeastNat
  <2>3. j \in Nat /\ j <= m /\ ~right(j) /\ j # 0
    BY <1>9
  <2>4. j - 1 \in Nat /\ j - 1 \notin N /\ (j - 1) + 1 = j /\ j - 1 < m
    BY <1>4, <2>2, <2>3
  <2>5. right(j - 1)
    BY <1>4, <2>3, <2>4
  <2>6. right((j - 1) + 1)
    BY <1>10, <2>4, <2>5
  <2> QED
    BY <2>3, <2>4, <2>6
<1>12. ASSUME NEW n \in 1 .. m
       PROVE  at[n] \in kept /\ Cardinality(upto(at[n])) = n
  <2>1. n \in Nat /\ n <= m /\ n # 0
    BY <1>4
  <2>2. right(n)
    BY <1>11, <2>1
  <2> QED
    BY <2>1, <2>2 DEF right
<1>13. left \in Seq(S) /\ Len(left) = m
  <2>1. \A n \in 1 .. m : pairs[at[n]] \in S
    <3> SUFFICES ASSUME NEW n \in 1 .. m PROVE pairs[at[n]] \in S
      OBVIOUS
    <3>1. at[n] \in 1 .. Len(pairs)
      BY <1>3, <1>12
    <3>2. \A i \in 1 .. Len(pairs) : pairs[i] \in S
      OBVIOUS
    <3> QED
      BY <3>1, <3>2
  <2>2. m \in Nat
    BY <1>4
  <2> QED
    BY <2>1, <2>2
<1>14. ASSUME NEW n \in 1 .. m
       PROVE  \E x \in kept : left[n] = pairs[x] /\ Cardinality(upto(x)) = n
  BY <1>12
<1> HIDE DEF left
<1> QED
  BY <1>2, <1>4, <1>13, <1>14 DEF upto, kept

(* What is not taken is left.                                              *)
LEMMA LeftHas ==
  ASSUME NEW S, NEW pairs \in Seq(S), NEW taken \in SUBSET (DOMAIN pairs),
         NEW k \in DOMAIN pairs \ taken
  PROVE  \E n \in 1 .. Len(Left(pairs, taken)) : Left(pairs, taken)[n] = pairs[k]
<1> DEFINE kept == DOMAIN pairs \ taken
           upto(x) == {q \in kept : q <= x}
           n == Cardinality(upto(k))
<1>1. k \in kept /\ kept \subseteq Nat
  OBVIOUS
<1>2. /\ IsFiniteSet(kept)
      /\ Len(Left(pairs, taken)) = Cardinality(kept)
      /\ \A i \in 1 .. Cardinality(kept) :
           \E x \in kept : /\ Left(pairs, taken)[i] = pairs[x]
                           /\ Cardinality(upto(x)) = i
  BY LeftIs
<1> HIDE DEF kept
<1>3. \A x : upto(x) \in SUBSET kept
  OBVIOUS
<1>4. \A x : IsFiniteSet(upto(x)) /\ Cardinality(upto(x)) \in Nat
  BY <1>2, <1>3, FS_Subset, FS_CardinalityType
<1>5. n \in 1 .. Cardinality(kept)
  <2>1. k \in upto(k)
    BY <1>1
  <2> HIDE DEF upto
  <2>2. n <= Cardinality(kept) /\ Cardinality(kept) \in Nat
    BY <1>2, <1>3, FS_Subset, FS_CardinalityType
  <2>3. n # 0
    BY <1>4, <2>1, FS_EmptySet
  <2> QED
    BY <1>4, <2>2, <2>3
<1>6. PICK x \in kept : Left(pairs, taken)[n] = pairs[x] /\ Cardinality(upto(x)) = n
  BY <1>2, <1>5
<1>7. ASSUME NEW y \in kept, NEW z \in kept, y < z
      PROVE  Cardinality(upto(y)) # Cardinality(upto(z))
  <2>1. upto(y) \in SUBSET upto(z)
    <3>1. \A q \in kept : q <= y => q <= z
      BY <1>1, <1>7
    <3> QED
      BY <3>1
  <2>2. z \in upto(z) /\ z \notin upto(y)
    BY <1>1, <1>7
  <2> HIDE DEF upto
  <2> QED
    BY <1>4, <2>1, <2>2, FS_Subset
<1>8. x = k
  <2>1. x \in Nat /\ k \in Nat
    BY <1>1, <1>6
  <2>2. ~(x < k)
    BY <1>1, <1>6, <1>7
  <2>3. ~(k < x)
    BY <1>1, <1>6, <1>7
  <2> QED
    BY <2>1, <2>2, <2>3
<1> HIDE DEF n
<1> QED
  BY <1>2, <1>5, <1>6, <1>8

(* What one erase leaves.                                                  *)
LEMMA LeftOne ==
  ASSUME NEW S, NEW pairs \in Seq(S), NEW t \in DOMAIN pairs
  PROVE  /\ Len(Left(pairs, {t})) = Len(pairs) - 1
         /\ \A n \in 1 .. Len(pairs) - 1 :
              Left(pairs, {t})[n] = IF n < t THEN pairs[n] ELSE pairs[n + 1]
<1> DEFINE kept == DOMAIN pairs \ {t}
<1>1. Len(pairs) \in Nat /\ DOMAIN pairs = 1 .. Len(pairs) /\ t \in 1 .. Len(pairs)
  OBVIOUS
<1>2. {t} \in SUBSET (DOMAIN pairs)
  OBVIOUS
<1>3. /\ Len(Left(pairs, {t})) = Cardinality(kept)
      /\ \A n \in 1 .. Cardinality(kept) :
           \E x \in kept : /\ Left(pairs, {t})[n] = pairs[x]
                           /\ Cardinality({q \in kept : q <= x}) = n
  <2> DEFINE taken == {t}
  <2>1. taken \in SUBSET (DOMAIN pairs)
    BY <1>2
  <2> HIDE DEF taken
  <2>2. /\ Len(Left(pairs, taken)) = Cardinality(DOMAIN pairs \ taken)
        /\ \A n \in 1 .. Cardinality(DOMAIN pairs \ taken) :
             \E x \in DOMAIN pairs \ taken :
               /\ Left(pairs, taken)[n] = pairs[x]
               /\ Cardinality({q \in DOMAIN pairs \ taken : q <= x}) = n
    BY <2>1, LeftIs
  <2> QED
    BY <2>2 DEF taken
<1>4. \A k \in Nat : IsFiniteSet(1 .. k) /\ Cardinality(1 .. k) = k
  BY FS_Interval
<1>5. Cardinality(kept) = Len(pairs) - 1
  BY <1>1, <1>4, FS_RemoveElement
<1>6. ASSUME NEW n \in 1 .. Len(pairs) - 1
      PROVE  Left(pairs, {t})[n] = IF n < t THEN pairs[n] ELSE pairs[n + 1]
  <2>1. PICK x \in kept : /\ Left(pairs, {t})[n] = pairs[x]
                          /\ Cardinality({q \in kept : q <= x}) = n
    BY <1>3, <1>5
  <2>2. x \in 1 .. Len(pairs) /\ x # t /\ x \in Nat
    BY <1>1
  <2>3. {q \in kept : q <= x} = (1 .. x) \ {t}
    <3>1. ASSUME NEW q PROVE q \in kept /\ q <= x <=> q \in 1 .. x /\ q # t
      <4>1. q \in kept <=> q \in 1 .. Len(pairs) /\ q # t
        BY <1>1
      <4>2. q \in 1 .. Len(pairs) /\ q <= x <=> q \in 1 .. x
        BY <1>1, <2>2
      <4> QED
        BY <4>1, <4>2
    <3> HIDE DEF kept
    <3> QED
      BY <3>1
  <2>4. Cardinality((1 .. x) \ {t}) = IF t \in 1 .. x THEN x - 1 ELSE x
    BY <1>4, <2>2, FS_RemoveElement
  <2>5. n = IF t <= x THEN x - 1 ELSE x
    <3>1. t \in 1 .. x <=> t <= x
      BY <1>1, <2>2
    <3>2. n = IF t \in 1 .. x THEN x - 1 ELSE x
      BY <2>1, <2>3, <2>4
    <3> QED
      BY <3>1, <3>2
  <2>6. x = IF n < t THEN n ELSE n + 1
    BY <1>1, <2>2, <2>5
  <2> QED
    BY <2>1, <2>6
<1> QED
  BY <1>3, <1>5, <1>6

-----------------------------------------------------------------------------
(* Query strings: what get() finds.                                        *)

(* The names asked for need no escapes.                                    *)
LEMMA NamesArePlain ==
  ASSUME NEW name \in Names
  PROVE  /\ name \in Seq(Plain) /\ Len(name) \in Nat
         /\ \A i \in 1 .. Len(name) : name[i] \notin {61, 35, 38, 43, 37, 91, 93}
<1> DEFINE Letters == 1 .. 255 \ Codes({"=", "#", "&", "+", "%", "[", "]"})
<1>1. name \in Seq(Letters)
  BY QueryStringAssumption
<1>2. Letters \subseteq Plain
  BY SetsOfCodes DEF Plain, Byte
<1>3. \A b \in Letters : b \notin {61, 35, 38, 43, 37, 91, 93}
  BY SetsOfCodes
<1> HIDE DEF Letters
<1>4. name \in Seq(Plain) /\ Len(name) \in Nat
  BY <1>1, <1>2, Widens
<1>5. \A i \in 1 .. Len(name) : name[i] \in Letters
  BY <1>1
<1> QED
  BY <1>3, <1>4, <1>5

(* Where the first pair begins, if there is one.                           *)
LEMMA FirstPairIs ==
  ASSUME NEW s \in Seq(Byte), NEW parse_url \in BOOLEAN
  PROVE  FirstPair(s, parse_url) \in {0} \cup 1 .. Len(s) + 1
<1> DEFINE start == Len(Before(s, Codes({"?", "#"})))
<1>1. start \in 0 .. Len(s) /\ Len(s) \in Nat
  BY BeforeIs
<1>2. FirstPair(s, parse_url) = IF ~parse_url THEN 1 ELSE IF start = Len(s) THEN 0 ELSE start + 2
  BY DEF FirstPair
<1> HIDE DEF start
<1> QED
  BY <1>1, <1>2

LEMMA ParseIs ==
  ASSUME NEW s \in Seq(Byte), NEW parse_url \in BOOLEAN
  PROVE  QsParse(s, parse_url) \in Seq(Seq(Byte)) /\ Len(QsParse(s, parse_url)) <= MaxPairs
<1> DEFINE first == FirstPair(s, parse_url)
<1>1. QsParse(s, parse_url) = Pairs(s, first, MaxPairs)
  BY DEF QsParse
<1>2. first \in {0} \cup 1 .. Len(s) + 1
  BY FirstPairIs
<1>3. MaxPairs \in Nat
  BY QueryStringAssumption
<1> HIDE DEF first
<1>4. CASE first = 0
  <2>1. QsParse(s, parse_url) = <<>>
    BY <1>1, <1>3, <1>4, NoPairs
  <2>2. <<>> \in Seq(Seq(Byte)) /\ Len(<<>>) = 0
    OBVIOUS
  <2> QED
    BY <1>3, <2>1, <2>2
<1>5. CASE first # 0
  <2>1. first \in 1 .. Len(s) + 1
    BY <1>2, <1>5
  <2> QED
    BY <1>1, <1>3, <2>1, PairsAre
<1> QED
  BY <1>4, <1>5

(* A pair is found for the name that its key says.                         *)
Key(s, b) == Before(Segment(s, b), Codes({"=", "#"}))
Behind(s, b) == SubSeq(Segment(s, b), Len(Key(s, b)) + 2, Len(Segment(s, b)))

LEMMA PairSays ==
  ASSUME NEW s \in Seq(Byte), NEW b \in Nat \ {0}, NEW name \in Seq(Plain)
  PROVE  /\ QsEqual(name, Pair(Segment(s, b))) <=> Says(Key(s, b), name)
         /\ ~Is(Segment(s, b), Len(Key(s, b)) + 1, "#") =>
              Says(ValueText(Behind(s, b)), ValueOf(Pair(Segment(s, b))))
<1> DEFINE segment == Segment(s, b)
           key == Key(s, b)
           pair == Pair(segment)
<1>1. segment \in Seq(Byte) /\ \A i \in 1 .. Len(segment) : segment[i] # 38
  BY SegmentIs
<1>2. key = Before(segment, Codes({"=", "#"}))
  BY DEF Key
<1>3. Behind(s, b) = SubSeq(segment, Len(key) + 2, Len(segment))
  BY DEF Behind
<1> HIDE DEF segment, key
<1>4. /\ pair \in Seq(Byte)
      /\ Len(key) \in 0 .. Len(pair)
      /\ SubSeq(pair, 1, Len(key)) = key
      /\ \A i \in 1 .. Len(key) : pair[i] \notin Ends
      /\ At(pair, Len(key) + 1) \in Ends
      /\ ~Is(segment, Len(key) + 1, "#") =>
           Says(ValueText(SubSeq(segment, Len(key) + 2, Len(segment))), ValueOf(pair))
  BY <1>1, <1>2, PairIs
<1> HIDE DEF pair
<1>5. QsEqual(name, pair) <=> Says(SubSeq(pair, 1, Len(key)), name)
  BY <1>4, EqualSays
<1> QED
  BY <1>3, <1>4, <1>5 DEF segment, key, pair

(* So get() finds the first of those among the first n.                    *)
Matches(s, first, n, name) ==
  {b \in Begins(s, first) : Rank(s, first, b) < n /\ Says(Key(s, b), name)}

LEMMA GetIs ==
  ASSUME NEW s \in Seq(Byte), NEW first \in 1 .. Len(s) + 1, NEW n \in Nat, NEW name \in Seq(Plain)
  PROVE  LET match == Matches(s, first, n, name)
             b == Min(match)
             got == Get(Pairs(s, first, n), name)
         IN /\ match = {} => got = None
            /\ match # {} =>
                 /\ got.found
                 /\ ~Is(Segment(s, b), Len(Key(s, b)) + 1, "#") =>
                      Says(ValueText(Behind(s, b)), got.value)
<1> DEFINE match == Matches(s, first, n, name)
           pairs == Pairs(s, first, n)
           got == Get(pairs, name)
           found == Found(pairs, name)
           rank(b) == Rank(s, first, b)
<1>1. /\ pairs \in Seq(Seq(Byte)) /\ Len(pairs) <= n
      /\ \A b \in Begins(s, first) : rank(b) < n =>
           rank(b) + 1 \in DOMAIN pairs /\ pairs[rank(b) + 1] = Pair(Segment(s, b))
      /\ \A i \in DOMAIN pairs : \E b \in Begins(s, first) : rank(b) = i - 1 /\ i - 1 < n
  BY PairsAre
<1>2. got = IF found = {} THEN None ELSE Some(ValueOf(pairs[Min(found)]))
  BY DEF Get
<1>3. \A i : i \in found <=> i \in DOMAIN pairs /\ QsEqual(name, pairs[i])
  BY DEF Found
<1>4. \A b : b \in match <=> b \in Begins(s, first) /\ rank(b) < n /\ Says(Key(s, b), name)
  BY DEF Matches
<1>5. \A b \in Begins(s, first) : b \in Nat \ {0} /\ b \in Nat
  BY BeginsAre
<1>6. /\ \A b : rank(b) \in Nat
      /\ \A b, c \in Begins(s, first) : b < c => rank(b) < rank(c)
  BY RankIs
<1> HIDE DEF match, pairs, got, found, rank
<1>7. ASSUME NEW b \in match
      PROVE  rank(b) + 1 \in found /\ pairs[rank(b) + 1] = Pair(Segment(s, b))
  <2>1. b \in Begins(s, first) /\ rank(b) < n /\ Says(Key(s, b), name)
    BY <1>4
  <2>2. QsEqual(name, Pair(Segment(s, b)))
    BY <1>5, <2>1, PairSays
  <2> QED
    BY <1>1, <1>3, <2>1, <2>2
<1>8. ASSUME NEW i \in found PROVE \E b \in match : rank(b) = i - 1
  <2>1. i \in DOMAIN pairs /\ i \in Nat /\ QsEqual(name, pairs[i])
    BY <1>1, <1>3
  <2>2. PICK b \in Begins(s, first) : rank(b) = i - 1 /\ i - 1 < n
    BY <1>1, <2>1
  <2>3. pairs[rank(b) + 1] = Pair(Segment(s, b)) /\ rank(b) + 1 = i
    BY <1>1, <2>1, <2>2
  <2>4. Says(Key(s, b), name)
    BY <1>5, <2>1, <2>2, <2>3, PairSays
  <2> QED
    BY <1>4, <2>2, <2>4
<1>9. CASE match = {}
  <2>1. found = {}
    BY <1>8, <1>9
  <2> QED
    BY <1>2, <1>9, <2>1 DEF match, got, pairs
<1>10. CASE match # {}
  <2> DEFINE b == Min(match)
  <2>1. match \in SUBSET Nat /\ \A c \in match : c \in Begins(s, first)
    BY <1>4, <1>5
  <2>2. b \in match /\ \A c \in match : b <= c
    BY <1>10, <2>1, MinIsLeast
  <2> HIDE DEF b
  <2>3. rank(b) + 1 \in found /\ pairs[rank(b) + 1] = Pair(Segment(s, b))
    BY <1>7, <2>2
  <2>4. found \in SUBSET Nat
    BY <1>1, <1>3
  <2>5. Min(found) \in found /\ \A i \in found : Min(found) <= i
    BY <2>3, <2>4, MinIsLeast
  <2>6. Min(found) = rank(b) + 1
    <3>1. PICK c \in match : rank(c) = Min(found) - 1
      BY <1>8, <2>5
    <3>2. b <= c /\ b \in Nat /\ c \in Nat /\ b \in Begins(s, first) /\ c \in Begins(s, first)
      BY <2>1, <2>2
    <3>3. rank(b) <= rank(c)
      <4>1. CASE b = c
        BY <1>6, <4>1
      <4>2. CASE b # c
        <5>1. b < c
          BY <3>2, <4>2
        <5>2. rank(b) < rank(c)
          BY <1>6, <3>2, <5>1
        <5> QED
          BY <1>6, <5>2
      <4> QED
        BY <4>1, <4>2
    <3>4. Min(found) <= rank(b) + 1 /\ Min(found) \in Nat /\ rank(b) \in Nat
      BY <1>6, <2>3, <2>4, <2>5
    <3> QED
      BY <3>1, <3>3, <3>4
  <2>7. got = Some(ValueOf(Pair(Segment(s, b))))
    BY <1>2, <2>3, <2>6
  <2>8. got.found /\ got.value = ValueOf(Pair(Segment(s, b)))
    BY <2>7 DEF Some
  <2>9. b \in Nat \ {0}
    BY <1>5, <2>1, <2>2
  <2>10. ~Is(Segment(s, b), Len(Key(s, b)) + 1, "#") => Says(ValueText(Behind(s, b)), got.value)
    BY <2>8, <2>9, PairSays
  <2> QED
    BY <1>10, <2>8, <2>10 DEF match, got, pairs, b
<1> QED
  BY <1>9, <1>10

(* Until something is popped the pairs are those of the URL.               *)
QueryInv ==
  /\ QueryTypeOK
  /\ parsed # "no" /\ last_pop = NoPop =>
       key_value_pairs = IF url = <<>> THEN <<>> ELSE QsParse(url, parsed = "url")

LEMMA TakeKeeps ==
  ASSUME QueryInv, NEW op \in {"pop", "pop_list", "pop_dict"}, NEW name,
         NEW returned \in SUBSET (DOMAIN key_value_pairs),
         NEW taken \in SUBSET (DOMAIN key_value_pairs),
         Take(op, name, returned, taken)
  PROVE  QueryInv'
<1>1. /\ parsed # "no" /\ parsed' = parsed /\ url' = url /\ length' = length
      /\ last_pop' = [op |-> op, name |-> name, returned |-> returned]
      /\ key_value_pairs' = Left(key_value_pairs, taken)
  BY DEF Take, Without
<1>2. /\ key_value_pairs \in Seq(Seq(1..255)) /\ Len(key_value_pairs) <= MaxPairs
      /\ url \in Seq(1..255) /\ length \in 0 .. MaxUrlPieces /\ parsed \in {"no", "url", "body"}
  BY DEF QueryInv, QueryTypeOK
<1>3. MaxPairs \in Nat /\ Len(key_value_pairs) \in Nat
      /\ DOMAIN key_value_pairs = 1 .. Len(key_value_pairs)
  BY <1>2, QueryStringAssumption
<1>4. /\ key_value_pairs' \in Seq(Seq(1..255))
      /\ Len(key_value_pairs') \in 0 .. Len(key_value_pairs)
  <2> DEFINE S == Seq(1..255)
             pairs == key_value_pairs
             left == Left(pairs, taken)
  <2>1. pairs \in Seq(S) /\ taken \in SUBSET (DOMAIN pairs)
    BY <1>2
  <2> HIDE DEF S, pairs
  <2>2. /\ left \in Seq(S) /\ Len(left) = Cardinality(DOMAIN pairs \ taken)
        /\ Cardinality(DOMAIN pairs \ taken) \in 0 .. Len(pairs)
    BY <2>1, LeftIs
  <2> QED
    BY <1>1, <2>2 DEF S, pairs
<1>5. Len(key_value_pairs') <= MaxPairs
  BY <1>2, <1>3, <1>4
<1>6. last_pop'.op = op /\ last_pop'.returned = returned
  BY <1>1
<1>7. returned \subseteq 1 .. MaxPairs
  <2>1. \A i \in 1 .. Len(key_value_pairs) : i \in 1 .. MaxPairs
    BY <1>2, <1>3
  <2> QED
    BY <1>3, <2>1
<1>8. last_pop' # NoPop
  <2>1. NoPop.op = "none"
    BY DEF NoPop
  <2> QED
    BY <1>6, <2>1
<1>9. QueryTypeOK'
  BY <1>1, <1>2, <1>4, <1>5, <1>6, <1>7 DEF QueryTypeOK
<1> QED
  BY <1>8, <1>9 DEF QueryInv

(* What a pop gives and takes are pairs there are.                         *)
LEMMA FoundAreThere ==
  ASSUME NEW pairs, NEW name
  PROVE  /\ Found(pairs, name) \in SUBSET (DOMAIN pairs)
         /\ {i \in Found(pairs, name) : i = Min(Found(pairs, name))} \in SUBSET (DOMAIN pairs)
         /\ GetList(pairs, name) \in SUBSET (DOMAIN pairs)
         /\ GetDict(pairs, name) \in SUBSET (DOMAIN pairs)
         /\ Spelled(pairs, name) \in SUBSET (DOMAIN pairs)
         /\ PoppedList(pairs, name) \in SUBSET (DOMAIN pairs)
         /\ PoppedDict(pairs, name) \in SUBSET (DOMAIN pairs)
<1>1. \A text : Spelled(pairs, text) \in SUBSET (DOMAIN pairs)
  BY DEF Spelled
<1>2. \A text : Found(pairs, text) \in SUBSET (DOMAIN pairs)
  BY DEF Found
<1>3. GetDict(pairs, name) \in SUBSET (DOMAIN pairs)
  BY <1>1 DEF GetDict, DictPairs
<1>4. PoppedList(pairs, name) \in SUBSET (DOMAIN pairs)
  BY <1>1 DEF PoppedList
<1>5. PoppedDict(pairs, name) \in SUBSET (DOMAIN pairs)
  BY <1>1 DEF PoppedDict
<1>6. GetList(pairs, name) \in SUBSET (DOMAIN pairs)
  BY <1>2 DEF GetList
<1>7. {i \in Found(pairs, name) : i = Min(Found(pairs, name))} \in SUBSET (DOMAIN pairs)
  BY <1>2
<1> QED
  BY <1>1, <1>2, <1>3, <1>4, <1>5, <1>6, <1>7

LEMMA PoppedIsThere ==
  ASSUME NEW pairs, DOMAIN pairs \subseteq Nat, NEW name
  PROVE  Popped(pairs, name) \in SUBSET (DOMAIN pairs)
<1> DEFINE spelled == Spelled(pairs, name \o Bytes(<<"=">>))
<1>1. Popped(pairs, name) = IF Found(pairs, name) = {} \/ spelled = {} THEN {} ELSE {Min(spelled)}
  BY DEF Popped
<1>2. spelled \subseteq DOMAIN pairs
  BY DEF Spelled
<1> HIDE DEF spelled
<1>3. spelled # {} => Min(spelled) \in spelled
  <2>1. spelled \in SUBSET Nat
    BY <1>2
  <2> QED
    BY <2>1, MinIsLeast
<1> QED
  BY <1>1, <1>2, <1>3

LEMMA QueryBegins == QueryInit => QueryInv
<1> SUFFICES ASSUME QueryInit PROVE QueryInv
  OBVIOUS
<1>1. url = <<>> /\ length = 0 /\ parsed = "no" /\ key_value_pairs = <<>> /\ last_pop = NoPop
  BY DEF QueryInit
<1>2. NoPop.op = "none" /\ NoPop.returned = {}
  BY DEF NoPop
<1>3. MaxUrlPieces \in Nat /\ MaxPairs \in Nat
  BY QueryStringAssumption
<1>4. <<>> \in Seq(1..255) /\ <<>> \in Seq(Seq(1..255)) /\ Len(<<>>) = 0
  OBVIOUS
<1>5. 0 \in 0 .. MaxUrlPieces /\ 0 <= MaxPairs
  BY <1>3
<1>6. QueryTypeOK
  BY <1>1, <1>2, <1>4, <1>5 DEF QueryTypeOK
<1> QED
  BY <1>1, <1>6 DEF QueryInv

LEMMA QueryStep == QueryInv /\ [QueryNext]_queryVars => QueryInv'
<1> SUFFICES ASSUME QueryInv, [QueryNext]_queryVars PROVE QueryInv'
  OBVIOUS
<1>1. /\ url \in Seq(1..255) /\ length \in 0 .. MaxUrlPieces /\ parsed \in {"no", "url", "body"}
      /\ key_value_pairs \in Seq(Seq(1..255)) /\ Len(key_value_pairs) <= MaxPairs
      /\ last_pop.op \in {"none", "pop", "pop_list", "pop_dict"}
      /\ last_pop.returned \subseteq 1 .. MaxPairs
  BY DEF QueryInv, QueryTypeOK
<1>2. MaxUrlPieces \in Nat /\ MaxPairs \in Nat /\ UrlPieces \subseteq Seq(1..255)
  BY QueryStringAssumption
<1>3. DOMAIN key_value_pairs \subseteq Nat
  BY <1>1
<1>4. CASE Write
  <2>1. PICK piece \in UrlPieces : url' = url \o piece
    BY <1>4 DEF Write
  <2>2. url' \in Seq(1..255)
    <3>1. piece \in Seq(1..255)
      BY <1>2
    <3> QED
      BY <1>1, <2>1, <3>1
  <2>3. length' \in 0 .. MaxUrlPieces
    BY <1>1, <1>2, <1>4 DEF Write
  <2>4. /\ parsed = "no" /\ parsed' = parsed /\ key_value_pairs' = key_value_pairs
        /\ last_pop' = last_pop
    BY <1>4 DEF Write
  <2>5. QueryTypeOK'
    BY <1>1, <2>2, <2>3, <2>4 DEF QueryTypeOK
  <2> QED
    BY <2>4, <2>5 DEF QueryInv
<1>5. CASE Construct
  <2>1. PICK source \in {"url", "body"} :
           /\ parsed' = source
           /\ key_value_pairs' = IF url = <<>> THEN <<>> ELSE QsParse(url, source = "url")
    BY <1>5 DEF Construct
  <2>2. url' = url /\ length' = length /\ last_pop' = last_pop
    BY <1>5 DEF Construct
  <2>3. key_value_pairs' \in Seq(Seq(1..255)) /\ Len(key_value_pairs') <= MaxPairs
    <3>1. (source = "url") \in BOOLEAN /\ url \in Seq(Byte)
      BY <1>1 DEF Byte
    <3>2. QsParse(url, source = "url") \in Seq(Seq(1..255))
          /\ Len(QsParse(url, source = "url")) <= MaxPairs
      <4> DEFINE parse_url == (source = "url")
      <4>1. parse_url \in BOOLEAN
        BY <3>1
      <4> HIDE DEF parse_url
      <4>2. QsParse(url, parse_url) \in Seq(Seq(Byte)) /\ Len(QsParse(url, parse_url)) <= MaxPairs
        BY <3>1, <4>1, ParseIs
      <4> QED
        BY <4>2 DEF parse_url, Byte
    <3>3. <<>> \in Seq(Seq(1..255)) /\ Len(<<>>) = 0 /\ 0 <= MaxPairs
      BY <1>2
    <3> QED
      BY <2>1, <3>2, <3>3
  <2>4. QueryTypeOK'
    BY <1>1, <2>1, <2>2, <2>3 DEF QueryTypeOK
  <2>5. key_value_pairs' = IF url' = <<>> THEN <<>> ELSE QsParse(url', parsed' = "url")
    BY <2>1, <2>2
  <2> QED
    BY <2>4, <2>5 DEF QueryInv
<1>6. ASSUME NEW name \in Names, Pop(name) PROVE QueryInv'
  <2> DEFINE found == Found(key_value_pairs, name)
             returned == {i \in found : i = Min(found)}
             taken == Popped(key_value_pairs, name)
  <2>1. Take("pop", name, returned, taken)
    BY <1>6 DEF Pop
  <2>2. returned \in SUBSET (DOMAIN key_value_pairs) /\ taken \in SUBSET (DOMAIN key_value_pairs)
    BY <1>3, FoundAreThere, PoppedIsThere
  <2> HIDE DEF returned, taken
  <2> QED
    BY <2>1, <2>2, TakeKeeps
<1>7. ASSUME NEW name \in Names, PopList(name) PROVE QueryInv'
  <2>1. Take("pop_list", name, GetList(key_value_pairs, name), PoppedList(key_value_pairs, name))
    BY <1>7 DEF PopList
  <2> QED
    BY <2>1, FoundAreThere, TakeKeeps
<1>8. ASSUME NEW name \in Names, PopDict(name) PROVE QueryInv'
  <2>1. Take("pop_dict", name, GetDict(key_value_pairs, name), PoppedDict(key_value_pairs, name))
    BY <1>8 DEF PopDict
  <2> QED
    BY <2>1, FoundAreThere, TakeKeeps
<1>9. CASE UNCHANGED queryVars
  BY <1>9 DEF QueryInv, QueryTypeOK, queryVars
<1> QED
  BY <1>4, <1>5, <1>6, <1>7, <1>8, <1>9 DEF QueryNext

LEMMA QueryInvariant == QuerySpec => []QueryInv
<1>1. QueryInit => QueryInv
  BY QueryBegins
<1>2. QueryInv /\ [QueryNext]_queryVars => QueryInv'
  BY QueryStep
<1> QED
  BY <1>1, <1>2, PTL DEF QuerySpec

(* For every URL and every name without special characters get() gives the *)
(* value of the first of the first MaxPairs pairs whose decoded key is the *)
(* name, decoded as far as it goes, and nothing if there is none.          *)
THEOREM FoundFirst == QuerySpec => []GetFindsFirst
<1>1. QueryInv => GetFindsFirst
  <2> SUFFICES ASSUME QueryInv, parsed # "no", last_pop = NoPop, url # <<>>
               PROVE  LET begins == IF FirstPair(url, parsed = "url") = 0 THEN {}
                                    ELSE Begins(url, FirstPair(url, parsed = "url"))
                          key(b) == Before(Segment(url, b), Codes({"=", "#"}))
                          behind(b) == SubSeq(Segment(url, b), Len(key(b)) + 2, Len(Segment(url, b)))
                      IN \A name \in Names :
                           LET match == {b \in begins : /\ Cardinality({c \in begins : c < b}) < MaxPairs
                                                        /\ Says(key(b), name)}
                               b == Min(match)
                               got == Get(key_value_pairs, name)
                           IN IF match = {} THEN got = None
                              ELSE /\ got.found
                                   /\ ~Is(Segment(url, b), Len(key(b)) + 1, "#") =>
                                        Says(ValueText(behind(b)), got.value)
    BY DEF GetFindsFirst
  <2> DEFINE first == FirstPair(url, parsed = "url")
             begins == IF first = 0 THEN {} ELSE Begins(url, first)
             matched(name) == {b \in begins : /\ Cardinality({c \in begins : c < b}) < MaxPairs
                                              /\ Says(Key(url, b), name)}
  <2>1. url \in Seq(Byte)
    BY DEF QueryInv, QueryTypeOK, Byte
  <2>2. key_value_pairs = Pairs(url, first, MaxPairs) /\ MaxPairs \in Nat
    BY QueryStringAssumption DEF QueryInv, QsParse
  <2>3. first \in {0} \cup 1 .. Len(url) + 1
    <3> DEFINE parse_url == (parsed = "url")
    <3>1. parse_url \in BOOLEAN
      OBVIOUS
    <3> HIDE DEF parse_url
    <3>2. FirstPair(url, parse_url) \in {0} \cup 1 .. Len(url) + 1
      BY <2>1, <3>1, FirstPairIs
    <3> QED
      BY <3>2 DEF parse_url
  <2> HIDE DEF first
  <2>4. ASSUME NEW name \in Names
        PROVE  LET b == Min(matched(name))
                   got == Get(key_value_pairs, name)
               IN /\ matched(name) = {} => got = None
                  /\ matched(name) # {} =>
                       /\ got.found
                       /\ ~Is(Segment(url, b), Len(Key(url, b)) + 1, "#") =>
                            Says(ValueText(Behind(url, b)), got.value)
    <3>1. name \in Seq(Plain)
      BY NamesArePlain
    <3>2. CASE first = 0
      <4>1. key_value_pairs = <<>>
        BY <2>1, <2>2, <3>2, NoPairs
      <4>2. Found(key_value_pairs, name) = {}
        BY <4>1 DEF Found
      <4>3. Get(key_value_pairs, name) = None
        BY <4>2 DEF Get
      <4>4. matched(name) = {}
        BY <3>2
      <4> QED
        BY <4>3, <4>4
    <3>3. CASE first # 0
      <4>1. first \in 1 .. Len(url) + 1
        BY <2>3, <3>3
      <4>2. matched(name) = Matches(url, first, MaxPairs, name)
        BY <3>3 DEF Matches, Rank, Earlier
      <4> HIDE DEF matched
      <4> QED
        BY <2>1, <2>2, <3>1, <4>1, <4>2, GetIs
    <3> QED
      BY <3>2, <3>3
  <2> QED
    BY <2>4 DEF Key, Behind, first
<1> QED
  BY <1>1, QueryInvariant, PTL

-----------------------------------------------------------------------------
(* Query strings: what a pop takes.                                        *)

(* A text that begins with another one and a character.                    *)
LEMMA OneMore ==
  ASSUME NEW name \in Seq(Byte), NEW b \in Byte
  PROVE  /\ name \o <<b>> \in Seq(Byte) /\ Len(name \o <<b>>) = Len(name) + 1
         /\ \A i \in 1 .. Len(name) : (name \o <<b>>)[i] = name[i]
         /\ (name \o <<b>>)[Len(name) + 1] = b
OBVIOUS

LEMMA PrefixIs ==
  ASSUME NEW prefix \in Seq(Byte), NEW text \in Seq(Byte)
  PROVE  IsPrefix(prefix, text) <=>
           Len(prefix) <= Len(text) /\ \A i \in 1 .. Len(prefix) : text[i] = prefix[i]
<1> DEFINE n == Len(prefix)
           begin == SubSeq(text, 1, n)
<1>1. n \in Nat /\ Len(text) \in Nat /\ 1 \in Int /\ n \in Int
  OBVIOUS
<1>2. IsPrefix(prefix, text) <=> n <= Len(text) /\ prefix = begin
  BY <1>1, SubSeqFull DEF IsPrefix
<1>3. ASSUME n <= Len(text)
      PROVE  begin \in Seq(Byte) /\ Len(begin) = n /\ \A i \in 1 .. n : begin[i] = text[i]
  <2>1. \A i \in 1 .. n : text[i] \in Byte
    BY <1>1, <1>3
  <2>2. /\ begin \in Seq(Byte) /\ Len(begin) = IF 1 <= n THEN n - 1 + 1 ELSE 0
        /\ \A i \in 1 .. n - 1 + 1 : begin[i] = text[1 + i - 1]
    BY <1>1, <2>1, SubSeqProperties
  <2> HIDE DEF begin
  <2>3. Len(begin) = n
    BY <1>1, <2>2
  <2>4. \A i \in 1 .. n : begin[i] = text[i]
    BY <1>1, <2>2
  <2> QED
    BY <2>2, <2>3, <2>4
<1> HIDE DEF begin
<1>4. ASSUME n <= Len(text), \A i \in 1 .. n : text[i] = prefix[i] PROVE prefix = begin
  BY <1>3, <1>4, SameElements
<1> QED
  BY <1>2, <1>3, <1>4

LEMMA BeginsWith ==
  ASSUME NEW name \in Seq(Byte), NEW b \in Byte, NEW text \in Seq(Byte)
  PROVE  /\ IsPrefix(name \o <<b>>, text) <=>
              /\ Len(name) < Len(text) /\ text[Len(name) + 1] = b
              /\ \A i \in 1 .. Len(name) : text[i] = name[i]
         /\ IsPrefix(name \o <<b>>, text) => IsPrefix(name, text)
<1> DEFINE longer == name \o <<b>>
           n == Len(name)
<1>1. /\ longer \in Seq(Byte) /\ Len(longer) = n + 1
      /\ \A i \in 1 .. n : longer[i] = name[i]
      /\ longer[n + 1] = b
  BY OneMore
<1>2. n \in Nat /\ Len(text) \in Nat
  OBVIOUS
<1> HIDE DEF longer
<1>3. IsPrefix(longer, text) <=> n + 1 <= Len(text) /\ \A i \in 1 .. n + 1 : text[i] = longer[i]
  BY <1>1, PrefixIs
<1>4. \A i : i \in 1 .. n + 1 <=> i \in 1 .. n \/ i = n + 1
  BY <1>2
<1>5. IsPrefix(longer, text) <=> /\ n < Len(text) /\ text[n + 1] = b
                                 /\ \A i \in 1 .. n : text[i] = name[i]
  BY <1>1, <1>2, <1>3, <1>4
<1>6. IsPrefix(longer, text) => IsPrefix(name, text)
  BY <1>2, <1>5, PrefixIs
<1> QED
  BY <1>5, <1>6 DEF longer

(* The characters a pop looks for behind the name.                         *)
LEMMA BytesOfPop ==
  /\ Bytes(<<"=">>) = << 61 >> /\ Bytes(<<"[">>) = << 91 >> /\ Bytes(<<"[", "]">>) = <<91, 93>>
  /\ 61 \in Byte /\ 91 \in Plain /\ 93 \in Plain
<1>1. ASSUME NEW c PROVE Bytes(<<c>>) = <<Ascii[c]>>
  <2>1. DOMAIN <<c>> = {1} /\ <<c>>[1] = c
    OBVIOUS
  <2>2. Bytes(<<c>>) = [i \in {1} |-> Ascii[<<c>>[i]]]
    BY <2>1 DEF Bytes
  <2>3. \A x : <<x>> = [i \in {1} |-> x]
    OBVIOUS
  <2> QED
    BY <2>1, <2>2, <2>3
<1>2. ASSUME NEW c, NEW d, Ascii[c] \in Nat, Ascii[d] \in Nat
      PROVE  Bytes(<<c, d>>) = <<Ascii[c], Ascii[d]>>
  <2> DEFINE bytes == Bytes(<<c, d>>)
             two == <<Ascii[c], Ascii[d]>>
  <2>1. DOMAIN <<c, d>> = 1 .. 2 /\ <<c, d>>[1] = c /\ <<c, d>>[2] = d
    OBVIOUS
  <2>2. bytes = [i \in 1 .. 2 |-> Ascii[<<c, d>>[i]]]
    BY <2>1 DEF Bytes
  <2>3. \A i \in 1 .. 2 : i = 1 \/ i = 2
    OBVIOUS
  <2>4. bytes[1] = Ascii[c] /\ bytes[2] = Ascii[d]
    BY <2>1, <2>2
  <2>5. bytes \in Seq(Nat) /\ Len(bytes) = 2
    <3>1. \A i \in 1 .. 2 : Ascii[<<c, d>>[i]] \in Nat
      BY <1>2, <2>1, <2>3
    <3>2. bytes \in [1 .. 2 -> Nat]
      BY <2>2, <3>1
    <3> HIDE DEF bytes
    <3>3. \A n \in Nat : \A f \in [1 .. n -> Nat] : f \in Seq(Nat) /\ Len(f) = n
      OBVIOUS
    <3> QED
      BY <3>2, <3>3
  <2>6. two \in Seq(Nat) /\ Len(two) = 2 /\ two[1] = Ascii[c] /\ two[2] = Ascii[d]
    BY <1>2
  <2> HIDE DEF bytes, two
  <2>7. bytes = two
    BY <2>3, <2>4, <2>5, <2>6, SameElements
  <2> QED
    BY <2>7 DEF bytes, two
<1>3. Ascii["="] = 61 /\ Ascii["["] = 91 /\ Ascii["]"] = 93
  BY CodesOfQuery
<1>4. 61 \in Byte /\ 91 \in Plain /\ 93 \in Plain
  BY SetsOfCodes DEF Plain, Byte
<1>5. Bytes(<<"=">>) = << 61 >>
  BY <1>1, <1>3
<1>6. Bytes(<<"[">>) = << 91 >>
  BY <1>1, <1>3
<1>7. Bytes(<<"[", "]">>) = <<91, 93>>
  BY <1>2, <1>3
<1> QED
  BY <1>4, <1>5, <1>6, <1>7

LEMMA ListNameIs ==
  ASSUME NEW name \in Seq(Plain)
  PROVE  ListName(name) \in Seq(Plain)
<1>1. <<91, 93>> \in Seq(Plain)
  BY BytesOfPop
<1>2. name \o <<91, 93>> \in Seq(Plain)
  BY <1>1, ConcatProperties
<1> QED
  BY <1>2, BytesOfPop DEF ListName

(* A plain text says itself.                                               *)
LEMMA PlainSays ==
  ASSUME NEW name \in Seq(Plain)
  PROVE  Says(name, name)
<1>1. name \in Seq(Byte) /\ Len(name) \in Nat
      /\ \A b \in Plain : b \in Byte /\ b # 0 /\ b \notin {61, 35, 38, 43, 37}
  BY PlainIs
<1>2. \A i \in 1 .. Len(name) : name[i] \in Plain /\ name[i] # 37 /\ name[i] # 43
  BY <1>1
<1>3. Escapes(name) = {}
  BY <1>1, <1>2, EscapesAre
<1>4. Whole(name) = 1 .. Len(name)
  BY <1>1, <1>3, EscapesAre
<1>5. Sound(name)
  BY <1>3 DEF Sound
<1>6. \A k \in Nat : Cardinality(1 .. k) = k
  BY FS_Interval
<1>7. ASSUME NEW i \in Whole(name)
      PROVE  name[Cardinality({j \in Whole(name) : j <= i})] = WholeByte(name, i)
  <2>1. i \in 1 .. Len(name) /\ i \in Nat
    BY <1>1, <1>4
  <2>2. {j \in Whole(name) : j <= i} = 1 .. i
    BY <1>1, <1>4, <2>1
  <2>3. WholeByte(name, i) = name[i]
    BY <1>1, <1>2, <2>1, EscapesAre
  <2> QED
    BY <1>6, <2>1, <2>2, <2>3
<1> QED
  BY <1>1, <1>4, <1>5, <1>6, <1>7 DEF Says

(* So a pair that is spelled with it and an = is equal to it.              *)
LEMMA SpelledIsEqual ==
  ASSUME NEW name \in Seq(Plain), NEW pair \in Seq(Byte), IsPrefix(name \o << 61 >>, pair)
  PROVE  QsEqual(name, pair)
<1> DEFINE l == Len(name)
           begin == SubSeq(pair, 1, l)
<1>1. name \in Seq(Byte) /\ l \in Nat
      /\ \A b \in Plain : b \in Byte /\ b # 0 /\ b \notin {61, 35, 38, 43, 37}
  BY PlainIs
<1>2. l < Len(pair) /\ pair[l + 1] = 61 /\ \A i \in 1 .. l : pair[i] = name[i]
  BY <1>1, BytesOfPop, BeginsWith
<1>3. l \in 0 .. Len(pair) /\ l + 1 \in 1 .. Len(pair) /\ l + 1 \in Int /\ Len(pair) \in Nat
  BY <1>1, <1>2
<1>4. \A i \in 1 .. l : name[i] \in Plain /\ pair[i] \notin Ends
  BY <1>1, <1>2, SetsOfCodes
<1>5. At(pair, l + 1) \in Ends
  <2>1. At(pair, l + 1) = 61
    BY <1>2, <1>3, AtIs
  <2> QED
    BY <2>1, SetsOfCodes
<1>6. begin = name
  <2>1. 1 \in Int /\ l \in Int /\ \A i \in 1 .. l : pair[i] \in Byte
    BY <1>1, <1>2, <1>4
  <2>2. /\ begin \in Seq(Byte) /\ Len(begin) = IF 1 <= l THEN l - 1 + 1 ELSE 0
        /\ \A i \in 1 .. l - 1 + 1 : begin[i] = pair[1 + i - 1]
    BY <2>1, SubSeqProperties
  <2> HIDE DEF begin
  <2>3. Len(begin) = l
    BY <1>1, <2>2
  <2>4. \A i \in 1 .. l : begin[i] = name[i]
    <3> SUFFICES ASSUME NEW i \in 1 .. l PROVE begin[i] = name[i]
      OBVIOUS
    <3>1. i \in 1 .. l - 1 + 1 /\ 1 + i - 1 = i
      BY <1>1
    <3> QED
      BY <1>2, <2>2, <3>1
  <2> QED
    BY <1>1, <2>2, <2>3, <2>4, SameElements
<1>7. Says(begin, name)
  BY <1>6, PlainSays
<1> HIDE DEF l
<1>8. QsEqual(name, pair) <=> Says(SubSeq(pair, 1, l), name)
  BY <1>3, <1>4, <1>5, EqualSays
<1> QED
  BY <1>7, <1>8

(* A pop takes what it gives just if that is spelled with the name and =.  *)
LEMMA PopIs ==
  ASSUME NEW pairs \in Seq(Seq(Byte)), NEW name \in Seq(Plain)
  PROVE  LET found == Found(pairs, name)
             returned == {i \in found : i = Min(found)}
         IN (\A i \in returned : IsPrefix(name \o Bytes(<<"=">>), pairs[i])) <=>
              Left(pairs, Popped(pairs, name)) = Left(pairs, returned)
<1> DEFINE found == Found(pairs, name)
           returned == {i \in found : i = Min(found)}
           prefix == name \o Bytes(<<"=">>)
           spelled == Spelled(pairs, prefix)
           taken == Popped(pairs, name)
           t == Min(spelled)
           m == Min(found)
<1>1. taken = IF found = {} \/ spelled = {} THEN {} ELSE {t}
  BY DEF Popped
<1>2. Len(pairs) \in Nat /\ DOMAIN pairs = 1 .. Len(pairs)
  OBVIOUS
<1>3. \A i : i \in spelled <=> i \in DOMAIN pairs /\ IsPrefix(prefix, pairs[i])
  BY DEF Spelled
<1>4. \A i : i \in found <=> i \in DOMAIN pairs /\ QsEqual(name, pairs[i])
  BY DEF Found
<1>5. prefix = name \o << 61 >>
  BY BytesOfPop
<1>6. \A i : i \in returned <=> i \in found /\ i = m
  OBVIOUS
<1> HIDE DEF found, returned, prefix, spelled, taken
<1>7. \A i \in DOMAIN pairs : pairs[i] \in Seq(Byte)
  OBVIOUS
<1>8. spelled \subseteq found
  BY <1>3, <1>4, <1>5, <1>7, SpelledIsEqual
<1>9. found \in SUBSET Nat /\ spelled \in SUBSET Nat
  BY <1>2, <1>3, <1>4
<1>10. found # {} => m \in found /\ \A i \in found : m <= i
  BY <1>9, MinIsLeast
<1>11. spelled # {} => t \in spelled /\ \A i \in spelled : t <= i
  BY <1>9, MinIsLeast
<1> HIDE DEF t, m
<1>12. ASSUME taken = returned
       PROVE  \A i \in returned : i \in spelled
  BY <1>1, <1>6, <1>10, <1>11, <1>12
<1>13. ASSUME \A i \in returned : i \in spelled
       PROVE  taken = returned
  <2>1. CASE found = {}
    BY <1>1, <1>6, <2>1
  <2>2. CASE found # {}
    <3>1. m \in spelled /\ t \in spelled /\ t \in found
      BY <1>6, <1>8, <1>10, <1>11, <1>13, <2>2
    <3>2. t = m
      BY <1>9, <1>10, <1>11, <2>2, <3>1
    <3>3. taken = {m} /\ returned = {m}
      BY <1>1, <1>6, <1>10, <2>2, <3>1, <3>2
    <3> QED
      BY <3>3
  <2> QED
    BY <2>1, <2>2
<1>14. ASSUME Left(pairs, taken) = Left(pairs, returned)
       PROVE  \A i \in returned : i \in spelled
  <2>1. CASE found = {}
    BY <1>6, <2>1
  <2>2. CASE found # {}
    <3>1. returned = {m} /\ m \in found /\ m \in DOMAIN pairs
      BY <1>4, <1>6, <1>10, <2>2
    <3>2. /\ Len(Left(pairs, {m})) = Len(pairs) - 1
          /\ \A n \in 1 .. Len(pairs) - 1 :
               Left(pairs, {m})[n] = IF n < m THEN pairs[n] ELSE pairs[n + 1]
      BY <3>1, LeftOne
    <3>3. CASE spelled = {}
      <4>1. taken = {}
        BY <1>1, <3>3
      <4>2. Len(Left(pairs, {})) = Len(pairs)
        <5> DEFINE none == {i \in DOMAIN pairs : FALSE}
        <5>1. none \in SUBSET (DOMAIN pairs) /\ none = {} /\ DOMAIN pairs \ none = 1 .. Len(pairs)
          BY <1>2
        <5> HIDE DEF none
        <5>2. Len(Left(pairs, none)) = Cardinality(DOMAIN pairs \ none)
          BY <5>1, LeftIs
        <5>3. \A k \in Nat : Cardinality(1 .. k) = k
          BY FS_Interval
        <5> QED
          BY <1>2, <5>1, <5>2, <5>3
      <4> QED
        BY <1>2, <1>14, <3>1, <3>2, <4>1, <4>2
    <3>4. CASE spelled # {}
      <4>1. taken = {t} /\ t \in spelled /\ t \in DOMAIN pairs /\ m <= t
        BY <1>1, <1>3, <1>8, <1>10, <1>11, <2>2, <3>4
      <4>2. /\ Len(Left(pairs, {t})) = Len(pairs) - 1
            /\ \A n \in 1 .. Len(pairs) - 1 :
                 Left(pairs, {t})[n] = IF n < t THEN pairs[n] ELSE pairs[n + 1]
        BY <4>1, LeftOne
      <4>3. t = m
        <5> SUFFICES ASSUME t # m PROVE FALSE
          OBVIOUS
        <5>1. m \in 1 .. Len(pairs) /\ t \in 1 .. Len(pairs) /\ m < t
          BY <1>2, <3>1, <4>1
        <5> DEFINE n == t - 1
        <5>2. n \in 1 .. Len(pairs) - 1 /\ n < t /\ ~(n < m) /\ n + 1 = t /\ n \in DOMAIN pairs
          BY <1>2, <5>1
        <5>3. pairs[n] = pairs[n + 1]
          BY <1>14, <3>1, <3>2, <4>1, <4>2, <5>2
        <5>4. n \in spelled
          BY <1>3, <4>1, <5>2, <5>3
        <5>5. t <= n
          BY <1>11, <3>4, <5>4
        <5> QED
          BY <5>1, <5>5
      <4> QED
        BY <3>1, <4>1, <4>3
    <3> QED
      BY <3>3, <3>4
  <2> QED
    BY <2>1, <2>2
<1>15. (\A i \in returned : IsPrefix(prefix, pairs[i])) <=> (\A i \in returned : i \in spelled)
  BY <1>3, <1>4, <1>6
<1>16. (\A i \in returned : i \in spelled) <=> Left(pairs, taken) = Left(pairs, returned)
  BY <1>13, <1>14
<1> QED
  BY <1>15, <1>16 DEF returned, prefix, taken, found

(* So does pop_list, which takes them all.                                 *)
LEMMA PopListIs ==
  ASSUME NEW pairs \in Seq(Seq(Byte)), NEW name \in Seq(Plain)
  PROVE  (\A i \in GetList(pairs, name) : IsPrefix(ListName(name) \o Bytes(<<"=">>), pairs[i])) <=>
           Left(pairs, PoppedList(pairs, name)) = Left(pairs, GetList(pairs, name))
<1> DEFINE listed == ListName(name)
           returned == GetList(pairs, name)
           prefix == listed \o Bytes(<<"=">>)
           spelled == Spelled(pairs, prefix)
           taken == PoppedList(pairs, name)
<1>1. taken = IF returned = {} THEN {} ELSE spelled
  BY DEF PoppedList
<1>2. \A i : i \in returned <=> i \in DOMAIN pairs /\ QsEqual(listed, pairs[i])
  BY DEF GetList, Found
<1>3. \A i : i \in spelled <=> i \in DOMAIN pairs /\ IsPrefix(prefix, pairs[i])
  BY DEF Spelled
<1>4. listed \in Seq(Plain) /\ prefix = listed \o << 61 >>
  BY BytesOfPop, ListNameIs
<1> HIDE DEF listed, returned, prefix, spelled, taken
<1>5. \A i \in DOMAIN pairs : pairs[i] \in Seq(Byte)
  OBVIOUS
<1>6. spelled \subseteq returned
  BY <1>2, <1>3, <1>4, <1>5, SpelledIsEqual
<1>7. taken \subseteq returned /\ returned \in SUBSET (DOMAIN pairs) /\ taken \in SUBSET (DOMAIN pairs)
  BY <1>1, <1>2, <1>6
<1>8. ASSUME \A i \in returned : i \in spelled PROVE taken = returned
  BY <1>1, <1>7, <1>8
<1>9. ASSUME Left(pairs, taken) = Left(pairs, returned)
      PROVE  \A i \in returned : i \in spelled
  <2> DEFINE stay == DOMAIN pairs \ taken
             left == DOMAIN pairs \ returned
  <2>1. IsFiniteSet(stay) /\ Len(Left(pairs, taken)) = Cardinality(stay)
    BY <1>7, LeftIs
  <2>2. Len(Left(pairs, returned)) = Cardinality(left)
    BY <1>7, LeftIs
  <2>3. left \in SUBSET stay
    BY <1>7
  <2>4. \A i : (i \in stay <=> i \in DOMAIN pairs /\ i \notin taken)
               /\ (i \in left <=> i \in DOMAIN pairs /\ i \notin returned)
    OBVIOUS
  <2> HIDE DEF stay, left
  <2>5. stay = left
    BY <1>9, <2>1, <2>2, <2>3, FS_Subset
  <2>6. taken = returned
    BY <1>7, <2>4, <2>5
  <2> QED
    BY <1>1, <2>6
<1>10. (\A i \in returned : IsPrefix(prefix, pairs[i])) <=> (\A i \in returned : i \in spelled)
  BY <1>2, <1>3
<1>11. (\A i \in returned : i \in spelled) <=> Left(pairs, taken) = Left(pairs, returned)
  BY <1>8, <1>9
<1> QED
  BY <1>10, <1>11 DEF returned, prefix, taken, listed

(* Brackets fit that open behind the name, and the key begins there.       *)
LEMMA BracketsBehind ==
  ASSUME NEW name \in Seq(Byte), \A i \in 1 .. Len(name) : name[i] \notin {91, 93},
         NEW pair \in Seq(Byte), IsPrefix(name \o << 91 >>, pair)
  PROVE  BracketsFit(pair) /\ Opened(pair) = Len(name) + 1
<1> DEFINE l == Len(name)
           open == Len(Before(pair, Codes({"["})))
           close == Len(Before(pair, Codes({"]"})))
<1>1. 91 \in Byte /\ l \in Nat /\ Len(pair) \in Nat
  BY BytesOfPop DEF Plain
<1>2. l < Len(pair) /\ pair[l + 1] = 91 /\ \A i \in 1 .. l : pair[i] = name[i]
  BY <1>1, BeginsWith
<1>3. open = l
  <2>1. l \in 0 .. Len(pair)
    BY <1>1, <1>2
  <2>2. \A i \in 1 .. l : pair[i] \notin Codes({"["})
    BY <1>2, SetsOfCodes
  <2>3. pair[l + 1] \in Codes({"["})
    BY <1>2, SetsOfCodes
  <2> HIDE DEF l
  <2> QED
    BY <2>1, <2>2, <2>3, BeforeHas
<1>4. close \in 0 .. Len(pair) /\ (close < Len(pair) => pair[close + 1] \in Codes({"]"}))
  BY BeforeIs
<1>5. /\ Opened(pair) = IF open < Len(pair) THEN open + 1 ELSE open
      /\ Closed(pair) = close
      /\ BracketsFit(pair) <=> Opened(pair) <= Closed(pair) /\ Opened(pair) > 0 /\ Closed(pair) > 0
  BY DEF BracketsFit, Opened, Closed
<1> HIDE DEF open, close
<1>6. l + 1 <= close
  <2> SUFFICES ASSUME ~(l + 1 <= close) PROVE FALSE
    OBVIOUS
  <2>1. close \in 0 .. l /\ close < Len(pair)
    BY <1>1, <1>2, <1>4
  <2>2. pair[close + 1] = 93
    BY <1>4, <2>1, SetsOfCodes
  <2>3. CASE close = l
    BY <1>2, <2>2, <2>3
  <2>4. CASE close # l
    <3>1. close + 1 \in 1 .. l
      BY <1>1, <2>1, <2>4
    <3>2. name[close + 1] = 93
      BY <1>2, <2>2, <3>1
    <3> QED
      BY <3>1, <3>2
  <2> QED
    BY <2>3, <2>4
<1> QED
  BY <1>1, <1>2, <1>3, <1>4, <1>5, <1>6

(* The key of such a pair is what is between the brackets.                 *)
LEMMA KeyIs ==
  ASSUME NEW name \in Seq(Byte), \A i \in 1 .. Len(name) : name[i] \notin {91, 93},
         NEW pair \in Seq(Byte), IsPrefix(name \o << 91 >>, pair)
  PROVE  DictKey(pair) = KeyBehind(name, pair)
<1> DEFINE l == Len(name)
           close == Len(Before(pair, Codes({"]"})))
           tail == SubSeq(pair, l + 2, Len(pair))
           m == close - l - 1
           key == SubSeq(pair, l + 2, close)
           before == Before(tail, Codes({"]"}))
<1>1. l \in Nat /\ Len(pair) \in Nat
  OBVIOUS
<1>2. Opened(pair) = l + 1 /\ Closed(pair) = close /\ l + 1 <= close
  <2>1. Opened(pair) = l + 1 /\ BracketsFit(pair)
    BY BracketsBehind
  <2>2. Closed(pair) = close
    BY DEF Closed
  <2> QED
    BY <2>1, <2>2 DEF BracketsFit
<1>3. /\ close \in 0 .. Len(pair)
      /\ \A i \in 1 .. close : pair[i] \notin Codes({"]"})
      /\ close < Len(pair) => pair[close + 1] \in Codes({"]"})
  BY BeforeIs
<1>4. /\ tail \in Seq(Byte)
      /\ Len(tail) = IF l + 2 <= Len(pair) THEN Len(pair) - (l + 2) + 1 ELSE 0
      /\ \A i \in 1 .. Len(tail) : tail[i] = pair[l + 2 + i - 1]
  <2>1. l + 2 \in Nat \ {0}
    BY <1>1
  <2> DEFINE q == l + 2
  <2> HIDE DEF q
  <2>2. LET end == SubSeq(pair, q, Len(pair))
        IN /\ end \in Seq(Byte)
           /\ Len(end) = IF q <= Len(pair) THEN Len(pair) - q + 1 ELSE 0
           /\ \A i \in 1 .. Len(end) : end[i] = pair[q + i - 1]
    BY <2>1, TailIs DEF q
  <2> QED
    BY <2>2 DEF q
<1>5. DictKey(pair) = key
  <2>1. l + 1 + 1 = l + 2
    BY <1>1
  <2> QED
    BY <1>2, <2>1 DEF DictKey
<1>6. KeyBehind(name, pair) = before
  BY DEF KeyBehind
<1> HIDE DEF close, tail
<1>7. Len(tail) = Len(pair) - l - 1 /\ m \in 0 .. Len(tail)
  BY <1>1, <1>2, <1>3, <1>4
<1>8. \A i \in 1 .. m : /\ i \in 1 .. Len(tail) /\ i + l + 1 \in 1 .. close
                        /\ l + 2 + i - 1 = i + l + 1
  BY <1>1, <1>3, <1>7
<1>9. Len(before) = m
  <2>1. \A i \in 1 .. m : tail[i] \notin Codes({"]"})
    BY <1>3, <1>4, <1>8
  <2>2. m < Len(tail) => tail[m + 1] \in Codes({"]"})
    <3> SUFFICES ASSUME m < Len(tail) PROVE tail[m + 1] \in Codes({"]"})
      OBVIOUS
    <3>1. m + 1 \in 1 .. Len(tail) /\ l + 2 + (m + 1) - 1 = close + 1 /\ close < Len(pair)
      BY <1>1, <1>3, <1>7
    <3> QED
      BY <1>3, <1>4, <3>1
  <2> HIDE DEF m
  <2> QED
    BY <1>4, <1>7, <2>1, <2>2, BeforeHas
<1>10. before \in Seq(Byte) /\ \A i \in 1 .. Len(before) : before[i] = tail[i]
  BY <1>4, BeforeIs
<1>11. key \in Seq(Byte) /\ Len(key) = m /\ \A i \in 1 .. m : key[i] = pair[l + 2 + i - 1]
  <2>1. \A i \in l + 2 .. close : pair[i] \in Byte
    BY <1>1, <1>3
  <2>2. l + 2 \in Int /\ close \in Int
    BY <1>1, <1>3
  <2>3. /\ key \in Seq(Byte)
        /\ Len(key) = IF l + 2 <= close THEN close - (l + 2) + 1 ELSE 0
        /\ \A i \in 1 .. close - (l + 2) + 1 : key[i] = pair[l + 2 + i - 1]
    BY <2>1, <2>2, SubSeqProperties
  <2> HIDE DEF key
  <2>4. Len(key) = m /\ close - (l + 2) + 1 = m
    BY <1>1, <1>2, <1>3, <2>3
  <2> QED
    BY <2>3, <2>4
<1> HIDE DEF key, before, m
<1>12. \A i \in 1 .. Len(key) : key[i] = before[i]
  <2> SUFFICES ASSUME NEW i \in 1 .. m PROVE key[i] = before[i]
    BY <1>11
  <2>1. key[i] = pair[l + 2 + i - 1]
    BY <1>11
  <2>2. before[i] = tail[i]
    BY <1>9, <1>10
  <2>3. tail[i] = pair[l + 2 + i - 1]
    BY <1>4, <1>8
  <2> QED
    BY <2>1, <2>2, <2>3
<1>13. key = before
  BY <1>9, <1>10, <1>11, <1>12, SameElements
<1> QED
  BY <1>5, <1>6, <1>13

(* pop_dict takes what it gives if all that begins with the name goes on   *)
(* with [ and no key is there twice.                                       *)
LEMMA PopDictIs ==
  ASSUME NEW pairs \in Seq(Seq(Byte)), NEW name \in Names,
         \A i \in DOMAIN pairs :
           IsPrefix(name, pairs[i]) => IsPrefix(name \o Bytes(<<"[">>), pairs[i]),
         KeysDiffer(pairs, name)
  PROVE  Left(pairs, PoppedDict(pairs, name)) = Left(pairs, GetDict(pairs, name))
<1> DEFINE prefix == name \o Bytes(<<"[">>)
           spelled == Spelled(pairs, name)
           given == {i \in spelled : \A j \in spelled : j <= i => BracketsFit(pairs[j])}
<1>1. \A i : i \in spelled <=> i \in DOMAIN pairs /\ IsPrefix(name, pairs[i])
  BY DEF Spelled
<1>2. \A i : i \in Spelled(pairs, prefix) <=> i \in DOMAIN pairs /\ IsPrefix(prefix, pairs[i])
  BY DEF Spelled
<1>3. /\ name \in Seq(Byte) /\ 91 \in Byte
      /\ \A i \in 1 .. Len(name) : name[i] \notin {91, 93}
  BY NamesArePlain, PlainIs, BytesOfPop DEF Plain
<1>4. prefix = name \o << 91 >>
  BY BytesOfPop
<1>5. GetDict(pairs, name) =
        {i \in given : \A j \in given : DictKey(pairs[j]) = DictKey(pairs[i]) => i <= j}
  BY DEF GetDict, DictPairs
<1>6. PoppedDict(pairs, name) = IF GetDict(pairs, name) = {} THEN {} ELSE Spelled(pairs, prefix)
  BY DEF PoppedDict
<1>7. \A i \in DOMAIN pairs : IsPrefix(name, pairs[i]) => IsPrefix(prefix, pairs[i])
  OBVIOUS
<1>8. \A i \in DOMAIN pairs : pairs[i] \in Seq(Byte) /\ i \in Nat
  OBVIOUS
<1>9. \A i, j \in DOMAIN pairs :
        /\ IsPrefix(prefix, pairs[i]) /\ IsPrefix(prefix, pairs[j])
        /\ KeyBehind(name, pairs[i]) = KeyBehind(name, pairs[j])
        => i = j
  BY DEF KeysDiffer
<1>10. \A i : i \in given <=> i \in spelled /\ \A j \in spelled : j <= i => BracketsFit(pairs[j])
  OBVIOUS
<1> HIDE DEF spelled, prefix, given
<1>11. spelled = Spelled(pairs, prefix)
  <2>1. \A i \in DOMAIN pairs : IsPrefix(prefix, pairs[i]) => IsPrefix(name, pairs[i])
    <3> SUFFICES ASSUME NEW i \in DOMAIN pairs, IsPrefix(prefix, pairs[i])
                 PROVE  IsPrefix(name, pairs[i])
      OBVIOUS
    <3>1. pairs[i] \in Seq(Byte) /\ IsPrefix(name \o << 91 >>, pairs[i])
      BY <1>4, <1>8
    <3> QED
      BY <1>3, <3>1, BeginsWith
  <2>2. \A i : i \in spelled <=> i \in Spelled(pairs, prefix)
    BY <1>1, <1>2, <1>7, <2>1
  <2>3. Spelled(pairs, prefix) \subseteq DOMAIN pairs /\ spelled \subseteq DOMAIN pairs
    BY <1>1, <1>2
  <2> QED
    BY <2>2, <2>3
<1>12. \A j \in spelled : /\ j \in DOMAIN pairs /\ IsPrefix(prefix, pairs[j])
                          /\ pairs[j] \in Seq(Byte) /\ IsPrefix(name \o << 91 >>, pairs[j])
  BY <1>1, <1>4, <1>7, <1>8
<1>13. \A j \in spelled : BracketsFit(pairs[j]) /\ DictKey(pairs[j]) = KeyBehind(name, pairs[j])
  BY <1>3, <1>12, BracketsBehind, KeyIs
<1>14. given = spelled
  BY <1>10, <1>13
<1>15. \A i, j \in given : DictKey(pairs[j]) = DictKey(pairs[i]) => i <= j
  <2> SUFFICES ASSUME NEW i \in given, NEW j \in given, DictKey(pairs[j]) = DictKey(pairs[i])
               PROVE  i <= j
    OBVIOUS
  <2>1. i \in DOMAIN pairs /\ j \in DOMAIN pairs /\ i = j
    BY <1>9, <1>12, <1>13, <1>14
  <2> QED
    BY <1>8, <2>1
<1>16. GetDict(pairs, name) = spelled
  BY <1>5, <1>14, <1>15
<1>17. PoppedDict(pairs, name) = spelled
  BY <1>6, <1>11, <1>16
<1> QED
  BY <1>16, <1>17

(* If it takes just what it gives, and that is something, no key is there  *)
(* twice: the second pair with a key is taken and not given.               *)
LEMMA PopDictOnly ==
  ASSUME NEW pairs \in Seq(Seq(Byte)), NEW name \in Names,
         GetDict(pairs, name) # {},
         Left(pairs, PoppedDict(pairs, name)) = Left(pairs, GetDict(pairs, name))
  PROVE  KeysDiffer(pairs, name)
<1> DEFINE prefix == name \o Bytes(<<"[">>)
           spelled == Spelled(pairs, name)
           given == {i \in spelled : \A j \in spelled : j <= i => BracketsFit(pairs[j])}
           returned == GetDict(pairs, name)
           taken == PoppedDict(pairs, name)
<1>1. \A i : i \in spelled <=> i \in DOMAIN pairs /\ IsPrefix(name, pairs[i])
  BY DEF Spelled
<1>2. taken = Spelled(pairs, prefix)
  BY DEF PoppedDict
<1>3. \A i : i \in taken <=> i \in DOMAIN pairs /\ IsPrefix(prefix, pairs[i])
  BY <1>2 DEF Spelled
<1>4. /\ name \in Seq(Byte) /\ 91 \in Byte
      /\ \A i \in 1 .. Len(name) : name[i] \notin {91, 93}
  BY NamesArePlain, PlainIs, BytesOfPop DEF Plain
<1>5. prefix = name \o << 91 >>
  BY BytesOfPop
<1>6. \A i : i \in returned <=>
        i \in given /\ \A j \in given : DictKey(pairs[j]) = DictKey(pairs[i]) => i <= j
  BY DEF GetDict, DictPairs
<1>7. \A i \in DOMAIN pairs : pairs[i] \in Seq(Byte) /\ i \in Nat
  OBVIOUS
<1>8. \A i : i \in given <=> i \in spelled /\ \A j \in spelled : j <= i => BracketsFit(pairs[j])
  OBVIOUS
<1>9. Left(pairs, taken) = Left(pairs, returned)
  OBVIOUS
<1>10. taken \in SUBSET (DOMAIN pairs) /\ returned \in SUBSET (DOMAIN pairs)
  BY FoundAreThere
<1> HIDE DEF prefix, spelled, given, returned, taken
<1>11. \A i \in taken : /\ i \in DOMAIN pairs /\ pairs[i] \in Seq(Byte)
                        /\ IsPrefix(name \o << 91 >>, pairs[i])
  BY <1>3, <1>5, <1>7
<1>12. \A i \in taken : DictKey(pairs[i]) = KeyBehind(name, pairs[i])
  BY <1>4, <1>11, KeyIs
<1>13. taken \subseteq returned
  <2> SUFFICES ASSUME NEW k \in taken, k \notin returned PROVE FALSE
    OBVIOUS
  <2>1. k \in DOMAIN pairs \ returned
    BY <1>11
  <2>2. PICK n \in 1 .. Len(Left(pairs, returned)) : Left(pairs, returned)[n] = pairs[k]
    BY <1>10, <2>1, LeftHas
  <2>3. PICK x \in DOMAIN pairs \ taken : Left(pairs, taken)[n] = pairs[x]
    <3>1. /\ Len(Left(pairs, taken)) = Cardinality(DOMAIN pairs \ taken)
          /\ \A i \in 1 .. Cardinality(DOMAIN pairs \ taken) :
               \E y \in DOMAIN pairs \ taken :
                 /\ Left(pairs, taken)[i] = pairs[y]
                 /\ Cardinality({q \in DOMAIN pairs \ taken : q <= y}) = i
      BY <1>10, LeftIs
    <3>2. n \in 1 .. Cardinality(DOMAIN pairs \ taken)
      BY <1>9, <2>2, <3>1
    <3> QED
      BY <3>1, <3>2
  <2>4. pairs[x] = pairs[k]
    BY <1>9, <2>2, <2>3
  <2>5. x \in taken
    BY <1>3, <2>3, <2>4
  <2> QED
    BY <2>3, <2>5
<1>14. ASSUME NEW i \in taken, NEW j \in taken, KeyBehind(name, pairs[i]) = KeyBehind(name, pairs[j])
       PROVE  i <= j
  <2>1. i \in returned /\ j \in given
    BY <1>6, <1>13
  <2>2. DictKey(pairs[j]) = DictKey(pairs[i])
    BY <1>12, <1>14
  <2> QED
    BY <1>6, <2>1, <2>2
<1>15. ASSUME NEW i \in taken, NEW j \in taken, KeyBehind(name, pairs[i]) = KeyBehind(name, pairs[j])
       PROVE  i = j
  <2>1. i <= j /\ j <= i
    BY <1>14, <1>15
  <2>2. i \in Nat /\ j \in Nat
    BY <1>7, <1>11
  <2> QED
    BY <2>1, <2>2
<1>16. \A i, j \in DOMAIN pairs :
         /\ IsPrefix(prefix, pairs[i]) /\ IsPrefix(prefix, pairs[j])
         /\ KeyBehind(name, pairs[i]) = KeyBehind(name, pairs[j])
         => i = j
  BY <1>3, <1>15
<1> QED
  BY <1>16 DEF KeysDiffer, prefix

(* Whatever the URL, the names and the pairs popped before, a pop removes  *)
(* just what it gives if that is spelled plainly, with no key of a         *)
(* dictionary twice; pop and pop_list only then, and pop_dict never if a   *)
(* key is there twice and it gives something.                              *)
THEOREM PopsWhole == QuerySpec => PopRemovesWhatItReturns
<1> DEFINE pop == last_pop'
           removed == key_value_pairs' = Left(key_value_pairs, pop.returned)
           differ == pop.op = "pop_dict" => KeysDiffer(key_value_pairs, pop.name)
           Removes ==
             parsed # "no" /\ last_pop' # NoPop =>
               /\ SpelledAsTaken(key_value_pairs, pop) /\ differ => removed
               /\ removed /\ pop.returned # {} => differ
               /\ removed /\ pop.op # "pop_dict" => SpelledAsTaken(key_value_pairs, pop)
<1>1. ASSUME QueryInv, QueryNext, parsed # "no" PROVE Removes
  <2> DEFINE pairs == key_value_pairs
  <2>1. pairs \in Seq(Seq(Byte))
    BY <1>1 DEF QueryInv, QueryTypeOK, Byte
  <2>2. \A name \in Names : name \in Seq(Plain)
    BY NamesArePlain
  <2>3. ASSUME NEW op, NEW name, NEW returned, NEW taken, Take(op, name, returned, taken)
        PROVE  /\ pop.op = op /\ pop.name = name /\ pop.returned = returned
               /\ removed <=> Left(pairs, taken) = Left(pairs, returned)
    BY <2>3 DEF Take, Without
  <2> HIDE DEF pairs
  <2>4. ASSUME NEW name \in Names, Pop(name) PROVE Removes
    <3> DEFINE found == Found(pairs, name)
               returned == {i \in found : i = Min(found)}
    <3>1. Take("pop", name, returned, Popped(pairs, name))
      BY <2>4 DEF Pop, pairs
    <3>2. (\A i \in returned : IsPrefix(name \o Bytes(<<"=">>), pairs[i])) <=>
            Left(pairs, Popped(pairs, name)) = Left(pairs, returned)
      BY <2>1, <2>2, PopIs
    <3> HIDE DEF returned
    <3>3. pop.op = "pop" /\ pop.name = name /\ pop.returned = returned
          /\ (removed <=> Left(pairs, Popped(pairs, name)) = Left(pairs, returned))
      BY <2>3, <3>1
    <3>4. SpelledAsTaken(pairs, pop) <=>
            \A i \in returned : IsPrefix(name \o Bytes(<<"=">>), pairs[i])
      BY <3>3 DEF SpelledAsTaken
    <3> HIDE DEF removed, pop
    <3> QED
      BY <3>2, <3>3, <3>4 DEF pairs
  <2>5. ASSUME NEW name \in Names, PopList(name) PROVE Removes
    <3> DEFINE returned == GetList(pairs, name)
               taken == PoppedList(pairs, name)
    <3>1. Take("pop_list", name, returned, taken)
      BY <2>5 DEF PopList, pairs
    <3>2. (\A i \in returned : IsPrefix(ListName(name) \o Bytes(<<"=">>), pairs[i])) <=>
            Left(pairs, taken) = Left(pairs, returned)
      BY <2>1, <2>2, PopListIs
    <3> HIDE DEF returned, taken
    <3>3. pop.op = "pop_list" /\ pop.name = name /\ pop.returned = returned
          /\ (removed <=> Left(pairs, taken) = Left(pairs, returned))
      BY <2>3, <3>1
    <3>4. SpelledAsTaken(pairs, pop) <=>
            \A i \in returned : IsPrefix(ListName(name) \o Bytes(<<"=">>), pairs[i])
      BY <3>3 DEF SpelledAsTaken
    <3> HIDE DEF removed, pop
    <3> QED
      BY <3>2, <3>3, <3>4 DEF pairs
  <2>6. ASSUME NEW name \in Names, PopDict(name) PROVE Removes
    <3> DEFINE returned == GetDict(pairs, name)
               taken == PoppedDict(pairs, name)
    <3>1. Take("pop_dict", name, returned, taken)
      BY <2>6 DEF PopDict, pairs
    <3>2. (\A i \in DOMAIN pairs :
             IsPrefix(name, pairs[i]) => IsPrefix(name \o Bytes(<<"[">>), pairs[i]))
              /\ KeysDiffer(pairs, name)
            => Left(pairs, taken) = Left(pairs, returned)
      BY <2>1, PopDictIs
    <3>5. Left(pairs, taken) = Left(pairs, returned) /\ returned # {} => KeysDiffer(pairs, name)
      BY <2>1, PopDictOnly
    <3> HIDE DEF returned, taken
    <3>3. pop.op = "pop_dict" /\ pop.name = name /\ pop.returned = returned
          /\ (removed <=> Left(pairs, taken) = Left(pairs, returned))
      BY <2>3, <3>1
    <3>4. SpelledAsTaken(pairs, pop) <=>
            \A i \in DOMAIN pairs :
              IsPrefix(name, pairs[i]) => IsPrefix(name \o Bytes(<<"[">>), pairs[i])
      BY <3>3 DEF SpelledAsTaken
    <3> HIDE DEF removed, pop
    <3> QED
      BY <3>2, <3>3, <3>4, <3>5 DEF pairs
  <2>7. ~Write /\ ~Construct
    BY <1>1 DEF Write, Construct
  <2> HIDE DEF Removes
  <2> QED
    BY <1>1, <2>4, <2>5, <2>6, <2>7 DEF QueryNext
<1>2. QueryInv /\ [QueryNext]_queryVars => [Removes]_queryVars
  <2> HIDE DEF Removes
  <2>1. parsed = "no" => Removes
    BY DEF Removes
  <2> QED
    BY <1>1, <2>1
<1> QED
  BY <1>2, QueryInvariant, PTL DEF QuerySpec, PopRemovesWhatItReturns
=============================================================================
