----------------------------- MODULE JsonString -----------------------------
(***************************************************************************)
(* The characters of a JSON string as they are written and as they are     *)
(* meant (headers/crow/json.h, escape and rvalue::unescape).               *)
(***************************************************************************)
EXTENDS AsciiText

ShortEscapes ==
  [c \in {"\"", "\\", "\n", "bs", "\f", "\r", "\t"} |->
     CASE c = "\n" -> "n" [] c = "bs" -> "b" [] c = "\f" -> "f" [] c = "\r" -> "r"
       [] c = "\t" -> "t" [] OTHER -> c]
\* (mutant: only the quote is escaped)
EscapePlain(b) == IF b = Ascii["\""] THEN <<Ascii["\\"], b>> ELSE <<b>>
EscapeOf(b) ==
  LET short == {c \in DOMAIN ShortEscapes : Ascii[c] = b}
      hex(d) == IF d < 10 THEN Ascii["0"] + d ELSE Ascii["a"] + d - 10
  IN CASE short # {} -> Bytes(<<"\\", ShortEscapes[CHOOSE c \in short : TRUE]>>)
       [] short = {} /\ b < 32 -> Bytes(<<"\\", "u", "0", "0">>) \o <<hex(b \div 16), hex(b % 16)>>
       [] OTHER -> <<b>>
Escape(s) == FlattenSeq([i \in DOMAIN s |-> EscapeOf(s[i])])

\* A \uXXXX as UTF-8; each half of a surrogate pair by itself.
Utf8(code) ==
  CASE code >= 2048 -> <<224 + (code \div 4096), 128 + ((code \div 64) % 64), 128 + (code % 64)>>
    [] code < 2048 /\ code >= 128 -> <<192 + code \div 64, 128 + (code % 64)>>
    [] OTHER -> <<code>>

Unescaped(c) ==
  LET long == {k \in DOMAIN ShortEscapes : Ascii[ShortEscapes[k]] = c}
  IN IF long = {} THEN c ELSE Ascii[CHOOSE k \in long : TRUE]

\* The character at p: what it stands for, and where the next one begins.
Escaped(s, p) == Is(s, p, "\\")
Hex4(s, p) ==
  4096 * FromHex(At(s, p)) + 256 * FromHex(At(s, p + 1))
    + 16 * FromHex(At(s, p + 2)) + FromHex(At(s, p + 3))
CharAt(s, p) ==
  CASE ~Escaped(s, p) -> <<s[p]>>
    [] Escaped(s, p) /\ Is(s, p + 1, "u") -> Utf8(Hex4(s, p + 2))
    [] OTHER -> <<Unescaped(At(s, p + 1))>>
AfterChar(s, p) ==
  CASE ~Escaped(s, p) -> p + 1
    [] Escaped(s, p) /\ Is(s, p + 1, "u") -> p + 6
    [] OTHER -> p + 2

Unescape(s) ==
  LET from[p \in Nat] ==
        IF p \in DOMAIN s THEN CharAt(s, p) \o from[AfterChar(s, p)] ELSE <<>>
  IN from[1]
=============================================================================
