----------------------------- MODULE AsciiText -----------------------------
(***************************************************************************)
(* Texts as the C strings that Crow's JSON and query string parsers walk   *)
(* through: sequences of bytes, with a NUL behind the last one.            *)
(***************************************************************************)
EXTENDS Integers, Sequences, SequencesExt, TLC

Ascii ==
  [c \in {"nul", "bs", "\t", "\n", "\f", "\r", " ", "\"", "#", "%", "&", "+",
          ",", "-", ".", "/", "0", "1", "4", "5", "6", "9", ":", "=", "?", "@",
          "A", "E", "F", "[", "\\", "]", "a", "b", "e", "f", "l", "n", "r",
          "s", "t", "u", "{", "}"} |->
     CASE c = "nul" -> 0 [] c = "bs" -> 8 [] c = "\t" -> 9 [] c = "\n" -> 10
       [] c = "\f" -> 12 [] c = "\r" -> 13 [] c = " " -> 32 [] c = "\"" -> 34
       [] c = "#" -> 35 [] c = "%" -> 37 [] c = "&" -> 38 [] c = "+" -> 43
       [] c = "," -> 44 [] c = "-" -> 45 [] c = "." -> 46 [] c = "/" -> 47
       [] c = "0" -> 48 [] c = "1" -> 49 [] c = "4" -> 52 [] c = "5" -> 53
       [] c = "6" -> 54 [] c = "9" -> 57 [] c = ":" -> 58 [] c = "=" -> 61
       [] c = "?" -> 63 [] c = "@" -> 64 [] c = "A" -> 65 [] c = "E" -> 69
       [] c = "F" -> 70 [] c = "[" -> 91 [] c = "\\" -> 92 [] c = "]" -> 93
       [] c = "a" -> 97 [] c = "b" -> 98 [] c = "e" -> 101 [] c = "f" -> 102
       [] c = "l" -> 108 [] c = "n" -> 110 [] c = "r" -> 114
       [] c = "s" -> 115 [] c = "t" -> 116 [] c = "u" -> 117
       [] c = "{" -> 123 [] c = "}" -> 125]
Bytes(chars) == [i \in DOMAIN chars |-> Ascii[chars[i]]]
Codes(chars) == {Ascii[c] : c \in chars}

At(s, p) == IF p \in DOMAIN s THEN s[p] ELSE Ascii["nul"]
Is(s, p, char) == At(s, p) = Ascii[char]

\* What is before the first of these bytes, as strcspn measures it.
Before(s, codes) ==
  SubSeq(s, 1, Min({i \in DOMAIN s : s[i] \in codes} \cup {Len(s) + 1}) - 1)

Digits == Ascii["0"]..Ascii["9"]
IsHex(b) == b \in Digits \cup (Ascii["a"]..Ascii["f"]) \cup (Ascii["A"]..Ascii["F"])
FromHex(b) ==
  CASE b >= Ascii["a"] -> b - Ascii["a"] + 10
    [] b < Ascii["a"] /\ b >= Ascii["A"] -> b - Ascii["A"] + 10
    [] OTHER -> b - Ascii["0"]
=============================================================================
