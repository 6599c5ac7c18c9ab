------------------------------ MODULE UriParts ------------------------------
(***************************************************************************)
(* The URL of a camera taken apart (UriParts.cpp): user, password, address *)
(* and path, as searches for single characters find them.  What AddRtsp    *)
(* makes of them is in TranscodingService; the paths of the channel are in *)
(* MountPaths.                                                             *)
(***************************************************************************)
EXTENDS AsciiText

CONSTANTS
  UriPieces,        \* the pieces a URL is built of
  MaxUriPieces      \* a bound: how many

ASSUME UriPartsAssumption == UriPieces \subseteq Seq(1..255) /\ MaxUriPieces \in Nat

VARIABLES uri, pieces

uriVars == <<uri, pieces>>

----------------------------------------------------------------------------
\* What is before the first of a character, and what is behind it.
Cut(s, char) ==
  LET head == Before(s, Codes({char}))
  IN [head |-> head, tail |-> SubSeq(s, Len(head) + 2, Len(s)), cut |-> head # s]

DefaultPort == Bytes(<<"5", "5", "4">>)
SlashSlash(s) == {i \in DOMAIN s : Is(s, i, "/") /\ Is(s, i + 1, "/")}

Parts(login, place) ==
  LET name == Cut(login, ":")
      address == Cut(place.head, ":")
  IN [username |-> name.head, password |-> name.tail, ip |-> address.head,
      port |-> IF address.cut THEN address.tail ELSE DefaultPort, path |-> place.tail]

\* parseUri throws without a "//".
NoParts == [throws |-> TRUE]
\* (mutant: any colon ends the user)
ParseUriAnyColon(s) ==
  LET after == SubSeq(s, Min(SlashSlash(s)) + 2, Len(s))
      at == Cut(after, "@")
  IN IF SlashSlash(s) = {} THEN NoParts
     ELSE IF at.cut THEN [Parts(at.head, Cut(at.tail, "/")) EXCEPT !.username = Cut(after, ":").head]
     ELSE Parts(<<>>, Cut(after, "/"))
ParseUri(s) ==
  LET after == SubSeq(s, Min(SlashSlash(s)) + 2, Len(s))
      at == Cut(after, "@")
  IN IF SlashSlash(s) = {} THEN NoParts
     ELSE IF at.cut THEN Parts(at.head, Cut(at.tail, "/")) ELSE Parts(<<>>, Cut(after, "/"))

----------------------------------------------------------------------------
UriInit == uri = <<>> /\ pieces = 0

\* The operator types the URL of a camera.
Spell ==
  /\ pieces < MaxUriPieces
  /\ \E piece \in UriPieces : uri' = uri \o piece
  /\ pieces' = pieces + 1

UriSpec == UriInit /\ [][Spell]_uriVars

UriTypeOK == uri \in Seq(1..255) /\ pieces \in 0..MaxUriPieces

(* "//" begins the authority, which goes up to the next "/" and has user and *)
(* password up to its first "@".  parseUri finds just these parts, unless    *)
(* the only "@" is in the path: that one it takes for the end of a password. *)
PartsAreOfAuthority ==
  SlashSlash(uri) # {} =>
    LET first == Min(SlashSlash(uri)) + 2
        slash == Min({i \in first..Len(uri) : Is(uri, i, "/")} \cup {Len(uri) + 1})
        ats == {i \in first..Len(uri) : Is(uri, i, "@")}
        named == {i \in ats : i < slash}
        at == IF named = {} THEN first - 1 ELSE Min(named)
        colons(a, b) == {i \in a..b : Is(uri, i, ":")}
        user == Min(colons(first, at - 1) \cup {Max({at, first})})
        host == Min(colons(at + 1, slash - 1) \cup {slash})
    IN ParseUri(uri) =
         [username |-> SubSeq(uri, first, user - 1), password |-> SubSeq(uri, user + 1, at - 1),
          ip |-> SubSeq(uri, at + 1, host - 1),
          port |-> IF host = slash THEN DefaultPort ELSE SubSeq(uri, host + 1, slash - 1),
          path |-> SubSeq(uri, slash + 1, Len(uri))]
       <=> (named # {} \/ ats = {})
=============================================================================
