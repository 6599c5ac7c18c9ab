------------------------------- MODULE MCText -------------------------------
(* The text handling of the server for TLC: a behaviour is about texts, about
   strings read, arrays grown, values written, query strings or camera URLs.  *)
EXTENDS JsonText, JsonRead, JsonWrite, QueryString, UriParts

VARIABLE part

MCPieces ==
  [numbers   |-> {Bytes(p) : p \in {<<"0">>, <<"1">>, <<".">>, <<"e">>, <<"+">>, <<"-">>}},
   structure |-> {Bytes(p) : p \in {<<"[">>, <<"]">>, <<"{">>, <<"}">>, <<",">>, <<":">>, <<"1">>,
                                    <<" ">>, <<"t", "r">>, <<"n", "u", "l", "l">>,
                                    <<"\"", "a", "\"">>, <<"\"", "a", "\"", ":">>}},
   strings   |-> {Bytes(p) : p \in {<<"\"">>, <<"\n">>, <<"nul">>, <<"0">>, <<"\\", "n">>, <<"\\", "a">>,
                                    <<"\\", "\\">>, <<"\\", "\"">>, <<"\\", "u", "0">>,
                                    <<"\\", "u", "0", "0", "0", "1">>,
                                    <<"\\", "u", "0", "0", "e", "9">>}} \cup {<<233>>}]
MCMaxPieces == [numbers |-> 7, structure |-> 7, strings |-> 5]

MCStrings == {Bytes(p) : p \in {<<"a">>, <<"\\", "\\", "n", "a">>,
                                <<"\\", "n", "\\", "u", "0", "0", "e", "9", "a">>}}

Scalar(t, c) == [t |-> t, c |-> c]
MCScalars == {Scalar("Number", 1), Scalar("String", 1)}

MCUrlPieces == {Bytes(p) : p \in {<<"?">>, <<"a">>, <<"=">>, <<"&">>, <<"%", "6", "1">>,
                                  <<"%">>, <<"%", "0", "0">>, <<"#">>, <<"a", "]", "[">>, <<"a", "[", "]", "=">>, <<"a", "[", "b", "]", "=">>}}
MCNames == {Bytes(<<"a">>), Bytes(<<"a", "a">>)}

MCUriPieces == {Bytes(p) : p \in {<<"/", "/">>, <<"/">>, <<":">>, <<"@">>, <<"a">>}}

vars == <<part, textVars, readVars, writeVars, queryVars, uriVars>>

Init ==
  /\ part \in {"text", "strings", "lists", "write", "query", "uri"}
  /\ IF part = "text" THEN TextInit ELSE kind = "numbers" /\ count = 0 /\ text = <<>>
  /\ ReadInit
  /\ WriteInit
  /\ QueryInit
  /\ UriInit

Next ==
  /\ UNCHANGED part
  /\ \/ part = "text" /\ Extend /\ UNCHANGED <<readVars, writeVars, queryVars, uriVars>>
     \/ part = "strings" /\ ReadStrings /\ UNCHANGED <<textVars, writeVars, queryVars, uriVars>>
     \/ part = "lists" /\ ReadLists /\ UNCHANGED <<textVars, writeVars, queryVars, uriVars>>
     \/ part = "write" /\ WriteNext /\ UNCHANGED <<textVars, readVars, queryVars, uriVars>>
     \/ part = "uri" /\ Spell /\ UNCHANGED <<textVars, readVars, writeVars, queryVars>>
     \/ part = "query" /\ QueryNext /\ UNCHANGED <<textVars, readVars, writeVars, uriVars>>

Spec == Init /\ [][Next]_vars

TypeOK == TextTypeOK /\ ReadTypeOK /\ WriteTypeOK /\ QueryTypeOK /\ UriTypeOK
=============================================================================
