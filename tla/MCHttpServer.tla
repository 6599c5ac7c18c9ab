---------------------------- MODULE MCHttpServer ----------------------------
(* Instances of HttpServer: every kind of answer, and the shortest clients  *)
(* on which a deadline is lost.                                             *)
EXTENDS HttpServer

OneOrTwo == {1, 2}
One == {1}
TwoConns == 1 .. 2
AllRequests ==
  {[what |-> a, close |-> FALSE] :
     a \in {"general", "long", "static", "lost", "later", "upgrade", "throws"}}
  \cup {[what |-> a, close |-> TRUE] : a \in {"general", "later"}}
Inputs == [n \in OneOrTwo |-> IF n = 1 THEN 2 ELSE 0]
OneInput == [n \in One |-> 1]
PlainRequests == {[what |-> "general", close |-> FALSE]}

=============================================================================
