------------------------------ MODULE UrlTrie ------------------------------
(***************************************************************************)
(* The router's search trees (headers/crow/routing.h, class Trie and       *)
(* Router): one tree per HTTP method holds the URLs of its rules, each     *)
(* node a piece of a URL or a parameter.                                   *)
(***************************************************************************)
EXTENDS UrlRules

NodeFor(token) ==
  IF ParamType(token) = "NONE" THEN Node(<<token>>, "NONE") ELSE Node(<<>>, ParamType(token))

\* The child Trie::add goes on to: the same type, or the same first character.
Continues(child, token) ==
  IF ParamType(token) = "NONE"
  THEN child.key # <<>> /\ Head(child.key) = token
  ELSE child.param = ParamType(token)

\* The node reached from node by the tokens of url, added where missing, with
\* its rule set.
RECURSIVE Add(_, _, _)
Add(node, url, rule) ==
  IF url = <<>> THEN [node EXCEPT !.rule = rule]
  ELSE LET i == SelectInSeq(node.children, LAMBDA c : Continues(c, Head(url)))
       IN IF i # 0
          THEN [node EXCEPT !.children[i] = Add(@, Tail(url), rule)]
          ELSE [node EXCEPT !.children = Append(@, Add(NodeFor(Head(url)), Tail(url), rule))]

\* "handler already exists": a rule ends already where this URL ends.
RECURSIVE Taken(_, _)
Taken(node, url) ==
  IF url = <<>> THEN node.rule # 0
  ELSE \E c \in ToSet(node.children) : Continues(c, Head(url)) /\ Taken(c, Tail(url))

\* (mutant: a node with a rule of its own is merged, too)
IsSimpleNodeUnruled(node) ==
  /\ node.param = "NONE"
  /\ Len(node.children) < 2
  /\ \A c \in ToSet(node.children) : c.param = "NONE"

IsSimpleNode(node) ==
  /\ node.rule = 0 /\ node.param = "NONE"
  /\ Len(node.children) < 2
  /\ \A c \in ToSet(node.children) : c.param = "NONE"

\* A simple node takes its only child's place, key and rule.
RECURSIVE OptimizeNode(_)
OptimizeNode(node) ==
  IF node.children = <<>> THEN node
  ELSE IF IsSimpleNode(node)
       THEN LET child == node.children[1]
            IN OptimizeNode([child EXCEPT !.key = node.key \o @])
       ELSE [node EXCEPT !.children = [i \in DOMAIN @ |-> OptimizeNode(@[i])]]

Optimize(head) == [head EXCEPT !.children = [i \in DOMAIN @ |-> OptimizeNode(@[i])]]

----------------------------------------------------------------------------
(* Trie::find: every child that takes a piece of the URL is searched, and   *)
(* the smallest rule found wins.                                            *)

Missing == [rule |-> 0, params |-> NoParams]
\* (mutant: the last rule found wins)
UpdateFoundLast(found, ret) == IF ret.rule # 0 THEN ret ELSE found
UpdateFound(found, ret) ==
  IF ret.rule # 0 /\ (found.rule = 0 \/ found.rule > ret.rule) THEN ret ELSE found

RECURSIVE FindFrom(_, _, _, _)
FindFrom(node, url, pos, params) ==
  IF pos > Len(url) THEN [rule |-> node.rule, params |-> params]
  ELSE LET search(child) ==
             IF child.param = "NONE"
             THEN IF IsPrefix(child.key, SubSeq(url, pos, Len(url)))
                  THEN FindFrom(child, url, pos + Len(child.key), params)
                  ELSE Missing
             ELSE LET end == ParamEnd(child.param, url, pos)
                  IN IF end = pos THEN Missing
                     ELSE FindFrom(child, url, end, Push(params, child.param, url, pos, end))
       IN FoldLeft(LAMBDA found, child : UpdateFound(found, search(child)), Missing, node.children)

Find(head, url) == FindFrom(head, url, 1, NoParams)

----------------------------------------------------------------------------
(* The trees are built from the declared rules (Router::validate).          *)

Conflicts(per_method, rule) ==
  \/ Taken(per_method.trie, rule.url)
  \/ HasSlash(rule) /\ Taken(per_method.trie, Front(rule.url))

AddRuleObject(per_method, rule) ==
  LET trie == Add(per_method.trie, rule.url, Len(per_method.rules))
  IN [rules |-> Append(per_method.rules, rule),
      trie |-> IF HasSlash(rule) THEN Add(trie, Front(rule.url), RULE_SPECIAL_REDIRECT_SLASH) ELSE trie]

\* The rules are added in order until one is refused.
AddNext(v, rule) ==
  IF \/ ~v.ok
     \/ rule.does # "socket" /\ (rule.does = "nothing" \/ Head(rule.url) # "/")
     \/ \E m \in rule.methods : Conflicts(v.table[m], rule)
  THEN [v EXCEPT !.ok = FALSE]
  ELSE [v EXCEPT !.table = [m \in Methods |->
         IF m \in rule.methods THEN AddRuleObject(@[m], rule) ELSE @[m]]]

Validated(rules) ==
  LET added == FoldLeft(LAMBDA v, r : AddNext(v, Upgraded(r)),
                        [table |-> [m \in Methods |-> NoRules], ok |-> TRUE], rules)
      simple == \A m \in Methods : IsSimpleNode(added.table[m].trie)
  IN [table |-> [m \in Methods |-> [added.table[m] EXCEPT !.trie = Optimize(@)]],
      ok |-> added.ok /\ simple]
=============================================================================
