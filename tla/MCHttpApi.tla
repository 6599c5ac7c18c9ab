------------------------------ MODULE MCHttpApi ------------------------------
(***************************************************************************)
(* HttpApi for TLC.                                                        *)
(***************************************************************************)
EXTENDS HttpApi, TLC

Symmetry ==
  Permutations(Callers) \cup Permutations(Ids) \cup Permutations(Urls)

=============================================================================
