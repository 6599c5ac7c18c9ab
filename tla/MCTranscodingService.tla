------------------------ MODULE MCTranscodingService ------------------------
(***************************************************************************)
(* TranscodingService for TLC: ids are short token sequences and PathHits  *)
(* is computed from their paths.                                           *)
(***************************************************************************)
EXTENDS TranscodingService, MountPaths, TLC

(* Two ids, neither of whose paths contains the other's.                   *)
DistinctIds == {<<"gate">>, <<"yard">>}

(* "cam1" and "cam10".                                                     *)
PrefixIds == {<<"cam1">>, <<"cam1", "0">>}

OneId == {<<"gate">>}

MCPathHits == [i \in Ids |-> HitsOf(i, Ids, Profiles)]

Symmetry == Permutations(Workers) \cup Permutations(Clients)

=============================================================================
