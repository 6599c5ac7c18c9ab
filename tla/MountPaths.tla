----------------------------- MODULE MountPaths -----------------------------
(***************************************************************************)
(* The paths of a channel and the search RemoveClientWithId makes in them. *)
(* A path is a sequence of tokens; a channel id is any non-empty sequence  *)
(* of them, so that one id may be a prefix of another or the name of a     *)
(* profile, as they may be in the code.                                    *)
(***************************************************************************)
EXTENDS Naturals, SequencesExt

ProfileName == <<"first", "second", "third", "fourth">>

(* parseUri: mount_points.uri_first .. uri_fourth.                         *)
MountPath(id, p) == <<"/">> \o id \o <<"/", ProfileName[p]>>

(* The abspath of the SETUP for the mount's only stream, pay0.             *)
SetupPath(id, p) == MountPath(id, p) \o <<"/", "stream", "=0">>

(* std::string::find(part) != npos.                                        *)
Occurs(part, path) == part \in SubSeqs(path)

(* RemoveClientWithId(id): the mounts of ids whose clients it drops.       *)
HitsOf(id, ids, profiles) ==
  {m \in ids \X profiles : Occurs(<<"/">> \o id, SetupPath(m[1], m[2]))}

=============================================================================
