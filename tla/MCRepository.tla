---------------------------- MODULE MCRepository ----------------------------
(***************************************************************************)
(* Small instances of Repository for TLC.                                  *)
(***************************************************************************)
EXTENDS Repository, TLC

CONSTANTS p1, p2, p3, a1, a2, e1

(* One manifest with one artifact, for three processes: a third one can
   sweep, or win a race, while another publishes. *)
OneArtifact == (e1 :> <<a1>>)

(* One manifest with two artifacts, one of them under two roles, for two
   processes: each may be ahead of the other in the sequence. *)
Repeated == (e1 :> <<a1, a2, a1>>)

Processes == Permutations(Proc)

=============================================================================
