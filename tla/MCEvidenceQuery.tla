--------------------------- MODULE MCEvidenceQuery ---------------------------
(***************************************************************************)
(* A small instance of EvidenceQuery for TLC.                              *)
(***************************************************************************)
EXTENDS EvidenceQuery

(* Two directories, one of them with digests on both sides of the other's *)
ThreeDigests == 1 .. 3
ByParity == [e \in ThreeDigests |-> e % 2]

(* Everything, and a filter that skips an entry *)
TwoFilters == { {1, 2, 3}, {1, 3} }

=============================================================================
