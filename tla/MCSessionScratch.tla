-------------------------- MODULE MCSessionScratch --------------------------
(***************************************************************************)
(* Small instances of SessionScratch for TLC.                              *)
(***************************************************************************)
EXTENDS SessionScratch, TLC

CONSTANTS c1, c2, d1, d2, x1, m1, m2

UnitSize == [r \in Bundle \cup Export |-> 1]

File(r, m) == [root |-> r, member |-> m]
Reading(evidence, paths) == [evidence |-> evidence, paths |-> paths]

(* The evidence directory is a report that a converter exports *)
OneExport == (Top(d1) :> x1)
NoExport == [p \in {} |-> x1]

(* A captured file by itself, another one next to an evidence directory, and
   a file of the materialized directory. *)
Mixed ==
    { Reading(<<>>, {File(c1, m1)}),
      Reading(<<d1>>, {File(c1, m2)}),
      Reading(<<>>, {File(d1, m1)}) }

(* A captured file, compared with one evidence directory and then another *)
Baselines ==
    { Reading(<<d1>>, {File(c1, m1)}), Reading(<<d2>>, {File(c1, m1)}) }

(* One file of a capture, and another one with an evidence directory *)
Siblings ==
    { Reading(<<>>, {File(c1, m1)}), Reading(<<d1>>, {File(c1, m2)}) }

=============================================================================
