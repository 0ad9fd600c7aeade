------------------------------- MODULE Tables -------------------------------
(***************************************************************************)
(* The normalized result of a provider (providers/contracts.py): a table    *)
(* of rows, how many it observed and whether the rows are complete.  A      *)
(* provider that raises ProviderFailure, DomainError or ValueError refuses  *)
(* its input instead.                                                       *)
(***************************************************************************)
EXTENDS Integers, Sequences, FiniteSets, FiniteSetsExt, SequencesExt

CONSTANT
    Limits    \* the bounds the decoders declare, scaled down for TLC

ASSUME DecoderLimits == \A name \in DOMAIN Limits : Limits[name] \in Nat \ {0}

Refused == [ok |-> FALSE, rows |-> <<>>, observed |-> 0, complete |-> FALSE]
Table(rows, observed, complete) ==
    [ok |-> TRUE, rows |-> rows, observed |-> observed, complete |-> complete]

Capped(rows, bound) == SubSeq(rows, 1, Min({bound, Len(rows)}))
Bounded(rows, bound) == Table(Capped(rows, bound), Len(rows), Len(rows) <= bound)

(* Lists of unequal integers, and a set in the order of such keys *)
Before(k, l) ==
    \E i \in DOMAIN k : k[i] < l[i] /\ \A j \in 1..(i - 1) : k[j] = l[j]
Sorted(S, Key(_)) ==
    LET keyed == { <<Key(x), x>> : x \in S }
        At(i) == CHOOSE p \in keyed : Quantify(keyed, LAMBDA q : Before(q[1], p[1])) = i - 1
    IN SubSeq([i \in 1..Cardinality(S) |-> At(i)[2]], 1, Cardinality(S))

(* The places of the elements of several sequences: <<i, j>> is s[i][j] *)
Places(s) == UNION { {i} \X DOMAIN s[i] : i \in DOMAIN s }
=============================================================================
