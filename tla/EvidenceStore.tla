--------------------------- MODULE EvidenceStore ---------------------------
(***************************************************************************)
(* What the evidence repository promises its readers, with no processes,   *)
(* staging or crashes: docs/storage-and-evidence.md, "Publication".  Two   *)
(* sets of content-addressed bundles that only grow, in which an evidence  *)
(* bundle never appears before every native artifact it refers to.         *)
(***************************************************************************)
EXTENDS Functions

CONSTANTS
    Artifact,   \* digests of native artifacts
    Evidence,   \* digests of canonical manifest bodies
    Parts       \* the artifacts a manifest refers to, in publication order:
                \* RepositoryConstants assumes of all three what it needs

VARIABLES
    artifacts,  \* the published artifact bundles
    evidence    \* the published evidence bundles

PartsOf(e) == Range(Parts[e])

Init ==
    /\ artifacts = {}
    /\ evidence = {}

PublishArtifact(a) ==
    /\ artifacts' = artifacts \cup {a}
    /\ UNCHANGED evidence

PublishEvidence(e) ==
    /\ PartsOf(e) \subseteq artifacts
    /\ evidence' = evidence \cup {e}
    /\ UNCHANGED artifacts

Next ==
    \/ \E a \in Artifact : PublishArtifact(a)
    \/ \E e \in Evidence : PublishEvidence(e)

Spec == Init /\ [][Next]_<<artifacts, evidence>>

============================================================================
