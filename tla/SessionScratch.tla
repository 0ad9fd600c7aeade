--------------------------- MODULE SessionScratch ---------------------------
(***************************************************************************)
(* The analysis cache and the scratch directory of one server session      *)
(* (AnalysisRuntime in src/flameox/runtime.py), with the captures that     *)
(* reserve room in it.  Every phase that touches this state runs under the *)
(* request lock (run_in_request), so each locked phase is one action here; *)
(* what interleaves is everything between two phases of a capture, whose   *)
(* workload runs, and writes, without the lock.                            *)
(*                                                                         *)
(* The code bounds scratch in bytes and in files, the same way: Size,      *)
(* Ceiling and the reservations below stand for either of the two.         *)
(***************************************************************************)
EXTENDS Naturals, Sequences, FiniteSets, FiniteSetsExt, Functions

CONSTANTS
    Capture,        \* capture scratch roots, capture-<random>
    Bundle,         \* destinations of materialized evidence directories
    Export,         \* outputs of external converters
    Member,         \* names of files inside a root
    Whole,          \* the root itself, as a path
    Size,           \* what a bundle or an export takes
    ExportOf,       \* the export a decoder makes of a path, if it makes one
    Analyzed,       \* the captured files that a capture's own analysis may read
    Requests,       \* what clients ask to analyze
    Reservation,    \* output budgets a capture may declare
    Overshoot,      \* what a workload writes beyond its budget before a sample
    Ceiling,        \* MAX_SESSION_SCRATCH_BYTES / MAX_SESSION_SCRATCH_FILES
    MaxAnalyses,    \* MAX_SESSION_ANALYSES
    None

Root  == Capture \cup Bundle \cup Export
Path  == [root : Root, member : Member \cup {Whole}]
Top(r) == [root |-> r, member |-> Whole]
RootsOf(paths) == { p.root : p \in paths }

ASSUME SessionConstants ==
    /\ Whole \notin Member
    /\ None \notin Capture
    /\ Capture \cap (Bundle \cup Export) = {}
    /\ Size \in [Bundle \cup Export -> Nat]
    /\ ExportOf \in [DOMAIN ExportOf -> Export]
    /\ Analyzed \subseteq SUBSET Member
    /\ Requests \subseteq [evidence : Seq(Bundle), paths : SUBSET Path]
    /\ Reservation \subseteq Nat \ {0}
    /\ Overshoot \in Nat /\ Ceiling \in Nat /\ MaxAnalyses \in Nat \ {0}

VARIABLES
    session,    \* the caches and what is on disk, see Sessions
    phase,      \* where each capture is
    reserved,   \* _capture_reservations
    written,    \* what is in each capture root
    reply       \* how the last locked phase ended, its inputs, and all it pinned

vars == <<session, phase, reserved, written, reply>>

(* An analysis handle hashes what was analyzed; a failed one the capture too *)
Handle == [asked : SUBSET Path, failedIn : Capture \cup {None}]
Cached == [sources : SUBSET Path, preserved : BOOLEAN]

(* older and staler are the least-recently-used orders of the two caches *)
Empty == [analyses |-> <<>>, older |-> {}, artifacts |-> {}, staler |-> {},
          disk |-> {}]

Active == { c \in Capture : phase[c] # "idle" }

(***************************************************************************)
(* Commitment, release and eviction (runtime.py:304-408, 3303-3319).       *)
(***************************************************************************)

(* OrderedDict.move_to_end for each of the keys ks in turn *)
MovedToEnd(order, keys, ks) ==
    { pair \in order : {pair[1], pair[2]} \cap Range(ks) = {} }
    \cup ((keys \ Range(ks)) \X Range(ks))
    \cup { <<ks[k[1]], ks[k[2]]>> :
             k \in { k \in (1 .. Len(ks)) \X (1 .. Len(ks)) : k[1] < k[2] } }

Without(order, keys) ==
    { pair \in order : {pair[1], pair[2]} \cap keys = {} }

Overlap(p, q) ==
    /\ p.root = q.root
    /\ p.member = q.member \/ Whole \in {p.member, q.member}

(* Mutation: a reservation is admitted and then forgotten. *)
WrittenOnly == [r \in Root |-> IF r \notin Capture THEN Size[r] ELSE written[r]]

(* Written bytes consume a reservation instead of being counted twice *)
Weight ==
    [r \in Root |-> IF r \notin Capture THEN Size[r]
                    ELSE IF r \in Active THEN Max({reserved[r], written[r]})
                    ELSE written[r]]

Commitment(s) == SumFunctionOnSet(Weight, s.disk \cup Active)

Fits(s, wanted) == Commitment(s) + wanted <= Ceiling

(* Mutation: leaves the cached artifacts of a removed root behind. *)
RemovedFromDisk(s, roots) == [s EXCEPT !.disk = @ \ roots]

Removed(s, roots) ==
    [s EXCEPT !.disk = @ \ roots, !.artifacts = @ \ roots,
              !.staler = Without(@, roots)]

(* Some handle that is not preserved yet still needs this root *)
Needed(analyses, r) ==
    \E h \in DOMAIN analyses :
        ~analyses[h].preserved /\ r \in RootsOf(analyses[h].sources)

(* Mutation: does not ask what other handles need. *)
ReleasedAnyway(s, sources, pinned) ==
    Removed(s, RootsOf(sources) \ (Active \cup RootsOf(pinned)))

(* Mutation: does not ask which captures are still open. *)
ReleasedWhileActive(s, sources, pinned) ==
    Removed(s, { r \in RootsOf(sources) : ~Needed(s.analyses, r) /\ r \notin RootsOf(pinned) })

(* _release_analysis_scratch, for the sources of handles just given up *)
Released(s, sources, pinned) ==
    Removed(s, { r \in RootsOf(sources) :
                   /\ ~Needed(s.analyses, r)
                   /\ r \notin Active \cup RootsOf(pinned) })

Evicted(s, handles, pinned) ==
    Released([s EXCEPT !.analyses = Restrict(@, DOMAIN @ \ handles),
                       !.older = Without(@, handles)],
             UNION { s.analyses[h].sources : h \in handles }, pinned)

(* Mutation: protects captures, not the inputs of the request. *)
PrunedUnpinned(s, pinned, protected, wanted) ==
    LET kept  == protected \cup { Top(c) : c \in Active }
        free  == { h \in DOMAIN s.analyses :
                     \A p \in s.analyses[h].sources, q \in kept : ~Overlap(p, q) }
        t     == IF Fits(s, wanted) THEN s ELSE Evicted(s, free, {})
        loose == t.artifacts \ RootsOf(kept)
    IN  IF Fits(t, wanted) THEN t ELSE Removed(t, loose)

(* _prune_scratch: a handle goes when evicting all that are older than it
   makes no room, then an artifact likewise, except what is protected. *)
Pruned(s, pinned, protected, wanted) ==
    LET kept  == pinned \cup protected \cup { Top(c) : c \in Active }
        free  == { h \in DOMAIN s.analyses :
                     \A p \in s.analyses[h].sources, q \in kept : ~Overlap(p, q) }
        victims == { h \in free :
                       LET before == { g \in free : <<g, h>> \in s.older }
                       IN  ~Fits(Evicted(s, before, pinned), wanted) }
        t     == Evicted(s, victims, pinned)
        loose == t.artifacts \ RootsOf(kept)
    IN  Removed(t, { a \in loose :
                       LET before == { b \in loose : <<b, a>> \in t.staler }
                       IN  ~Fits(Removed(t, before), wanted) })

(* _cache_analysis: newest last, the oldest beyond MAX_SESSION_ANALYSES go *)
Stored(s, handle, sources, pinned) ==
    LET keys == DOMAIN s.analyses \cup {handle}
        t == [s EXCEPT
                !.analyses = [h \in keys |-> IF h = handle
                                THEN [sources |-> sources, preserved |-> FALSE]
                                ELSE @[h]],
                !.older = MovedToEnd(@, keys, <<handle>>)]
        oldest == { h \in keys : Cardinality({ g \in keys : <<h, g>> \in t.older })
                                   >= MaxAnalyses }
    IN  Evicted(t, oldest, pinned)

Used(s, handle) ==
    [s EXCEPT !.older = MovedToEnd(@, DOMAIN s.analyses, <<handle>>)]

(***************************************************************************)
(* analyze (runtime.py:410-678).                                           *)
(***************************************************************************)

(* _materialize_evidence_bundle, for each bundle of a list *)
Materialized(s, bundles) ==
    [s EXCEPT !.disk = @ \cup Range(bundles), !.artifacts = @ \cup Range(bundles),
              !.staler = MovedToEnd(@, s.artifacts, bundles)]

(* A converter's output, kept unless the ceiling cannot take it *)
Converted(s, x, pinned) ==
    LET t == Materialized(s, <<x>>)
        u == Pruned(t, pinned, {Top(x)}, 0)
    IN  IF x \in s.artifacts THEN [ok |-> TRUE, state |-> t]
        ELSE IF Fits(u, 0) THEN [ok |-> TRUE, state |-> u]
        ELSE [ok |-> FALSE, state |-> Removed(u, {x})]

(* What a failed request acquired and no cached handle uses *)
Discarded(before, s) ==
    Removed(s, { a \in s.artifacts \ before.artifacts :
                   \A h \in DOMAIN s.analyses :
                       a \notin RootsOf(s.analyses[h].sources) })

Asked(request) ==
    request.paths \cup { Top(d) : d \in Range(request.evidence) }

(* Everything analyze can do with a request: its sources or the ceiling refuse
   it, a bundle or the analysis fails, the handle is a hit, or the result is
   cached. *)
Outcomes(s, request) ==
    LET asked  == Asked(request)
        handle == [asked |-> asked, failedIn |-> None]
        wanted == SumFunctionOnSet(Weight, Range(request.evidence) \ s.disk)
        room   == Pruned(s, asked, {}, wanted)
        ready  == Materialized(room, request.evidence)
        tools  == { ExportOf[p] : p \in asked \cap DOMAIN ExportOf }
        decoded == { [ok |-> TRUE, state |-> ready] }
                   \cup { Converted(ready, x, asked) : x \in tools }
        failures ==
            { s } \cup
            IF ~Fits(room, wanted) THEN { room }
            ELSE { Materialized(room, SubSeq(request.evidence, 1, n)) :
                     n \in 0 .. Len(request.evidence) }
                 \cup IF handle \in DOMAIN ready.analyses THEN {}
                      ELSE { d.state : d \in decoded }
        successes ==
            IF ~Fits(room, wanted) THEN {}
            ELSE IF handle \in DOMAIN ready.analyses THEN { Used(ready, handle) }
            ELSE { Stored(d.state, handle, asked, asked) :
                     d \in { d \in decoded : d.ok } }
    IN  { [ok |-> FALSE, state |-> Discarded(s, f)] : f \in failures }
        \cup { [ok |-> TRUE, state |-> g] : g \in successes }

(* Only the replies of requests that pin inputs are told apart *)
Quiet == [ok |-> TRUE, inputs |-> {}, pinned |-> {}]
Replied(ok, inputs, pinned) ==
    reply' = [ok |-> ok, inputs |-> inputs, pinned |-> RootsOf(pinned)]

(* A client analyzes evidence, and files it learnt from earlier results: a
   path in a capture whose request has not returned is not known to anyone. *)
Analyze(request) ==
    /\ \A p \in request.paths : p.root \in session.disk \ Active
    /\ \E o \in Outcomes(session, request) :
        /\ session' = o.state
        /\ Replied(o.ok, RootsOf(Asked(request)), Asked(request))
    /\ UNCHANGED <<phase, reserved, written>>

(***************************************************************************)
(* Captures (runtime.py:886-1404, 1839-1855, 3321-3344).                   *)
(***************************************************************************)

Enter(c, to) == phase' = [phase EXCEPT ![c] = to]

(* Capture roots have random names: a slot is free when nothing mentions it *)
Fresh(c) ==
    /\ c \notin session.disk \cup Active
    /\ \A h \in DOMAIN session.analyses :
        /\ c \notin RootsOf(h.asked \cup session.analyses[h].sources)
        /\ h.failedIn # c

(* admit, with _reserve_capture_capacity; a refusal unwinds with no root *)
Admit(c, budget) ==
    LET s == Pruned(session, {}, {}, budget)
    IN  /\ Fresh(c)
        /\ IF Fits(s, budget)
           THEN /\ session' = [s EXCEPT !.disk = @ \cup {c}]
                /\ Enter(c, "executing")
                /\ reserved' = [reserved EXCEPT ![c] = budget]
                /\ written' = [written EXCEPT ![c] = 0]
           ELSE session' = s /\ UNCHANGED <<phase, reserved, written>>
        /\ reply' = Quiet

(* The workload and the broker's sinks, without the lock *)
Write(c) ==
    /\ phase[c] = "executing"
    /\ written[c] < reserved[c] + Overshoot
    /\ written' = [written EXCEPT ![c] = @ + 1]
    /\ UNCHANGED <<session, phase, reserved>>
    /\ reply' = Quiet

(* A case's outputs are in: the ceiling is enforced before the next one *)
CaseSettled(c) ==
    LET s == Pruned(session, {}, {Top(c)}, 0)
    IN  /\ phase[c] = "executing"
        /\ session' = s
        /\ Enter(c, IF Fits(s, 0) THEN "settled" ELSE "unwinding")
        /\ reply' = Quiet
        /\ UNCHANGED <<reserved, written>>

NextCase(c) ==
    /\ phase[c] = "settled"
    /\ Enter(c, "executing")
    /\ UNCHANGED <<session, reserved, written>>
    /\ reply' = Quiet

(* Cancellation, a failing progress callback, or any error before finish *)
Abort(c) ==
    /\ phase[c] \in {"executing", "settled"}
    /\ Enter(c, "unwinding")
    /\ UNCHANGED <<session, reserved, written>>
    /\ reply' = Quiet

(* The handle a finished capture leaves in the cache, owning all it captured:
   the analysis of the files it asked for, or the record of its failure. *)
Finished(c, captured, asked) ==
    LET failure == [asked |-> asked, failedIn |-> c]
        handle  == [asked |-> asked, failedIn |-> None]
        failed(s) == [handle |-> failure, state |-> Stored(s, failure, captured, {})]
    IN  IF asked = {} THEN { failed(session) }
        ELSE { IF o.ok
               THEN [handle |-> handle,
                     state |-> [o.state EXCEPT !.analyses[handle].sources = captured]]
               ELSE failed(o.state) :
                 o \in Outcomes(session, [evidence |-> <<>>, paths |-> asked]) }

Published(s, handle) ==
    LET t == [s EXCEPT !.analyses[handle].preserved = TRUE]
    IN  Used(Released(t, t.analyses[handle].sources, {}), handle)

(* finish_analysis.  Preserving in the same request may be off, succeed, be
   refused by the repository (the capture is kept) or fail (it is not). *)
Finish(c) ==
    /\ phase[c] = "settled"
    /\ \E captured \in { {}, [root : {c}, member : Member] } :
       \E asked \in {{}} \cup { [root : {c}, member : A] : A \in Analyzed } :
       \E preserve \in {"off", "done", "refused", "failed"} :
       \E f \in Finished(c, captured, asked \cap captured) :
        LET s == IF preserve = "done" THEN Published(f.state, f.handle) ELSE f.state
            t == IF preserve \in {"off", "done"} THEN Pruned(s, {}, {Top(c)}, 0) ELSE s
            ok == preserve = "refused" \/ (preserve # "failed" /\ Fits(t, 0))
        IN  /\ session' = t
            /\ \E to \in IF ok THEN {"returning", "unwinding"} ELSE {"unwinding"} :
                Enter(c, to)
    /\ reply' = Quiet
    /\ UNCHANGED <<reserved, written>>

(* Mutation: a capture that returns keeps its root, preserved or not. *)
LeaveRoot(c) ==
    /\ phase[c] \in {"returning", "unwinding"}
    /\ Enter(c, "idle")
    /\ reserved' = [reserved EXCEPT ![c] = 0]
    /\ session' = IF phase[c] = "returning" THEN session
                  ELSE LET mine == { h \in DOMAIN session.analyses :
                                       c \in RootsOf(session.analyses[h].sources) }
                       IN  [session EXCEPT !.analyses = Restrict(@, DOMAIN @ \ mine),
                                           !.older = Without(@, mine),
                                           !.disk = @ \ {c}]
    /\ reply' = Quiet
    /\ UNCHANGED written

(* _release_capture_scope, shielded: the request returns or is unwound *)
Leave(c) ==
    LET mine == { h \in DOMAIN session.analyses :
                    c \in RootsOf(session.analyses[h].sources) }
        lost == IF phase[c] = "unwinding" THEN mine ELSE {}
        s == [session EXCEPT !.analyses = Restrict(@, DOMAIN @ \ lost),
                             !.older = Without(@, lost)]
    IN  /\ phase[c] \in {"returning", "unwinding"}
        /\ Enter(c, "idle")
        /\ reserved' = [reserved EXCEPT ![c] = 0]
        /\ session' = IF Needed(s.analyses, c) THEN s
                      ELSE [s EXCEPT !.disk = @ \ {c}]
        /\ reply' = Quiet
        /\ UNCHANGED written

(***************************************************************************)
(* Preservation and rescue (runtime.py:1857-1895, 1987-2052).              *)
(***************************************************************************)

(* Clients learn a handle when the request that made it returns *)
Known(h) == Active \cap (RootsOf(session.analyses[h].sources) \cup {h.failedIn}) = {}

(* The repository may refuse; it must when a source is gone.  A handle that
   is preserved already is only read back. *)
Preserve(h) ==
    LET entry == session.analyses[h]
        found == entry.preserved \/ RootsOf(entry.sources) \subseteq session.disk
    IN  \E ok \in IF found THEN BOOLEAN ELSE {FALSE} :
        /\ Known(h)
        /\ session' = IF ~ok THEN session
                      ELSE IF entry.preserved THEN Used(session, h)
                      ELSE Published(session, h)
        /\ reply' = Quiet
        /\ UNCHANGED <<phase, reserved, written>>

(* A preserved handle is rescued from the repository, whose directories are
   materialized first; another one from its own sources. *)
Rescue(h, bundles) ==
    LET entry  == session.analyses[h]
        wanted == SumFunctionOnSet(Weight, Range(bundles) \ session.disk)
        pinned == entry.sources \cup { Top(d) : d \in Range(bundles) }
        room   == Pruned(session, pinned, {}, wanted)
    IN  /\ Known(h)
        /\ entry.preserved
        /\ bundles = <<>> \/ entry.sources # {}
        /\ \E n \in IF Fits(room, wanted) THEN 0 .. Len(bundles) ELSE {0} :
           LET ready == Materialized(room, SubSeq(bundles, 1, n))
               whole == Fits(room, wanted) /\ n = Len(bundles)
           IN  \E ok \in IF whole /\ h \in DOMAIN ready.analyses
                         THEN BOOLEAN ELSE {FALSE} :
                /\ session' = IF ok THEN Used(ready, h) ELSE ready
                /\ Replied(ok, Range(bundles), pinned)
        /\ UNCHANGED <<phase, reserved, written>>

(* Another handle is rescued from its own sources: only its recency changes *)
RescueFromScratch(h) ==
    LET found == RootsOf(session.analyses[h].sources) \subseteq session.disk
    IN  /\ Known(h)
        /\ ~session.analyses[h].preserved
        /\ \E ok \in IF found THEN BOOLEAN ELSE {FALSE} :
            /\ session' = IF ok THEN Used(session, h) ELSE session
            /\ reply' = Quiet
        /\ UNCHANGED <<phase, reserved, written>>

(***************************************************************************)
(* The session.                                                            *)
(***************************************************************************)

Init ==
    /\ session = Empty
    /\ phase = [c \in Capture |-> "idle"]
    /\ reserved = [c \in Capture |-> 0]
    /\ written = [c \in Capture |-> 0]
    /\ reply = Quiet

Next ==
    \/ \E request \in Requests : Analyze(request)
    \/ \E c \in Capture :
        \/ \E budget \in Reservation : Admit(c, budget)
        \/ Write(c)
        \/ CaseSettled(c)
        \/ NextCase(c)
        \/ Abort(c)
        \/ Finish(c)
        \/ Leave(c)
    \/ \E h \in DOMAIN session.analyses :
        \/ Preserve(h)
        \/ \E bundles \in { <<d>> : d \in Bundle } \cup { <<>> } : Rescue(h, bundles)
        \/ RescueFromScratch(h)

Spec == Init /\ [][Next]_vars

(***************************************************************************)
(* Properties.                                                             *)
(***************************************************************************)

(* Types, and the two caches index exactly what they should: every bundle or
   export on disk is a cached artifact, every active capture has its root. *)
TypeOK ==
    /\ DOMAIN session.analyses \subseteq Handle
    /\ \A h \in DOMAIN session.analyses : session.analyses[h] \in Cached
    /\ Cardinality(DOMAIN session.analyses) <= MaxAnalyses
    /\ session.older \subseteq (DOMAIN session.analyses) \X (DOMAIN session.analyses)
    /\ session.staler \subseteq session.artifacts \X session.artifacts
    /\ session.disk \subseteq Root
    /\ session.disk \ Capture = session.artifacts
    /\ phase \in [Capture -> {"idle", "executing", "settled", "returning", "unwinding"}]
    /\ reserved \in [Capture -> {0} \cup Reservation]
    /\ written \in [Capture -> Nat]

(* Captured bytes cannot be captured again: whatever is evicted, preserved,
   cancelled or refused, the capture behind a handle that is not preserved
   yet is on disk, so that preserving it is still possible. *)
UnpreservedCapturesKept ==
    \A c \in Capture : Needed(session.analyses, c) => c \in session.disk

(* Nothing that makes room removes the root of a capture in progress. *)
ActiveRootsKept == Active \subseteq session.disk

(* Every materialized source of a handle that is not preserved is on disk. *)
HandlesUsable ==
    \A r \in Root : Needed(session.analyses, r) => r \in session.disk

(* A request that succeeds still has every input it pinned: acquiring one
   input, or converting it, evicted none of the others. *)
PinnedInputsSurvive ==
    reply.ok => reply.inputs \subseteq session.disk

(* Capture roots that stay though no request is about to use them and no
   handle needs them for its preservation *)
Unneeded ==
    { c \in (Capture \cap session.disk) \ Active : ~Needed(session.analyses, c) }

(* Some handle names this root, be it preserved or not *)
Named(analyses, r) == \E h \in DOMAIN analyses : r \in RootsOf(analyses[h].sources)

(* Those that no cached handle even names: they are not artifacts either, so
   whatever is evicted they stay *)
Stranded == { c \in Unneeded : ~Named(session.analyses, c) }

(* What is retained can be evicted to make room. *)
ScratchReclaimable == Stranded = {}

(* A capture root outlives its last unpreserved handle, and its last handle
   at all, only when the request during which that handle was given up has a
   file of the root pinned. *)
StrandedOnlyByPins ==
    [][ /\ Unneeded' \subseteq Unneeded \cup reply'.pinned
        /\ Stranded' \subseteq Stranded \cup reply'.pinned ]_vars

(* The ceiling holds with every reservation honoured: what is retained, and
   the budgets of the captures that run, always fit together. *)
Promised ==
    [r \in Root |-> IF r \in Capture /\ phase[r] \in {"executing", "unwinding"}
                    THEN reserved[r] ELSE Weight[r]]

ReservationsFit ==
    SumFunctionOnSet(Promised, session.disk \cup Active) <= Ceiling

(* A request that fails leaves no artifact it acquired and no handle uses. *)
FailedRequestsDiscard ==
    [][ reply'.ok \/ \A a \in session'.artifacts \ session.artifacts :
                        \E h \in DOMAIN session'.analyses :
                            a \in RootsOf(session'.analyses[h].sources) ]_vars

=============================================================================
