------------------------- MODULE SessionScratchProofs -------------------------
(***************************************************************************)
(* What making room, caching and releasing keep, for every session.        *)
(***************************************************************************)
EXTENDS SessionScratch, TLAPS

Analyses == UNION { [handles -> Cached] : handles \in SUBSET Handle }

(* The caches have their shape, and every root that a request in progress   *)
(* or an unpreserved capture needs is on disk                                *)
Shape(s) ==
    /\ DOMAIN s = {"analyses", "older", "artifacts", "staler", "disk"}
    /\ s.analyses \in Analyses
    /\ s.artifacts \subseteq Bundle \cup Export

Safe(s) ==
    /\ Shape(s)
    /\ Active \subseteq s.disk
    /\ \A c \in Capture : Needed(s.analyses, c) => c \in s.disk

PhasesOK ==
    phase \in [Capture -> {"idle", "executing", "settled", "returning", "unwinding"}]

IInv == Safe(session) /\ PhasesOK /\ PinnedInputsSurvive

(* Removing roots that nobody needs *)
LEMMA RemovedSafe ==
    ASSUME NEW s, NEW roots, Safe(s), roots \cap Active = {},
           \A c \in Capture : Needed(s.analyses, c) => c \notin roots
    PROVE  /\ Safe(Removed(s, roots))
           /\ Removed(s, roots).analyses = s.analyses
           /\ Removed(s, roots).disk = s.disk \ roots
           /\ Removed(s, roots).artifacts = s.artifacts \ roots
  <1>1. /\ DOMAIN Removed(s, roots) = DOMAIN s
        /\ Removed(s, roots).analyses = s.analyses
        /\ Removed(s, roots).disk = s.disk \ roots
        /\ Removed(s, roots).artifacts = s.artifacts \ roots
    BY DEF Safe, Shape, Removed
  <1> QED BY <1>1 DEF Safe, Shape

LEMMA ReleasedSafe ==
    ASSUME NEW s, NEW sources, NEW pinned, Safe(s)
    PROVE  /\ Safe(Released(s, sources, pinned))
           /\ Released(s, sources, pinned).analyses = s.analyses
           /\ s.disk \cap RootsOf(pinned) \subseteq Released(s, sources, pinned).disk
  <1> DEFINE gone == { r \in RootsOf(sources) :
                         /\ ~Needed(s.analyses, r)
                         /\ r \notin Active \cup RootsOf(pinned) }
  <1>1. Released(s, sources, pinned) = Removed(s, gone)
    BY DEF Released
  <1>2. gone \cap Active = {} /\ gone \cap RootsOf(pinned) = {}
    OBVIOUS
  <1>3. \A c \in Capture : Needed(s.analyses, c) => c \notin gone
    OBVIOUS
  <1> HIDE DEF gone
  <1> QED BY <1>1, <1>2, <1>3, RemovedSafe

(* A cache with fewer handles, and any order, needs no more *)
LEMMA ForgottenSafe ==
    ASSUME NEW s, NEW handles, NEW order, Safe(s)
    PROVE  LET t == [s EXCEPT !.analyses = Restrict(@, DOMAIN @ \ handles), !.older = order]
           IN  Safe(t) /\ t.disk = s.disk /\ t.artifacts = s.artifacts
  <1> DEFINE left == Restrict(s.analyses, DOMAIN s.analyses \ handles)
             t == [s EXCEPT !.analyses = left, !.older = order]
  <1>1. /\ DOMAIN t = DOMAIN s /\ t.analyses = left
        /\ t.disk = s.disk /\ t.artifacts = s.artifacts
    BY DEF Safe, Shape
  <1>2. left \in Analyses
    <2>1. PICK known \in SUBSET Handle : s.analyses \in [known -> Cached]
      BY DEF Safe, Shape, Analyses
    <2>2. left \in [known \ handles -> Cached]
      BY <2>1 DEF Restrict
    <2> QED BY <2>2 DEF Analyses
  <1>3. ASSUME NEW c \in Capture, Needed(left, c) PROVE Needed(s.analyses, c)
    BY <1>3 DEF Needed, Restrict
  <1> HIDE DEF left, t
  <1>4. Safe(t)
    BY <1>1, <1>2, <1>3 DEF Safe, Shape
  <1> QED BY <1>1, <1>4 DEF t, left

LEMMA EvictedSafe ==
    ASSUME NEW s, NEW handles, NEW pinned, Safe(s)
    PROVE  /\ Safe(Evicted(s, handles, pinned))
           /\ s.disk \cap RootsOf(pinned) \subseteq Evicted(s, handles, pinned).disk
  <1> DEFINE t == [s EXCEPT !.analyses = Restrict(@, DOMAIN @ \ handles),
                            !.older = Without(@, handles)]
             lost == UNION { s.analyses[h].sources : h \in handles }
  <1>1. Safe(t) /\ t.disk = s.disk
    BY ForgottenSafe
  <1>2. Evicted(s, handles, pinned) = Released(t, lost, pinned)
    BY DEF Evicted
  <1> HIDE DEF t, lost
  <1> QED BY <1>1, <1>2, ReleasedSafe

LEMMA PrunedSafe ==
    ASSUME NEW s, NEW pinned, NEW protected, NEW wanted, Safe(s)
    PROVE  /\ Safe(Pruned(s, pinned, protected, wanted))
           /\ s.disk \cap RootsOf(pinned) \subseteq Pruned(s, pinned, protected, wanted).disk
  <1> DEFINE kept == pinned \cup protected \cup { Top(c) : c \in Active }
             free == { h \in DOMAIN s.analyses :
                         \A p \in s.analyses[h].sources, q \in kept : ~Overlap(p, q) }
             victims == { h \in free :
                            LET before == { g \in free : <<g, h>> \in s.older }
                            IN  ~Fits(Evicted(s, before, pinned), wanted) }
             t == Evicted(s, victims, pinned)
             loose == t.artifacts \ RootsOf(kept)
             gone == { a \in loose :
                         LET before == { b \in loose : <<b, a>> \in t.staler }
                         IN  ~Fits(Removed(t, before), wanted) }
  <1>1. Pruned(s, pinned, protected, wanted) = Removed(t, gone)
    BY DEF Pruned
  <1>2. Safe(t) /\ s.disk \cap RootsOf(pinned) \subseteq t.disk
    <2> HIDE DEF victims
    <2> QED BY EvictedSafe
  <1>3. gone \subseteq t.artifacts /\ gone \cap RootsOf(kept) = {}
    OBVIOUS
  <1>4. Active \subseteq RootsOf(kept) /\ RootsOf(pinned) \subseteq RootsOf(kept)
    <2>1. \A c \in Active : Top(c) \in kept /\ Top(c).root = c
      BY DEF Top
    <2>2. pinned \subseteq kept
      OBVIOUS
    <2> HIDE DEF kept
    <2> QED BY <2>1, <2>2 DEF RootsOf
  <1>5. Capture \cap gone = {}
    BY <1>2, <1>3, SessionConstants DEF Safe, Shape
  <1> HIDE DEF t, gone, kept
  <1> QED BY <1>1, <1>2, <1>3, <1>4, <1>5, RemovedSafe

LEMMA MaterializedSafe ==
    ASSUME NEW s, NEW bundles, Safe(s), Range(bundles) \subseteq Bundle \cup Export
    PROVE  /\ Safe(Materialized(s, bundles))
           /\ Materialized(s, bundles).disk = s.disk \cup Range(bundles)
           /\ Materialized(s, bundles).analyses = s.analyses
  <1>1. LET t == Materialized(s, bundles)
        IN  /\ DOMAIN t = DOMAIN s /\ t.analyses = s.analyses
            /\ t.disk = s.disk \cup Range(bundles)
            /\ t.artifacts = s.artifacts \cup Range(bundles)
    BY DEF Safe, Shape, Materialized
  <1> QED BY <1>1 DEF Safe, Shape

LEMMA UsedSafe ==
    ASSUME NEW s, NEW handle, Safe(s)
    PROVE  /\ Safe(Used(s, handle))
           /\ Used(s, handle).disk = s.disk
  <1>1. LET t == Used(s, handle)
        IN  /\ DOMAIN t = DOMAIN s /\ t.analyses = s.analyses
            /\ t.disk = s.disk /\ t.artifacts = s.artifacts
    BY DEF Safe, Shape, Used
  <1> QED BY <1>1 DEF Safe, Shape

(* A new handle over sources whose capture roots are on disk; storing it    *)
(* may evict others                                                         *)
LEMMA StoredSafe ==
    ASSUME NEW s, NEW handle \in Handle, NEW sources \in SUBSET Path, NEW pinned,
           Safe(s), RootsOf(sources) \cap Capture \subseteq s.disk
    PROVE  /\ Safe(Stored(s, handle, sources, pinned))
           /\ s.disk \cap RootsOf(pinned) \subseteq Stored(s, handle, sources, pinned).disk
  <1> DEFINE keys == DOMAIN s.analyses \cup {handle}
             cache == [h \in keys |-> IF h = handle
                                       THEN [sources |-> sources, preserved |-> FALSE]
                                       ELSE s.analyses[h]]
             t == [s EXCEPT !.analyses = cache,
                            !.older = MovedToEnd(@, keys, <<handle>>)]
             oldest == { h \in keys : Cardinality({ g \in keys : <<h, g>> \in t.older })
                                         >= MaxAnalyses }
  <1>1. Stored(s, handle, sources, pinned) = Evicted(t, oldest, pinned)
    BY DEF Stored
  <1>2. /\ DOMAIN t = DOMAIN s /\ t.analyses = cache
        /\ t.disk = s.disk /\ t.artifacts = s.artifacts
    BY DEF Safe, Shape
  <1>3. cache \in Analyses
    <2>1. PICK known \in SUBSET Handle : s.analyses \in [known -> Cached]
      BY DEF Safe, Shape, Analyses
    <2>2. cache \in [known \cup {handle} -> Cached]
      BY <2>1 DEF Cached
    <2> QED BY <2>2 DEF Analyses
  <1>4. ASSUME NEW c \in Capture, Needed(cache, c) PROVE c \in s.disk
    <2>1. PICK h \in keys : ~cache[h].preserved /\ c \in RootsOf(cache[h].sources)
      BY <1>4 DEF Needed
    <2>2. CASE h = handle
      BY <2>1, <2>2
    <2>3. CASE h # handle
      BY <2>1, <2>3 DEF Safe, Needed
    <2> QED BY <2>2, <2>3
  <1>5. Safe(t)
    <2> HIDE DEF cache, t
    <2> QED BY <1>2, <1>3, <1>4 DEF Safe, Shape
  <1> HIDE DEF t, oldest
  <1> QED BY <1>1, <1>2, <1>5, EvictedSafe

LEMMA ConvertedSafe ==
    ASSUME NEW s, NEW x \in Export, NEW pinned, Safe(s)
    PROVE  /\ Safe(Converted(s, x, pinned).state)
           /\ Converted(s, x, pinned).ok =>
                 s.disk \cap RootsOf(pinned) \subseteq Converted(s, x, pinned).state.disk
  <1> DEFINE t == Materialized(s, <<x>>)
             u == Pruned(t, pinned, {Top(x)}, 0)
             v == Removed(u, {x})
  <1>1. Range(<<x>>) \subseteq Bundle \cup Export
    BY DEF Range
  <1>2. Safe(t) /\ s.disk \subseteq t.disk
    BY <1>1, MaterializedSafe
  <1>3. Safe(u) /\ t.disk \cap RootsOf(pinned) \subseteq u.disk
    <2> HIDE DEF t
    <2> QED BY <1>2, PrunedSafe
  <1>4. x \notin Capture /\ Active \subseteq Capture
    BY SessionConstants DEF Active
  <1>5. Safe(v)
    <2> HIDE DEF u
    <2> QED BY <1>3, <1>4, RemovedSafe
  <1>6. Converted(s, x, pinned) = IF x \in s.artifacts THEN [ok |-> TRUE, state |-> t]
                                  ELSE IF Fits(u, 0) THEN [ok |-> TRUE, state |-> u]
                                  ELSE [ok |-> FALSE, state |-> v]
    BY DEF Converted
  <1> HIDE DEF t, u, v
  <1> QED BY <1>2, <1>3, <1>5, <1>6

LEMMA DiscardedSafe ==
    ASSUME NEW before, NEW s, Safe(s)
    PROVE  Safe(Discarded(before, s))
  <1> DEFINE gone == { a \in s.artifacts \ before.artifacts :
                         \A h \in DOMAIN s.analyses :
                             a \notin RootsOf(s.analyses[h].sources) }
  <1>1. Discarded(before, s) = Removed(s, gone)
    BY DEF Discarded
  <1>2. gone \cap Capture = {} /\ Active \subseteq Capture
    BY SessionConstants DEF Active, Safe, Shape
  <1> HIDE DEF gone
  <1> QED BY <1>1, <1>2, RemovedSafe

(* A list of bundles, and what is first in it *)
LEMMA BundlesOfSequences ==
    ASSUME NEW bundles \in Seq(Bundle), NEW n \in 0 .. Len(bundles)
    PROVE  /\ Range(bundles) \subseteq Bundle \cup Export
           /\ Range(SubSeq(bundles, 1, n)) \subseteq Bundle \cup Export
  <1>1. SubSeq(bundles, 1, n) \in Seq(Bundle)
    OBVIOUS
  <1> QED BY <1>1 DEF Range

LEMMA RootsOfAsked ==
    ASSUME NEW request, request.evidence \in Seq(Bundle), request.paths \subseteq Path
    PROVE  /\ Asked(request) \subseteq Path
           /\ RootsOf(Asked(request)) = RootsOf(request.paths) \cup Range(request.evidence)
  <1>1. Range(request.evidence) \subseteq Bundle
    BY DEF Range
  <1>2. \A d \in Bundle : Top(d) \in Path /\ Top(d).root = d
    BY DEF Top, Path, Root
  <1>3. Asked(request) \subseteq Path
    BY <1>1, <1>2 DEF Asked
  <1>4. RootsOf(Asked(request)) \subseteq RootsOf(request.paths) \cup Range(request.evidence)
    BY <1>1, <1>2 DEF RootsOf, Asked
  <1>5. RootsOf(request.paths) \cup Range(request.evidence) \subseteq RootsOf(Asked(request))
    BY <1>1, <1>2 DEF RootsOf, Asked
  <1> QED BY <1>3, <1>4, <1>5

(* However a request for analysis ends, and with its inputs if it succeeds *)
LEMMA OutcomesSafe ==
    ASSUME NEW s, NEW request, Safe(s),
           request.evidence \in Seq(Bundle), request.paths \subseteq Path,
           RootsOf(request.paths) \subseteq s.disk,
           NEW o \in Outcomes(s, request)
    PROVE  Safe(o.state) /\ (o.ok => RootsOf(Asked(request)) \subseteq o.state.disk)
  <1> DEFINE asked  == Asked(request)
             handle == [asked |-> asked, failedIn |-> None]
             wanted == SumFunctionOnSet(Weight, Range(request.evidence) \ s.disk)
             room   == Pruned(s, asked, {}, wanted)
             ready  == Materialized(room, request.evidence)
             tools  == { ExportOf[p] : p \in asked \cap DOMAIN ExportOf }
             decoded == { [ok |-> TRUE, state |-> ready] }
                        \cup { Converted(ready, x, asked) : x \in tools }
             begun == { Materialized(room, SubSeq(request.evidence, 1, n)) :
                          n \in 0 .. Len(request.evidence) }
             failures == { s } \cup
                 IF ~Fits(room, wanted) THEN { room }
                 ELSE begun \cup IF handle \in DOMAIN ready.analyses THEN {}
                                 ELSE { d.state : d \in decoded }
             successes ==
                 IF ~Fits(room, wanted) THEN {}
                 ELSE IF handle \in DOMAIN ready.analyses THEN { Used(ready, handle) }
                 ELSE { Stored(d.state, handle, asked, asked) :
                          d \in { d \in decoded : d.ok } }
  <1>1. Outcomes(s, request) = { [ok |-> FALSE, state |-> Discarded(s, f)] : f \in failures }
                               \cup { [ok |-> TRUE, state |-> g] : g \in successes }
    BY DEF Outcomes
  <1>2. asked \in SUBSET Path /\ RootsOf(asked) = RootsOf(request.paths) \cup Range(request.evidence)
    BY RootsOfAsked
  <1>3. handle \in Handle
    BY <1>2 DEF Handle
  <1> HIDE DEF asked, handle, wanted
  <1>4. Safe(room) /\ s.disk \cap RootsOf(asked) \subseteq room.disk
    BY PrunedSafe
  <1> HIDE DEF room
  <1>5. Safe(ready) /\ RootsOf(asked) \subseteq ready.disk
    <2>1. Range(request.evidence) \subseteq Bundle \cup Export
      BY DEF Range
    <2> QED BY <1>2, <1>4, <2>1, MaterializedSafe
  <1>6. \A f \in begun : Safe(f)
    <2>1. \A n \in 0 .. Len(request.evidence) :
            Range(SubSeq(request.evidence, 1, n)) \subseteq Bundle \cup Export
      BY BundlesOfSequences
    <2> QED BY <1>4, <2>1, MaterializedSafe
  <1> HIDE DEF ready, begun
  <1>7. \A d \in decoded : Safe(d.state) /\ (d.ok => RootsOf(asked) \subseteq d.state.disk)
    <2>1. tools \subseteq Export
      BY SessionConstants
    <2>2. \A x \in tools : LET d == Converted(ready, x, asked)
                          IN  Safe(d.state) /\ (d.ok => RootsOf(asked) \subseteq d.state.disk)
      <3> HIDE DEF tools
      <3> QED BY <1>5, <2>1, ConvertedSafe
    <2> HIDE DEF tools
    <2> QED BY <1>5, <2>2
  <1> HIDE DEF decoded
  <1>8. \A f \in failures : Safe(f)
    BY <1>4, <1>6, <1>7
  <1>9. \A g \in successes : Safe(g) /\ RootsOf(asked) \subseteq g.disk
    <2>1. Safe(Used(ready, handle)) /\ RootsOf(asked) \subseteq Used(ready, handle).disk
      BY <1>5, UsedSafe
    <2>2. ASSUME NEW d \in decoded, d.ok
          PROVE  LET g == Stored(d.state, handle, asked, asked)
                 IN  Safe(g) /\ RootsOf(asked) \subseteq g.disk
      <3>1. Safe(d.state) /\ RootsOf(asked) \subseteq d.state.disk
        BY <1>7, <2>2
      <3> QED BY <1>2, <1>3, <3>1, StoredSafe
    <2> QED BY <2>1, <2>2
  <1> HIDE DEF failures, successes
  <1>10. CASE \E f \in failures : o = [ok |-> FALSE, state |-> Discarded(s, f)]
    BY <1>8, <1>10, DiscardedSafe
  <1>11. CASE \E g \in successes : o = [ok |-> TRUE, state |-> g]
    BY <1>9, <1>11 DEF asked
  <1> QED BY <1>1, <1>10, <1>11

(* A handle that is preserved needs nothing any more *)
LEMMA MarkedSafe ==
    ASSUME NEW s, NEW handle, Safe(s)
    PROVE  Safe([s EXCEPT !.analyses[handle].preserved = TRUE])
  <1> DEFINE cache == [s.analyses EXCEPT ![handle].preserved = TRUE]
             t == [s EXCEPT !.analyses[handle].preserved = TRUE]
  <1>1. /\ DOMAIN t = DOMAIN s /\ t.analyses = cache
        /\ t.disk = s.disk /\ t.artifacts = s.artifacts
    BY DEF Safe, Shape
  <1>2. PICK known \in SUBSET Handle : s.analyses \in [known -> Cached]
    BY DEF Safe, Shape, Analyses
  <1>3. cache \in [known -> Cached]
    BY <1>2 DEF Cached
  <1>4. ASSUME NEW c \in Capture, Needed(cache, c) PROVE Needed(s.analyses, c)
    <2>1. PICK h \in known : ~cache[h].preserved /\ c \in RootsOf(cache[h].sources)
      BY <1>3, <1>4 DEF Needed
    <2>2. h # handle
      BY <1>2, <2>1 DEF Cached
    <2>3. cache[h] = s.analyses[h]
      BY <1>2, <2>2
    <2> QED BY <1>2, <2>1, <2>3 DEF Needed
  <1>5. cache \in Analyses
    BY <1>3 DEF Analyses
  <1>6. Safe(t)
    <2> HIDE DEF cache, t
    <2> QED BY <1>1, <1>4, <1>5 DEF Safe, Shape
  <1> QED BY <1>6

LEMMA PublishedSafe ==
    ASSUME NEW s, NEW handle, Safe(s)
    PROVE  Safe(Published(s, handle))
  <1> DEFINE t == [s EXCEPT !.analyses[handle].preserved = TRUE]
             u == Released(t, t.analyses[handle].sources, {})
  <1>1. Safe(t)
    BY MarkedSafe
  <1>2. Safe(u)
    <2> HIDE DEF t
    <2> QED BY <1>1, ReleasedSafe
  <1>3. Published(s, handle) = Used(u, handle)
    BY DEF Published
  <1> HIDE DEF u
  <1> QED BY <1>2, <1>3, UsedSafe

(* A handle that owns other captured files needs their root *)
LEMMA OwningSafe ==
    ASSUME NEW s, NEW handle, NEW captured \in SUBSET Path, Safe(s),
           RootsOf(captured) \cap Capture \subseteq s.disk
    PROVE  Safe([s EXCEPT !.analyses[handle].sources = captured])
  <1> DEFINE cache == [s.analyses EXCEPT ![handle].sources = captured]
             t == [s EXCEPT !.analyses[handle].sources = captured]
  <1>1. /\ DOMAIN t = DOMAIN s /\ t.analyses = cache
        /\ t.disk = s.disk /\ t.artifacts = s.artifacts
    BY DEF Safe, Shape
  <1>2. PICK known \in SUBSET Handle : s.analyses \in [known -> Cached]
    BY DEF Safe, Shape, Analyses
  <1>3. cache \in [known -> Cached]
    BY <1>2 DEF Cached
  <1>4. ASSUME NEW c \in Capture, Needed(cache, c) PROVE c \in s.disk
    <2>1. PICK h \in known : ~cache[h].preserved /\ c \in RootsOf(cache[h].sources)
      BY <1>3, <1>4 DEF Needed
    <2>2. CASE h = handle
      <3>1. cache[h].sources = captured
        BY <1>2, <2>2 DEF Cached
      <3> QED BY <2>1, <3>1
    <2>3. CASE h # handle
      <3>1. cache[h] = s.analyses[h]
        BY <1>2, <2>3
      <3> QED BY <1>2, <2>1, <3>1 DEF Safe, Needed
    <2> QED BY <2>2, <2>3
  <1>5. cache \in Analyses
    BY <1>3 DEF Analyses
  <1>6. Safe(t)
    <2> HIDE DEF cache, t
    <2> QED BY <1>1, <1>4, <1>5 DEF Safe, Shape
  <1> QED BY <1>6

LEMMA FinishedSafe ==
    ASSUME NEW c \in Active, NEW captured \in SUBSET Path, NEW asked \in SUBSET Path,
           Safe(session), RootsOf(captured) \subseteq {c}, RootsOf(asked) \subseteq {c},
           NEW f \in Finished(c, captured, asked)
    PROVE  Safe(f.state)
  <1> DEFINE failure == [asked |-> asked, failedIn |-> c]
             handle  == [asked |-> asked, failedIn |-> None]
             failed(s) == [handle |-> failure, state |-> Stored(s, failure, captured, {})]
             request == [evidence |-> <<>>, paths |-> asked]
             owning(o) == [handle |-> handle,
                           state |-> [o.state EXCEPT !.analyses[handle].sources = captured]]
  <1>1. failure \in Handle
    BY DEF Handle, Active
  <1>2. \A s : Safe(s) => Safe(failed(s).state)
    <2>1. ASSUME NEW s, Safe(s) PROVE Safe(Stored(s, failure, captured, {}))
      <3>1. RootsOf(captured) \cap Capture \subseteq s.disk
        BY <2>1 DEF Safe
      <3> HIDE DEF failure
      <3> QED BY <1>1, <2>1, <3>1, StoredSafe
    <2> QED BY <2>1
  <1>3. ASSUME NEW o \in Outcomes(session, request)
        PROVE  Safe(o.state) /\ Safe(owning(o).state)
    <2>1. /\ request.evidence \in Seq(Bundle) /\ request.paths \subseteq Path
          /\ RootsOf(request.paths) \subseteq session.disk
      BY DEF Safe
    <2>2. Safe(o.state)
      <3> HIDE DEF request
      <3> QED BY <2>1, OutcomesSafe
    <2>3. RootsOf(captured) \cap Capture \subseteq o.state.disk
      BY <2>2 DEF Safe
    <2>4. Safe([o.state EXCEPT !.analyses[handle].sources = captured])
      <3> HIDE DEF handle
      <3> QED BY <2>2, <2>3, OwningSafe
    <2> QED BY <2>2, <2>4
  <1>4. Finished(c, captured, asked) =
            IF asked = {} THEN { failed(session) }
            ELSE { IF o.ok THEN owning(o) ELSE failed(o.state) :
                     o \in Outcomes(session, request) }
    BY DEF Finished
  <1> HIDE DEF failed, owning, request
  <1> QED BY <1>2, <1>3, <1>4

(* A step that leaves the open captures alone and ends in a safe state *)
LEMMA SafeStep ==
    ASSUME Safe(session'), Active' = Active
    PROVE  Safe(session)'
  BY DEF Safe, Shape

(* A capture that moves on is as open as before *)
LEMMA StillActive ==
    ASSUME NEW c \in Capture, NEW to \in {"executing", "settled", "returning", "unwinding"},
           PhasesOK, phase[c] # "idle", Enter(c, to)
    PROVE  Active' = Active /\ PhasesOK'
  BY DEF PhasesOK, Enter, Active

LEMMA InitSafe == Init => IInv
  <1> SUFFICES ASSUME Init PROVE IInv
    OBVIOUS
  <1>1. DOMAIN session = {"analyses", "older", "artifacts", "staler", "disk"}
        /\ session.analyses = <<>> /\ session.artifacts = {} /\ session.disk = {}
    BY DEF Init, Empty
  <1>2. session.analyses \in [{} -> Cached] /\ DOMAIN session.analyses = {}
    BY <1>1
  <1>3. session.analyses \in Analyses
    BY <1>2 DEF Analyses
  <1>4. Active = {} /\ PhasesOK
    BY DEF Init, Active, PhasesOK
  <1>5. \A c \in Capture : ~Needed(session.analyses, c)
    BY <1>2 DEF Needed
  <1>6. PinnedInputsSurvive
    BY DEF Init, Quiet, PinnedInputsSurvive
  <1> QED BY <1>1, <1>3, <1>4, <1>5, <1>6 DEF IInv, Safe, Shape

LEMMA AnalyzeSafe ==
    ASSUME IInv, NEW request \in Requests, Analyze(request)
    PROVE  IInv'
  <1>1. PICK o \in Outcomes(session, request) :
            session' = o.state /\ Replied(o.ok, RootsOf(Asked(request)), Asked(request))
    BY DEF Analyze
  <1>2. request.evidence \in Seq(Bundle) /\ request.paths \subseteq Path
    BY SessionConstants
  <1>3. RootsOf(request.paths) \subseteq session.disk
    BY DEF Analyze, RootsOf
  <1>4. Safe(o.state) /\ (o.ok => RootsOf(Asked(request)) \subseteq o.state.disk)
    BY <1>2, <1>3, OutcomesSafe DEF IInv
  <1>5. PinnedInputsSurvive'
    BY <1>1, <1>4 DEF Replied, PinnedInputsSurvive
  <1>6. Active' = Active /\ PhasesOK'
    BY DEF Analyze, Active, IInv, PhasesOK
  <1> QED BY <1>1, <1>4, <1>5, <1>6, SafeStep DEF IInv

LEMMA AdmitSafe ==
    ASSUME IInv, NEW c \in Capture, NEW budget \in Reservation, Admit(c, budget)
    PROVE  IInv'
  <1> DEFINE s == Pruned(session, {}, {}, budget)
             t == [s EXCEPT !.disk = @ \cup {c}]
  <1>1. Safe(s)
    BY PrunedSafe DEF IInv
  <1>2. PinnedInputsSurvive'
    BY DEF Admit, Quiet, PinnedInputsSurvive
  <1>3. CASE Fits(s, budget)
    <2>1. session' = t /\ Enter(c, "executing")
      BY <1>3 DEF Admit
    <2>2. PhasesOK' /\ Active' = Active \cup {c}
      BY <2>1 DEF IInv, PhasesOK, Enter, Active
    <2>3. /\ DOMAIN t = DOMAIN s /\ t.analyses = s.analyses
          /\ t.disk = s.disk \cup {c} /\ t.artifacts = s.artifacts
      <3> HIDE DEF s
      <3> QED BY <1>1 DEF Safe, Shape
    <2> HIDE DEF t, s
    <2>4. Safe(session)'
      BY <1>1, <2>1, <2>2, <2>3 DEF Safe, Shape
    <2> QED BY <1>2, <2>2, <2>4 DEF IInv
  <1>4. CASE ~Fits(s, budget)
    <2>1. session' = s /\ UNCHANGED phase
      BY <1>4 DEF Admit
    <2>2. Active' = Active /\ PhasesOK'
      BY <2>1 DEF Active, IInv, PhasesOK
    <2> HIDE DEF s
    <2> QED BY <1>1, <1>2, <2>1, <2>2, SafeStep DEF IInv
  <1> QED BY <1>3, <1>4

(* How a capture that made the handle f ends *)
Ends(c, f, preserve) ==
    LET s == IF preserve = "done" THEN Published(f.state, f.handle) ELSE f.state
        t == IF preserve \in {"off", "done"} THEN Pruned(s, {}, {Top(c)}, 0) ELSE s
    IN  /\ session' = t
        /\ \E to \in {"returning", "unwinding"} : Enter(c, to)

LEMMA FinishSafe ==
    ASSUME IInv, NEW c \in Capture, Finish(c)
    PROVE  IInv'
  <1>1. c \in Active /\ PinnedInputsSurvive'
    BY DEF Finish, Active, Quiet, PinnedInputsSurvive
  <1>2. PICK captured \in { {}, [root : {c}, member : Member] },
             asked \in {{}} \cup { [root : {c}, member : A] : A \in Analyzed },
             preserve \in {"off", "done", "refused", "failed"} :
               \E f \in Finished(c, captured, asked \cap captured) :
                   Ends(c, f, preserve)
    BY ZenonT(60) DEF Finish, Ends
  <1>3. captured \in SUBSET Path /\ RootsOf(captured) \subseteq {c}
    BY DEF Path, Root, RootsOf
  <1>4. asked \cap captured \in SUBSET Path /\ RootsOf(asked \cap captured) \subseteq {c}
    BY <1>3 DEF RootsOf
  <1>5. PICK f \in Finished(c, captured, asked \cap captured) : Ends(c, f, preserve)
    BY <1>2
  <1>6. Safe(f.state)
    BY <1>1, <1>3, <1>4, FinishedSafe DEF IInv
  <1> DEFINE s == IF preserve = "done" THEN Published(f.state, f.handle) ELSE f.state
             t == IF preserve \in {"off", "done"} THEN Pruned(s, {}, {Top(c)}, 0) ELSE s
  <1>7. Safe(s)
    BY <1>6, PublishedSafe
  <1>8. Safe(t)
    <2> HIDE DEF s
    <2> QED BY <1>7, PrunedSafe
  <1>9. session' = t /\ \E to \in {"returning", "unwinding"} : Enter(c, to)
    BY <1>5 DEF Ends
  <1>10. Active' = Active /\ PhasesOK'
    BY <1>1, <1>9, StillActive DEF IInv, Active
  <1> HIDE DEF t
  <1> QED BY <1>1, <1>8, <1>9, <1>10, SafeStep DEF IInv

LEMMA LeaveSafe ==
    ASSUME IInv, NEW c \in Capture, Leave(c)
    PROVE  IInv'
  <1> DEFINE mine == { h \in DOMAIN session.analyses :
                         c \in RootsOf(session.analyses[h].sources) }
             lost == IF phase[c] = "unwinding" THEN mine ELSE {}
             s == [session EXCEPT !.analyses = Restrict(@, DOMAIN @ \ lost),
                                  !.older = Without(@, lost)]
  <1>1. Safe(s) /\ s.disk = session.disk
    <2> HIDE DEF lost
    <2> QED BY ForgottenSafe DEF IInv
  <1>2. session' = IF Needed(s.analyses, c) THEN s ELSE [s EXCEPT !.disk = @ \ {c}]
    BY DEF Leave
  <1>3. PinnedInputsSurvive' /\ Enter(c, "idle")
    BY DEF Leave, Quiet, PinnedInputsSurvive
  <1>4. PhasesOK' /\ Active' = Active \ {c}
    BY <1>3 DEF IInv, PhasesOK, Enter, Active
  <1> HIDE DEF s
  <1>5. CASE Needed(s.analyses, c)
    BY <1>1, <1>2, <1>3, <1>4, <1>5 DEF IInv, Safe, Shape
  <1>6. CASE ~Needed(s.analyses, c)
    <2>1. /\ DOMAIN session' = DOMAIN s /\ session'.analyses = s.analyses
          /\ session'.disk = s.disk \ {c} /\ session'.artifacts = s.artifacts
      BY <1>1, <1>2, <1>6 DEF Safe, Shape
    <2>2. Safe(session)'
      BY <1>1, <1>4, <1>6, <2>1 DEF Safe, Shape
    <2> QED BY <1>3, <1>4, <2>2 DEF IInv
  <1> QED BY <1>5, <1>6

LEMMA CaptureSafe ==
    ASSUME IInv, NEW c \in Capture,
           Write(c) \/ CaseSettled(c) \/ NextCase(c) \/ Abort(c)
    PROVE  IInv'
  <1>1. PinnedInputsSurvive'
    BY DEF Write, CaseSettled, NextCase, Abort, Quiet, PinnedInputsSurvive
  <1>2. CASE Write(c)
    <2>1. Active' = Active /\ PhasesOK' /\ session' = session
      BY <1>2 DEF Write, Active, IInv, PhasesOK
    <2> QED BY <1>1, <2>1, SafeStep DEF IInv
  <1>3. CASE CaseSettled(c)
    <2> DEFINE s == Pruned(session, {}, {Top(c)}, 0)
    <2>1. Safe(s)
      BY PrunedSafe DEF IInv
    <2>2. session' = s /\ \E to \in {"settled", "unwinding"} : Enter(c, to)
      BY <1>3 DEF CaseSettled
    <2>3. Active' = Active /\ PhasesOK'
      BY <1>3, <2>2, StillActive DEF IInv, CaseSettled
    <2> HIDE DEF s
    <2> QED BY <1>1, <2>1, <2>2, <2>3, SafeStep DEF IInv
  <1>4. CASE NextCase(c) \/ Abort(c)
    <2>1. session' = session /\ phase[c] # "idle"
          /\ \E to \in {"executing", "unwinding"} : Enter(c, to)
      BY <1>4 DEF NextCase, Abort
    <2>2. Active' = Active /\ PhasesOK'
      BY <2>1, StillActive DEF IInv
    <2> QED BY <1>1, <2>1, <2>2, SafeStep DEF IInv
  <1> QED BY <1>2, <1>3, <1>4

LEMMA PreserveSafe ==
    ASSUME IInv, NEW h, Preserve(h)
    PROVE  IInv'
  <1>1. Active' = Active /\ PhasesOK' /\ PinnedInputsSurvive'
    BY DEF Preserve, Active, IInv, PhasesOK, Quiet, PinnedInputsSurvive
  <1>2. session' \in {session, Used(session, h), Published(session, h)}
    BY DEF Preserve
  <1>3. Safe(session')
    BY <1>2, UsedSafe, PublishedSafe DEF IInv
  <1> QED BY <1>1, <1>3, SafeStep DEF IInv

LEMMA RescueSafe ==
    ASSUME IInv, NEW h, NEW bundles \in Seq(Bundle), Rescue(h, bundles)
    PROVE  IInv'
  <1> DEFINE entry == session.analyses[h]
             wanted == SumFunctionOnSet(Weight, Range(bundles) \ session.disk)
             pinned == entry.sources \cup { Top(d) : d \in Range(bundles) }
             room == Pruned(session, pinned, {}, wanted)
             ready(n) == Materialized(room, SubSeq(bundles, 1, n))
  <1>1. PICK n \in 0 .. Len(bundles) : \E ok \in BOOLEAN :
            /\ ok => n = Len(bundles)
            /\ session' = IF ok THEN Used(ready(n), h) ELSE ready(n)
            /\ Replied(ok, Range(bundles), pinned)
    <2> DEFINE whole(n) == Fits(room, wanted) /\ n = Len(bundles)
    <2>1. PICK n \in IF Fits(room, wanted) THEN 0 .. Len(bundles) ELSE {0} :
            \E ok \in IF whole(n) /\ h \in DOMAIN ready(n).analyses THEN BOOLEAN ELSE {FALSE} :
                /\ session' = IF ok THEN Used(ready(n), h) ELSE ready(n)
                /\ Replied(ok, Range(bundles), pinned)
      BY DEF Rescue
    <2>2. n \in 0 .. Len(bundles)
      BY <2>1
    <2> HIDE DEF ready, pinned
    <2>3. PICK ok \in BOOLEAN :
            /\ ok => whole(n)
            /\ session' = IF ok THEN Used(ready(n), h) ELSE ready(n)
            /\ Replied(ok, Range(bundles), pinned)
      BY <2>1
    <2> QED BY <2>2, <2>3
  <1>2. PICK ok \in BOOLEAN :
            /\ ok => n = Len(bundles)
            /\ session' = IF ok THEN Used(ready(n), h) ELSE ready(n)
            /\ reply'.ok = ok /\ reply'.inputs = Range(bundles)
    BY <1>1 DEF Replied
  <1>3. Safe(room)
    <2> HIDE DEF pinned, wanted
    <2> QED BY PrunedSafe DEF IInv
  <1>4. Range(SubSeq(bundles, 1, n)) \subseteq Bundle \cup Export
    BY BundlesOfSequences
  <1>5. Safe(ready(n)) /\ Range(SubSeq(bundles, 1, n)) \subseteq ready(n).disk
    <2> HIDE DEF room
    <2> QED BY <1>3, <1>4, MaterializedSafe
  <1>6. n = Len(bundles) => SubSeq(bundles, 1, n) = bundles
    OBVIOUS
  <1>7. Active' = Active /\ PhasesOK'
    BY DEF Rescue, Active, IInv, PhasesOK
  <1> HIDE DEF ready
  <1>8. Safe(Used(ready(n), h)) /\ Used(ready(n), h).disk = ready(n).disk
    BY <1>5, UsedSafe
  <1>9. Safe(session')
    BY <1>2, <1>5, <1>8
  <1>10. PinnedInputsSurvive'
    BY <1>2, <1>5, <1>6, <1>8 DEF PinnedInputsSurvive
  <1> QED BY <1>7, <1>9, <1>10, SafeStep DEF IInv

LEMMA RescueFromScratchSafe ==
    ASSUME IInv, NEW h, RescueFromScratch(h)
    PROVE  IInv'
  <1>1. Active' = Active /\ PhasesOK' /\ PinnedInputsSurvive'
    BY DEF RescueFromScratch, Active, IInv, PhasesOK, Quiet, PinnedInputsSurvive
  <1>2. session' \in {session, Used(session, h)}
    BY DEF RescueFromScratch
  <1>3. Safe(session')
    BY <1>2, UsedSafe DEF IInv
  <1> QED BY <1>1, <1>3, SafeStep DEF IInv

LEMMA NextSafe == IInv /\ [Next]_vars => IInv'
  <1> SUFFICES ASSUME IInv, [Next]_vars PROVE IInv'
    OBVIOUS
  <1>1. CASE \E request \in Requests : Analyze(request)
    BY <1>1, AnalyzeSafe
  <1>2. CASE \E c \in Capture : \E budget \in Reservation : Admit(c, budget)
    BY <1>2, AdmitSafe
  <1>3. CASE \E c \in Capture : Write(c) \/ CaseSettled(c) \/ NextCase(c) \/ Abort(c)
    BY <1>3, CaptureSafe
  <1>4. CASE \E c \in Capture : Finish(c)
    BY <1>4, FinishSafe
  <1>5. CASE \E c \in Capture : Leave(c)
    BY <1>5, LeaveSafe
  <1>6. CASE \E h \in DOMAIN session.analyses : Preserve(h)
    BY <1>6, PreserveSafe
  <1>7. CASE \E h \in DOMAIN session.analyses :
               \E bundles \in { <<d>> : d \in Bundle } \cup { <<>> } : Rescue(h, bundles)
    <2>1. { <<d>> : d \in Bundle } \cup { <<>> } \subseteq Seq(Bundle)
      <3>1. <<>> \in Seq(Bundle) /\ \A d \in Bundle : <<d>> \in Seq(Bundle)
        OBVIOUS
      <3> QED BY <3>1
    <2> QED BY <1>7, <2>1, RescueSafe
  <1>8. CASE \E h \in DOMAIN session.analyses : RescueFromScratch(h)
    BY <1>8, RescueFromScratchSafe
  <1>9. CASE UNCHANGED vars
    <2>1. session' = session /\ Active' = Active /\ PhasesOK' /\ PinnedInputsSurvive'
      BY <1>9 DEF vars, Active, IInv, PhasesOK, PinnedInputsSurvive
    <2> QED BY <2>1, SafeStep DEF IInv
  <1> QED BY <1>1, <1>2, <1>3, <1>4, <1>5, <1>6, <1>7, <1>8, <1>9 DEF Next

LEMMA Inductive == Spec => []IInv
  BY InitSafe, NextSafe, PTL DEF Spec

(* Whatever requests evict to make room, cache or give up, whatever captures *)
(* write, and wherever one is unwound, the root of a capture in progress is  *)
(* on disk (_prune_scratch, _release_analysis_scratch).                      *)
THEOREM OpenCapturesKeepTheirRoot == Spec => []ActiveRootsKept
  <1>1. IInv => ActiveRootsKept
    BY DEF IInv, Safe, ActiveRootsKept
  <1> QED BY <1>1, Inductive, PTL

(* The capture behind any handle that is not preserved yet is on disk, for   *)
(* every ceiling, every size of the cache and every request.                 *)
THEOREM CapturesCanBePreserved == Spec => []UnpreservedCapturesKept
  <1>1. IInv => UnpreservedCapturesKept
    BY DEF IInv, Safe, UnpreservedCapturesKept
  <1> QED BY <1>1, Inductive, PTL

(* A request that succeeds has every input it acquired, in whatever order,   *)
(* and whatever it converted or evicted on the way.                          *)
THEOREM InputsSurviveTheirRequest == Spec => []PinnedInputsSurvive
  <1>1. IInv => PinnedInputsSurvive
    BY DEF IInv
  <1> QED BY <1>1, Inductive, PTL
=============================================================================
