---------------------------- MODULE AnalysisPages ----------------------------
(***************************************************************************)
(* The analyses of a session (runtime.py): clients ask for pages of a       *)
(* bounded projection of source files that may be edited at any time, by    *)
(* requests that hold the session's lock from the first hash of the sources *)
(* to the last, even when their client is gone.  A behaviour is about one   *)
(* case: a provider's format, what is asked of it, and the versions that    *)
(* each source takes in turn.                                               *)
(***************************************************************************)
EXTENDS Holdings, WorkerJob

CONSTANTS
    Clients,        \* the callers of the session
    Cases,          \* sets of [format, ask, sources, maxRows, clients, limits, racing]
    MaxAnalyses,    \* MAX_SESSION_ANALYSES
    MaxProjections  \* MAX_SESSION_PROJECTIONS

ASSUME CasesHaveShape ==
    \A i \in DOMAIN Cases : \A c \in Cases[i] :
        /\ c.maxRows \in Nat \ {0} /\ c.clients \subseteq Clients /\ c.limits \subseteq Nat \ {0}
        /\ Len(c.sources) \in Nat /\ DOMAIN c.sources = 1..Len(c.sources)
        /\ \A s \in DOMAIN c.sources :
               Len(c.sources[s]) \in Nat \ {0} /\ DOMAIN c.sources[s] = 1..Len(c.sources[s])

(* The sources of a case, and what its provider makes of them: a list of rows *)
VersionsOf(c) ==
    { v \in [DOMAIN c.sources -> UNION { DOMAIN c.sources[s] : s \in DOMAIN c.sources }] :
        \A s \in DOMAIN c.sources : v[s] \in DOMAIN c.sources[s] }
DocsOf(c, versions) == [s \in DOMAIN c.sources |-> c.sources[s][versions[s]]]
ResultOf(c, versions) == Analysis(c.format, DocsOf(c, versions), c.ask, c.maxRows + 1)
RowsOf(c, versions) ==
    IF c.format = "preview" THEN FlattenSeq(DocsOf(c, versions)) ELSE ResultOf(c, versions).rows

ASSUME ProvidersReturnRows ==
    \A i \in DOMAIN Cases : \A c \in Cases[i] : \A v \in VersionsOf(c) :
        RowsOf(c, v) \in Seq(ToSet(RowsOf(c, v)))
ASSUME CachesHold == MaxAnalyses \in Nat \ {0} /\ MaxProjections \in Nat \ {0}

VARIABLES
    case,         \* the case of this behaviour
    decoded,      \* what its provider makes of each combination of versions
    file,         \* the version of each source
    tool,         \* the version of the host tool that converts sources
    queue,        \* the clients that hold or wait for the lock, oldest first
    cancelled,    \* clients that left while their request held the lock
    work,         \* the request that holds the lock
    projections,  \* provider results by identity, least recently used first
    analyses,     \* pages by identity and offset, least recently used first
    conversions,  \* converted sources: <<version, tool>> -> version read
    reply,        \* the last answer to each client
    got           \* the rows of the chain of pages each client follows

sessionVars == <<projections, analyses, conversions>>
clientVars == <<queue, cancelled, reply, got>>
vars == <<case, decoded, file, tool, work, sessionVars, clientVars, jobVars>>

NoToken == [limit |-> 0, seen |-> <<>>, tool |-> 0, offset |-> 0]
NoReply == [status |-> "none", rows |-> <<>>, complete |-> FALSE, seen |-> <<>>,
            limit |-> 1, token |-> NoToken, asked |-> NoToken, verdict |-> "none"]
Idle == [stage |-> "idle", limit |-> 1, asked |-> NoToken, seen |-> <<>>, tool |-> 0,
         read |-> <<>>, table |-> Refused, fresh |-> {}, checked |-> 0]

Sources == DOMAIN case.sources
DocsAt(versions) == DocsOf(case, versions)
Versions == VersionsOf(case)

Init ==
    /\ \E i \in DOMAIN Cases : case \in Cases[i]
    /\ decoded = [v \in Versions |-> ResultOf(case, v)]
    /\ file = [s \in Sources |-> 1]
    /\ tool = 1
    /\ queue = <<>> /\ cancelled = {}
    /\ work = Idle
    /\ projections = <<>> /\ analyses = <<>> /\ conversions = <<>>
    /\ reply = [c \in Clients |-> NoReply]
    /\ got = [c \in Clients |-> <<>>]
    /\ JobInit

-----------------------------------------------------------------------------
(* The world *)

Edit(s) ==
    /\ file[s] < Len(case.sources[s])
    /\ file' = [file EXCEPT ![s] = @ + 1]
    /\ UNCHANGED <<case, decoded, tool, work, sessionVars, clientVars, jobVars>>

UpdateTool ==
    /\ case.racing /\ case.format \in ConvertedFormats /\ tool = 1
    /\ tool' = 2
    /\ UNCHANGED <<case, decoded, file, work, sessionVars, clientVars, jobVars>>

(* A client asks for the first page *)
Ask(c, limit) ==
    /\ c \notin ToSet(queue)
    /\ queue' = Append(queue, c)
    /\ reply' = [reply EXCEPT ![c] = [NoReply EXCEPT !.limit = limit]]
    /\ got' = [got EXCEPT ![c] = <<>>]
    /\ UNCHANGED <<case, decoded, file, tool, cancelled, work, sessionVars, jobVars>>

(* A client follows the continuation of its last page with the request that *)
(* came with it, or with a page size of its own                             *)
Follow(c, limit) ==
    /\ c \notin ToSet(queue)
    /\ reply[c].token # NoToken
    /\ queue' = Append(queue, c)
    /\ reply' = [reply EXCEPT ![c] = [NoReply EXCEPT !.limit = limit, !.asked = reply[c].token]]
    /\ UNCHANGED <<case, decoded, file, tool, cancelled, work, sessionVars, got, jobVars>>

Place(c) == CHOOSE i \in DOMAIN queue : queue[i] = c

(* Mutant: a client that leaves hands the lock on although its thread runs *)
CancelAtOnce(c) ==
    /\ case.racing
    /\ c \in ToSet(queue) /\ c \notin cancelled
    /\ queue' = RemoveAt(queue, Place(c)) /\ UNCHANGED cancelled
    /\ UNCHANGED <<case, decoded, file, tool, work, sessionVars, reply, got, jobVars>>

(* A client gives up: at once when it waits for the lock, else when the     *)
(* thread that holds it has ended                                           *)
Cancel(c) ==
    /\ case.racing
    /\ c \in ToSet(queue) /\ c \notin cancelled
    /\ IF c = Head(queue) /\ work # Idle
       THEN cancelled' = cancelled \cup {c} /\ UNCHANGED queue
       ELSE queue' = RemoveAt(queue, Place(c)) /\ UNCHANGED cancelled
    /\ UNCHANGED <<case, decoded, file, tool, work, sessionVars, reply, got, jobVars>>

-----------------------------------------------------------------------------
(* The request that holds the lock *)

Holder == Head(queue)
At(stage) == queue # <<>> /\ work.stage = stage
Identified == [limit |-> work.limit, seen |-> work.seen, tool |-> work.tool]
Offset == work.asked.offset

(* The thread ends with an answer, which a client that left does not get *)
Answer(answer) ==
    /\ queue' = Tail(queue)
    /\ cancelled' = cancelled \ {Holder}
    /\ work' = Idle
    /\ reply' = [reply EXCEPT ![Holder] =
           IF Holder \in cancelled THEN NoReply
           ELSE [answer EXCEPT !.limit = work.limit, !.asked = work.asked]]
    /\ got' = [got EXCEPT ![Holder] = IF Holder \in cancelled THEN <<>> ELSE @ \o answer.rows]

(* Mutant: what a failed request converted is kept *)
FailKeepingConversions(code) ==
    /\ Answer([NoReply EXCEPT !.status = code])
    /\ UNCHANGED sessionVars

(* Conversions that a failed request added are removed with it *)
Fail(code) ==
    /\ Answer([NoReply EXCEPT !.status = code])
    /\ conversions' = [k \in DOMAIN conversions \ work.fresh |-> conversions[k]]
    /\ UNCHANGED <<projections, analyses>>

Acquire ==
    /\ At("idle")
    /\ work' = [Idle EXCEPT !.stage = "resolve", !.limit = reply[Holder].limit,
                            !.asked = reply[Holder].asked]
    /\ UNCHANGED <<case, decoded, file, tool, sessionVars, clientVars, jobVars>>

(* Each source is hashed; a continuation names the digests it expects *)
Resolve ==
    LET s == Len(work.seen) + 1 IN
    /\ At("resolve") /\ s \in Sources
    /\ IF work.asked # NoToken /\ work.asked.seen[s] # file[s]
       THEN Fail("MISSING_OR_CHANGED_INPUT")
       ELSE /\ work' = [work EXCEPT !.seen = Append(@, file[s])]
            /\ UNCHANGED <<sessionVars, clientVars>>
    /\ UNCHANGED <<case, decoded, file, tool, jobVars>>

(* The tool is part of the identity of a request for a converted format *)
Identify ==
    /\ At("resolve") /\ Len(work.seen) = Len(case.sources)
    /\ work' = [work EXCEPT !.stage = "identified", !.tool = tool]
    /\ UNCHANGED <<case, decoded, file, tool, sessionVars, clientVars, jobVars>>

Matches == [limit |-> work.asked.limit, seen |-> work.asked.seen, tool |-> work.asked.tool] = Identified

(* The least recently used first: what is used or stored becomes the last *)
Holds(cache, key) == \E i \in DOMAIN cache : cache[i].key = key
PlaceOf(cache, key) == CHOOSE i \in DOMAIN cache : cache[i].key = key
Entry(cache, key) == cache[PlaceOf(cache, key)]
Without(cache, key) ==
    IF Holds(cache, key) THEN RemoveAt(cache, PlaceOf(cache, key)) ELSE cache
Used(cache, key) == Append(Without(cache, key), Entry(cache, key))
(* Mutant: what is stored evicts nothing *)
StoredForever(cache, key, value, max) ==
    Append(Without(cache, key), [key |-> key, value |-> value])

Stored(cache, key, value, max) ==
    LET all == Append(Without(cache, key), [key |-> key, value |-> value])
    IN SubSeq(all, Max({1, Len(all) - max + 1}), Len(all))

(* A page or a projection of the session, or the provider *)
Look ==
    /\ At("identified")
    /\ \/ /\ work.asked # NoToken /\ ~ Matches
          /\ Fail("INVALID_INPUT")
       \/ /\ work.asked # NoToken => Matches
          /\ Holds(analyses, <<Identified, Offset>>)
          /\ Answer(Entry(analyses, <<Identified, Offset>>).value)
          /\ analyses' = Used(analyses, <<Identified, Offset>>)
          /\ UNCHANGED <<projections, conversions>>
       \/ /\ work.asked # NoToken => Matches
          /\ ~ Holds(analyses, <<Identified, Offset>>)
          /\ IF Holds(projections, Identified)
             THEN /\ work' = [work EXCEPT !.stage = "page", !.table = Entry(projections, Identified).value]
                  /\ projections' = Used(projections, Identified)
             ELSE /\ work' = [work EXCEPT !.stage = "read"]
                  /\ UNCHANGED projections
          /\ UNCHANGED <<analyses, conversions, clientVars>>
    /\ UNCHANGED <<case, decoded, file, tool, jobVars>>

(* The next source to read, and the reading of it *)
Reading(s) == At("read") /\ s = Len(work.read) + 1 /\ s \in Sources
HasRead(version) == work' = [work EXCEPT !.read = Append(@, version)]

ReadSource ==
    \E s \in Sources :
        /\ Reading(s) /\ case.format \notin WorkerFormats \cup ConvertedFormats
        /\ HasRead(file[s])
        /\ UNCHANGED <<case, decoded, file, tool, sessionVars, clientVars, jobVars>>

(* A conversion is found by the digest of the source and of the tool found  *)
(* now, or made, or fails; it is stored before the source is hashed again   *)
Convert ==
    /\ Reading(1) /\ case.format \in ConvertedFormats
    /\ LET key == <<work.seen[1], tool>> IN
       IF key \in DOMAIN conversions
       THEN HasRead(conversions[key]) /\ UNCHANGED <<sessionVars, clientVars>>
       ELSE \/ /\ conversions' = [k \in DOMAIN conversions \cup {key} |->
                                      IF k = key THEN file[1] ELSE conversions[k]]
               /\ work' = [work EXCEPT !.read = Append(@, file[1]), !.fresh = @ \cup {key}]
               /\ UNCHANGED <<projections, analyses, clientVars>>
            \/ case.racing /\ Fail("DECODE_FAILURE")
    /\ UNCHANGED <<case, decoded, file, tool, jobVars>>

StartWorker ==
    /\ \E s \in Sources : Reading(s)
    /\ case.format \in WorkerFormats /\ job.stage = "none"
    /\ StartJob(Holder)
    /\ UNCHANGED <<case, decoded, file, tool, work, sessionVars, clientVars>>

(* The worker reads the source: its result is of the version it finds *)
WorkerReads ==
    /\ job.stage = "started"
    /\ HandleJob("success")
    /\ HasRead(file[Len(work.read) + 1])
    /\ UNCHANGED <<case, decoded, file, tool, sessionVars, clientVars>>

WorkerStep ==
    /\ \/ WriteResponse
       \/ ExitJob
       \/ /\ case.racing
          /\ \/ RejectJob
             \/ \E answer \in {"limit", "unavailable", "malformed", "uncaught"} : HandleJob(answer)
             \/ \E status \in {"signal", "stopped"} : KillJob(status)
    /\ UNCHANGED <<case, decoded, file, tool, work, sessionVars, clientVars>>

(* Mutant: a worker that ended without a response is still waited for *)
LoadAnswered ==
    /\ job.response # "absent"
    /\ EndJob(Holder)
    /\ IF Loaded = "ok" THEN UNCHANGED <<work, sessionVars, clientVars>> ELSE Fail(Loaded)
    /\ UNCHANGED <<case, decoded, file, tool>>

LoadWorker ==
    /\ EndJob(Holder)
    /\ IF Loaded = "ok" THEN UNCHANGED <<work, sessionVars, clientVars>> ELSE Fail(Loaded)
    /\ UNCHANGED <<case, decoded, file, tool>>

(* All sources are read: the provider has its result, or refuses them *)
Decode ==
    /\ At("read") /\ Len(work.read) = Len(case.sources) /\ job.stage = "none"
    /\ LET table == IF case.format = "preview" THEN Preview(DocsAt(work.read), Offset, work.limit)
                    ELSE decoded[work.read]
       IN IF table.ok
          THEN /\ work' = [work EXCEPT !.stage = "page", !.table = table]
               /\ UNCHANGED <<sessionVars, clientVars>>
          ELSE Fail("DECODE_FAILURE")
    /\ UNCHANGED <<case, decoded, file, tool, jobVars>>

PageRows ==
    IF case.format = "preview" THEN work.table.rows
    ELSE SubSeq(work.table.rows, Offset + 1, Min({Offset + work.limit, Len(work.table.rows)}))
Beyond == IF case.format = "preview" THEN work.table.observed ELSE Len(work.table.rows)
(* Mutant: a page that is full is taken to have a next one *)
ContinuesWhenFull == Len(PageRows) = work.limit

Continues ==
    IF case.format = "preview" THEN ~ work.table.complete
    ELSE Offset + Len(PageRows) < Len(work.table.rows)

Continuation ==
    [limit |-> work.limit, seen |-> work.seen, tool |-> work.tool, offset |-> Offset + Len(PageRows)]

Page ==
    /\ At("page")
    /\ IF work.asked # NoToken /\ Offset >= Beyond
       THEN Fail("INVALID_INPUT")
       ELSE work' = [work EXCEPT !.stage = "verify"] /\ UNCHANGED <<sessionVars, clientVars>>
    /\ UNCHANGED <<case, decoded, file, tool, jobVars>>

(* Mutant: sources are not hashed again *)
VerifyNothing ==
    /\ At("verify") /\ work.checked + 1 \in Sources
    /\ work' = [work EXCEPT !.checked = @ + 1]
    /\ UNCHANGED <<case, decoded, file, tool, sessionVars, clientVars, jobVars>>

(* Each source is hashed again *)
Verify ==
    LET s == work.checked + 1 IN
    /\ At("verify") /\ s \in Sources
    /\ IF file[s] # work.seen[s]
       THEN Fail("MISSING_OR_CHANGED_INPUT")
       ELSE work' = [work EXCEPT !.checked = s] /\ UNCHANGED <<sessionVars, clientVars>>
    /\ UNCHANGED <<case, decoded, file, tool, jobVars>>

(* Only summaries of kernel validation report a verdict *)
VerdictOf(table) ==
    IF case.format = "kernel-validation" /\ "verdict" \in DOMAIN table THEN table.verdict ELSE "none"

(* The page is answered and stored, with the projection it is a page of *)
Reply ==
    LET answer == [NoReply EXCEPT !.status = "ok", !.rows = PageRows, !.seen = work.seen,
                       !.complete = work.table.complete /\ ~ Continues,
                       !.token = IF Continues THEN Continuation ELSE NoToken,
                       !.verdict = VerdictOf(work.table)]
    IN
    /\ At("verify") /\ work.checked = Len(case.sources)
    /\ Answer(answer)
    /\ projections' = IF case.format = "preview" \/ Holds(projections, Identified) THEN projections
                      ELSE Stored(projections, Identified, work.table, MaxProjections)
    /\ analyses' = Stored(analyses, <<Identified, Offset>>, answer, MaxAnalyses)
    /\ UNCHANGED <<case, decoded, file, tool, conversions, jobVars>>

Serve ==
    \/ Acquire \/ Resolve \/ Identify \/ Look
    \/ ReadSource \/ Convert \/ StartWorker \/ WorkerReads \/ WorkerStep \/ LoadWorker
    \/ Decode \/ Page \/ Verify \/ Reply

Next ==
    \/ \E s \in Sources : Edit(s)
    \/ UpdateTool
    \/ \E c \in case.clients :
          \/ \E limit \in case.limits : Ask(c, limit) \/ Follow(c, limit)
          \/ Cancel(c)
    \/ Serve

Spec == Init /\ [][Next]_vars

(* The thread runs, and the broker ends every process by its deadline *)
FairSpec == Spec /\ WF_vars(Serve)

-----------------------------------------------------------------------------
AllRows(versions) ==
    IF case.format = "preview" THEN FlattenSeq(DocsAt(versions)) ELSE decoded[versions].rows

(* The session's state has the shape its fields declare *)
TypeOK ==
    /\ \A s \in Sources : file[s] \in DOMAIN case.sources[s]
    /\ tool \in 1..2
    /\ ToSet(queue) \cup cancelled \subseteq Clients
    /\ roots \subseteq Clients
    /\ Len(projections) <= MaxProjections /\ Len(analyses) <= MaxAnalyses

(* The pages a client has followed are a prefix of what the provider makes  *)
(* of the very versions that the answers name, whatever was edited, cached  *)
(* or evicted between and during its requests.                              *)
PagesAgree ==
    \A c \in Clients : reply[c].status = "ok" =>
        got[c] = SubSeq(AllRows(reply[c].seen), 1, Len(got[c]))

(* Pages whose last one claims to be complete show everything that the      *)
(* sources hold, and a last page that claims less names no further one.     *)
CompleteMeansEverything ==
    \A c \in Clients : reply[c].status = "ok" /\ reply[c].complete =>
        /\ reply[c].token = NoToken
        /\ Shown(case.format, case.ask, got[c]) = Held(case.format, DocsAt(reply[c].seen), case.ask)

MetricHolds(m) ==
    /\ m.status = "pass"
    /\ m.kind = "positive_infinity" => m.comparator # "<="
    /\ m.kind = "finite" =>
          /\ m.comparator = "<=" => m.value <= m.threshold
          /\ m.comparator = ">=" => m.threshold <= m.value

(* A kernel is reported to pass only when everything below its document     *)
(* passes, cases without outputs among it, and every metric with a          *)
(* comparator and a value agrees with it, an infinite value too             *)
KernelVerdictsHold ==
    \A c \in Clients : reply[c].verdict = "pass" =>
        \A k \in ToSet(DocsAt(reply[c].seen)[1].cases) :
            /\ k.status = "pass"
            /\ \A o \in ToSet(k.outputs) :
                  /\ o.status = "pass"
                  /\ \A m \in ToSet(o.metrics) : MetricHolds(m)

(* What the session keeps for later requests was made from the versions it  *)
(* is kept under, except the conversions of the request that is running     *)
CachesTrue ==
    /\ \A e \in ToSet(projections) : e.value = decoded[e.key.seen]
    /\ \A e \in ToSet(analyses) : e.value.seen = e.key[1].seen
    /\ \A k \in DOMAIN conversions \ work.fresh : conversions[k] = k[1]

(* "A continuation therefore always names a consumable next page": one that *)
(* is followed as it was given is refused as invalid only when a source or  *)
(* the tool has changed since                                               *)
ContinuationsConsumable ==
    \A c \in Clients : LET asked == reply[c].asked IN
        reply[c].status = "INVALID_INPUT" =>
            reply[c].limit # asked.limit \/ tool # asked.tool \/ file # asked.seen

(* The state of the session is its holder's: a thread and its job directory *)
(* outlive neither the request nor its hold on the lock, and a client that  *)
(* left keeps the lock until they are gone                                  *)
ThreadsHoldTheLock ==
    /\ work # Idle => queue # <<>>
    /\ roots \subseteq (IF At("read") THEN {Holder} ELSE {})
    /\ cancelled \subseteq (IF work # Idle THEN {Holder} ELSE {})

(* Every request is answered, or its client has left *)
RequestsEnd == \A c \in Clients : c \in ToSet(queue) ~> c \notin ToSet(queue)
=============================================================================
