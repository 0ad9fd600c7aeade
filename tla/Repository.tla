----------------------------- MODULE Repository -----------------------------
(***************************************************************************)
(* The evidence repository of src/flameox/repository.py, at the grain of   *)
(* its file-system calls.  Any number of processes share one data          *)
(* directory with no lock: each one initializes, stages, publishes by      *)
(* rename, reads, and may die between any two calls.  A process runs one   *)
(* repository operation at a time (AnalysisRuntime.run_in_request), so its *)
(* control state is one program counter.                                   *)
(*                                                                         *)
(* Artifact and evidence bundles go through the same stage, validate,      *)
(* rename and settle calls, so both are "bundles" here.  A bundle has the  *)
(* bytes it is about (payload, or data/analysis.json) and the record that  *)
(* names them (artifact.json, or manifest.json), written last.             *)
(***************************************************************************)
EXTENDS Naturals, Sequences, Functions

CONSTANTS
    Proc,       \* process lifetimes; a restarted server is a new element
    Pid,        \* process identifiers, which the operating system reuses
    Artifact,   \* digests of native artifacts
    Evidence,   \* digests of canonical manifest bodies
    Parts,      \* the artifacts of a manifest, in publication order
    None        \* no process, no bundle, no identifier

ASSUME RepositoryConstants ==
    /\ Artifact \cap Evidence = {}
    /\ Parts \in [Evidence -> Seq(Artifact)]

VARIABLES
    (* The data directory *)
    dirs,       \* how many of the layout directories exist, in mkdir order
    metadata,   \* repository.json is there
    store,      \* the bundle at each content-addressed destination
    owners,     \* the .staging/<session> directories
    stage,      \* the staged bundle in each of them
    (* The processes *)
    pc, pid,
    request,    \* the operation, its evidence and what its caller knew
    item,       \* the next element of the publication sequence
    intact,     \* the native inputs still have the bytes that were analyzed
    sweep,      \* staging owners the startup sweep has still to visit
    victim,     \* the dead owner whose tree the sweep is removing
    outcome,    \* how the last operation ended
    (* History *)
    acked       \* evidence whose preservation was reported to a caller

disk == <<dirs, metadata, store, owners, stage>>
vars == <<dirs, metadata, store, owners, stage,
          pc, pid, request, item, intact, sweep, victim, outcome, acked>>

Bundle == Artifact \cup Evidence

(* root, artifacts, artifacts/sha256, evidence, evidence/sha256, .staging *)
LayoutSize == 6

Contents == [data : {"none", "good", "bad"}, record : BOOLEAN]
Stages   == [of : Bundle, has : Contents]
Absent   == [data |-> "none", record |-> FALSE]
Complete == [data |-> "good", record |-> TRUE]

ASSUME NoneIsNoValue ==
    None \notin Proc \cup Pid \cup Evidence \cup Stages

PartsOf(e) == Range(Parts[e])

(* The bundle a publisher is at: its artifacts in order, then the manifest *)
Current(p) ==
    LET e == request[p].of
    IN  IF item[p] <= Len(Parts[e]) THEN Parts[e][item[p]] ELSE e

Live == { p \in Proc : pc[p] \notin {"off", "dead"} }

(***************************************************************************)
(* What a process sees when it looks at the directory.                     *)
(***************************************************************************)

(* An artifact is checked by itself; a manifest with all of its artifacts. *)
Valid(x, contents) ==
    /\ contents = Complete
    /\ x \in Evidence => \A a \in PartsOf(x) : store[a] = Complete

LayoutValid == metadata /\ dirs = LayoutSize

MetadataMissingIsCorruption ==
    /\ dirs > 0
    /\ \/ \E x \in Bundle : store[x] # Absent
       \/ metadata

(* Mutation: asks whether some live process has another number. *)
SomeOtherPid(o) == \E q \in Live : pid[q] # pid[o]

OwnerDead(o) == \A q \in Live : pid[q] # pid[o]

(***************************************************************************)
(* Moves of the program counter.                                           *)
(***************************************************************************)
Goto(p, label) == pc' = [pc EXCEPT ![p] = label]

(* The operation returns, or raises with the given cause. *)
Finish(p, how) ==
    /\ Goto(p, "idle")
    /\ outcome' = [outcome EXCEPT ![p] = how]

(* Mutation: takes the last artifact for the manifest. *)
SuccessOneEarly(p) ==
    IF item[p] >= Len(Parts[request[p].of])
    THEN /\ Finish(p, "ok")
         /\ acked' = acked \cup {request[p].of}
         /\ UNCHANGED item
    ELSE /\ Goto(p, "probe")
         /\ item' = [item EXCEPT ![p] = @ + 1]
         /\ UNCHANGED <<outcome, acked>>

(* Mutation: forgets to move on to the next bundle. *)
SameBundleAgain(p) ==
    IF Current(p) \in Evidence
    THEN /\ Finish(p, "ok")
         /\ acked' = acked \cup {request[p].of}
         /\ UNCHANGED item
    ELSE Goto(p, "probe") /\ UNCHANGED <<item, outcome, acked>>

(* The current bundle is in place: take the next one, or report success. *)
Advance(p) ==
    IF Current(p) \in Evidence
    THEN /\ Finish(p, "ok")
         /\ acked' = acked \cup {request[p].of}
         /\ UNCHANGED item
    ELSE /\ Goto(p, "probe")
         /\ item' = [item EXCEPT ![p] = @ + 1]
         /\ UNCHANGED <<outcome, acked>>

(***************************************************************************)
(* Process lifetimes.                                                      *)
(***************************************************************************)
NoRequest == [op |-> "none", of |-> None, known |-> FALSE]

Init ==
    /\ dirs = 0
    /\ metadata = FALSE
    /\ store = [x \in Bundle |-> Absent]
    /\ owners = {}
    /\ stage = [p \in Proc |-> None]
    /\ pc = [p \in Proc |-> "off"]
    /\ pid = [p \in Proc |-> None]
    /\ request = [p \in Proc |-> NoRequest]
    /\ item = [p \in Proc |-> 1]
    /\ intact = [p \in Proc |-> TRUE]
    /\ sweep = [p \in Proc |-> {}]
    /\ victim = [p \in Proc |-> None]
    /\ outcome = [p \in Proc |-> "none"]
    /\ acked = {}

(* The operating system gives the new process an identifier no live process
   has.  Only the MCP server sweeps on startup, and only a store it can see. *)
Start(p) ==
    /\ pc[p] = "off"
    /\ \E n \in Pid :
          /\ \A q \in Live : pid[q] # n
          /\ pid' = [pid EXCEPT ![p] = n]
    /\ \/ Goto(p, "idle")
       \/ metadata /\ Goto(p, "list")
    /\ UNCHANGED <<disk, request, item, intact, sweep, victim, outcome, acked>>

(* It exits or is killed: its memory goes, what it staged stays behind. *)
Die(p) ==
    /\ p \in Live
    /\ Goto(p, "dead")
    /\ request' = [request EXCEPT ![p] = NoRequest]
    /\ item' = [item EXCEPT ![p] = 1]
    /\ intact' = [intact EXCEPT ![p] = TRUE]
    /\ sweep' = [sweep EXCEPT ![p] = {}]
    /\ victim' = [victim EXCEPT ![p] = None]
    /\ outcome' = [outcome EXCEPT ![p] = "none"]
    /\ UNCHANGED <<disk, pid, acked>>

(* cleanup_abandoned_staging validates the repository and lists the owners. *)
ListOwners(p) ==
    /\ pc[p] = "list"
    /\ IF LayoutValid
       THEN /\ Goto(p, "sweep")
            /\ sweep' = [sweep EXCEPT ![p] = owners \ {p}]
       ELSE Goto(p, "idle") /\ UNCHANGED sweep
    /\ UNCHANGED <<disk, pid, request, item, intact, victim, outcome, acked>>

(* os.kill(pid, 0) tells whether some live process has the recorded number. *)
VisitOwner(p, o) ==
    /\ pc[p] = "sweep"
    /\ o \in sweep[p]
    /\ sweep' = [sweep EXCEPT ![p] = @ \ {o}]
    /\ IF o \in owners /\ OwnerDead(o)
       THEN Goto(p, "unlink") /\ victim' = [victim EXCEPT ![p] = o]
       ELSE UNCHANGED <<pc, victim>>
    /\ UNCHANGED <<disk, pid, request, item, intact, outcome, acked>>

EndSweep(p) ==
    /\ pc[p] = "sweep"
    /\ sweep[p] = {}
    /\ Goto(p, "idle")
    /\ UNCHANGED <<disk, pid, request, item, intact, sweep, victim, outcome, acked>>

(* shutil.rmtree removes the contents, then the directory.  When another
   sweep took either first it raises, and the lifespan swallows the error:
   the owners still to visit are left for another startup. *)
AbandonSweep(p) ==
    /\ Goto(p, "idle")
    /\ sweep' = [sweep EXCEPT ![p] = {}]
    /\ victim' = [victim EXCEPT ![p] = None]

UnlinkStaged(p) ==
    /\ pc[p] = "unlink"
    /\ IF victim[p] \in owners
       THEN /\ stage' = [stage EXCEPT ![victim[p]] = None]
            /\ Goto(p, "rmdir")
            /\ UNCHANGED <<sweep, victim>>
       ELSE AbandonSweep(p) /\ UNCHANGED stage
    /\ UNCHANGED <<dirs, metadata, store, owners, pid, request, item, intact,
                   outcome, acked>>

RemoveOwner(p) ==
    /\ pc[p] = "rmdir"
    /\ IF victim[p] \in owners
       THEN /\ owners' = owners \ {victim[p]}
            /\ victim' = [victim EXCEPT ![p] = None]
            /\ Goto(p, "sweep")
            /\ UNCHANGED sweep
       ELSE AbandonSweep(p) /\ UNCHANGED owners
    /\ UNCHANGED <<dirs, metadata, store, stage, pid, request, item, intact,
                   outcome, acked>>

(***************************************************************************)
(* Opening the repository.  preserve comes through initialize, read        *)
(* through _require_metadata_or_absent; both look at repository.json       *)
(* first, then for remains of a damaged store, then at repository.json     *)
(* again in case another process created it meanwhile.                     *)
(***************************************************************************)
Begin(p, op, e) ==
    /\ pc[p] = "idle"
    /\ request' = [request EXCEPT ![p] = [op |-> op, of |-> e, known |-> e \in acked]]
    /\ item' = [item EXCEPT ![p] = 1]
    /\ intact' = [intact EXCEPT ![p] = TRUE]
    /\ outcome' = [outcome EXCEPT ![p] = "none"]
    /\ Goto(p, IF op = "preserve" THEN "plan" ELSE "exists")
    /\ UNCHANGED <<disk, pid, sweep, victim, acked>>

(* Someone else edits or removes a native input of a running request. *)
ChangeInput(p) ==
    /\ p \in Live
    /\ pc[p] # "idle"
    /\ request[p].op = "preserve"
    /\ intact' = [intact EXCEPT ![p] = FALSE]
    /\ UNCHANGED <<disk, pc, pid, request, item, sweep, victim, outcome, acked>>

(* _publication_plan hashes every input again before anything is written. *)
Plan(p) ==
    /\ pc[p] = "plan"
    /\ IF intact[p]
       THEN Goto(p, "exists") /\ UNCHANGED outcome
       ELSE Finish(p, "changed")
    /\ UNCHANGED <<disk, pid, request, item, intact, sweep, victim, acked>>

LookForMetadata(p) ==
    /\ pc[p] = "exists"
    /\ Goto(p, IF metadata THEN "open" ELSE "check")
    /\ UNCHANGED <<disk, pid, request, item, intact, sweep, victim, outcome, acked>>

(* Mutation: trusts the first look at repository.json. *)
NoSecondLook(p) ==
    /\ pc[p] = "check"
    /\ IF MetadataMissingIsCorruption
       THEN Finish(p, "corruption")
       ELSE Goto(p, "mkdir") /\ UNCHANGED outcome
    /\ UNCHANGED <<disk, pid, request, item, intact, sweep, victim, acked>>

LookForRemains(p) ==
    /\ pc[p] = "check"
    /\ \/ /\ MetadataMissingIsCorruption
          /\ Goto(p, "recheck")
          /\ UNCHANGED outcome
       \/ /\ ~MetadataMissingIsCorruption
          /\ request[p].op = "preserve"
          /\ Goto(p, "mkdir")
          /\ UNCHANGED outcome
       \/ /\ ~MetadataMissingIsCorruption
          /\ request[p].op = "read"
          /\ Finish(p, "missing")
    /\ UNCHANGED <<disk, pid, request, item, intact, sweep, victim, acked>>

LookAgain(p) ==
    /\ pc[p] = "recheck"
    /\ IF metadata
       THEN Goto(p, "open") /\ UNCHANGED outcome
       ELSE Finish(p, "corruption")
    /\ UNCHANGED <<disk, pid, request, item, intact, sweep, victim, acked>>

(* Mutation: runs over the end of the layout. *)
OneDirectoryTooMany(p) ==
    /\ pc[p] = "mkdir"
    /\ \/ /\ dirs <= LayoutSize
          /\ dirs' = dirs + 1
          /\ UNCHANGED <<owners, pc>>
       \/ /\ dirs = LayoutSize
          /\ owners' = owners \cup {p}
          /\ Goto(p, "link")
          /\ UNCHANGED dirs
    /\ UNCHANGED <<metadata, store, stage, pid, request, item, intact, sweep,
                   victim, outcome, acked>>

(* mkdir(exist_ok=True) over the layout and then the process's own staging
   directory; going over a directory that exists changes nothing. *)
MakeDirectory(p) ==
    /\ pc[p] = "mkdir"
    /\ \/ /\ dirs < LayoutSize
          /\ dirs' = dirs + 1
          /\ UNCHANGED <<owners, pc>>
       \/ /\ dirs = LayoutSize
          /\ owners' = owners \cup {p}
          /\ Goto(p, "link")
          /\ UNCHANGED dirs
    /\ UNCHANGED <<metadata, store, stage, pid, request, item, intact, sweep,
                   victim, outcome, acked>>

(* os.link from a file in the process's own staging: the first one creates
   repository.json, FileExistsError makes the others use that one.  The
   fsync of the directory that follows may fail, with the file in place. *)
LinkMetadata(p) ==
    /\ pc[p] = "link"
    /\ metadata' = TRUE
    /\ \/ Goto(p, "open") /\ UNCHANGED outcome
       \/ Finish(p, "io")
    /\ UNCHANGED <<dirs, store, owners, stage, pid, request, item, intact, sweep,
                   victim, acked>>

(* _validate_repository: the version document, then the whole layout. *)
OpenRepository(p) ==
    /\ pc[p] = "open"
    /\ IF LayoutValid
       THEN /\ Goto(p, IF request[p].op = "preserve" THEN "probe" ELSE "locate")
            /\ UNCHANGED outcome
       ELSE Finish(p, "corruption")
    /\ UNCHANGED <<disk, pid, request, item, intact, sweep, victim, acked>>

(***************************************************************************)
(* Publishing one bundle: _publish_artifact, and the tail of preserve for  *)
(* the manifest.                                                           *)
(***************************************************************************)
StageContents(p, contents) == stage' = [stage EXCEPT ![p].has = contents]

(* A destination that exists is validated and used as it is.  Before that an
   artifact whose file is gone, or no regular file any more, ends the request. *)
ProbeDestination(p) ==
    /\ pc[p] = "probe"
    /\ \/ /\ store[Current(p)] = Absent
          /\ Goto(p, "stage")
          /\ UNCHANGED <<item, outcome, acked>>
       \/ /\ store[Current(p)] # Absent
          /\ IF Valid(Current(p), store[Current(p)])
             THEN Advance(p)
             ELSE Finish(p, "corruption") /\ UNCHANGED <<item, acked>>
       \/ /\ Current(p) \in Artifact /\ ~intact[p]
          /\ Finish(p, "changed")
          /\ UNCHANGED <<item, acked>>
    /\ UNCHANGED <<disk, pid, request, intact, sweep, victim>>

NewStage(p) ==
    /\ pc[p] = "stage"
    /\ owners' = owners \cup {p}
    /\ stage' = [stage EXCEPT ![p] = [of |-> Current(p), has |-> Absent]]
    /\ Goto(p, "copy")
    /\ UNCHANGED <<dirs, metadata, store, pid, request, item, intact, sweep,
                   victim, outcome, acked>>

(* Any later exception leaves through the finally clause that removes the
   stage; the cause is kept until then. *)
Raise(p, cause) ==
    /\ Goto(p, "unstage")
    /\ outcome' = [outcome EXCEPT ![p] = cause]

(* Mutation: assembles the bundle at its destination. *)
CopyInPlace(p) ==
    /\ pc[p] = "copy"
    /\ store' = [store EXCEPT ![Current(p)].data = "good"]
    /\ Goto(p, "record")
    /\ UNCHANGED <<dirs, metadata, owners, stage, pid, request, item, intact,
                   sweep, victim, outcome, acked>>

(* copy_verified_file checks the bytes of an artifact against its digest as
   it copies them.  The analysis document comes from memory. *)
CopyData(p) ==
    LET good == intact[p] \/ Current(p) \in Evidence
    IN  /\ pc[p] = "copy"
        /\ StageContents(p, [Absent EXCEPT !.data = IF good THEN "good" ELSE "bad"])
        /\ IF good
           THEN Goto(p, "record") /\ UNCHANGED outcome
           ELSE Raise(p, "changed")
        /\ UNCHANGED <<dirs, metadata, store, owners, pid, request, item, intact,
                       sweep, victim, acked>>

WriteRecord(p) ==
    /\ pc[p] = "record"
    /\ StageContents(p, [stage[p].has EXCEPT !.record = TRUE])
    /\ Goto(p, "validate")
    /\ UNCHANGED <<dirs, metadata, store, owners, pid, request, item, intact,
                   sweep, victim, outcome, acked>>

ValidateStage(p) ==
    /\ pc[p] = "validate"
    /\ IF Valid(stage[p].of, stage[p].has)
       THEN Goto(p, "rename") /\ UNCHANGED outcome
       ELSE Raise(p, "corruption")
    /\ UNCHANGED <<disk, pid, request, item, intact, sweep, victim, acked>>

(* rename is atomic and refuses a destination that has entries; the stage
   then stays where it is. *)
Rename(p) ==
    /\ pc[p] = "rename"
    /\ IF store[stage[p].of] = Absent
       THEN /\ store' = [store EXCEPT ![stage[p].of] = stage[p].has]
            /\ stage' = [stage EXCEPT ![p] = None]
       ELSE UNCHANGED <<store, stage>>
    /\ Goto(p, "settle")
    /\ UNCHANGED <<dirs, metadata, owners, pid, request, item, intact, sweep,
                   victim, outcome, acked>>

(* Mutation: reports a lost race as a failure of the request. *)
LostRaceIsChangedInput(p) ==
    /\ pc[p] = "settle"
    /\ IF stage[p] = None
       THEN Goto(p, "unstage") /\ UNCHANGED outcome
       ELSE Raise(p, "changed")
    /\ UNCHANGED <<disk, pid, request, item, intact, sweep, victim, acked>>

(* A stage that remains means another publisher won: what that one published
   is validated before it is used. *)
Settle(p) ==
    /\ pc[p] = "settle"
    /\ IF stage[p] = None \/ Valid(Current(p), store[Current(p)])
       THEN Goto(p, "unstage") /\ UNCHANGED outcome
       ELSE Raise(p, "corruption")
    /\ UNCHANGED <<disk, pid, request, item, intact, sweep, victim, acked>>

(* Mutation: removes the stage only on success. *)
StageKeptOnFailure(p) ==
    /\ pc[p] = "unstage"
    /\ IF outcome[p] = "none"
       THEN stage' = [stage EXCEPT ![p] = None] /\ Advance(p)
       ELSE Goto(p, "idle") /\ UNCHANGED <<stage, item, outcome, acked>>
    /\ UNCHANGED <<dirs, metadata, store, owners, pid, request, intact, sweep, victim>>

(* Mutation: a failed publication takes its destination along. *)
DestinationRolledBack(p) ==
    /\ pc[p] = "unstage"
    /\ stage' = [stage EXCEPT ![p] = None]
    /\ IF outcome[p] = "none"
       THEN Advance(p) /\ UNCHANGED store
       ELSE /\ Goto(p, "idle")
            /\ store' = [store EXCEPT ![Current(p)] = Absent]
            /\ UNCHANGED <<item, outcome, acked>>
    /\ UNCHANGED <<dirs, metadata, owners, pid, request, intact, sweep, victim>>

(* finally: rmtree the stage if it is still there, then return or raise. *)
Unstage(p) ==
    /\ pc[p] = "unstage"
    /\ stage' = [stage EXCEPT ![p] = None]
    /\ IF outcome[p] = "none"
       THEN Advance(p)
       ELSE Goto(p, "idle") /\ UNCHANGED <<item, outcome, acked>>
    /\ UNCHANGED <<dirs, metadata, store, owners, pid, request, intact, sweep, victim>>

(* A write, an fsync or a mkdir fails, for instance because the disk is full. *)
FailIO(p) ==
    /\ \/ pc[p] \in {"mkdir", "link", "stage"} /\ Finish(p, "io")
       \/ pc[p] \in {"copy", "record", "rename", "settle"} /\ Raise(p, "io")
    /\ UNCHANGED <<disk, pid, request, item, intact, sweep, victim, acked>>

(***************************************************************************)
(* Reading: _require_evidence_path, then _validate_evidence.  Published    *)
(* bundles never change, so one step stands for all the reads of the       *)
(* second.                                                                 *)
(***************************************************************************)
Locate(p) ==
    /\ pc[p] = "locate"
    /\ IF store[request[p].of] # Absent
       THEN Goto(p, "inspect") /\ UNCHANGED outcome
       ELSE Finish(p, "missing")
    /\ UNCHANGED <<disk, pid, request, item, intact, sweep, victim, acked>>

Inspect(p) ==
    /\ pc[p] = "inspect"
    /\ Finish(p, IF Valid(request[p].of, store[request[p].of]) THEN "ok" ELSE "corruption")
    /\ UNCHANGED <<disk, pid, request, item, intact, sweep, victim, acked>>

(***************************************************************************)
(* Specification.                                                          *)
(***************************************************************************)
SweepStep(p) ==
    \/ ListOwners(p)
    \/ \E o \in Proc : VisitOwner(p, o)
    \/ EndSweep(p)
    \/ UnlinkStaged(p)
    \/ RemoveOwner(p)

OpenStep(p) ==
    \/ Plan(p)
    \/ LookForMetadata(p)
    \/ LookForRemains(p)
    \/ LookAgain(p)
    \/ MakeDirectory(p)
    \/ LinkMetadata(p)
    \/ OpenRepository(p)

PublishStep(p) ==
    \/ ProbeDestination(p)
    \/ NewStage(p)
    \/ CopyData(p)
    \/ WriteRecord(p)
    \/ ValidateStage(p)
    \/ Rename(p)
    \/ Settle(p)
    \/ Unstage(p)

ReadStep(p) ==
    \/ Locate(p)
    \/ Inspect(p)

(* What a running process does on its own. *)
Step(p) == SweepStep(p) \/ OpenStep(p) \/ PublishStep(p) \/ ReadStep(p)

Environment(p) ==
    \/ Start(p)
    \/ Die(p)
    \/ \E op \in {"preserve", "read"}, e \in Evidence : Begin(p, op, e)
    \/ ChangeInput(p)
    \/ FailIO(p)

Next == \E p \in Proc : Step(p) \/ Environment(p)

Spec == Init /\ [][Next]_vars

(* A live process is scheduled; nothing obliges anyone to start one, to call
   an operation or to survive. *)
FairSpec == Spec /\ \A p \in Proc : WF_vars(Step(p))

(***************************************************************************)
(* Properties.                                                             *)
(***************************************************************************)
Labels == {"off", "dead", "idle", "list", "sweep", "unlink", "rmdir", "plan",
           "exists", "check", "recheck", "mkdir", "link", "open", "probe",
           "stage", "copy", "record", "validate", "rename", "settle", "unstage",
           "locate", "inspect"}

Outcomes == {"none", "ok", "missing", "changed", "io", "corruption"}

Requests == [op : {"none", "preserve", "read"}, of : Evidence \cup {None}, known : BOOLEAN]

(* Every variable has the shape the actions assume. *)
TypeOK ==
    /\ dirs \in 0..LayoutSize
    /\ metadata \in BOOLEAN
    /\ store \in [Bundle -> Contents]
    /\ owners \in SUBSET Proc
    /\ stage \in [Proc -> Stages \cup {None}]
    /\ pc \in [Proc -> Labels]
    /\ pid \in [Proc -> Pid \cup {None}]
    /\ request \in [Proc -> Requests]
    /\ item \in [Proc -> Nat]
    /\ intact \in [Proc -> BOOLEAN]
    /\ sweep \in [Proc -> SUBSET Proc]
    /\ victim \in [Proc -> Proc \cup {None}]
    /\ outcome \in [Proc -> Outcomes]
    /\ acked \in SUBSET Evidence

(* "Readers see no bundle or one complete bundle" (docs/runtime-safety.md):
   whatever a publisher was doing when it died, a bundle at its destination
   has its bytes and its record, and a manifest has all of its artifacts. *)
VisibleBundlesComplete ==
    \A x \in Bundle : store[x] # Absent => Valid(x, store[x])

(* In a store nobody tampers with no operation reports corruption, however
   initialization, publication, death and sweeps interleave: in particular a
   half-initialized directory is never taken for a damaged one. *)
NoFalseCorruption == \A p \in Proc : outcome[p] # "corruption"

(* Evidence whose preservation was reported is found by every read that
   begins afterwards, in any process. *)
AcknowledgedIsFound ==
    \A p \in Proc :
        /\ request[p].op = "read"
        /\ request[p].known
        => outcome[p] \notin {"missing", "corruption"}

(* "Startup may remove another staging owner only when its recorded process
   ID is provably dead": a publisher at work still has the stage it made. *)
WorkInProgressKept ==
    \A p \in Proc :
        pc[p] \in {"copy", "record", "validate", "rename"} =>
            /\ p \in owners
            /\ stage[p] # None
            /\ stage[p].of = Current(p)

(* A process that is not publishing holds no stage, whether its last request
   succeeded, failed on the input or failed on the disk: staging grows only
   with the dead. *)
StageReleased ==
    \A p \in Proc : pc[p] \in {"idle", "probe", "stage"} => stage[p] = None

(* A failure is the fault of this request's own inputs or disk: losing the
   race against a publisher of the same bundle is never an error. *)
FailureHasCause ==
    \A p \in Proc : outcome[p] = "changed" => ~intact[p]

(* Every operation and every startup sweep of a process that stays alive
   comes to an end. *)
OperationsEnd ==
    \A p \in Proc :
        pc[p] \notin {"off", "dead", "idle"} ~> pc[p] \in {"dead", "idle"}

(* What makes the above hold at every step: the inductive invariant. *)
Preserving == {"plan", "mkdir", "link", "probe", "stage", "copy", "record",
               "validate", "rename", "settle", "unstage"}
Holding == {"copy", "record", "validate", "rename"}
Opened  == {"open", "probe", "stage", "copy", "record", "validate", "rename",
            "settle", "unstage", "locate", "inspect"}

StoreInv ==
    /\ metadata => dirs = LayoutSize
    /\ ~metadata => \A x \in Bundle : store[x] = Absent
    /\ VisibleBundlesComplete
    /\ \A e \in acked : store[e] = Complete

(* Only the dead are swept, and no dead process comes back. *)
SweepInv ==
    /\ \A o \in owners : pc[o] # "off"
    /\ \A p \in Proc :
          /\ \A o \in sweep[p] : pc[o] # "off"
          /\ pc[p] \in {"unlink", "rmdir"} => victim[p] \in Proc /\ pc[victim[p]] = "dead"
          /\ p \in Live => pid[p] \in Pid

OpenInv(p) ==
    /\ pc[p] \in Preserving => request[p].op = "preserve"
    /\ pc[p] \in {"locate", "inspect"} => request[p].op = "read"
    /\ request[p].op # "none" => request[p].of \in Evidence
    /\ pc[p] \in {"exists", "check", "recheck", "open"} => request[p].op # "none"
    /\ pc[p] \in Opened \cup {"recheck"} => metadata
    /\ pc[p] = "link" => dirs = LayoutSize

PublishInv(p) ==
    /\ request[p].op = "preserve" =>
          /\ item[p] \in 1..(Len(Parts[request[p].of]) + 1)
          /\ \A i \in 1..(item[p] - 1) : store[Parts[request[p].of][i]] = Complete
    /\ pc[p] \in Holding =>
          stage[p] # None /\ stage[p].of = Current(p) /\ p \in owners
    /\ pc[p] = "record" => stage[p].has.data = "good"
    /\ pc[p] \in {"validate", "rename"} => stage[p].has = Complete
    /\ pc[p] = "settle" => store[Current(p)] # Absent
    /\ pc[p] = "unstage" /\ outcome[p] = "none" => store[Current(p)] # Absent
    /\ pc[p] = "inspect" => store[request[p].of] # Absent
    /\ pc[p] \notin Holding \cup {"settle", "unstage", "dead"} => stage[p] = None

OutcomeInv(p) ==
    /\ outcome[p] # "corruption"
    /\ outcome[p] = "changed" => ~intact[p]
    /\ request[p].op = "read" /\ request[p].known =>
          request[p].of \in acked /\ outcome[p] # "missing"

IInv ==
    /\ TypeOK
    /\ StoreInv
    /\ SweepInv
    /\ \A p \in Proc : OpenInv(p) /\ PublishInv(p) /\ OutcomeInv(p)

(* The abstract store: bundles appear one at a time, artifacts before the
   evidence that refers to them, and nothing published ever goes away. *)
Abstract ==
    INSTANCE EvidenceStore WITH
        artifacts <- { a \in Artifact : store[a] # Absent },
        evidence  <- { e \in Evidence : store[e] # Absent }

ImplementsStore == Abstract!Spec

=============================================================================
