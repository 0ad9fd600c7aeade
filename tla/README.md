# Flameox in TLA+

Flameox captures profiles of local programs, analyzes them inside one server session and
preserves evidence in a content-addressed repository. These modules model the parts of it where
order, failure and sharing matter: the repository that several processes use without a lock, the
session cache and scratch directory that several requests share, the paged query over a store that
grows, the broker that runs one child process and must settle everything it started, the analyses
that turn files into pages while those files change, with the providers behind them, and the setup
that replaces client configurations other programs write too.
Paths below are relative to `src/flameox/`.

## Inventory

| Component | State it keeps | Operations | What makes it hard | What makes it correct |
|---|---|---|---|---|
| Evidence repository (`repository.py`, `atomic.py`) | data directory: layout, metadata, bundles, staging owners | initialize, preserve, publish, read, sweep | processes race and die between any two system calls, pids are reused | readers see no bundle or a complete one; acknowledged evidence is found; no false corruption; live stages are kept |
| Evidence query (`repository.py` 595-688, 869-1012) | none but the listing and the cursor | list, filter, page | the listing is not a snapshot, pages are taken of a store that grows | chains are complete, ordered, without repetition |
| Session cache and scratch (`runtime.py`) | analyses, scratch artifacts, pins, reservations | analyze, evict, prune, preserve, rescue | least-recently-used eviction against what requests, captures and other handles need | what is needed stays, what is not goes, the ceiling holds |
| Capture lifecycle (`runtime.py` 886-1404, 3321-3344) | a reservation, a capture root | admit, execute, settle, finish, release | the workload runs outside the lock; cancellation at any point | reservations are honoured and released on every path |
| Request serialization (`runtime.py` 233-249) | the request lock | run_in_request | cancellation while a thread works | a phase is atomic and joined |
| Process broker (`execution.py`) | reader, exit, observer and stdin tasks, the output budget, tracked descendants | run, terminate, settle | deadline, cancellation, task failures and the child's own processes at once | nothing known is left behind, output is bounded and honestly labelled, requests end |
| Analysis requests and pages (`runtime.py` 412-684, 2417-2988) | projections, pages and conversions, each cached under what it was made from | resolve, convert, decode, page, verify | sources, tools and caches change between two hashes and between two pages | an answer is of the versions it names; caches are true; continuations can be followed |
| Worker harness and protocol (`workers/harness.py`, `workers/protocol.py`) | a job directory, a request and a response file | run a typed session | exit status and response may disagree, the worker may die at any step | only a consistent pair is a result; the directory goes with the session |
| Decoders and providers (`workers/*.py`, `providers/*.py`, `adapters/sarif.py`) | none | decode, merge, bound, compare | nested budgets that end a traversal in several places | rows that are called complete account for all that the source holds |
| Client setup and installation (`setup.py`, `installation.py`, `updates.py`, `cli.py` setup and update) | client configuration files | read, plan, verify launchers, compare, replace | users and other runs write between any two steps; a failure after some clients were changed | what others wrote is kept; only verified launchers are published; the user is told the truth |
| Rescue publication (`runtime.py` 2060-2190) | a staged directory | copy, publish | failure between two files | all or nothing |
| Provider preparation (`providers/preparation.py`) | collector bindings | install, verify, publish | installation without the lock | only verified bindings are visible |
| Command binding (`command_binding.py`) | none | resolve, revalidate | replacement after binding | digests are compared at use |
| Experiments and comparison (`runtime_contracts.py`, `providers/*_comparison.py`) | none | order blocks, summarize | numeric edges | comparable series only |
| Contracts, MCP server, rest of CLI, SDK, pytest capture | none of their own | parse, validate, dispatch | | |

MCP requests enter `AnalysisRuntime`; every phase that touches session state runs in
`run_in_request` under one lock, captures run their workload outside it through
`SubprocessBroker.run`, and `preserve_evidence`, queries and materialization call the repository,
which other Flameox processes use at the same time.

`PROJECT.json` lists the hazards line by line. The modules are chosen by them.

## Modules

| Module | Models | Checked by |
|---|---|---|
| `EvidenceStore` | what a repository promises: an append-only store in which artifacts precede the evidence that names them | refined by `Repository` |
| `Repository` | `repository.py` at the grain of its file-system calls, any number of processes, crashes, restarts, reuse of pids | `repository_race`, `repository_sequence` |
| `RepositoryProofs` | the inductive invariant of `Repository`, and the refinement | TLAPS |
| `EvidenceQuery` | the paged query: two-level listing, validation of cursors, filters, limits, concurrent publication | `query_pages` |
| `EvidenceQueryProofs` | chains of pages are complete, in order and lead somewhere, for any evidence and filters | TLAPS |
| `SessionScratch` | analysis cache, scratch artifacts, reservations, captures, preserve and rescue | `session_captures` and three findings |
| `SessionScratchProofs` | captures and pinned inputs survive every eviction, for any session | TLAPS |
| `SessionBoundsProofs` | the ceiling, the cache's order and limit, and who strands a capture root, for any session | TLAPS |
| `Broker` | one request of the subprocess broker with the child's tree of processes as its environment | `broker_tree`, `broker_output`, and one finding |
| `BrokerProofs` | invariants of `Broker` for every tree and every budget | TLAPS |
| `BrokerCleanupProofs` | what complete streams, success and a complete cleanup mean, for every tree | TLAPS |
| `Tables` | bounded tables, the currency of providers; the limits | through `AnalysisPages` |
| `ProfileDecoders` | speedscope, perf, pstats, memray, V8, Perfetto | same |
| `RecordDecoders` | coverage, sanitizer, SARIF, OTLP, benchmarks, NVBench, comparisons and scaling | same |
| `EvidenceDecoders` | kernel evidence, Triton, Nsight Compute | same |
| `InferenceDecoders` | vLLM, SGLang, Mooncake, AIPerf and their comparison | same |
| `Providers` | which provider reads which format; the preview | same |
| `Holdings` | what a document holds, measured without its decoder: the reference the providers are checked against | same |
| `WorkerJob` | one isolated reader: its directory, request, response and exit | same |
| `AnalysisPages` | analysis requests of several clients over files that are edited, composed with `WorkerJob` and the providers | `analysis_pages` |
| `AnalysisPagesProofs` | whose the lock is, what the caches were made from, what pages, continuations and verdicts mean, for any session | TLAPS |
| `ClientSetup` | runs of `flameox setup` and `flameox update` against users and each other | `client_setup` |
| `ClientSetupProofs` | what the runs keep, publish and tell, for any number of runs, clients and edits | TLAPS |
| `MC*` | the small instances |  |

### Repository

`dirs`, `metadata`, `store`, `owners` and `stage` are the data directory; the other variables are
per process. A process runs one operation at a time (the request lock), so it has one program
counter, and each action is one system call, or several between which no other process can tell the
difference. An artifact and an evidence manifest go through the same calls and are both bundles: the
bytes (`data`) and the record that names them, written last. `Begin` starts an operation;
`LookForMetadata` to `OpenRepository` are `initialize` with its race between two lookups
(124-169); `Plan` to `Unstage` are `preserve` with `_publish_artifact` and `_publish_directory`
(171-207, 708-756); `Locate` and `Inspect` are reads; `SweepStep` is
`cleanup_abandoned_staging` (690-706). `FailIO` fails any writing call. A restarted server is a new
element of `Proc`, with any identifier no live process has.

Assumed: one data directory seen by one pid namespace (the code judges an owner absent by its pid);
nobody tampers with published files and there are no symbolic links; removing one's own stage does not
fail; reads do not fail with an I/O error; the page cache survives the crash of a process, so power
failure is not modelled.

### EvidenceQuery

Evidence identities are natural numbers in their sorted order; a listing reads the prefixes, then
each prefix, while other processes publish. A chain is what a client did with the cursors of one
query: `got` and `known` are history, what its pages returned and what was published when it began.
That every listed entry validates is what `VisibleBundlesComplete` proves of the repository.

### SessionScratch

`session` holds the two least-recently-used caches and what is on disk. Every locked phase is one
action, since `run_in_request` admits one at a time; a capture's phases interleave with the other
requests, and its workload writes outside the lock. Bytes and files are bounded the same way and
one dimension stands for either. A request that fails leaves through the same cleanup as in the
code, and may fail after any of its acquisitions.

Assumed: clients name a path or a handle of a capture only after its request returned;
published evidence is not deleted; a decoder makes one export of a request's input; evidence
directories and their exports are not capture roots. The projection cache (260-291) occupies no
scratch, and is in `AnalysisPages`.

### Broker

`tree`, `pipe` and `written` are the environment: processes that fork, call setsid, close their
streams, write, exit, ignore SIGTERM (`Stubborn`) and die when signalled. The rest is the broker.
`stage` is how far `run` came, `reader`, `observer` and `killer["waiter"]` are its tasks, and
`killer["cleanup"]` the termination after a failure. The gather does not cancel the siblings of a
task that fails, so the two terminations may run at once; a cancelled gather cancels the wait for the
exit only. `Terminate` is `_terminate` up to its first await; `SeeRootGone`, `GraceExpires` and
`Confirm` are what follows. `Read` accounts for a chunk in one step, because the code does so
without an await; a write to a file is awaited, and joined when its reader is cancelled.

Assumed: processes are unique (a reused pid is recognised by its creation time in the code);
cancellation is that of an AnyIO scope, as the docs require of callers; no systemd scope and no
callbacks, since no caller in `src` passes them; a request has a resource policy, whose samples may
find it exceeded at any time. Of the writer of stdin only its settlement matters, which is the readers'.

### AnalysisPages and the providers

A behaviour is about one `case`: a format, what is asked, the versions each source takes in turn, who
asks and with which page sizes. `file` is the version of each source now, `tool` that of the host
program which converts perf data; both change under the request. `queue` is the lock with those who
wait for it, `work` the thread that holds it: `Acquire`, `Resolve` (the first hash), `Identify`,
`Look` (cached page, cached projection or provider), `ReadSource`, `Convert` or a worker, `Decode`,
`Page`, `Verify` (the second hash) and `Reply`. A client that is cancelled while its thread runs keeps
the lock until the thread has ended, as the task group of `run_in_request` does. Caches evict the
least recently used entry, and map an identity to what was made under it, so that "made from another
version" is a state and not an impossibility.

`WorkerJob` is one child of `IsolatedWorkerHarness`: it may refuse its request, fail in three ways it
reports or one it does not, be killed at any step, and leave a response that its exit status
contradicts. `Loaded` is what the parent makes of the pair.

The decoders are operators from documents to tables. A document is what a parser yields (stacks,
records, spans, statuses and counts), with texts as members of small sets, and each decoder keeps the
control of the code: what is skipped, merged, refused or bounded, where it stops, what it says of its
completeness. `Holdings` measures a document a second time without any of that (a sum of weights, a
count of records, the identities two inputs share), and `CompleteMeansEverything` says that rows called
complete show exactly that much.

Assumed: a file does not return to an earlier content; digests identify contents. Two things the model
shows that the code accepts: a source edited during a request may be reported as an offset beyond its
end rather than as changed, which is what the exception in `ContinuationsConsumable` allows; and the
tool is resolved once for the identity of a request and again for the conversion, so a page may be
filed under the tool that was there first (the conversion itself is filed under the tool that made it).
Not modelled: Nsight Systems and xctrace exports, text fragments, sizes in bytes of projections. In an
Nsight Compute report: rules that are no rule (nsight_compute.py 715-726), metrics without a value, and
the limits of the source files of an action; `Holdings` has no report with one of them, so what
`CompleteMeansEverything` says of such a report is open.

### ClientSetup

`file` is the configuration of each client: its kind, a note that stands for everything that is not
Flameox's, and the entry with launcher, version, extras and environment. A run is a process: `Read`
takes one client after the other, `Choose` the release, `Confirm` the preview or the prompt, `Prepare`
verifies one requirement under the settings of its client's entry, `Check` compares all files with what was read
before the first is replaced, and `Recheck` and `Replace` take each client in turn. `Edit` is a user or
the client itself, at any moment; `Kill` ends a run between any two steps. `overtaken` remembers who
wrote in the gap between a run's last look at a file and its rename: no file system call closes that
gap, what is written in it is lost, and `KeepsWhatOthersWrote` says that nothing else is. `told` is
whether the message of a failure warned that clients may have been changed.

Assumed: verification is known by what it is keyed by. `verify_releases` takes a requirement and all
the settings of an entry for its key, and forwards the installer's share of them (its allowlist, the
names that begin with UV_, and the home and cache directories: installation.py 57-67); that a launcher
which installs and lists its tools under that share also starts under all settings is not claimed.

Not modelled: temporary files that a killed process leaves, the choice among OpenCode's candidate
paths, an entry that is not an object, the layout of the text around the entry.

## Runs

| Run | Instance | Question |
|---|---|---|
| `repository_race` | 3 processes, 2 pids, 1 manifest of 1 artifact, symmetric processes | all safety properties, and the refinement of `EvidenceStore`, with one process publishing, one racing or sweeping, one restarted with a reused pid |
| `repository_sequence` | 2 processes, 1 manifest of artifacts a1, a2, a1 | the inductive invariant over a sequence with a repetition; every operation ends |
| `query_pages` | 3 digests in 2 prefixes, limits 1 and 2, 2 filters | chains are complete and in order |
| `session_captures` | 2 captures, 1 evidence directory with 1 export, room for 3, 2 handles | eviction, reservations and cleanup |
| `session_baselines` | 2 evidence directories, one at a time fits | finding |
| `session_siblings` | 2 files of one capture, room for 1, 1 handle | finding |
| `session_rescue` | 1 evidence directory | finding |
| `broker_tree` | a root and a child that ignores SIGTERM, 1 byte | what is left behind, and termination of the request |
| `broker_output` | a root that writes 4 bytes, a budget of 2, diagnostics of 1 | the budget and the completeness flags |
| `broker_orphans` | a root, a child, a grandchild | finding |
| `analysis_pages` | 1064 cases, all but 4 with one client, pages of 1 and 2 rows, limits of 1 to 6; races with 2 clients, 2 versions per source, 2 pages and 1 projection cached | every provider over documents on both sides of each of its limits; and whether answers, caches and continuations stay true when files, tools, workers and clients change at any moment; every request ends |
| `client_setup` | 2 runs, 2 clients, one edit; setup, update, update to a release, preview | lost writes, unverified launchers, false reports |

Why the bounds suffice. A race over the repository needs a winner, a loser, and a third process to
sweep or to reuse the pid of one that died; two artifacts and a repetition give every order of "ahead"
and "already there". A page boundary, a filtered entry and a later arrival need three digests. Two
captures and a directory that together fill the ceiling make each of them the next victim once.
One child is enough to be observed or not, in the group or not, holding the streams or not, at the
time of each termination; the orphan needs a second one between it and the root. Four bytes against a
budget of two let each reader be at, below and beyond the budget, before and after the other one.
A limit of n rows is met by documents with fewer, n, and more; pages of one and of two rows put a page's
end at, before and after the last row, and a cache of one projection evicts at the second identity.
(The Nsight cases have pages of five rows, since one action already yields as many.) A lost write needs
one writer and one run; a second run is another writer with the same program, and the second client is
the one a failure comes after. `client_setup` also passes with two edits (21 million states, too long
to run each time).

`CHECK_DEADLOCK FALSE` is said where the system really stops: when all processes of the repository
are dead, and when the request of the broker has returned.

Every property of a passing run has a mutant of the code's own definition that it catches; the
mutants stand next to the definitions they change.

## Fairness

`Repository!FairSpec` gives each living process weak fairness on its own steps: an operation is
sequential code, and an operating system that schedules it. Crashes are never forced, nor excluded.
`Broker!FairSpec` gives weak fairness to the event loop's tasks, to the kernel (a process with a fatal
signal dies, the root is reaped) and, through `Run`, to the deadline's timer. The child's own steps are
not fair: it may run, or hold its streams, for ever. So a request without a deadline ends only when its
child lets it, or when it is cancelled, and `BoundedRunsEnd` and `FinishedRunsEnd` say just that.
`AnalysisPages!FairSpec` gives weak fairness to the request that holds the lock: its thread is sequential
code, and every child it waits for is ended by the broker at its deadline. Clients, edits and tools are
not fair. The other modules state safety only: a run of setup waits for a user.

## Findings

- `session_baselines`: making room removes an evidence directory under a handle that stays cached, and
  preserving it reports a changed input instead of an expired handle (`runtime.py:392`,
  `docs/runtime-safety.md:72-74`).
- `session_siblings`: a request that pins one file of a capture evicts the handle of another file of it,
  but keeps the root because of its own pin; when it then fails and the capture's own handle had already
  left the cache, no handle names the root, preserved or not, and no eviction reaches it, while it counts
  against the ceiling (`runtime.py:346`).
- `session_rescue`: a failed rescue keeps what it materialized (`runtime.py:2018`,
  `docs/runtime-safety.md:87`).
- `broker_orphans`: a cancelled request reports a complete cleanup while a member of the process group
  runs on: it was orphaned between two samples, it ignores SIGTERM, and the root's exit within the
  grace period means that the group never gets SIGKILL (`execution.py:1434`,
  `docs/runtime-safety.md:24-25`).

## Proofs

`RepositoryProofs` proves, for any finite or infinite set of processes, pids, artifacts and manifests,
`Spec => []IInv` and from it every safety property of the runs, and that `Repository` implements
`EvidenceStore`. From `RepositoryConstants` (a manifest is a finite sequence of artifacts,
artifacts are not evidence) and `NoneIsNoValue` only. None of the properties is inductive:

- a bundle at a destination is complete because only a validated stage is renamed (`PublishInv`
  ties each program counter to what its stage has);
- a stage is its publisher's own because a sweep visits only owners that are not alive, and an element
  of `Proc` does not come back (`SweepInv`; pids may be reused, owners not);
- a manifest is complete because its artifacts are settled in order and nothing published goes away
  (`PublishInv`, `StoreInv`, `StoreGrows`);
- corruption is never reported because metadata precedes every bundle and follows the whole layout
  (`StoreInv`, `OpenInv`).

The lemmas treat the steps of the process itself and those of the others separately
(`OthersUntouched`).

`BrokerProofs` proves `TypeOK`, `BudgetKept` and `RootOutlivesNoRequest` for any tree of processes,
any budget and any amount of output. `BudgetKept` needs the chunks still on their way to a file: what is
stored, on its way and left of the budget is never more than the budget, and a reader that is over it has
left nothing of it. `RootOutlivesNoRequest` needs what each phase knows of the root: a confirmation,
and all that follows it, begins when the root has been reaped. The one assumption is `BrokerConstants`;
the invariant that carries the argument is `IInv` at the end of `Broker.tla`, and `BrokerProofs` has a
lemma for each group of steps.

`BrokerCleanupProofs` proves the other three, `CompleteMeansAll`, `SuccessLeavesNothing` and
`CleanedMeansGone`, from the same assumption. `CleanupInv`, next to `IInv`, adds three parts to it.
`RetentionInv` accounts for the bytes of a reader that has not failed: what left the pipe is retained (as
far as diagnostics retain), or is the chunk on its way to the file; and a stream found closed is not opened
again, since only a holder can pass it on. `TreeInv` says that no process is a target, a member or a
holder before it is born. `TerminationInv` says what a termination has achieved at each of its stages: the
one that follows the exit struck the whole group, so nothing of it runs, and what is tracked and lives is
among its targets. It holds because steps of the children only age the tree (`Aged`): nobody returns to
life, and a group in which nobody runs gains no running member.

`SessionScratchProofs` proves `ActiveRootsKept`, `UnpreservedCapturesKept` and `PinnedInputsSurvive`
for any captures, evidence, requests, ceiling and cache size. The invariant, `IInv`, says of a session
(`Safe`) that its cache and artifacts have their shape, that active roots are on disk, and that a
capture a handle needs is on disk; every operator that transforms a session is shown to keep it, and to
remove nothing that is pinned. That roots of captures and materialized evidence are different paths is
an assumption of `SessionConstants`: pruning tests artifacts, and would remove a capture that were one.

`SessionBoundsProofs` proves the rest, `TypeOK`, `ReservationsFit` and `StrandedOnlyByPins`, by the
invariant `BoundsInv`. An operation leaves no more on disk than it found, or it made room and what is
committed fits (`Follows`); a workload writes within its reservation, so a step of it commits nothing new.
The sums are counted: a root is as many blocks as it has bytes, and adding a root is a union of disjoint
finite sets, which needs no induction over data. The order of use of the analyses ranks exactly the handles
there are (`Ranked`), whence an eviction always finds a victim and the cache returns to its limit.
`StrandedOnlyByPins` needs to know that nobody mentions a capture before it has finished, and that what
mentions it afterwards mentions no other root (`Owned`); then whoever drops its last handle removes its
root, unless the request pins it (`Keeps`).

`EvidenceQueryProofs` proves all four properties of `query_pages`, for any finite set of digests, any
prefixes, filters and page sizes. `ChainOK` says what a cursor promises: its chain returned exactly the
matches whose place in the cursor's inventory is before the offset, and the inventory has all that was
published when the chain began. That a page continues the chain is a fact about places alone
(`PagesCut`): places order an inventory and its candidates alike, and none is skipped (`PlacesOrder`,
`PlacesTaken`). `QueryConstants` (digests are a finite set of numbers, a page has room for one) is all
that is assumed.

`AnalysisPagesProofs` proves all the safety properties of `analysis_pages`, one of them conditionally, for
any cases, clients, page sizes and cache sizes, from `CasesHaveShape`, `CachesHold` and
`ProvidersReturnRows`. The last says that what a provider returns as rows is a sequence: it comes out of
folds, so it is assumed, and TLC evaluates it on every case. Four invariants, each inductive given those
before it:

- `IInv`, for `TypeOK`, `CachesTrue` and `ThreadsHoldTheLock`. `HashInv` and `ReadInv` say that what was
  hashed first is no newer than what was read, and that no newer than what is there; so a source found
  unchanged by the second hash was read as hashed (`CheckInv`), and a conversion that is of another version
  belongs to a request that will fail and take it along (`FreshInv`). The decoders occur as `decoded` only.
- `PageInv`, for `PagesAgree` and `ContinuationsConsumable`. A client's rows are the first ones of what
  the provider makes of the versions its answer names (`Chain`, `Cut`), and a cached page is the piece at
  its offset (`KeptPage`); a continuation names versions that were there and a row that is (`TokenOK`). A
  page may be appended to the rows of its client because one that waits for the lock has no answer yet
  (`Waiting`) and the thread works on what it asked (`Asking`). Edits disturb none of it, since versions
  only grow (`Later`).
- `VerdictInv`, for `KernelVerdictsHold`. `decoded` is what the provider computes, and a verdict that is
  answered or cached is that of its versions; that the kernel decoder passes a document only if every case,
  output and metric passes is the lemma `PassIsAllTheWay`, which speaks of sets and needs no induction.
- `CompleteInv`, for `CompleteMeansEverything`. A page that claims to be complete is the last one of a
  result that is complete. `PagingConserves` concludes that the pages up to it show all that the documents
  hold *if* the provider's own rows do (`ProvidersConserve`, a formula without variables of the session).
  So it is a theorem about paging: cutting, caching, edits and evictions lose and add nothing. Its
  hypothesis is about each decoder as a function, and is settled by `analysis_pages` for the
  documents of `MCAnalysisPages` only.

`ClientSetupProofs` proves all four properties of `client_setup`. `Story` says what a run has done at
each of its stages (in `publish`: exactly the changed clients before `at` are written), `Looked` that a
run about to rename knows what it replaces unless it was overtaken, and `InPlans` that it never looks
beyond its plans. Steps of a run leave the others' stories alone (`OtherStories`); the merge itself
(`ContentKeeps`) is arithmetic on releases.

Only model-checked: that the providers conserve what their documents hold, the hypothesis of
`PagingConserves` (the decoders are folds and recursive functions, and induction over data is out of the
installed provers' reach); and liveness (`OperationsEnd`, `BoundedRunsEnd`, `FinishedRunsEnd`,
`RequestsEnd`), which is out of their reach too. What the finding runs refute (`HandlesUsable`,
`ScratchReclaimable`, `FailedRequestsDiscard`, `CancellationEndsGroup`) is not true of the code.

## Not modelled

- A source that is edited and gets its earlier content back between the two hashes of a request: the
  versions of `AnalysisPages` only go forward. The code compares contents (`runtime.py:608`), so it
  would cache what it read in between; `CachesTrue` says nothing of that order.
- Provider preparation and command binding: locked steps as in `AnalysisPages` around process I/O.
- The publication of a rescue into its destination, one step in `SessionScratch`; the reply of a
  capture whose evidence became durable before the request failed (`runtime.py:1397`).
- Power failure (`repository.py:748`) and data directories shared between pid namespaces
  (`repository.py:702`).
- Two captures' growth against the free space both were admitted to (`runtime.py:3051`): the code
  samples, and no bound follows from it.
- Nsight Systems, xctrace, reliability and source-evidence providers: queries over a platform's own
  tables.
- The seeded shuffle of experiment blocks, the reduction of a pytest stream, request contracts, the MCP
  server, the SDK and the other commands: declarative or sequential code without state that is shared.
