------------------------------- MODULE Broker -------------------------------
(***************************************************************************)
(* One request of the subprocess broker (execution.py): the launch of a    *)
(* child under a cancellation scope and an optional deadline, the tasks    *)
(* that read its streams, wait for its exit and sample its tree, the       *)
(* termination of what it left behind and the settlement of every task     *)
(* before the request returns.                                             *)
(*                                                                         *)
(* The child's tree of processes is the environment: processes fork, leave *)
(* the group, close their streams, write and exit as they like; a process  *)
(* that a signal is about to end does none of these any more.              *)
(***************************************************************************)
EXTENDS Integers, FiniteSets

CONSTANTS
    Procs,            \* the processes of the child's tree
    Root,             \* the one the broker launches
    Stubborn,         \* those that ignore SIGTERM
    Consoles,         \* the retention modes of the requests considered
    MaxOutput,        \* ExecutionRequest.max_output_bytes
    DiagnosticLimit,  \* ExecutionRequest.diagnostic_bytes
    MaxWritten        \* bound: what the tree writes to both streams together

ASSUME BrokerConstants ==
    /\ Root \in Procs
    /\ Stubborn \subseteq Procs
    /\ Consoles \subseteq {"memory", "files", "diagnostics"}
    /\ MaxOutput \in Nat \ {0} /\ DiagnosticLimit \in Nat /\ MaxWritten \in Nat

VARIABLES
    request,    \* how the console is retained, whether there is a deadline
    tree,       \* the processes: their lives, living ancestors, group and pipes
    pipe,       \* of each stream, the bytes nobody read yet
    written,    \* of each stream, the bytes ever written
    reader,     \* the _read_bounded task of each stream
    remaining,  \* the _OutputBudget that both readers draw on
    stored,     \* of each stream, the bytes retained
    whole,      \* of each stream, the completeness flag
    observer,   \* the _observe_resources task
    stop,       \* the stop_observation event
    tracked,    \* tracked_descendants
    killer,     \* the two activations of _terminate
    stage,      \* how far run() has come
    cancelled,  \* whether the request's scope was cancelled
    receipt     \* what the caller gets, as far as it is known

system == <<tree, pipe, written>>
output == <<reader, remaining, stored, whole>>
tasks  == <<observer, stop, tracked, killer>>
vars   == <<request, system, output, tasks, stage, cancelled, receipt>>

Streams == {"stdout", "stderr"}
Total(f) == f["stdout"] + f["stderr"]
Least(m, n) == IF m <= n THEN m ELSE n
Greatest(m, n) == IF m <= n THEN n ELSE m

-----------------------------------------------------------------------------
(* The processes of the child's tree.                                      *)

Lives(life) == { p \in Procs : tree.life[p] = life }
Alive   == Lives("running") \cup Lives("doomed")
Group   == Alive \cap tree.grouped
Holders == Alive \cap tree.holding

(* process.returncode is known: the root was reaped *)
Reaped == tree.life[Root] = "reaped"

Struck(t, victims) ==
    [t EXCEPT !.life = [p \in Procs |->
        IF p \in victims /\ t.life[p] = "running" THEN "doomed" ELSE t.life[p]]]
Sigterm(t, victims) == Struck(t, victims \ Stubborn)
Sigkill(t, victims) == Struck(t, victims)

(* Children of a dead process belong to init: those below it lose it and    *)
(* its own ancestors.                                                       *)
Buried(t, p) ==
    [t EXCEPT !.life[p] = "dead",
              !.above = [q \in Procs |-> IF p \in t.above[q]
                                         THEN t.above[q] \ (t.above[p] \cup {p})
                                         ELSE t.above[q]]]

Fork(p, q) ==
    /\ tree.life[p] = "running" /\ tree.life[q] = "unborn" /\ q # Root
    /\ tree' = [tree EXCEPT
          !.life[q] = "running",
          !.above[q] = tree.above[p] \cup {p},
          !.grouped = IF p \in @ THEN @ \cup {q} ELSE @,
          !.holding = IF p \in @ THEN @ \cup {q} ELSE @]
    /\ UNCHANGED <<pipe, written>>

(* setsid, which the leader of a session cannot repeat *)
Detach(p) ==
    /\ tree.life[p] = "running" /\ p \in tree.grouped \ {Root}
    /\ tree' = [tree EXCEPT !.grouped = @ \ {p}]
    /\ UNCHANGED <<pipe, written>>

CloseStreams(p) ==
    /\ tree.life[p] = "running" /\ p \in tree.holding
    /\ tree' = [tree EXCEPT !.holding = @ \ {p}]
    /\ UNCHANGED <<pipe, written>>

Emit(p, s) ==
    /\ tree.life[p] = "running" /\ p \in tree.holding
    /\ Total(written) < MaxWritten
    /\ pipe' = [pipe EXCEPT ![s] = @ + 1]
    /\ written' = [written EXCEPT ![s] = @ + 1]
    /\ UNCHANGED tree

Exit(p) ==
    /\ tree.life[p] = "running"
    /\ tree' = Buried(tree, p)
    /\ UNCHANGED <<pipe, written>>

Die(p) ==
    /\ tree.life[p] = "doomed"
    /\ tree' = Buried(tree, p)
    /\ UNCHANGED <<pipe, written>>

(* asyncio's child watcher reaps the root and sets its returncode *)
Reap ==
    /\ tree.life[Root] = "dead"
    /\ tree' = [tree EXCEPT !.life[Root] = "reaped"]
    /\ UNCHANGED <<pipe, written>>

(* Mutant: an exhausted budget is not taken for zero *)
RetainedBelowZero(s, n) ==
    IF request.console = "diagnostics"
    THEN Least(n, DiagnosticLimit - stored[s])
    ELSE Least(n, remaining)

(* Mutant: each reader has the budget to itself *)
RetainedPerStream(s, n) ==
    IF request.console = "diagnostics"
    THEN Least(n, Greatest(DiagnosticLimit - stored[s], 0))
    ELSE Least(n, Greatest(MaxOutput - stored[s], 0))

-----------------------------------------------------------------------------
(* The readers (_read_bounded).  Read takes what the stream holds and       *)
(* accounts for it without an await; only a write to a file is awaited.     *)

Retained(s, n) ==
    IF request.console = "diagnostics"
    THEN Least(n, Greatest(DiagnosticLimit - stored[s], 0))
    ELSE Least(n, Greatest(remaining, 0))

Read(s) ==
    LET n == pipe[s]
        exceeded == request.console # "diagnostics" /\ n > remaining
    IN
    /\ reader[s].at = "reading" /\ n > 0
    /\ pipe' = [pipe EXCEPT ![s] = 0]
    /\ remaining' = IF request.console = "diagnostics" THEN remaining
                                                       ELSE remaining - n
    /\ IF request.console = "files"
       THEN /\ reader' = [reader EXCEPT ![s] =
                 [at |-> "writing", chunk |-> Retained(s, n), exceeded |-> exceeded]]
            /\ UNCHANGED stored
       ELSE /\ stored' = [stored EXCEPT ![s] = @ + Retained(s, n)]
            /\ reader' = IF exceeded THEN [reader EXCEPT ![s].at = "over"] ELSE reader
    /\ UNCHANGED <<request, tree, written, whole, tasks, stage, cancelled, receipt>>

(* Mutant: a drained stream is taken for a closed one *)
ReachesEndWhenDrained(s) ==
    /\ reader[s].at = "reading" /\ pipe[s] = 0
    /\ reader' = [reader EXCEPT ![s].at = "ended"]
    /\ whole' = [whole EXCEPT ![s] = TRUE]
    /\ UNCHANGED <<request, system, remaining, stored, tasks, stage, cancelled, receipt>>

WriteEnds(s) ==
    /\ reader[s].at = "writing"
    /\ \/ /\ stored' = [stored EXCEPT ![s] = @ + reader[s].chunk]
          /\ reader' = [reader EXCEPT ![s].chunk = 0,
                          ![s].at = IF reader[s].exceeded THEN "over" ELSE "reading"]
       \/ /\ reader' = [reader EXCEPT ![s].chunk = 0, ![s].at = "broken"]
          /\ UNCHANGED stored
    /\ UNCHANGED <<request, system, remaining, whole, tasks, stage, cancelled, receipt>>

ReachesEnd(s) ==
    /\ reader[s].at = "reading" /\ pipe[s] = 0 /\ Holders = {}
    /\ reader' = [reader EXCEPT ![s].at = "ended"]
    /\ whole' = [whole EXCEPT ![s] = TRUE]
    /\ UNCHANGED <<request, system, remaining, stored, tasks, stage, cancelled, receipt>>

(* A write under way when its reader is cancelled is joined, and lands or   *)
(* fails (_run_owned_io).                                                   *)
Joined(s) ==
    /\ reader[s].at = "joining"
    /\ \/ stored' = [stored EXCEPT ![s] = @ + reader[s].chunk]
       \/ UNCHANGED stored
    /\ reader' = [reader EXCEPT ![s].chunk = 0, ![s].at = "cancelled"]
    /\ UNCHANGED <<request, system, remaining, whole, tasks, stage, cancelled, receipt>>

-----------------------------------------------------------------------------
(* The observer, and the terminations of the tree.  Descendants are found    *)
(* by ancestry while the root lives; an observed one stays known by its pid. *)

Descendants == { p \in Alive : Root \in tree.above[p] }
(* Mutant: what was observed earlier is forgotten *)
CurrentTargets == Descendants
Targets == Descendants \cup (tracked \cap Alive)

Sample ==
    /\ observer = "sampling"
    /\ tracked' = tracked \cup Descendants
    /\ observer' \in {"breached", IF Reaped \/ stop THEN "done" ELSE "sampling"}
    /\ UNCHANGED <<request, system, output, stop, killer, stage, cancelled, receipt>>

(* Mutant: once the root is gone, only what was observed is killed *)
TerminateObserved(w, killers) ==
    IF Reaped
    THEN /\ tree' = Sigkill(tree, Targets)
         /\ killer' = [killers EXCEPT ![w] = [at |-> "confirming", targets |-> Targets]]
    ELSE /\ tree' = Sigterm(tree, Targets \cup Group)
         /\ killer' = [killers EXCEPT ![w] = [at |-> "grace", targets |-> Targets]]

(* _terminate up to its first await: by task w, of the tree as it is now    *)
Terminate(w, killers) ==
    IF Reaped
    THEN /\ tree' = Sigkill(tree, Targets \cup Group)
         /\ killer' = [killers EXCEPT ![w] = [at |-> "confirming", targets |-> Targets]]
    ELSE /\ tree' = Sigterm(tree, Targets \cup Group)
         /\ killer' = [killers EXCEPT ![w] = [at |-> "grace", targets |-> Targets]]

(* wait_for_exit, which starts its own termination *)
SeeExit ==
    /\ stage \in {"gathering", "terminating", "settling"}
    /\ killer["waiter"].at = "idle" /\ Reaped
    /\ stop' = TRUE
    /\ Terminate("waiter", killer)
    /\ UNCHANGED <<request, pipe, written, output, observer, tracked, stage,
                   cancelled, receipt>>

SeeRootGone(w) ==
    /\ killer[w].at \in {"grace", "killed"} /\ Reaped
    /\ tree' = Sigkill(tree, killer[w].targets)
    /\ killer' = [killer EXCEPT ![w].at =
                    IF @ = "grace" THEN "confirming in grace" ELSE "confirming"]
    /\ UNCHANGED <<request, pipe, written, output, observer, stop, tracked, stage,
                   cancelled, receipt>>

(* The grace period also covers the confirmation that ends it *)
GraceExpires(w) ==
    /\ killer[w].at \in {"grace", "confirming in grace"}
    /\ tree' = Sigkill(tree, Group)
    /\ killer' = [killer EXCEPT ![w].at = "killed"]
    /\ UNCHANGED <<request, pipe, written, output, observer, stop, tracked, stage,
                   cancelled, receipt>>

(* psutil.wait_procs gives up after 0.25 s *)
Confirm(w) ==
    /\ killer[w].at \in {"confirming", "confirming in grace"}
    /\ killer' = [killer EXCEPT ![w].at =
                    IF killer[w].targets \cap Alive = {} THEN "stopped" ELSE "stuck"]
    /\ UNCHANGED <<request, system, output, observer, stop, tracked, stage,
                   cancelled, receipt>>

-----------------------------------------------------------------------------
(* run()                                                                    *)

Ended(kind, why, cleaned) ==
    /\ stage' = "ended"
    /\ receipt' = [kind |-> kind, cause |-> why, cleaned |-> cleaned]

(* Mutant: the launch is not shielded from the cancellation *)
RefuseLaunching ==
    /\ stage \in {"ready", "launching"} /\ cancelled
    /\ Ended("failed", "cancelled", TRUE)
    /\ UNCHANGED <<request, system, output, tasks, cancelled>>

(* The checkpoint before the launch *)
Refuse ==
    /\ stage = "ready" /\ cancelled
    /\ Ended("failed", "cancelled", TRUE)
    /\ UNCHANGED <<request, system, output, tasks, cancelled>>

LaunchFails ==
    /\ stage = "ready"
    /\ Ended("raised", "launch", FALSE)
    /\ UNCHANGED <<request, system, output, tasks, cancelled>>

(* Acquired under a shield: a cancellation waits, the deadline does not *)
Launch ==
    /\ stage = "ready" /\ ~cancelled
    /\ stage' = "launching"
    /\ tree' = [tree EXCEPT !.life[Root] = "running",
                            !.grouped = {Root}, !.holding = {Root}]
    /\ UNCHANGED <<request, pipe, written, output, tasks, cancelled, receipt>>

ExpireEarly ==
    /\ stage = "ready" /\ request.timed
    /\ Ended("failed", "timeout", TRUE)
    /\ UNCHANGED <<request, system, output, tasks, cancelled>>

(* asyncio kills the child whose transport it was still connecting *)
ExpireLaunching ==
    /\ stage = "launching" /\ request.timed
    /\ stage' = "abandoning"
    /\ tree' = Sigkill(tree, {Root})
    /\ UNCHANGED <<request, pipe, written, output, tasks, cancelled, receipt>>

Abandon ==
    /\ stage = "abandoning" /\ Reaped
    /\ Ended("failed", "timeout", TRUE)
    /\ UNCHANGED <<request, system, output, tasks, cancelled>>

(* The tasks are created and the running tree is observed once *)
Gather ==
    /\ stage = "launching"
    /\ stage' = "gathering"
    /\ reader' = [s \in Streams |-> [at |-> "reading", chunk |-> 0, exceeded |-> FALSE]]
    /\ observer' = "sampling"
    /\ tracked' = Descendants
    /\ UNCHANGED <<request, system, remaining, stored, whole, stop, killer,
                   cancelled, receipt>>

(* Mutant: a termination that did not complete is not a failure *)
FailedButForDescendants(why) ==
    \/ why = "output"   /\ \E s \in Streams : reader[s].at = "over"
    \/ why = "io"       /\ \E s \in Streams : reader[s].at = "broken"
    \/ why = "resource" /\ observer = "breached"

(* A failed task fails the gather, and leaves its siblings running *)
Failed(why) ==
    \/ why = "output"      /\ \E s \in Streams : reader[s].at = "over"
    \/ why = "io"          /\ \E s \in Streams : reader[s].at = "broken"
    \/ why = "resource"    /\ observer = "breached"
    \/ why = "descendants" /\ killer["waiter"].at = "stuck"

Fail(why) ==
    /\ stage = "gathering" /\ Failed(why)
    /\ stage' = "terminating"
    /\ receipt' = [receipt EXCEPT !.cause = why]
    /\ Terminate("cleanup", killer)
    /\ UNCHANGED <<request, pipe, written, output, observer, stop, tracked, cancelled>>

(* A cancelled gather cancels the wait for the exit; the shielded tasks go on *)
Interrupt(why) ==
    /\ stage = "gathering"
    /\ \/ why = "cancelled" /\ cancelled
       \/ why = "timeout" /\ request.timed
    /\ stage' = "terminating"
    /\ receipt' = [receipt EXCEPT !.cause = why]
    /\ Terminate("cleanup", [killer EXCEPT !["waiter"].at =
            IF @ \in {"stopped", "stuck"} THEN @ ELSE "dropped"])
    /\ UNCHANGED <<request, pipe, written, output, observer, stop, tracked, cancelled>>

(* Mutant: the readers are awaited *)
SettleAwaiting ==
    /\ stage = "terminating" /\ killer["cleanup"].at \in {"stopped", "stuck"}
    /\ stage' = "settling"
    /\ receipt' = [receipt EXCEPT !.cleaned = killer["cleanup"].at = "stopped"]
    /\ stop' = TRUE
    /\ UNCHANGED <<request, system, output, observer, tracked, killer, cancelled>>

(* The readers are settled, not awaited: a stream may stay open forever *)
Settle ==
    /\ stage = "terminating" /\ killer["cleanup"].at \in {"stopped", "stuck"}
    /\ stage' = "settling"
    /\ receipt' = [receipt EXCEPT !.cleaned = killer["cleanup"].at = "stopped"]
    /\ stop' = TRUE
    /\ reader' = [s \in Streams |-> [reader[s] EXCEPT !.at =
            IF @ = "reading" THEN "cancelled" ELSE IF @ = "writing" THEN "joining" ELSE @]]
    /\ UNCHANGED <<request, system, remaining, stored, whole, observer, tracked, killer,
                   cancelled>>

(* A failed confirmation is raised as it is, without a receipt *)
Report ==
    /\ stage = "settling"
    /\ observer # "sampling"
    /\ \A s \in Streams : reader[s].at \in {"ended", "over", "broken", "cancelled"}
    /\ whole' = [s \in Streams |-> FALSE]
    /\ IF receipt.cause = "descendants" THEN Ended("raised", "descendants", FALSE)
                                        ELSE Ended("failed", receipt.cause, receipt.cleaned)
    /\ UNCHANGED <<request, system, reader, remaining, stored, tasks, cancelled>>

(* Closing the files may still fail *)
Succeed ==
    /\ stage = "gathering"
    /\ \A s \in Streams : reader[s].at = "ended"
    /\ killer["waiter"].at = "stopped" /\ observer = "done"
    /\ \/ /\ Ended("succeeded", "none", TRUE)
          /\ UNCHANGED whole
       \/ /\ request.console = "files"
          /\ Ended("failed", "io", TRUE)
          /\ whole' = [s \in Streams |-> FALSE]
    /\ UNCHANGED <<request, system, reader, remaining, stored, tasks, cancelled>>

Cancel ==
    /\ stage # "ended" /\ ~cancelled
    /\ cancelled' = TRUE
    /\ UNCHANGED <<request, system, output, tasks, stage, receipt>>

-----------------------------------------------------------------------------
Init ==
    /\ request \in [console : Consoles, timed : BOOLEAN]
    /\ tree = [life |-> [p \in Procs |-> "unborn"], above |-> [p \in Procs |-> {}],
               grouped |-> {}, holding |-> {}]
    /\ pipe = [s \in Streams |-> 0] /\ written = [s \in Streams |-> 0]
    /\ reader = [s \in Streams |-> [at |-> "idle", chunk |-> 0, exceeded |-> FALSE]]
    /\ remaining = MaxOutput
    /\ stored = [s \in Streams |-> 0] /\ whole = [s \in Streams |-> FALSE]
    /\ observer = "idle" /\ stop = FALSE /\ tracked = {}
    /\ killer = [w \in {"waiter", "cleanup"} |-> [at |-> "idle", targets |-> {}]]
    /\ stage = "ready" /\ cancelled = FALSE
    /\ receipt = [kind |-> "none", cause |-> "none", cleaned |-> FALSE]

(* What happens once the request returned is not followed. *)
Workload ==
    /\ stage # "ended"
    /\ \E p \in Procs : \/ \E q \in Procs : Fork(p, q)
                        \/ Detach(p) \/ CloseStreams(p) \/ Exit(p)
                        \/ \E s \in Streams : Emit(p, s)
    /\ UNCHANGED <<request, output, tasks, stage, cancelled, receipt>>

Kernel ==
    /\ stage # "ended"
    /\ Reap \/ \E p \in Procs : Die(p)
    /\ UNCHANGED <<request, output, tasks, stage, cancelled, receipt>>

Terminations ==
    /\ stage # "ended"
    /\ \/ SeeExit
       \/ \E w \in {"waiter", "cleanup"} : SeeRootGone(w) \/ GraceExpires(w) \/ Confirm(w)

Readers ==
    \E s \in Streams : Read(s) \/ WriteEnds(s) \/ ReachesEnd(s) \/ Joined(s)

Run ==
    \/ Refuse \/ LaunchFails \/ Launch \/ ExpireEarly \/ ExpireLaunching \/ Abandon
    \/ Gather \/ Settle \/ Report \/ Succeed
    \/ \E why \in {"output", "io", "resource", "descendants"} : Fail(why)
    \/ \E why \in {"cancelled", "timeout"} : Interrupt(why)

Next == Workload \/ Kernel \/ Cancel \/ Sample \/ Terminations \/ Readers \/ Run

Spec == Init /\ [][Next]_vars
FairSpec == Spec /\ WF_vars(Kernel) /\ WF_vars(Sample) /\ WF_vars(Terminations)
                 /\ WF_vars(Readers) /\ WF_vars(Run)

-----------------------------------------------------------------------------
Trees ==
    [life : [Procs -> {"unborn", "running", "doomed", "dead", "reaped"}],
     above : [Procs -> SUBSET Procs], grouped : SUBSET Procs, holding : SUBSET Procs]
ReaderStates ==
    [at : {"idle", "reading", "writing", "joining", "ended", "over", "broken", "cancelled"},
     chunk : Nat, exceeded : BOOLEAN]
KillerStates ==
    [at : {"idle", "grace", "confirming in grace", "killed", "confirming", "stopped", "stuck",
           "dropped"},
     targets : SUBSET Procs]
Receipts ==
    [kind : {"none", "succeeded", "failed", "raised"},
     cause : {"none", "launch", "cancelled", "timeout", "output", "io", "resource",
              "descendants"},
     cleaned : BOOLEAN]

(* Every variable holds what the code can store in it (execution.py).       *)
TypeOK ==
    /\ request \in [console : Consoles, timed : BOOLEAN]
    /\ tree \in Trees
    /\ pipe \in [Streams -> Nat] /\ written \in [Streams -> Nat]
    /\ reader \in [Streams -> ReaderStates]
    /\ remaining \in Int
    /\ stored \in [Streams -> Nat] /\ whole \in [Streams -> BOOLEAN]
    /\ observer \in {"idle", "sampling", "breached", "done"}
    /\ stop \in BOOLEAN /\ tracked \in SUBSET Procs
    /\ killer \in [{"waiter", "cleanup"} -> KillerStates]
    /\ stage \in {"ready", "launching", "abandoning", "gathering", "terminating",
                  "settling", "ended"}
    /\ cancelled \in BOOLEAN
    /\ receipt \in Receipts

(* Both readers together never retain more than the output budget, however  *)
(* their reads and writes interleave, and a request that fails because of   *)
(* it retained all of it in memory (_read_bounded, _OutputBudget).          *)
BudgetKept ==
    request.console # "diagnostics" =>
        /\ Total(stored) <= MaxOutput
        /\ receipt.cause = "output" /\ request.console = "memory" =>
               Total(stored) = MaxOutput

(* A stream reported complete was read to its end: nobody holds it any      *)
(* more, nothing of it is unread, and all of it was retained, or what its   *)
(* diagnostics leave room for (_read_bounded, OutputSink, DiagnosticOutput). *)
CompleteMeansAll ==
    \A s \in Streams : whole[s] =>
        /\ Holders = {} /\ pipe[s] = 0
        /\ stored[s] = IF request.console = "diagnostics"
                       THEN Least(DiagnosticLimit, written[s]) ELSE written[s]

(* A successful request leaves nothing of its tree to run on that is in its *)
(* group or that it ever observed, although the root was gone before the    *)
(* termination began (wait_for_exit, _terminate).                           *)
SuccessLeavesNothing ==
    receipt.kind = "succeeded" =>
        /\ Group \cap Lives("running") = {}
        /\ tracked \cap Alive = {}

(* No request returns before the process it created is gone, on whichever   *)
(* side of the launch a cancellation, the deadline or a failure comes (run). *)
RootOutlivesNoRequest == stage = "ended" => Root \notin Alive

(* What was observed when a termination begins is among its targets, and a  *)
(* receipt that calls the cleanup complete was given with all of them gone  *)
(* (_tracked_processes, _terminate_with_observation).                       *)
CleanedMeansGone ==
    [][ /\ stage = "gathering" /\ stage' = "terminating" =>
              (tracked \cap Alive) \subseteq killer'["cleanup"].targets
        /\ receipt.kind = "none" /\ receipt'.cleaned /\ stage = "settling" =>
              killer["cleanup"].targets \cap Alive = {} ]_vars

(* A request with a deadline ends, and so does a cancelled one, although a  *)
(* process it does not know of may hold its streams open for ever (run,     *)
(* _settle_readers).                                                        *)
BoundedRunsEnd == request.timed \/ cancelled ~> stage = "ended"

(* A request whose streams are closed and whose root is gone ends without a *)
(* deadline: no task waits for one that waits for it (run).                 *)
FinishedRunsEnd == (stage = "gathering" /\ Reaped /\ Holders = {}) ~> stage = "ended"

(* docs/runtime-safety.md:24 "Cancellation propagates to the broker, which  *)
(* terminates the process group": with a cleanup called complete, no member *)
(* of the group is left to run (_terminate).                                *)
CancellationEndsGroup ==
    receipt.kind = "failed" /\ receipt.cause = "cancelled" /\ receipt.cleaned =>
        Group \cap Lives("running") = {}

-----------------------------------------------------------------------------
(* What makes BudgetKept hold at every step: a reader holds a chunk only on  *)
(* its way to a file, whoever is over the budget left nothing of it, and     *)
(* what is retained, on its way and left is never more than the budget.      *)
OutputInv ==
    /\ \A s \in Streams :
          /\ reader[s].at \notin {"writing", "joining"} => reader[s].chunk = 0
          /\ reader[s].at \in {"writing", "joining"} => request.console = "files"
          /\ reader[s].at = "over" \/ reader[s].exceeded => remaining < 0
    /\ receipt.cause = "output" => remaining < 0
    /\ request.console = "files" =>
          Total(stored) + reader["stdout"].chunk + reader["stderr"].chunk
              + Greatest(remaining, 0) <= MaxOutput
    /\ request.console = "memory" => Total(stored) + Greatest(remaining, 0) = MaxOutput

(* What makes RootOutlivesNoRequest hold at every step: what each phase of   *)
(* the request and of a termination knows of the root.                       *)
RootInv ==
    /\ stage = "ready" => tree.life[Root] = "unborn"
    /\ \A w \in {"waiter", "cleanup"} :
          killer[w].at \in {"confirming in grace", "confirming", "stopped", "stuck"} => Reaped
    /\ stage = "settling" => Reaped
    /\ stage = "ended" => tree.life[Root] \notin {"running", "doomed"}

IInv == TypeOK /\ OutputInv /\ RootInv

(* What makes CompleteMeansAll hold at every step: what was taken from a     *)
(* stream is retained while its reader goes on, or on its way to the file,   *)
(* and a stream found closed cannot be opened again.                         *)
StreamInv(s) ==
    /\ pipe[s] <= written[s]
    /\ reader[s].at \in {"idle", "reading", "ended"} =>
          stored[s] = IF request.console = "diagnostics"
                      THEN Least(DiagnosticLimit, written[s] - pipe[s])
                      ELSE written[s] - pipe[s]
    /\ reader[s].at = "writing" /\ ~reader[s].exceeded =>
          stored[s] + reader[s].chunk = written[s] - pipe[s]
    /\ whole[s] => reader[s].at = "ended" /\ pipe[s] = 0 /\ Holders = {}
RetentionInv ==
    /\ stage \in {"ready", "launching", "abandoning"} =>
          \A s \in Streams : reader[s].at = "idle"
    /\ \A s \in Streams : StreamInv(s)

(* No process is known, grouped or a holder of a stream before it is born,   *)
(* and nothing descends from a root that is gone.                            *)
TreeInv ==
    /\ (tree.grouped \cup tree.holding \cup tracked) \cap Lives("unborn") = {}
    /\ \A w \in {"waiter", "cleanup"} : killer[w].targets \cap Lives("unborn") = {}
    /\ tree.life[Root] \in {"dead", "reaped"} =>
          \A p \in Procs : Root \notin tree.above[p]

(* What makes SuccessLeavesNothing and CleanedMeansGone hold at every step:  *)
(* the termination that follows the exit struck all of the group and knows   *)
(* whatever is tracked and lives, and what a termination confirmed stays     *)
(* gone.                                                                     *)
TerminationInv ==
    /\ killer["waiter"].at \in {"idle", "confirming", "stopped", "stuck", "dropped"}
    /\ killer["waiter"].at \in {"confirming", "stopped", "stuck"} =>
          /\ Group \cap Lives("running") = {}
          /\ tracked \cap Alive \subseteq killer["waiter"].targets
    /\ \A w \in {"waiter", "cleanup"} :
          killer[w].at = "stopped" => killer[w].targets \cap Alive = {}
    /\ receipt.kind # "none" => stage = "ended"
    /\ receipt.kind = "succeeded" => killer["waiter"].at = "stopped"
    /\ stage = "settling" /\ receipt.cleaned => killer["cleanup"].at = "stopped"

CleanupInv == IInv /\ RetentionInv /\ TreeInv /\ TerminationInv
=============================================================================
