---------------------------- MODULE BrokerProofs ----------------------------
(***************************************************************************)
(* What Broker guarantees for every tree of processes, every budget and    *)
(* any amount of output.  The steps are taken in groups: the child's tree, *)
(* the readers, the terminations, and run() itself; each group has a lemma *)
(* saying that it keeps the inductive invariant IInv.                      *)
(***************************************************************************)
EXTENDS Broker, TLAPS

(* A signal changes no root that is gone. *)
LEMMA StruckKeeps ==
  ASSUME NEW t \in Trees, NEW victims
  PROVE  /\ Struck(t, victims) \in Trees
         /\ t.life[Root] \notin {"running", "doomed"} =>
               Struck(t, victims).life[Root] = t.life[Root]
BY BrokerConstants DEF Struck, Trees

(* So do SIGTERM, which the stubborn ignore, and SIGKILL. *)
LEMMA SignalsKeep ==
  ASSUME NEW t \in Trees, NEW victims
  PROVE  /\ Sigterm(t, victims) \in Trees /\ Sigkill(t, victims) \in Trees
         /\ t.life[Root] \notin {"running", "doomed"} =>
               /\ Sigterm(t, victims).life[Root] = t.life[Root]
               /\ Sigkill(t, victims).life[Root] = t.life[Root]
BY StruckKeeps DEF Sigterm, Sigkill

(* A process that dies takes no other with it. *)
LEMMA BuriedKeeps ==
  ASSUME NEW t \in Trees, NEW p \in Procs, t.life[p] \in {"running", "doomed"}
  PROVE  /\ Buried(t, p) \in Trees
         /\ t.life[Root] \notin {"running", "doomed"} =>
               Buried(t, p).life[Root] = t.life[Root]
BY BrokerConstants DEF Buried, Trees

(* OutputInv depends on the readers, the budget and the cause only. *)
LEMMA OutputKept ==
  ASSUME OutputInv, UNCHANGED <<request, reader, remaining, stored>>,
         receipt'.cause = "output" => remaining < 0
  PROVE  OutputInv'
BY DEF OutputInv, Total

(* RootInv depends on the root, the terminations and the stage only. *)
LEMMA RootKept ==
  ASSUME RootInv, UNCHANGED <<killer, stage>>,
         tree.life[Root] \notin {"running", "doomed"} =>
             \/ tree'.life[Root] = tree.life[Root]
             \/ tree.life[Root] = "dead" /\ tree'.life[Root] = "reaped"
  PROVE  RootInv'
BY DEF RootInv, Reaped

(* The invariant holds before the launch. *)
LEMMA InitInv == Init => IInv
<1> SUFFICES ASSUME Init PROVE IInv
  OBVIOUS
<1>1. TypeOK
  <2>1. tree \in Trees
    BY DEF Init, Trees
  <2>2. reader \in [Streams -> ReaderStates] /\ killer \in [{"waiter", "cleanup"} -> KillerStates]
    BY DEF Init, ReaderStates, KillerStates
  <2>3. receipt \in Receipts
    BY DEF Init, Receipts
  <2>4. /\ pipe \in [Streams -> Nat] /\ written \in [Streams -> Nat]
        /\ stored \in [Streams -> Nat] /\ whole \in [Streams -> BOOLEAN]
    BY DEF Init
  <2>5. remaining \in Int
    BY BrokerConstants DEF Init
  <2>6. /\ observer = "idle" /\ stop = FALSE /\ tracked = {}
        /\ stage = "ready" /\ cancelled = FALSE
        /\ request \in [console : Consoles, timed : BOOLEAN]
    BY DEF Init
  <2> QED
    BY <2>1, <2>2, <2>3, <2>4, <2>5, <2>6 DEF TypeOK
<1>2. OutputInv
  BY BrokerConstants DEF Init, OutputInv, Streams, Total, Greatest
<1>3. RootInv
  BY BrokerConstants DEF Init, RootInv
<1> QED
  BY <1>1, <1>2, <1>3 DEF IInv

(* What processes do by themselves, and what the kernel does with them. *)
LEMMA SystemStep ==
  ASSUME IInv, Workload \/ Kernel
  PROVE  IInv'
<1> USE DEF IInv
<1>1. /\ tree' \in Trees /\ pipe' \in [Streams -> Nat] /\ written' \in [Streams -> Nat]
      /\ tree.life[Root] \notin {"running", "doomed"} =>
             \/ tree'.life[Root] = tree.life[Root]
             \/ tree.life[Root] = "dead" /\ tree'.life[Root] = "reaped"
  <2>1. CASE Workload
    <3>1. ASSUME NEW p \in Procs, NEW q \in Procs, Fork(p, q) PROVE <1>1!:
      BY <3>1, ZenonT(60), BrokerConstants DEF Fork, TypeOK, Trees
    <3>2. ASSUME NEW p \in Procs, Detach(p) \/ CloseStreams(p) PROVE <1>1!:
      BY <3>2, BrokerConstants DEF Detach, CloseStreams, TypeOK, Trees
    <3>3. ASSUME NEW p \in Procs, NEW s \in Streams, Emit(p, s) PROVE <1>1!:
      BY <3>3 DEF Emit, TypeOK
    <3>4. ASSUME NEW p \in Procs, Exit(p) PROVE <1>1!:
      BY <3>4, BuriedKeeps DEF Exit, TypeOK
    <3> QED
      BY <2>1, <3>1, <3>2, <3>3, <3>4 DEF Workload
  <2>2. CASE Kernel
    <3>1. ASSUME NEW p \in Procs, Die(p) PROVE <1>1!:
      BY <3>1, BuriedKeeps DEF Die, TypeOK
    <3>2. CASE Reap
      BY <3>2, BrokerConstants DEF Reap, TypeOK, Trees
    <3> QED
      BY <2>2, <3>1, <3>2 DEF Kernel
  <2> QED
    BY <2>1, <2>2
<1>2. UNCHANGED <<request, output, tasks, stage, cancelled, receipt>>
  BY DEF Workload, Kernel
<1>3. TypeOK'
  BY <1>1, <1>2 DEF TypeOK, output, tasks
<1>4. OutputInv'
  BY <1>2, OutputKept DEF output, OutputInv
<1>5. RootInv'
  BY <1>1, <1>2, RootKept DEF tasks
<1> QED
  BY <1>3, <1>4, <1>5

(* What a read retains never exceeds what is left of the budget. *)
LEMMA RetainedIsLeft ==
  ASSUME TypeOK, NEW s \in Streams
  PROVE  /\ Retained(s, pipe[s]) \in Nat
         /\ request.console # "diagnostics" =>
               /\ Retained(s, pipe[s]) = Greatest(remaining, 0) - Greatest(remaining - pipe[s], 0)
               /\ Retained(s, pipe[s]) + Greatest(remaining - pipe[s], 0) = Greatest(remaining, 0)
<1>1. pipe[s] \in Nat /\ stored[s] \in Nat /\ remaining \in Int /\ DiagnosticLimit \in Nat
  BY BrokerConstants DEF TypeOK
<1> QED
  BY <1>1 DEF Retained, Least, Greatest

(* The readers: what they take from the streams and account for. *)
LEMMA ReadStep ==
  ASSUME IInv, NEW s \in Streams, Read(s)
  PROVE  IInv'
<1> USE DEF IInv
<1> DEFINE n == pipe[s]
           kept == Retained(s, n)
           exceeded == request.console # "diagnostics" /\ n > remaining
<1>1. /\ n \in Nat /\ n > 0 /\ kept \in Nat /\ remaining \in Int /\ exceeded \in BOOLEAN
      /\ stored[s] \in Nat /\ request.console \in {"memory", "files", "diagnostics"}
      /\ reader[s] \in ReaderStates /\ reader[s].at = "reading" /\ reader[s].chunk = 0
  BY RetainedIsLeft, BrokerConstants DEF Read, TypeOK, OutputInv
<1>2. pipe' \in [Streams -> Nat] /\ remaining' \in Int /\ remaining' <= remaining
  BY <1>1 DEF Read, TypeOK
<1>3. CASE request.console = "files"
  <2>1. /\ stored' = stored /\ remaining' = remaining - n
        /\ reader' = [reader EXCEPT ![s] =
              [at |-> "writing", chunk |-> kept, exceeded |-> exceeded]]
    BY <1>3 DEF Read
  <2>2. reader' \in [Streams -> ReaderStates] /\ stored' \in [Streams -> Nat]
    BY <1>1, <2>1 DEF TypeOK, ReaderStates
  <2>3. exceeded => remaining' < 0
    BY <1>1, <2>1
  <2>4. kept + Greatest(remaining', 0) = Greatest(remaining, 0)
    BY <1>1, <1>3, <2>1, RetainedIsLeft
  <2>5. OutputInv'
    BY <1>1, <1>2, <1>3, <2>1, <2>2, <2>3, <2>4
    DEF OutputInv, Read, Total, Streams, TypeOK, ReaderStates, Greatest
  <2> QED
    BY <1>2, <2>2, <2>5, RootKept DEF Read, TypeOK, tasks
<1>4. CASE request.console # "files"
  <2>1. /\ stored' = [stored EXCEPT ![s] = @ + kept]
        /\ reader' = IF exceeded THEN [reader EXCEPT ![s].at = "over"] ELSE reader
    BY <1>4 DEF Read
  <2>2. reader' \in [Streams -> ReaderStates] /\ stored' \in [Streams -> Nat]
    BY <1>1, <2>1 DEF TypeOK, ReaderStates
  <2>3. exceeded => remaining' < 0
    BY <1>1 DEF Read
  <2>4. request.console = "memory" =>
            kept + Greatest(remaining', 0) = Greatest(remaining, 0)
    BY <1>1, RetainedIsLeft DEF Read
  <2>5. OutputInv'
    BY <1>1, <1>2, <1>4, <2>1, <2>2, <2>3, <2>4
    DEF OutputInv, Read, Total, Streams, TypeOK, ReaderStates, Greatest
  <2> QED
    BY <1>2, <2>2, <2>5, RootKept DEF Read, TypeOK, tasks
<1> QED
  BY <1>3, <1>4

(* A write that ends, or is joined, moves its chunk or loses it. *)
LEMMA WriteStep ==
  ASSUME IInv, NEW s \in Streams, WriteEnds(s) \/ Joined(s)
  PROVE  IInv'
<1> USE DEF IInv
<1>1. /\ reader[s] \in ReaderStates /\ stored[s] \in Nat /\ reader[s].chunk \in Nat
      /\ reader[s].at \in {"writing", "joining"} /\ request.console = "files"
  BY DEF WriteEnds, Joined, TypeOK, ReaderStates, OutputInv
<1>2. /\ stored' \in {stored, [stored EXCEPT ![s] = @ + reader[s].chunk]}
      /\ \E at \in {"over", "reading", "broken", "cancelled"} :
            /\ reader' = [reader EXCEPT ![s].chunk = 0, ![s].at = at]
            /\ at = "over" => reader[s].exceeded
  BY DEF WriteEnds, Joined
<1>3. reader' \in [Streams -> ReaderStates] /\ stored' \in [Streams -> Nat]
  BY <1>1, <1>2 DEF TypeOK, ReaderStates
<1>4. OutputInv'
  BY <1>1, <1>2, <1>3
  DEF OutputInv, WriteEnds, Joined, Total, Streams, TypeOK, ReaderStates, Greatest
<1> QED
  BY <1>3, <1>4, RootKept DEF WriteEnds, Joined, TypeOK, tasks, system

(* A stream that ends leaves the budget as it is. *)
LEMMA EndStep ==
  ASSUME IInv, NEW s \in Streams, ReachesEnd(s)
  PROVE  IInv'
<1> USE DEF IInv
<1>1. reader' \in [Streams -> ReaderStates] /\ whole' \in [Streams -> BOOLEAN]
  BY DEF ReachesEnd, TypeOK, ReaderStates
<1>2. OutputInv'
  BY DEF ReachesEnd, OutputInv, TypeOK, ReaderStates, Total, Streams
<1> QED
  BY <1>1, <1>2, RootKept DEF ReachesEnd, TypeOK, tasks, system

(* The observer, and a cancellation that is still to be delivered. *)
LEMMA ObserverStep ==
  ASSUME IInv, Sample \/ Cancel
  PROVE  IInv'
<1> USE DEF IInv
<1>1. TypeOK'
  BY DEF Sample, Cancel, TypeOK, system, output, tasks, Descendants, Alive, Lives
<1>2. OutputInv'
  BY OutputKept DEF Sample, Cancel, output, OutputInv
<1>3. RootInv'
  BY RootKept DEF Sample, Cancel, system, tasks
<1> QED
  BY <1>1, <1>2, <1>3

(* The first stretch of a termination: signals, and a confirmation at once
   only when the root is already reaped. *)
LEMMA TerminateKeeps ==
  ASSUME TypeOK, RootInv, NEW w \in {"waiter", "cleanup"},
         NEW killers \in [{"waiter", "cleanup"} -> KillerStates],
         \A v \in {"waiter", "cleanup"} :
             killers[v].at \in {"confirming in grace", "confirming", "stopped", "stuck"} => Reaped,
         Terminate(w, killers)
  PROVE  /\ tree' \in Trees /\ killer' \in [{"waiter", "cleanup"} -> KillerStates]
         /\ tree.life[Root] \notin {"running", "doomed"} => tree'.life[Root] = tree.life[Root]
         /\ \A v \in {"waiter", "cleanup"} :
               killer'[v].at \in {"confirming in grace", "confirming", "stopped", "stuck"} => Reaped'
<1>1. Targets \in SUBSET Procs
  BY DEF Targets, Descendants, Alive, Lives
<1>2. /\ tree' \in Trees
      /\ tree.life[Root] \notin {"running", "doomed"} => tree'.life[Root] = tree.life[Root]
  <2>1. \/ tree' = Sigkill(tree, Targets \cup Group)
        \/ tree' = Sigterm(tree, Targets \cup Group)
    BY DEF Terminate
  <2>2. tree \in Trees
    BY DEF TypeOK
  <2> QED
    BY <2>1, <2>2, SignalsKeep
<1>3. Reaped => Reaped'
  BY <1>2 DEF Reaped
<1>4. CASE Reaped
  <2>1. killer' = [killers EXCEPT ![w] = [at |-> "confirming", targets |-> Targets]]
    BY <1>4 DEF Terminate
  <2> QED
    BY <1>1, <1>2, <1>3, <1>4, <2>1 DEF KillerStates
<1>5. CASE ~Reaped
  <2>1. killer' = [killers EXCEPT ![w] = [at |-> "grace", targets |-> Targets]]
    BY <1>5 DEF Terminate
  <2> QED
    BY <1>1, <1>2, <1>3, <2>1 DEF KillerStates
<1> QED
  BY <1>4, <1>5

(* The terminations themselves. *)
LEMMA TerminationStep ==
  ASSUME IInv, Terminations
  PROVE  IInv'
<1> USE DEF IInv
<1>1. OutputInv'
  BY OutputKept DEF Terminations, SeeExit, SeeRootGone, GraceExpires, Confirm, output, OutputInv
<1>2. CASE SeeExit
  <2>1. /\ tree' \in Trees /\ killer' \in [{"waiter", "cleanup"} -> KillerStates]
        /\ tree.life[Root] \notin {"running", "doomed"} => tree'.life[Root] = tree.life[Root]
        /\ \A v \in {"waiter", "cleanup"} :
              killer'[v].at \in {"confirming in grace", "confirming", "stopped", "stuck"} => Reaped'
    BY <1>2, TerminateKeeps DEF SeeExit, TypeOK, RootInv
  <2>2. TypeOK'
    BY <1>2, <2>1 DEF SeeExit, TypeOK, output
  <2>3. RootInv'
    BY <1>2, <2>1 DEF SeeExit, RootInv, Reaped
  <2> QED
    BY <1>1, <2>2, <2>3
<1>3. ASSUME NEW w \in {"waiter", "cleanup"}, SeeRootGone(w) PROVE IInv'
  <2>1. tree' \in Trees /\ tree'.life[Root] = "reaped" /\ tree.life[Root] = "reaped"
    BY <1>3, SignalsKeep DEF SeeRootGone, TypeOK, Reaped
  <2>2. killer' \in [{"waiter", "cleanup"} -> KillerStates]
    BY <1>3, ZenonT(60) DEF SeeRootGone, TypeOK, KillerStates
  <2>3. TypeOK'
    BY <1>3, <2>1, <2>2 DEF SeeRootGone, TypeOK, output
  <2>4. RootInv'
    BY <1>3, <2>1 DEF SeeRootGone, RootInv, Reaped
  <2> QED
    BY <1>1, <2>3, <2>4
<1>4. ASSUME NEW w \in {"waiter", "cleanup"}, GraceExpires(w) PROVE IInv'
  <2>1. /\ tree' \in Trees
        /\ tree.life[Root] \notin {"running", "doomed"} => tree'.life[Root] = tree.life[Root]
    BY <1>4, SignalsKeep DEF GraceExpires, TypeOK
  <2>2. killer' \in [{"waiter", "cleanup"} -> KillerStates]
    BY <1>4, ZenonT(60) DEF GraceExpires, TypeOK, KillerStates
  <2>3. TypeOK'
    BY <1>4, <2>1, <2>2 DEF GraceExpires, TypeOK, output
  <2>4. RootInv'
    BY <1>4, <2>1, ZenonT(60) DEF GraceExpires, RootInv, Reaped, TypeOK, KillerStates
  <2> QED
    BY <1>1, <2>3, <2>4
<1>5. ASSUME NEW w \in {"waiter", "cleanup"}, Confirm(w) PROVE IInv'
  <2>1. killer' \in [{"waiter", "cleanup"} -> KillerStates]
    BY <1>5 DEF Confirm, TypeOK, KillerStates
  <2>2. TypeOK'
    BY <1>5, <2>1 DEF Confirm, TypeOK, output, system
  <2>3. RootInv'
    BY <1>5 DEF Confirm, RootInv, Reaped, TypeOK, KillerStates, system
  <2> QED
    BY <1>1, <2>2, <2>3
<1> QED
  BY <1>2, <1>3, <1>4, <1>5 DEF Terminations

(* A request that ends without a child, or refuses to create one. *)
LEMMA EarlyStep ==
  ASSUME IInv, Refuse \/ LaunchFails \/ ExpireEarly \/ Abandon
  PROVE  IInv'
<1> USE DEF IInv
<1>1. /\ UNCHANGED <<request, system, output, tasks, cancelled>>
      /\ stage' = "ended" /\ stage \in {"ready", "abandoning"}
      /\ receipt' \in Receipts /\ receipt'.cause # "output"
      /\ tree.life[Root] \notin {"running", "doomed"}
  <2>1. /\ UNCHANGED <<request, system, output, tasks, cancelled>>
        /\ stage' = "ended" /\ stage \in {"ready", "abandoning"}
    BY DEF Refuse, LaunchFails, ExpireEarly, Abandon, Ended
  <2>2. receipt' \in Receipts /\ receipt'.cause # "output"
    <3>1. \E kind \in {"failed", "raised"}, why \in {"cancelled", "launch", "timeout"},
             cleaned \in BOOLEAN :
             receipt' = [kind |-> kind, cause |-> why, cleaned |-> cleaned]
      BY DEF Refuse, LaunchFails, ExpireEarly, Abandon, Ended
    <3> QED
      BY <3>1 DEF Receipts
  <2>3. tree.life[Root] \notin {"running", "doomed"}
    BY DEF Refuse, LaunchFails, ExpireEarly, Abandon, RootInv, Reaped
  <2> QED
    BY <2>1, <2>2, <2>3
<1>2. TypeOK'
  BY <1>1 DEF TypeOK, system, output, tasks
<1>3. OutputInv'
  BY <1>1, OutputKept DEF output
<1>4. RootInv'
  BY <1>1 DEF RootInv, Reaped, system, tasks
<1> QED
  BY <1>2, <1>3, <1>4

(* The launch, its expiry, and the start of the tasks. *)
LEMMA LaunchStep ==
  ASSUME IInv, Launch \/ ExpireLaunching \/ Gather
  PROVE  IInv'
<1> USE DEF IInv
<1>1. CASE Launch
  <2>1. tree' \in Trees
    BY <1>1, BrokerConstants DEF Launch, TypeOK, Trees
  <2>2. TypeOK'
    BY <1>1, <2>1 DEF Launch, TypeOK, output, tasks
  <2>3. OutputInv'
    BY <1>1, OutputKept DEF Launch, output, OutputInv
  <2>4. ~Reaped
    BY <1>1 DEF Launch, RootInv, Reaped
  <2>5. RootInv'
    BY <1>1, <2>4 DEF Launch, RootInv, tasks
  <2> QED
    BY <2>2, <2>3, <2>5
<1>2. CASE ExpireLaunching
  <2>1. tree \in Trees
    BY DEF TypeOK
  <2>2. /\ tree' \in Trees
        /\ tree.life[Root] \notin {"running", "doomed"} => tree'.life[Root] = tree.life[Root]
    BY <1>2, <2>1, SignalsKeep DEF ExpireLaunching
  <2>3. TypeOK'
    BY <1>2, <2>2 DEF ExpireLaunching, TypeOK, output, tasks
  <2>4. OutputInv'
    BY <1>2, OutputKept DEF ExpireLaunching, output, OutputInv
  <2>5. RootInv'
    BY <1>2, <2>2 DEF ExpireLaunching, RootInv, Reaped, tasks
  <2> QED
    BY <2>3, <2>4, <2>5
<1>3. CASE Gather
  <2>1. reader' \in [Streams -> ReaderStates] /\ tracked' \in SUBSET Procs
    BY <1>3 DEF Gather, ReaderStates, Descendants, Alive, Lives
  <2>2. TypeOK'
    BY <1>3, <2>1 DEF Gather, TypeOK, system
  <2>3. /\ UNCHANGED <<request, remaining, stored, receipt>>
        /\ \A s \in Streams :
              reader'[s].at = "reading" /\ reader'[s].chunk = 0 /\ reader'[s].exceeded = FALSE
    BY <1>3 DEF Gather
  <2>4. \A s \in Streams : reader[s].chunk \in Nat /\ stored[s] \in Nat
    BY DEF TypeOK, ReaderStates
  <2>5. OutputInv'
    <3>1. remaining \in Int /\ MaxOutput \in Nat
      BY BrokerConstants DEF TypeOK
    <3>2. /\ request.console = "files" => Total(stored) + Greatest(remaining, 0) <= MaxOutput
          /\ request.console = "memory" => Total(stored) + Greatest(remaining, 0) = MaxOutput
      BY <2>4, <3>1 DEF OutputInv, Total, Streams, Greatest
    <3>3. /\ reader'["stdout"].chunk = 0 /\ reader'["stderr"].chunk = 0
          /\ Total(stored') = Total(stored) /\ Total(stored) \in Nat
      BY <2>3, <2>4 DEF Total, Streams
    <3>4. /\ request'.console = "files" =>
                Total(stored') + reader'["stdout"].chunk + reader'["stderr"].chunk
                    + Greatest(remaining', 0) <= MaxOutput
          /\ request'.console = "memory" =>
                Total(stored') + Greatest(remaining', 0) = MaxOutput
      BY <2>3, <3>1, <3>2, <3>3 DEF Greatest
    <3>5. receipt'.cause = "output" => remaining' < 0
      BY <2>3 DEF OutputInv
    <3> QED
      BY <2>3, <3>4, <3>5 DEF OutputInv
  <2>6. RootInv'
    BY <1>3 DEF Gather, RootInv, Reaped, system
  <2> QED
    BY <2>2, <2>5, <2>6
<1> QED
  BY <1>1, <1>2, <1>3

(* A gather that ends because a task failed or the request was interrupted. *)
LEMMA CleanupStep ==
  ASSUME IInv,
         \/ \E why \in {"output", "io", "resource", "descendants"} : Fail(why)
         \/ \E why \in {"cancelled", "timeout"} : Interrupt(why)
  PROVE  IInv'
<1> USE DEF IInv
<1> DEFINE Dropped == [killer EXCEPT !["waiter"].at =
                          IF @ \in {"stopped", "stuck"} THEN @ ELSE "dropped"]
<1>1. PICK why \in {"output", "io", "resource", "descendants", "cancelled", "timeout"},
           killers \in {killer, Dropped} :
        /\ stage' = "terminating" /\ receipt' = [receipt EXCEPT !.cause = why]
        /\ why = "output" => \E s \in Streams : reader[s].at = "over"
        /\ Terminate("cleanup", killers)
        /\ UNCHANGED <<request, pipe, written, output, observer, stop, tracked, cancelled>>
  BY DEF Fail, Failed, Interrupt
<1>2. /\ killers \in [{"waiter", "cleanup"} -> KillerStates]
      /\ \A v \in {"waiter", "cleanup"} :
             killers[v].at \in {"confirming in grace", "confirming", "stopped", "stuck"} => Reaped
  <2>1. CASE killers = killer
    BY <2>1 DEF TypeOK, RootInv
  <2>2. CASE killers = Dropped
    BY <2>2, ZenonT(60) DEF TypeOK, RootInv, KillerStates
  <2> QED
    BY <2>1, <2>2
<1>3. /\ tree' \in Trees /\ killer' \in [{"waiter", "cleanup"} -> KillerStates]
      /\ \A v \in {"waiter", "cleanup"} :
            killer'[v].at \in {"confirming in grace", "confirming", "stopped", "stuck"} => Reaped'
  BY <1>1, <1>2, TerminateKeeps
<1>4. receipt' \in Receipts /\ receipt'.cause = why
  BY <1>1 DEF TypeOK, Receipts
<1>5. TypeOK'
  BY <1>1, <1>3, <1>4 DEF TypeOK, output
<1>6. OutputInv'
  BY <1>1, <1>4, OutputKept DEF OutputInv, output
<1>7. RootInv'
  BY <1>1, <1>3 DEF RootInv
<1> QED
  BY <1>5, <1>6, <1>7

(* The settlement of the tasks, and the two ways a request returns. *)
LEMMA ReturnStep ==
  ASSUME IInv, Settle \/ Report \/ Succeed
  PROVE  IInv'
<1> USE DEF IInv
<1>1. CASE Settle
  <2>1. /\ reader' \in [Streams -> ReaderStates]
        /\ \A s \in Streams :
              /\ reader'[s].chunk = reader[s].chunk /\ reader'[s].exceeded = reader[s].exceeded
              /\ reader'[s].at = IF reader[s].at = "reading" THEN "cancelled"
                                 ELSE IF reader[s].at = "writing" THEN "joining"
                                 ELSE reader[s].at
    BY <1>1 DEF Settle, TypeOK, ReaderStates
  <2>2. receipt' \in Receipts /\ receipt'.cause = receipt.cause
    BY <1>1 DEF Settle, TypeOK, Receipts
  <2>3. TypeOK'
    BY <1>1, <2>1, <2>2 DEF Settle, TypeOK, system
  <2>4. OutputInv'
    BY <1>1, <2>1, <2>2 DEF Settle, OutputInv, Total, Streams
  <2>5. RootInv'
    BY <1>1 DEF Settle, RootInv, Reaped, system
  <2> QED
    BY <2>3, <2>4, <2>5
<1>2. CASE Report \/ Succeed
  <2>1. /\ UNCHANGED <<request, system, reader, remaining, stored, tasks, cancelled>>
        /\ stage' = "ended" /\ whole' \in [Streams -> BOOLEAN]
    BY <1>2 DEF Report, Succeed, Ended, TypeOK
  <2>2. receipt' \in Receipts /\ receipt'.cause \in {receipt.cause, "descendants", "none", "io"}
    <3>1. receipt.cleaned \in BOOLEAN /\ receipt.cause \in
             {"none", "launch", "cancelled", "timeout", "output", "io", "resource", "descendants"}
      BY DEF TypeOK, Receipts
    <3>2. \E kind \in {"failed", "raised", "succeeded"},
             why \in {receipt.cause, "descendants", "none", "io"}, cleaned \in BOOLEAN :
             receipt' = [kind |-> kind, cause |-> why, cleaned |-> cleaned]
      BY <1>2, <3>1 DEF Report, Succeed, Ended
    <3> QED
      BY <3>1, <3>2 DEF Receipts
  <2>3. Reaped
    BY <1>2 DEF Report, Succeed, RootInv
  <2>4. TypeOK'
    BY <2>1, <2>2 DEF TypeOK, system, tasks
  <2>5. OutputInv'
    BY <2>1, <2>2, OutputKept DEF OutputInv
  <2>6. RootInv'
    BY <2>1, <2>3 DEF RootInv, Reaped, system, tasks
  <2> QED
    BY <2>4, <2>5, <2>6
<1> QED
  BY <1>1, <1>2

-----------------------------------------------------------------------------
(* Every reachable state satisfies the inductive invariant, however the     *)
(* child, the tasks, a cancellation and the deadline interleave.            *)
THEOREM Invariance == Spec => []IInv
<1>1. Init => IInv
  BY InitInv
<1>2. IInv /\ [Next]_vars => IInv'
  <2> SUFFICES ASSUME IInv, [Next]_vars PROVE IInv'
    OBVIOUS
  <2>1. CASE Workload \/ Kernel
    BY <2>1, SystemStep
  <2>2. CASE Cancel \/ Sample
    BY <2>2, ObserverStep
  <2>3. CASE Terminations
    BY <2>3, TerminationStep
  <2>4. CASE Readers
    BY <2>4, ReadStep, WriteStep, EndStep DEF Readers
  <2>5. CASE Run
    BY <2>5, EarlyStep, LaunchStep, CleanupStep, ReturnStep DEF Run
  <2>6. CASE UNCHANGED vars
    <3>1. TypeOK'
      BY <2>6 DEF IInv, TypeOK, vars, system, output, tasks
    <3>2. OutputInv'
      BY <2>6, OutputKept DEF IInv, OutputInv, vars, output
    <3>3. RootInv'
      BY <2>6 DEF IInv, RootInv, Reaped, vars, system, tasks
    <3> QED
      BY <3>1, <3>2, <3>3 DEF IInv
  <2> QED
    BY <2>1, <2>2, <2>3, <2>4, <2>5, <2>6 DEF Next
<1> QED
  BY <1>1, <1>2, PTL DEF Spec

(* Every variable of a request holds what the code can store in it. *)
THEOREM TypeCorrect == Spec => []TypeOK
<1>1. IInv => TypeOK
  BY DEF IInv
<1> QED
  BY <1>1, Invariance, PTL

(* Two readers that share one budget never retain more than it together,    *)
(* whatever they read between two writes, and a request over its budget     *)
(* retained all of it in memory (_read_bounded, _OutputBudget).             *)
THEOREM BudgetIsKept == Spec => []BudgetKept
<1>1. IInv => BudgetKept
  <2> SUFFICES ASSUME IInv, request.console # "diagnostics" PROVE BudgetKept
    BY DEF BudgetKept
  <2>1. request.console \in {"memory", "files"}
    BY BrokerConstants DEF IInv, TypeOK
  <2>2. /\ \A s \in Streams : stored[s] \in Nat /\ reader[s].chunk \in Nat
        /\ remaining \in Int /\ MaxOutput \in Nat
    BY BrokerConstants DEF IInv, TypeOK, ReaderStates
  <2> QED
    BY <2>1, <2>2 DEF IInv, OutputInv, BudgetKept, Total, Streams, Greatest
<1> QED
  BY <1>1, Invariance, PTL

(* No request returns, by whichever of its ways, while the process that it  *)
(* launched is still running (ProcessBroker.run, _terminate).               *)
THEOREM RootSettled == Spec => []RootOutlivesNoRequest
<1>1. IInv => RootOutlivesNoRequest
  BY DEF IInv, RootInv, RootOutlivesNoRequest, Alive, Lives
<1> QED
  BY <1>1, Invariance, PTL
=============================================================================
