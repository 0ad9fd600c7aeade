------------------------- MODULE BrokerCleanupProofs -------------------------
(***************************************************************************)
(* What Broker guarantees of the retained output and of the processes that *)
(* a termination leaves, for every tree of processes: the parts of         *)
(* CleanupInv, each inductive beside the invariant of BrokerProofs.        *)
(***************************************************************************)
EXTENDS BrokerProofs

(* How the tree changes while the request does nothing but signal it: who   *)
(* is born was unborn, and joins a group or holds a stream only through one *)
(* that runs and does.                                                      *)
Aged ==
    /\ Lives("unborn")' \subseteq Lives("unborn")
    /\ Alive' \subseteq Alive \cup Lives("unborn")
    /\ Lives("running")' \subseteq Lives("running") \cup Lives("unborn")
    /\ (tree.grouped \cup tree.holding) \cap Lives("unborn") = {} =>
          /\ (tree'.grouped \cup tree'.holding) \cap Lives("unborn")' = {}
          /\ Group \cap Lives("running") = {} => Group' \cap Lives("running")' = {}
          /\ Holders = {} => Holders' = {}
    /\ (tree.life[Root] \in {"dead", "reaped"} => \A p \in Procs : Root \notin tree.above[p])
       => (tree'.life[Root] \in {"dead", "reaped"} => \A p \in Procs : Root \notin tree'.above[p])

(* A signal ends the running and touches nobody else. *)
LEMMA StruckAges ==
  ASSUME TypeOK, NEW victims, tree' = Sigterm(tree, victims) \/ tree' = Sigkill(tree, victims)
  PROVE  /\ Aged /\ Alive' = Alive /\ Group' = Group
         /\ tree' = Sigkill(tree, victims) => victims \cap Lives("running")' = {}
         /\ UNCHANGED Lives("unborn")
<1>1. PICK struck : /\ tree' = Struck(tree, struck)
                    /\ tree' = Sigkill(tree, victims) => struck = victims
  BY DEF Sigterm, Sigkill
<1>2. tree \in Trees /\ Root \in Procs
  BY BrokerConstants DEF TypeOK
<1>3. /\ tree'.above = tree.above /\ tree'.grouped = tree.grouped /\ tree'.holding = tree.holding
      /\ \A p \in Procs : tree'.life[p] = IF p \in struck /\ tree.life[p] = "running"
                                          THEN "doomed" ELSE tree.life[p]
  BY <1>1, <1>2 DEF Struck, Trees
<1>4. /\ Alive' = Alive /\ Lives("unborn")' = Lives("unborn")
      /\ Lives("running")' = Lives("running") \ struck
  BY <1>3 DEF Alive, Lives
<1>5. Group' = Group /\ Holders' = Holders
  BY <1>3, <1>4 DEF Group, Holders
<1>6. tree'.life[Root] \in {"dead", "reaped"} => tree.life[Root] \in {"dead", "reaped"}
  BY <1>2, <1>3
<1> QED
  BY <1>1, <1>3, <1>4, <1>5, <1>6 DEF Aged

(* A process that dies leaves its group and its streams to the others, and
   those below it lose it with its ancestors. *)
LEMMA BuriedAges ==
  ASSUME TypeOK, NEW p \in Procs, tree.life[p] \in {"running", "doomed"}, tree' = Buried(tree, p)
  PROVE  Aged
<1>1. tree \in Trees /\ Root \in Procs
  BY BrokerConstants DEF TypeOK
<1>2. /\ tree'.grouped = tree.grouped /\ tree'.holding = tree.holding
      /\ \A q \in Procs : tree'.life[q] = IF q = p THEN "dead" ELSE tree.life[q]
      /\ \A q \in Procs : tree'.above[q] = IF p \in tree.above[q]
                                           THEN tree.above[q] \ (tree.above[p] \cup {p})
                                           ELSE tree.above[q]
  BY <1>1 DEF Buried, Trees
<1>3. /\ Alive' = Alive \ {p} /\ Lives("unborn")' = Lives("unborn")
      /\ Lives("running")' = Lives("running") \ {p}
  BY <1>2 DEF Alive, Lives
<1>4. Group' = Group \ {p} /\ Holders' = Holders \ {p}
  BY <1>2, <1>3 DEF Group, Holders
<1>5. ASSUME tree.life[Root] \in {"dead", "reaped"} => \A q \in Procs : Root \notin tree.above[q],
             tree'.life[Root] \in {"dead", "reaped"}
      PROVE  \A q \in Procs : Root \notin tree'.above[q]
  BY <1>1, <1>2, <1>5
<1> QED
  BY <1>2, <1>3, <1>4, <1>5 DEF Aged

(* What processes do by themselves, and what the kernel does with them. *)
LEMMA SystemAges ==
  ASSUME TypeOK, Workload \/ Kernel
  PROVE  Aged
<1>1. tree \in Trees /\ Root \in Procs
  BY BrokerConstants DEF TypeOK
<1>2. ASSUME NEW p \in Procs, NEW q \in Procs, Fork(p, q) PROVE Aged
  <2>1. /\ \A r \in Procs : tree'.life[r] = IF r = q THEN "running" ELSE tree.life[r]
        /\ \A r \in Procs : tree'.above[r] = IF r = q THEN tree.above[p] \cup {p}
                                                      ELSE tree.above[r]
        /\ tree'.grouped = IF p \in tree.grouped THEN tree.grouped \cup {q} ELSE tree.grouped
        /\ tree'.holding = IF p \in tree.holding THEN tree.holding \cup {q} ELSE tree.holding
        /\ tree.life[p] = "running" /\ tree.life[q] = "unborn" /\ q # Root
    BY <1>1, <1>2 DEF Fork, Trees
  <2>2. /\ Alive' = Alive \cup {q} /\ Lives("unborn")' = Lives("unborn") \ {q}
        /\ Lives("running")' = Lives("running") \cup {q}
        /\ q \in Lives("unborn") /\ p \in Lives("running") /\ p \in Alive
    BY <2>1 DEF Alive, Lives
  <2>3. /\ p \notin tree.grouped => Group' \subseteq Group \cup ({q} \cap tree.grouped)
        /\ p \notin tree.holding => Holders' \subseteq Holders \cup ({q} \cap tree.holding)
        /\ p \in tree.grouped => p \in Group \cap Lives("running")
        /\ p \in tree.holding => p \in Holders
    BY <2>1, <2>2 DEF Group, Holders
  <2>4. ASSUME tree.life[Root] \in {"dead", "reaped"} => \A r \in Procs : Root \notin tree.above[r],
               tree'.life[Root] \in {"dead", "reaped"}
        PROVE  \A r \in Procs : Root \notin tree'.above[r]
    BY <1>1, <2>1, <2>4
  <2>5. ASSUME (tree.grouped \cup tree.holding) \cap Lives("unborn") = {},
               Group \cap Lives("running") = {}
        PROVE  Group' \cap Lives("running")' = {}
    <3>1. p \notin tree.grouped /\ q \notin tree.grouped
      BY <2>2, <2>3, <2>5
    <3>2. tree'.grouped = tree.grouped /\ Group' \subseteq Group
      BY <2>1, <2>3, <3>1
    <3>3. q \notin Group'
      BY <3>1, <3>2 DEF Group
    <3> QED
      BY <2>2, <2>5, <3>2, <3>3
  <2> QED
    BY <2>1, <2>2, <2>3, <2>4, <2>5 DEF Aged
<1>3. ASSUME NEW p \in Procs, Detach(p) \/ CloseStreams(p) PROVE Aged
  <2>1. /\ tree'.life = tree.life /\ tree'.above = tree.above
        /\ tree'.grouped \subseteq tree.grouped /\ tree'.holding \subseteq tree.holding
    BY <1>1, <1>3 DEF Detach, CloseStreams, Trees
  <2>2. Alive' = Alive /\ Lives("unborn")' = Lives("unborn") /\ Lives("running")' = Lives("running")
    BY <2>1 DEF Alive, Lives
  <2>3. Group' \subseteq Group /\ Holders' \subseteq Holders
    BY <2>1, <2>2 DEF Group, Holders
  <2> QED
    BY <2>1, <2>2, <2>3 DEF Aged
<1>4. ASSUME tree' = tree PROVE Aged
  BY <1>4 DEF Aged, Group, Holders, Alive, Lives
<1>5. CASE Reap
  <2>1. /\ tree'.above = tree.above /\ tree'.grouped = tree.grouped /\ tree'.holding = tree.holding
        /\ \A p \in Procs : tree'.life[p] = IF p = Root THEN "reaped" ELSE tree.life[p]
        /\ tree.life[Root] = "dead"
    BY <1>1, <1>5 DEF Reap, Trees
  <2>2. Alive' = Alive /\ Lives("unborn")' = Lives("unborn") /\ Lives("running")' = Lives("running")
    BY <2>1 DEF Alive, Lives
  <2>3. Group' = Group /\ Holders' = Holders
    BY <2>1, <2>2 DEF Group, Holders
  <2> QED
    BY <2>1, <2>2, <2>3 DEF Aged
<1>6. ASSUME NEW p \in Procs, Exit(p) \/ Die(p) PROVE Aged
  BY <1>6, BuriedAges DEF Exit, Die
<1>7. ASSUME NEW p \in Procs, NEW s \in Streams, Emit(p, s) PROVE Aged
  BY <1>4, <1>7 DEF Emit
<1> QED
  BY <1>2, <1>3, <1>5, <1>6, <1>7 DEF Workload, Kernel

(* A step that leaves the tree alone. *)
LEMMA SameTreeAges == tree' = tree => Aged
BY DEF Aged, Group, Holders, Alive, Lives

(* TreeInv depends on the tree, on what is tracked and on the targets. *)
LEMMA TreeKept ==
  ASSUME TreeInv, Aged, tracked' \subseteq tracked \cup Alive,
         \A w \in {"waiter", "cleanup"} : killer'[w].targets \subseteq killer[w].targets \cup Alive
  PROVE  TreeInv'
<1>1. Alive \cap Lives("unborn") = {}
  BY DEF Alive, Lives
<1>2. /\ (tree'.grouped \cup tree'.holding) \cap Lives("unborn")' = {}
      /\ Lives("unborn")' \subseteq Lives("unborn")
      /\ tree'.life[Root] \in {"dead", "reaped"} => \A p \in Procs : Root \notin tree'.above[p]
  BY DEF TreeInv, Aged
<1>3. tracked' \cap Lives("unborn")' = {}
  BY <1>1, <1>2 DEF TreeInv
<1>4. ASSUME NEW w \in {"waiter", "cleanup"} PROVE killer'[w].targets \cap Lives("unborn")' = {}
  BY <1>1, <1>2 DEF TreeInv
<1> QED
  BY <1>2, <1>3, <1>4 DEF TreeInv

(* While the terminations, the stage and the receipt stay as they are, the
   tree may only lose what they say is gone. *)
LEMMA TerminationKept ==
  ASSUME TreeInv, TerminationInv, Aged, tracked' \cap Alive' \subseteq tracked,
         UNCHANGED <<killer, stage, receipt>>
  PROVE  TerminationInv'
<1>1. /\ Alive' \subseteq Alive \cup Lives("unborn")
      /\ Group \cap Lives("running") = {} => Group' \cap Lives("running")' = {}
  BY DEF TreeInv, Aged
<1>2. tracked' \cap Alive' \subseteq tracked \cap Alive
  BY <1>1 DEF TreeInv
<1>3. \A w \in {"waiter", "cleanup"} : killer[w].targets \cap Alive' \subseteq killer[w].targets \cap Alive
  BY <1>1 DEF TreeInv
<1> QED
  BY <1>1, <1>2, <1>3 DEF TerminationInv

(* RetentionInv depends on the streams, their readers and their holders. *)
LEMMA RetentionKept ==
  ASSUME RetentionInv, UNCHANGED <<request, pipe, written, reader, stored>>,
         \A s \in Streams : whole'[s] => whole[s],
         Holders = {} => Holders' = {},
         stage' \in {"ready", "launching", "abandoning"} =>
             stage \in {"ready", "launching", "abandoning"}
  PROVE  RetentionInv'
BY DEF RetentionInv, StreamInv

(* So does a step of the tree or of a termination. *)
LEMMA AgedRetention ==
  ASSUME TreeInv, RetentionInv, Aged, UNCHANGED <<request, pipe, written, output, stage>>
  PROVE  RetentionInv'
BY RetentionKept DEF output, Aged, TreeInv

(* The child's own steps and the kernel's keep the three parts. *)
LEMMA SystemCleans ==
  ASSUME CleanupInv, Workload \/ Kernel
  PROVE  RetentionInv' /\ TreeInv' /\ TerminationInv'
<1>1. Aged
  BY SystemAges DEF CleanupInv, IInv
<1>2. UNCHANGED <<request, output, tasks, stage, cancelled, receipt>>
  BY DEF Workload, Kernel
<1>3. TreeInv'
  BY <1>1, <1>2, TreeKept DEF CleanupInv, tasks
<1>4. TerminationInv'
  BY <1>1, <1>2, TerminationKept DEF CleanupInv, tasks
<1>5. ASSUME UNCHANGED <<pipe, written>> PROVE RetentionInv'
  BY <1>1, <1>2, <1>5, AgedRetention DEF CleanupInv
<1>6. ASSUME NEW p \in Procs, NEW s \in Streams, Emit(p, s) PROVE RetentionInv'
  <2>1. /\ pipe' = [pipe EXCEPT ![s] = @ + 1] /\ written' = [written EXCEPT ![s] = @ + 1]
        /\ tree' = tree /\ p \in Holders
    BY <1>6 DEF Emit, Holders, Alive, Lives
  <2>2. \A t \in Streams : pipe[t] \in Nat /\ written[t] \in Nat
    BY DEF CleanupInv, IInv, TypeOK
  <2>3. \A t \in Streams : /\ pipe'[t] <= written'[t]
                           /\ written'[t] - pipe'[t] = written[t] - pipe[t]
    BY <2>1, <2>2 DEF CleanupInv, RetentionInv, StreamInv, IInv, TypeOK
  <2>4. \A t \in Streams : ~whole[t]
    BY <2>1 DEF CleanupInv, RetentionInv, StreamInv
  <2> QED
    BY <1>2, <2>3, <2>4 DEF CleanupInv, RetentionInv, StreamInv, output
<1>7. UNCHANGED <<pipe, written>> \/ \E p \in Procs, s \in Streams : Emit(p, s)
  BY DEF Workload, Kernel, Fork, Detach, CloseStreams, Exit, Die, Reap
<1> QED
  BY <1>3, <1>4, <1>5, <1>6, <1>7

(* The readers leave the tree alone; what they take, they retain. *)
LEMMA ReadRetains ==
  ASSUME CleanupInv, NEW s \in Streams, Read(s)
  PROVE  RetentionInv'
<1> DEFINE n == pipe[s]
           kept == Retained(s, n)
           exceeded == request.console # "diagnostics" /\ n > remaining
           taken == written[s] - pipe[s]
<1>1. /\ n \in Nat /\ n > 0 /\ kept \in Nat /\ remaining \in Int /\ stored[s] \in Nat
      /\ written[s] \in Nat /\ DiagnosticLimit \in Nat /\ n <= written[s]
      /\ reader[s] \in ReaderStates /\ reader[s].at = "reading"
  BY RetainedIsLeft, BrokerConstants DEF Read, CleanupInv, RetentionInv, StreamInv, IInv, TypeOK
<1>2. /\ stored[s] = IF request.console = "diagnostics" THEN Least(DiagnosticLimit, taken)
                                                        ELSE taken
      /\ ~whole[s] /\ stage \notin {"ready", "launching", "abandoning"}
  BY <1>1 DEF CleanupInv, RetentionInv, StreamInv
<1>3. IF request.console = "diagnostics"
      THEN stored[s] + kept = Least(DiagnosticLimit, written[s])
      ELSE ~exceeded => stored[s] + kept = written[s]
  BY <1>1, <1>2 DEF Retained, Least, Greatest
<1>4. /\ pipe' = [pipe EXCEPT ![s] = 0]
      /\ UNCHANGED <<request, tree, written, whole, stage>>
      /\ IF request.console = "files"
         THEN /\ reader' = [reader EXCEPT ![s] =
                   [at |-> "writing", chunk |-> kept, exceeded |-> exceeded]]
              /\ UNCHANGED stored
         ELSE /\ stored' = [stored EXCEPT ![s] = @ + kept]
              /\ reader' = IF exceeded THEN [reader EXCEPT ![s].at = "over"] ELSE reader
  BY DEF Read
<1> HIDE DEF n, kept, exceeded
<1>5. ASSUME NEW t \in Streams, t # s
      PROVE  UNCHANGED <<pipe[t], written[t], reader[t], stored[t], whole[t]>>
  BY <1>4, <1>5 DEF CleanupInv, IInv, TypeOK
<1>6. /\ pipe'[s] = 0 /\ written'[s] = written[s]
      /\ IF request.console = "files"
         THEN /\ reader'[s] = [at |-> "writing", chunk |-> kept, exceeded |-> exceeded]
              /\ stored'[s] = stored[s]
         ELSE /\ stored'[s] = stored[s] + kept
              /\ reader'[s].at = IF exceeded THEN "over" ELSE "reading"
      /\ ~whole'[s]
  BY <1>1, <1>2, <1>4 DEF CleanupInv, IInv, TypeOK, ReaderStates
<1>7. Holders' = Holders
  BY <1>4 DEF Holders, Alive, Lives
<1>8. ASSUME NEW t \in Streams PROVE StreamInv(t)'
  <2>1. CASE t # s
    BY <1>4, <1>5, <1>7, <2>1 DEF CleanupInv, RetentionInv, StreamInv
  <2>2. CASE t = s
    <3>1. written[s] - 0 = written[s]
      BY <1>1
    <3>2. exceeded => request.console # "diagnostics"
      BY DEF exceeded
    <3> QED
      BY <1>1, <1>2, <1>3, <1>4, <1>6, <2>2, <3>1, <3>2 DEF StreamInv
  <2> QED
    BY <2>1, <2>2
<1> QED
  BY <1>2, <1>4, <1>8 DEF RetentionInv, StreamInv

(* A write that ends, or is joined, lands or ends its reader. *)
LEMMA WriteRetains ==
  ASSUME CleanupInv, NEW s \in Streams, WriteEnds(s) \/ Joined(s)
  PROVE  RetentionInv'
<1>1. /\ reader[s].at \in {"writing", "joining"} /\ reader[s] \in ReaderStates
      /\ request.console = "files" /\ ~whole[s] /\ stored[s] \in Nat /\ pipe[s] <= written[s]
      /\ stage \notin {"ready", "launching", "abandoning"}
  BY DEF WriteEnds, Joined, CleanupInv, IInv, TypeOK, OutputInv, RetentionInv, StreamInv
<1>2. /\ UNCHANGED <<request, tree, pipe, written, whole, stage>>
      /\ \E at \in {"over", "reading", "broken", "cancelled"} :
            /\ reader' = [reader EXCEPT ![s].chunk = 0, ![s].at = at]
            /\ at = "reading" =>
                  /\ reader[s].at = "writing" /\ ~reader[s].exceeded
                  /\ stored' = [stored EXCEPT ![s] = @ + reader[s].chunk]
      /\ stored' \in {stored, [stored EXCEPT ![s] = @ + reader[s].chunk]}
  BY DEF WriteEnds, Joined, system
<1>3. ASSUME NEW t \in Streams, t # s
      PROVE  UNCHANGED <<pipe[t], written[t], reader[t], stored[t], whole[t]>>
  BY <1>2, <1>3 DEF CleanupInv, IInv, TypeOK
<1>4. /\ reader'[s].at \in {"over", "reading", "broken", "cancelled"}
      /\ reader'[s].at = "reading" =>
            /\ reader[s].at = "writing" /\ ~reader[s].exceeded
            /\ stored'[s] = stored[s] + reader[s].chunk
  <2>1. reader \in [Streams -> ReaderStates] /\ stored \in [Streams -> Nat] /\ s \in Streams
    BY DEF CleanupInv, IInv, TypeOK
  <2>2. PICK at \in {"over", "reading", "broken", "cancelled"} :
            /\ reader' = [reader EXCEPT ![s].chunk = 0, ![s].at = at]
            /\ at = "reading" =>
                  /\ reader[s].at = "writing" /\ ~reader[s].exceeded
                  /\ stored' = [stored EXCEPT ![s] = @ + reader[s].chunk]
    BY <1>2
  <2>3. reader'[s].at = at
    BY <2>1, <2>2 DEF ReaderStates
  <2>4. at = "reading" => stored'[s] = stored[s] + reader[s].chunk
    BY <2>1, <2>2
  <2> QED
    BY <2>2, <2>3, <2>4
<1>5. Holders' = Holders
  BY <1>2 DEF Holders, Alive, Lives
<1>6. ASSUME NEW t \in Streams PROVE StreamInv(t)'
  <2>1. CASE t # s
    <3>1. /\ pipe'[t] = pipe[t] /\ written'[t] = written[t] /\ reader'[t] = reader[t]
          /\ stored'[t] = stored[t] /\ whole'[t] = whole[t] /\ request' = request
      BY <1>2, <1>3, <2>1
    <3>2. StreamInv(t)
      BY DEF CleanupInv, RetentionInv
    <3> QED
      BY <1>5, <3>1, <3>2 DEF StreamInv
  <2>2. CASE t = s
    <3>1. /\ pipe' = pipe /\ written' = written /\ whole' = whole /\ request' = request
          /\ ~whole[s] /\ request.console = "files" /\ pipe[s] <= written[s]
      BY <1>1, <1>2
    <3>2. reader[s].at = "writing" /\ ~reader[s].exceeded =>
              stored[s] + reader[s].chunk = written[s] - pipe[s]
      BY DEF CleanupInv, RetentionInv, StreamInv
    <3> QED
      BY <1>4, <2>2, <3>1, <3>2 DEF StreamInv
  <2> QED
    BY <2>1, <2>2
<1> QED
  BY <1>1, <1>2, <1>6 DEF RetentionInv, StreamInv

(* A stream ends only when nothing of it is unread and nobody holds it. *)
LEMMA EndRetains ==
  ASSUME CleanupInv, NEW s \in Streams, ReachesEnd(s)
  PROVE  RetentionInv'
<1>1. /\ reader[s].at = "reading" /\ pipe[s] = 0 /\ Holders = {} /\ reader[s] \in ReaderStates
      /\ stage \notin {"ready", "launching", "abandoning"}
  BY DEF ReachesEnd, CleanupInv, IInv, TypeOK, RetentionInv, StreamInv
<1>2. /\ UNCHANGED <<request, tree, pipe, written, stored, stage>>
      /\ reader' = [reader EXCEPT ![s].at = "ended"] /\ whole' = [whole EXCEPT ![s] = TRUE]
  BY DEF ReachesEnd, system
<1>3. /\ \A t \in Streams \ {s} : reader'[t] = reader[t] /\ whole'[t] = whole[t]
      /\ reader'[s].at = "ended" /\ whole'[s]
  BY <1>1, <1>2 DEF CleanupInv, IInv, TypeOK, ReaderStates
<1>4. Holders' = Holders
  BY <1>2 DEF Holders, Alive, Lives
<1>5. ASSUME NEW t \in Streams PROVE StreamInv(t)'
  BY <1>1, <1>2, <1>3, <1>4 DEF CleanupInv, RetentionInv, StreamInv
<1> QED
  BY <1>1, <1>2, <1>5 DEF RetentionInv, StreamInv

(* The readers, the observer and a cancellation keep the three parts. *)
LEMMA ReadersClean ==
  ASSUME CleanupInv, Readers
  PROVE  RetentionInv' /\ TreeInv' /\ TerminationInv'
<1>1. UNCHANGED <<tree, tasks, stage, receipt>>
  BY DEF Readers, Read, WriteEnds, ReachesEnd, Joined, system
<1>2. Aged
  BY <1>1, SameTreeAges
<1>3. TreeInv' /\ TerminationInv'
  BY <1>1, <1>2, TreeKept, TerminationKept DEF CleanupInv, tasks
<1> QED
  BY <1>3, ReadRetains, WriteRetains, EndRetains DEF Readers

LEMMA ObserverCleans ==
  ASSUME CleanupInv, Sample \/ Cancel
  PROVE  RetentionInv' /\ TreeInv' /\ TerminationInv'
<1>1. UNCHANGED <<request, system, output, killer, stage, receipt>>
  BY DEF Sample, Cancel, tasks
<1>2. Aged
  BY <1>1, SameTreeAges DEF system
<1>3. RetentionInv'
  BY <1>1, <1>2, AgedRetention DEF CleanupInv, system
<1>4. tracked' = tracked \/ tracked' = tracked \cup Descendants
  BY DEF Sample, Cancel, tasks
<1>5. TreeInv'
  BY <1>1, <1>2, <1>4, TreeKept DEF CleanupInv, Descendants
<1>6. CASE killer["waiter"].at \in {"confirming", "stopped", "stuck"}
  <2>1. Descendants = {}
    BY <1>6 DEF CleanupInv, IInv, RootInv, Reaped, TreeInv, Descendants, Alive, Lives
  <2> QED
    BY <1>1, <1>2, <1>3, <1>4, <1>5, <2>1, TerminationKept DEF CleanupInv
<1>7. CASE killer["waiter"].at \notin {"confirming", "stopped", "stuck"}
  <2>1. Alive' = Alive
    BY <1>1 DEF Alive, Lives, system
  <2>2. TerminationInv'
    BY <1>1, <1>7, <2>1 DEF CleanupInv, TerminationInv
  <2> QED
    BY <1>3, <1>5, <2>2
<1> QED
  BY <1>6, <1>7

(* The first stretch of a termination knows what is tracked and lives, and
   kills the whole group when the root is already reaped. *)
LEMMA TerminateStrikes ==
  ASSUME TypeOK, NEW w \in {"waiter", "cleanup"},
         NEW killers \in [{"waiter", "cleanup"} -> KillerStates], Terminate(w, killers)
  PROVE  /\ Aged /\ Alive' = Alive /\ Group' = Group
         /\ Lives("running")' \subseteq Lives("running")
         /\ \A v \in {"waiter", "cleanup"} \ {w} : killer'[v] = killers[v]
         /\ killer'[w].at \in {"confirming", "grace"}
         /\ killer'[w].targets \subseteq Alive /\ tracked \cap Alive \subseteq killer'[w].targets
         /\ Reaped => killer'[w].at = "confirming" /\ Group' \cap Lives("running")' = {}
<1>1. /\ Targets \subseteq Alive /\ tracked \cap Alive \subseteq Targets
  BY DEF Targets, Descendants
<1>2. /\ \/ tree' = Sigkill(tree, Targets \cup Group)
         \/ tree' = Sigterm(tree, Targets \cup Group)
      /\ Reaped => tree' = Sigkill(tree, Targets \cup Group)
      /\ \E at \in {"confirming", "grace"} :
            /\ killer' = [killers EXCEPT ![w] = [at |-> at, targets |-> Targets]]
            /\ Reaped => at = "confirming"
  BY DEF Terminate
<1>3. /\ Aged /\ Alive' = Alive /\ Group' = Group
      /\ Reaped => (Targets \cup Group) \cap Lives("running")' = {}
  BY <1>2, StruckAges
<1>4. Lives("running")' \subseteq Lives("running")
  <2>1. Lives("running")' \cap Lives("unborn") = {}
    BY <1>3 DEF Alive, Lives
  <2> QED
    BY <1>3, <2>1 DEF Aged
<1>5. /\ \A v \in {"waiter", "cleanup"} \ {w} : killer'[v] = killers[v]
      /\ killer'[w].at \in {"confirming", "grace"} /\ killer'[w].targets = Targets
      /\ Reaped => killer'[w].at = "confirming"
  <2>1. PICK at \in {"confirming", "grace"} :
            /\ killer' = [killers EXCEPT ![w] = [at |-> at, targets |-> Targets]]
            /\ Reaped => at = "confirming"
    BY <1>2
  <2>2. /\ \A v \in {"waiter", "cleanup"} \ {w} : killer'[v] = killers[v]
        /\ killer'[w] = [at |-> at, targets |-> Targets]
    BY <2>1
  <2> QED
    BY <2>1, <2>2
<1> QED
  BY <1>1, <1>3, <1>4, <1>5

(* The terminations keep the three parts. *)
LEMMA TerminationsClean ==
  ASSUME CleanupInv, Terminations
  PROVE  RetentionInv' /\ TreeInv' /\ TerminationInv'
<1> DEFINE Names == {"waiter", "cleanup"}
<1>1. /\ UNCHANGED <<request, pipe, written, output, tracked, stage, receipt>>
      /\ stage # "ended" /\ receipt.kind = "none" /\ TypeOK /\ killer \in [Names -> KillerStates]
  <2>1. UNCHANGED <<request, pipe, written, output, tracked, stage, receipt>>
    BY DEF Terminations, SeeExit, SeeRootGone, GraceExpires, Confirm, system
  <2>2. stage # "ended" /\ receipt.kind = "none"
    BY DEF Terminations, CleanupInv, TerminationInv
  <2> QED
    BY <2>1, <2>2 DEF CleanupInv, IInv, TypeOK
<1>2. CASE SeeExit
  <2>1. /\ Aged /\ Alive' = Alive /\ killer'["cleanup"] = killer["cleanup"]
        /\ killer'["waiter"].at = "confirming"
        /\ killer'["waiter"].targets \subseteq Alive
        /\ tracked \cap Alive \subseteq killer'["waiter"].targets
        /\ Group' \cap Lives("running")' = {}
    BY <1>1, <1>2, TerminateStrikes DEF SeeExit
  <2>2. TreeInv'
    BY <1>1, <2>1, TreeKept DEF CleanupInv
  <2>3. TerminationInv'
    BY <1>1, <2>1 DEF CleanupInv, TerminationInv
  <2> QED
    BY <1>1, <2>1, <2>2, <2>3, AgedRetention DEF CleanupInv
<1>3. ASSUME NEW w \in Names, SeeRootGone(w) \/ GraceExpires(w)
      PROVE  RetentionInv' /\ TreeInv' /\ TerminationInv'
  <2>1. w = "cleanup"
    BY <1>3 DEF CleanupInv, TerminationInv, SeeRootGone, GraceExpires
  <2>2. Aged /\ Alive' = Alive /\ Group' = Group
    BY <1>1, <1>3, StruckAges DEF SeeRootGone, GraceExpires
  <2>3. /\ killer'["waiter"] = killer["waiter"] /\ killer["cleanup"].at # "stopped"
        /\ killer'["cleanup"].targets = killer["cleanup"].targets
        /\ killer'["cleanup"].at # "stopped"
    BY <1>1, <1>3, <2>1, ZenonT(60) DEF SeeRootGone, GraceExpires, KillerStates
  <2>4. TreeInv'
    BY <1>1, <2>2, <2>3, TreeKept DEF CleanupInv
  <2>5. Group \cap Lives("running") = {} => Group' \cap Lives("running")' = {}
    BY <2>2 DEF Aged, CleanupInv, TreeInv
  <2>6. TerminationInv'
    BY <1>1, <2>2, <2>3, <2>5 DEF CleanupInv, TerminationInv
  <2> QED
    BY <1>1, <2>2, <2>4, <2>6, AgedRetention DEF CleanupInv
<1>4. ASSUME NEW w \in Names, Confirm(w)
      PROVE  RetentionInv' /\ TreeInv' /\ TerminationInv'
  <2>1. UNCHANGED tree /\ Aged
    BY <1>4, SameTreeAges DEF Confirm, system
  <2>2. /\ \A v \in Names : killer'[v].targets = killer[v].targets
        /\ \A v \in Names \ {w} : killer'[v] = killer[v]
        /\ killer'[w].at \in {"stopped", "stuck"}
        /\ killer'[w].at = "stopped" => killer[w].targets \cap Alive = {}
        /\ killer[w].at \in {"confirming", "confirming in grace"}
    BY <1>1, <1>4 DEF Confirm, KillerStates
  <2>3. TreeInv'
    BY <1>1, <2>1, <2>2, TreeKept DEF CleanupInv
  <2>4. Alive' = Alive /\ Group' = Group /\ Lives("running")' = Lives("running")
    BY <2>1 DEF Alive, Group, Lives
  <2>5. TerminationInv'
    BY <1>1, <2>2, <2>4 DEF CleanupInv, TerminationInv
  <2> QED
    BY <1>1, <2>1, <2>3, <2>5, AgedRetention DEF CleanupInv
<1> QED
  BY <1>2, <1>3, <1>4 DEF Terminations

(* A request that ends without a child, or refuses to create one. *)
LEMMA EarlyCleans ==
  ASSUME CleanupInv, Refuse \/ LaunchFails \/ ExpireEarly \/ Abandon
  PROVE  RetentionInv' /\ TreeInv' /\ TerminationInv'
<1>1. /\ UNCHANGED <<request, system, output, tasks>> /\ stage' = "ended"
      /\ receipt'.kind \in {"failed", "raised"}
  BY DEF Refuse, LaunchFails, ExpireEarly, Abandon, Ended
<1>2. Alive' = Alive /\ Group' = Group /\ Holders' = Holders /\ Lives("running")' = Lives("running")
  BY <1>1 DEF Alive, Group, Holders, Lives, system
<1>3. RetentionInv'
  BY <1>1, <1>2, RetentionKept DEF CleanupInv, output, system
<1>4. TreeInv'
  BY <1>1, SameTreeAges, TreeKept DEF CleanupInv, system, tasks
<1>5. TerminationInv'
  BY <1>1, <1>2 DEF CleanupInv, TerminationInv, tasks
<1> QED
  BY <1>3, <1>4, <1>5

(* The launch gives life to the root alone; its tasks start with it. *)
LEMMA LaunchCleans ==
  ASSUME CleanupInv, Launch \/ ExpireLaunching \/ Gather
  PROVE  RetentionInv' /\ TreeInv' /\ TerminationInv'
<1>1. /\ tree \in Trees /\ Root \in Procs /\ TypeOK
      /\ stage \in {"ready", "launching"} /\ UNCHANGED <<killer, receipt>>
      /\ stage' \in {"launching", "abandoning", "gathering"}
      /\ UNCHANGED <<request, pipe, written, stored, whole>>
  BY BrokerConstants DEF CleanupInv, IInv, TypeOK, Launch, ExpireLaunching, Gather, tasks, system,
     output
<1>2. \A s \in Streams : ~whole[s] /\ reader[s].at = "idle"
  BY <1>1 DEF CleanupInv, RetentionInv, StreamInv
<1>3. CASE Launch
  <2>1. /\ \A p \in Procs : tree'.life[p] = IF p = Root THEN "running" ELSE tree.life[p]
        /\ tree'.above = tree.above /\ tree'.grouped = {Root} /\ tree'.holding = {Root}
        /\ tree.life[Root] = "unborn" /\ ~Reaped /\ stage' = "launching"
        /\ UNCHANGED <<reader, tracked>>
    BY <1>1, <1>3 DEF Launch, Trees, CleanupInv, IInv, RootInv, Reaped, output, tasks
  <2>2. Lives("unborn")' = Lives("unborn") \ {Root}
    BY <2>1 DEF Lives
  <2>3. TreeInv'
    BY <1>1, <2>1, <2>2 DEF CleanupInv, TreeInv
  <2>4. RetentionInv'
    BY <1>1, <1>2, <2>1 DEF CleanupInv, RetentionInv, StreamInv
  <2>5. TerminationInv'
    BY <1>1, <2>1 DEF CleanupInv, TerminationInv, IInv, RootInv
  <2> QED
    BY <2>3, <2>4, <2>5
<1>4. CASE ExpireLaunching
  <2>1. /\ Aged /\ Alive' = Alive /\ UNCHANGED <<reader, tracked>> /\ stage' = "abandoning"
    BY <1>1, <1>4, StruckAges DEF ExpireLaunching, output, tasks
  <2>2. TreeInv'
    BY <1>1, <2>1, TreeKept DEF CleanupInv
  <2>3. RetentionInv'
    BY <1>1, <1>2, <2>1 DEF CleanupInv, RetentionInv, StreamInv
  <2>4. Group \cap Lives("running") = {} => Group' \cap Lives("running")' = {}
    BY <2>1 DEF Aged, CleanupInv, TreeInv
  <2>5. TerminationInv'
    BY <1>1, <2>1, <2>4 DEF CleanupInv, TerminationInv
  <2> QED
    BY <2>2, <2>3, <2>5
<1>5. CASE Gather
  <2>1. /\ UNCHANGED tree /\ tracked' = Descendants /\ stage' = "gathering"
        /\ \A s \in Streams : reader'[s].at = "reading"
    BY <1>5 DEF Gather, system
  <2>2. Aged /\ Descendants \subseteq Alive
    BY <2>1, SameTreeAges DEF Descendants
  <2>3. TreeInv'
    BY <1>1, <2>1, <2>2, TreeKept DEF CleanupInv
  <2>4. RetentionInv'
    BY <1>1, <1>2, <2>1 DEF CleanupInv, RetentionInv, StreamInv
  <2>5. killer["waiter"].at \in {"confirming", "stopped", "stuck"} => Descendants = {}
    BY DEF CleanupInv, IInv, RootInv, Reaped, TreeInv, Descendants, Alive, Lives
  <2>6. Alive' = Alive /\ Group' = Group /\ Lives("running")' = Lives("running")
    BY <2>1 DEF Alive, Group, Lives
  <2>7. TerminationInv'
    BY <1>1, <2>1, <2>5, <2>6 DEF CleanupInv, TerminationInv
  <2> QED
    BY <2>3, <2>4, <2>7
<1> QED
  BY <1>3, <1>4, <1>5

(* A gather that fails or is interrupted, whatever the waiter is at, starts a
   termination of its own that knows what is tracked and lives. *)
LEMMA CleanupStarts ==
  ASSUME TypeOK, TerminationInv,
         \/ \E why \in {"output", "io", "resource", "descendants"} : Fail(why)
         \/ \E why \in {"cancelled", "timeout"} : Interrupt(why)
  PROVE  /\ UNCHANGED <<request, pipe, written, output, tracked>>
         /\ stage = "gathering" /\ stage' = "terminating" /\ receipt'.kind = receipt.kind
         /\ Aged /\ Alive' = Alive /\ Group' = Group
         /\ Lives("running")' \subseteq Lives("running")
         /\ killer'["waiter"].at \in {killer["waiter"].at, "dropped"}
         /\ killer'["waiter"].targets = killer["waiter"].targets
         /\ killer'["cleanup"].at \in {"confirming", "grace"}
         /\ killer'["cleanup"].targets \subseteq Alive
         /\ tracked \cap Alive \subseteq killer'["cleanup"].targets
<1> DEFINE Dropped == [killer EXCEPT !["waiter"].at =
                          IF @ \in {"stopped", "stuck"} THEN @ ELSE "dropped"]
<1>1. PICK killers \in {killer, Dropped} :
        /\ stage = "gathering" /\ stage' = "terminating"
        /\ \E why \in {"output", "io", "resource", "descendants", "cancelled", "timeout"} :
              receipt' = [receipt EXCEPT !.cause = why]
        /\ Terminate("cleanup", killers)
        /\ UNCHANGED <<request, pipe, written, output, tracked>>
  BY DEF Fail, Interrupt
<1>2. killer \in [{"waiter", "cleanup"} -> KillerStates] /\ receipt \in Receipts
  BY DEF TypeOK
<1>3. /\ killers \in [{"waiter", "cleanup"} -> KillerStates]
      /\ killers["waiter"].at \in {killer["waiter"].at, "dropped"}
      /\ killers["waiter"].targets = killer["waiter"].targets
  BY <1>2, ZenonT(60) DEF KillerStates
<1>4. /\ Aged /\ Alive' = Alive /\ Group' = Group
      /\ Lives("running")' \subseteq Lives("running")
      /\ killer'["waiter"] = killers["waiter"]
      /\ killer'["cleanup"].at \in {"confirming", "grace"}
      /\ killer'["cleanup"].targets \subseteq Alive
      /\ tracked \cap Alive \subseteq killer'["cleanup"].targets
  BY <1>1, <1>3, TerminateStrikes
<1>5. receipt'.kind = receipt.kind
  BY <1>1, <1>2 DEF Receipts
<1> QED
  BY <1>1, <1>3, <1>4, <1>5

LEMMA CleanupCleans ==
  ASSUME CleanupInv,
         \/ \E why \in {"output", "io", "resource", "descendants"} : Fail(why)
         \/ \E why \in {"cancelled", "timeout"} : Interrupt(why)
  PROVE  RetentionInv' /\ TreeInv' /\ TerminationInv'
<1>1. TypeOK /\ TerminationInv /\ TreeInv /\ RetentionInv
  BY DEF CleanupInv, IInv
<1>2. /\ UNCHANGED <<request, pipe, written, output, tracked>>
      /\ stage = "gathering" /\ stage' = "terminating" /\ receipt'.kind = receipt.kind
      /\ Aged /\ Alive' = Alive /\ Group' = Group
      /\ Lives("running")' \subseteq Lives("running")
      /\ killer'["waiter"].at \in {killer["waiter"].at, "dropped"}
      /\ killer'["waiter"].targets = killer["waiter"].targets
      /\ killer'["cleanup"].at \in {"confirming", "grace"}
      /\ killer'["cleanup"].targets \subseteq Alive
  BY <1>1, CleanupStarts
<1>3. TreeInv'
  BY <1>1, <1>2, TreeKept
<1>4. RetentionInv'
  BY <1>1, <1>2, RetentionKept DEF output, Aged, TreeInv
<1>5. TerminationInv'
  BY <1>1, <1>2 DEF TerminationInv
<1> QED
  BY <1>3, <1>4, <1>5

(* The settlement of the tasks, and the two ways a request returns. *)
LEMMA ReturnCleans ==
  ASSUME CleanupInv, Settle \/ Report \/ Succeed
  PROVE  RetentionInv' /\ TreeInv' /\ TerminationInv'
<1>1. /\ UNCHANGED <<request, system, remaining, stored, tracked, killer>>
      /\ stage' \in {"settling", "ended"} /\ TypeOK
  BY DEF Settle, Report, Succeed, Ended, CleanupInv, IInv, tasks
<1>2. Alive' = Alive /\ Group' = Group /\ Holders' = Holders /\ Lives("running")' = Lives("running")
  BY <1>1 DEF Alive, Group, Holders, Lives, system
<1>3. TreeInv'
  BY <1>1, SameTreeAges, TreeKept DEF CleanupInv, system
<1>4. CASE Settle
  <2>1. \A s \in Streams :
          /\ reader'[s].at = IF reader[s].at = "reading" THEN "cancelled"
                             ELSE IF reader[s].at = "writing" THEN "joining" ELSE reader[s].at
          /\ whole'[s] = whole[s]
    BY <1>1, <1>4 DEF Settle, TypeOK, ReaderStates
  <2>2. ASSUME NEW s \in Streams PROVE StreamInv(s)'
    BY <1>1, <1>2, <2>1 DEF CleanupInv, RetentionInv, StreamInv, system
  <2>3. /\ receipt'.kind = receipt.kind /\ stage' = "settling" /\ stage = "terminating"
        /\ receipt'.cleaned => killer["cleanup"].at = "stopped"
    BY <1>1, <1>4 DEF Settle, TypeOK, Receipts
  <2>4. TerminationInv'
    BY <1>1, <1>2, <2>3 DEF CleanupInv, TerminationInv
  <2>5. RetentionInv'
    BY <2>2, <2>3 DEF RetentionInv
  <2> QED
    BY <1>3, <2>4, <2>5
<1>5. CASE Report \/ Succeed
  <2>1. /\ UNCHANGED reader /\ \A s \in Streams : whole'[s] => whole[s]
        /\ receipt'.kind = "succeeded" => killer["waiter"].at = "stopped"
    BY <1>1, <1>5 DEF Report, Succeed, Ended, TypeOK
  <2>2. stage' = "ended"
    BY <1>5 DEF Report, Succeed, Ended
  <2>3. RetentionInv'
    BY <1>1, <1>2, <2>1, <2>2, RetentionKept DEF CleanupInv, system
  <2>4. TerminationInv'
    BY <1>1, <1>2, <2>1, <2>2 DEF CleanupInv, TerminationInv
  <2> QED
    BY <1>3, <2>3, <2>4
<1> QED
  BY <1>4, <1>5

-----------------------------------------------------------------------------
(* Beside what the budget and the root need, every reachable state keeps    *)
(* what the streams, the tree and the terminations need.                    *)
THEOREM CleanupInvariance == Spec => []CleanupInv
<1>1. Init => CleanupInv
  <2> SUFFICES ASSUME Init PROVE CleanupInv
    OBVIOUS
  <2>1. RetentionInv
    BY BrokerConstants DEF Init, RetentionInv, StreamInv, Least
  <2>2. TreeInv
    BY BrokerConstants DEF Init, TreeInv
  <2>3. TerminationInv
    BY DEF Init, TerminationInv
  <2> QED
    BY <2>1, <2>2, <2>3, InitInv DEF CleanupInv
<1>2. CleanupInv /\ IInv' /\ [Next]_vars => CleanupInv'
  <2> SUFFICES ASSUME CleanupInv, [Next]_vars PROVE RetentionInv' /\ TreeInv' /\ TerminationInv'
    BY DEF CleanupInv
  <2>1. CASE Workload \/ Kernel
    BY <2>1, SystemCleans
  <2>2. CASE Cancel \/ Sample
    BY <2>2, ObserverCleans
  <2>3. CASE Terminations
    BY <2>3, TerminationsClean
  <2>4. CASE Readers
    BY <2>4, ReadersClean
  <2>5. CASE Run
    BY <2>5, EarlyCleans, LaunchCleans, CleanupCleans, ReturnCleans DEF Run
  <2>6. CASE UNCHANGED vars
    <3>1. UNCHANGED <<request, system, output, tasks, stage, receipt>>
      BY <2>6 DEF vars
    <3>2. Aged
      BY <3>1, SameTreeAges DEF system
    <3> QED
      BY <3>1, <3>2, TreeKept, TerminationKept, AgedRetention DEF CleanupInv, system, tasks
  <2> QED
    BY <2>1, <2>2, <2>3, <2>4, <2>5, <2>6 DEF Next
<1> QED
  BY <1>1, <1>2, Invariance, PTL DEF Spec

(* A stream that the receipt calls complete was read until nobody could     *)
(* write to it any more, and all that was ever written to it is retained,   *)
(* or as much as its diagnostics hold (_read_bounded, OutputSink,           *)
(* DiagnosticOutput).                                                       *)
THEOREM CompletenessIsTrue == Spec => []CompleteMeansAll
<1>1. CleanupInv => CompleteMeansAll
  <2> SUFFICES ASSUME CleanupInv, NEW s \in Streams, whole[s]
               PROVE  /\ Holders = {} /\ pipe[s] = 0
                      /\ stored[s] = IF request.console = "diagnostics"
                                     THEN Least(DiagnosticLimit, written[s]) ELSE written[s]
    BY DEF CompleteMeansAll
  <2>1. StreamInv(s) /\ written[s] \in Nat
    BY DEF CleanupInv, RetentionInv, IInv, TypeOK
  <2> QED
    BY <2>1 DEF StreamInv
<1> QED
  BY <1>1, CleanupInvariance, PTL

(* A request that succeeds leaves none of its group to run on, and none of  *)
(* what it observed of the tree, however many processes left the group or   *)
(* were orphaned meanwhile (wait_for_exit, _terminate).                     *)
THEOREM SuccessIsClean == Spec => []SuccessLeavesNothing
<1>1. CleanupInv => SuccessLeavesNothing
  BY DEF CleanupInv, TerminationInv, SuccessLeavesNothing
<1> QED
  BY <1>1, CleanupInvariance, PTL

(* A step that begins a termination knows all that is tracked and lives;    *)
(* the step that returns a receipt with the cleanup complete finds none of  *)
(* it alive (_tracked_processes, _terminate_with_observation).              *)
THEOREM CleanedIsGone == Spec => CleanedMeansGone
<1>1. CleanupInv /\ [Next]_vars =>
        [ /\ stage = "gathering" /\ stage' = "terminating" =>
                (tracked \cap Alive) \subseteq killer'["cleanup"].targets
          /\ receipt.kind = "none" /\ receipt'.cleaned /\ stage = "settling" =>
                killer["cleanup"].targets \cap Alive = {} ]_vars
  <2> SUFFICES ASSUME CleanupInv, Next
               PROVE  /\ stage = "gathering" /\ stage' = "terminating" =>
                            (tracked \cap Alive) \subseteq killer'["cleanup"].targets
                      /\ receipt.kind = "none" /\ receipt'.cleaned /\ stage = "settling" =>
                            killer["cleanup"].targets \cap Alive = {}
    OBVIOUS
  <2>1. ASSUME stage = "gathering", stage' = "terminating"
        PROVE  (tracked \cap Alive) \subseteq killer'["cleanup"].targets
    <3>1. \/ \E why \in {"output", "io", "resource", "descendants"} : Fail(why)
          \/ \E why \in {"cancelled", "timeout"} : Interrupt(why)
      BY <2>1 DEF Next, Workload, Kernel, Cancel, Sample, Terminations, SeeExit, SeeRootGone,
                  GraceExpires, Confirm, Readers, Read, WriteEnds, ReachesEnd, Joined, Run,
                  Refuse, LaunchFails, Launch, ExpireEarly, ExpireLaunching, Abandon, Gather,
                  Settle, Report, Succeed, Ended
    <3> QED
      BY <3>1, CleanupStarts DEF CleanupInv, IInv
  <2>2. ASSUME stage = "settling", receipt'.cleaned
        PROVE  killer["cleanup"].targets \cap Alive = {}
    <3>1. receipt' = receipt \/ Report
      BY <2>2 DEF Next, Workload, Kernel, Cancel, Sample, Terminations, SeeExit, SeeRootGone,
                  GraceExpires, Confirm, Readers, Read, WriteEnds, ReachesEnd, Joined, Run,
                  Refuse, LaunchFails, Launch, ExpireEarly, ExpireLaunching, Abandon, Gather,
                  Fail, Interrupt, Settle, Succeed
    <3>2. Report => receipt.cleaned
      BY <2>2 DEF Report, Ended
    <3> QED
      BY <2>2, <3>1, <3>2 DEF CleanupInv, TerminationInv
  <2> QED
    BY <2>1, <2>2
<1> QED
  BY <1>1, CleanupInvariance, PTL DEF Spec, CleanedMeansGone
=============================================================================
