-------------------------- MODULE EvidenceDecoders --------------------------
(***************************************************************************)
(* The decoders of kernel and inference evidence: kernel validation         *)
(* documents, Triton autotuning and Nsight Compute reports.                 *)
(***************************************************************************)
EXTENDS Tables

(* No element of a sequence repeats under Key *)
Unrepeated(s, Key(_)) == \A i, j \in DOMAIN s : Key(s[i]) = Key(s[j]) => i = j

-----------------------------------------------------------------------------
(* Kernel validation.  A document holds cases, a case outputs, an output    *)
(* metrics and failure witnesses; document, case, output and metric each    *)
(* declare a status.                                                        *)

OutputRows(case, output) ==
    LET Row(kind, i) == <<kind, case.id, output.id, i>> IN
    IF output.metrics = <<>> /\ output.failures = 0 THEN <<Row("output", 0)>>
    ELSE [m \in DOMAIN output.metrics |-> Row("measurement", m)]
             \o [f \in 1..output.failures |-> Row("failure_witness", f)]
CaseRows(case) ==
    IF case.outputs = <<>> THEN << <<"case", case.id, 0, 0>> >>
    ELSE FlattenSeq([o \in DOMAIN case.outputs |-> OutputRows(case, case.outputs[o])])
KernelRows(doc) == FlattenSeq([c \in DOMAIN doc.cases |-> CaseRows(doc.cases[c])])

KernelReadable(doc) ==
    /\ doc.schema = "v2"
    /\ Unrepeated(doc.cases, LAMBDA c : c.id)
    /\ \A c \in ToSet(doc.cases) :
          /\ Unrepeated(c.outputs, LAMBDA o : o.id)
          /\ \A o \in ToSet(c.outputs) : Unrepeated(o.metrics, LAMBDA m : m.id)
    /\ Len(KernelRows(doc)) <= Limits.rows

(* A metric with a comparator, a threshold and a value decides itself *)
Decides(m) == m.comparator \in {"<=", ">="} /\ m.kind # "none"
Satisfied(m) ==
    \/ m.comparator = ">=" /\ (m.kind = "positive_infinity" \/ m.value >= m.threshold)
    \/ m.comparator = "<=" /\ m.kind = "finite" /\ m.value <= m.threshold

(* Mutant: only the declared statuses are compared with each other *)
ContradictedByStatus(doc) ==
    \E c \in ToSet(doc.cases) :
        \/ doc.status = "pass" /\ c.status # "pass"
        \/ \E o \in ToSet(c.outputs) :
              \/ c.status = "pass" /\ o.status # "pass"
              \/ o.status = "pass" /\ \E m \in ToSet(o.metrics) : m.status # "pass"

(* A verdict contradicts what it contains *)
Contradicted(doc) ==
    \E c \in ToSet(doc.cases) :
        \/ doc.status = "pass" /\ c.status # "pass"
        \/ \E o \in ToSet(c.outputs) :
              \/ c.status = "pass" /\ o.status # "pass"
              \/ \E m \in ToSet(o.metrics) :
                    \/ o.status = "pass" /\ m.status # "pass"
                    \/ /\ m.status \in {"pass", "fail"} /\ Decides(m)
                       /\ (m.status = "pass") # Satisfied(m)

(* The verdict a summary reports *)
KernelStatus(doc) == IF Contradicted(doc) THEN "inconclusive" ELSE doc.status

(* What a document measures: a finite value per identity *)
Measurements(doc) ==
    UNION { UNION { { <<c.id, o.id, m.id, m.value>> : m \in { n \in ToSet(o.metrics) : n.kind = "finite" } }
                    : o \in ToSet(c.outputs) } : c \in ToSet(doc.cases) }
IdentityOf(measurement) == SubSeq(measurement, 1, 3)
Value(doc, key) == (CHOOSE v \in Measurements(doc) : IdentityOf(v) = key)[4]

KernelCompared(docs, ask, bound) ==
    LET Keys(i) == { IdentityOf(v) : v \in Measurements(docs[i]) }
        common == { key \in Keys(ask.baseline) : \A i \in DOMAIN docs : key \in Keys(i) }
        order == Sorted(common \X (DOMAIN docs \ {ask.baseline}), LAMBDA p : p[1] \o <<p[2]>>)
    IN IF Len(docs) < 2 \/ ask.baseline \notin DOMAIN docs THEN Refused
       ELSE Bounded([i \in DOMAIN order |->
                [key |-> order[i][1], candidate |-> order[i][2],
                 baseline |-> Value(docs[ask.baseline], order[i][1]),
                 value |-> Value(docs[order[i][2]], order[i][1])]], bound)

WithVerdict(table, verdict) ==
    [field \in DOMAIN table \cup {"verdict"} |-> IF field = "verdict" THEN verdict ELSE table[field]]

Kernel(docs, ask, bound) ==
    IF \E d \in ToSet(docs) : ~ KernelReadable(d) THEN Refused
    ELSE IF ask.operation = "compare_kernel_validation" THEN KernelCompared(docs, ask, bound)
    ELSE IF Len(docs) # 1 THEN Refused
    ELSE WithVerdict(Bounded(KernelRows(docs[1]), bound), KernelStatus(docs[1]))

-----------------------------------------------------------------------------
(* Triton.  The events of a listener are "unavailable", "invalid" or a      *)
(* selection: its candidates, its winner and whether the cache had it; a    *)
(* selection whose winner is no candidate, or a hit that took time, is      *)
(* invalid.  Only a stream of valid selections is complete.                 *)

Selects(event) ==
    /\ event.kind = "selection" /\ event.candidates # {}
    /\ event.winner \in event.candidates
    /\ ~ (event.hit /\ event.timed)

TritonEvents(events, bound) ==
    LET selections == SelectSeq(events, Selects) IN
    IF selections = <<>> \/ Len(events) > Limits.events THEN Refused
    ELSE Table(Capped(selections, bound), Len(selections),
               Len(selections) <= bound /\ Len(selections) = Len(events))

(* A native cache: candidates with their timings, of which the least wins   *)
TritonCacheRows(timings) ==
    LET best == CHOOSE i \in DOMAIN timings : \A j \in DOMAIN timings :
                    timings[i] < timings[j] \/ (timings[i] = timings[j] /\ i <= j)
    IN [i \in DOMAIN timings |-> [candidate |-> i, timing |-> timings[i], best |-> i = best]]

(* The caches of a directory, in the order of their names *)
TritonCaches(caches, bound) ==
    IF caches = <<>> \/ \E c \in ToSet(caches) : Len(c) \notin 1..Limits.candidates
    THEN Refused
    ELSE LET cut == FlattenSeq([k \in DOMAIN caches |->
                        Capped([i \in DOMAIN caches[k] |-> <<k, TritonCacheRows(caches[k])[i]>>], bound)])
             observed == MapThenSumSet(LAMBDA k : Len(caches[k]), DOMAIN caches)
         IN Table(Capped(cut, bound), observed, observed <= Len(Capped(cut, bound)))

-----------------------------------------------------------------------------
(* Nsight Compute.  A report is a sequence of ranges of actions; an action  *)
(* has metrics ("number", "string" or "unknown"), rules, source files and   *)
(* markers (each with an address or not).  Half of the bound is for the     *)
(* measurements, the rest for the observations.                             *)

MetricLimit(bound) == Max({1, (bound + 1) \div 2})
ObservationLimit(bound) == Max({1, bound - MetricLimit(bound)})

(* The actions visited: those of the first ranges, up to a number; it is    *)
(* left at the last one, whatever ranges follow.                            *)
Visited(report, bound) ==
    LET limit == ObservationLimit(bound)
        ranges == Capped(report, Min({Limits.ranges, limit}))
    IN Capped(Sorted(Places(ranges), LAMBDA p : p), Min({Limits.actions, limit}))

LastRange(report, bound) ==
    LET visited == Visited(report, bound)
        limit == ObservationLimit(bound)
    IN IF Len(visited) = Min({Limits.actions, limit}) THEN Last(visited)[1]
       ELSE Min({Len(report), Limits.ranges, limit})

(* The names of the metrics of the visited actions, as far as their limit *)
Metrics(report, bound) ==
    LET visited == Visited(report, bound)
    IN FlattenSeq([i \in DOMAIN visited |->
           LET metrics == report[visited[i][1]][visited[i][2]].metrics
           IN [m \in DOMAIN metrics |-> [at |-> visited[i], kind |-> metrics[m]]]])

(* A marker with an address is observed twice, its details apart *)
ActionObservations(action, strings) ==
    1 + strings + action.rules + (IF action.sources THEN 1 ELSE 0)
      + MapThenSumSet(LAMBDA i : IF action.markers[i] THEN 2 ELSE 1, DOMAIN action.markers)

(* How many observations the visited ranges and actions offer.  A range is  *)
(* visited unless the limit on actions was reached in one before it.        *)
Observations(report, bound) ==
    LET visited == Visited(report, bound)
        kept == Capped(Metrics(report, bound), MetricLimit(bound))
        Strings(place) == Quantify(DOMAIN kept, LAMBDA i :
                              kept[i].at = place /\ kept[i].kind = "string")
    IN LastRange(report, bound)
         + MapThenSumSet(LAMBDA i : ActionObservations(report[visited[i][1]][visited[i][2]],
                                                       Strings(visited[i])), DOMAIN visited)

(* Mutant: actions left out because their limit was reached do not count *)
NcuTruncatedInRange(report, bound) ==
    \/ Len(report) > Min({Limits.ranges, ObservationLimit(bound)})
    \/ Len(Metrics(report, bound)) > MetricLimit(bound)
    \/ Observations(report, bound) >= ObservationLimit(bound)

NcuTruncated(report, bound) ==
    LET limit == ObservationLimit(bound)
        visited == Visited(report, bound)
        ranges == Capped(report, Min({Limits.ranges, limit}))
    IN \/ Len(report) > Len(ranges)
       \/ Len(visited) < Cardinality(Places(ranges))
       \/ LastRange(report, bound) < Len(ranges)
       \/ Len(Metrics(report, bound)) > MetricLimit(bound)
       \/ Observations(report, bound) >= limit

Ncu(report, bound) ==
    LET numbers == SelectSeq(Capped(Metrics(report, bound), MetricLimit(bound)),
                             LAMBDA m : m.kind = "number")
        observations == Min({Observations(report, bound), ObservationLimit(bound)})
        rows == Capped([i \in DOMAIN numbers |-> numbers[i].at]
                           \o [i \in 1..observations |-> <<0, i>>], bound)
        observed == Len(numbers) + observations
    IN Table(rows, observed, ~ NcuTruncated(report, bound) /\ observed <= Len(rows))
=============================================================================
