------------------------------ MODULE Holdings ------------------------------
(***************************************************************************)
(* What a source holds, measured independently of its decoder: counts and   *)
(* totals that a decoder must conserve.  Rows that claim to be complete     *)
(* must measure the same as the documents they come from.                   *)
(***************************************************************************)
EXTENDS Providers

Sum(s, Measure(_)) == MapThenSumSet(LAMBDA i : Measure(s[i]), DOMAIN s)
Total(s) == Sum(s, LAMBDA n : n)
Callers(ask) == ask.operation = "inspect_cpu_callers"
Compares(ask) == ask.operation \in
    {"compare_benchmarks", "compare_kernel_validation", "compare_inference"}

(* Weights of sampled stacks with frames; each caller edge of a sample once *)
HeldStacks(doc, ask) ==
    Sum(doc.profiles, LAMBDA p :
        MapThenSumSet(LAMBDA i :
            IF ~ Callers(ask) THEN (IF p.stacks[i] = <<>> THEN 0 ELSE p.weights[i])
            ELSE p.weights[i] * Cardinality({ e \in Adjacent(p.stacks[i]) : Wanted(ask, e[1], e[2]) }),
            DOMAIN p.stacks))

HeldSlices(slices, ask) ==
    CASE ask.operation = "inspect_trace_window" ->
            Quantify(ToSet(slices), LAMBDA s : s.dur >= 0 /\ s.ts < ask.end /\ s.ts + s.dur > ask.start)
      [] ask.operation = "inspect_trace_call_graph" ->
            Sum(slices, LAMBDA s : IF s.dur > 0 /\ s.parent # 0 /\ slices[s.parent].dur > 0
                                   THEN s.dur ELSE 0)
      [] OTHER -> Quantify(DOMAIN slices, LAMBDA i : slices[i].dur > 0 /\
                        (ask.operation = "summarize_pytorch_trace" => slices[i].torch))

(* Spans, with their events and links; transitions; timed spans *)
Inside(span, ask) == ask.operation = "inspect_trace_window" =>
    span.end > ask.start /\ span.start < ask.end
HeldSpan(span, ask) ==
    CASE ask.operation = "summarize_trace_operations" ->
            IF span.start > 0 /\ span.end >= span.start THEN 1 ELSE 0
      [] ask.operation = "summarize_trace_lifecycle" ->
            (IF span.start > 0 THEN 1 ELSE 0) + (IF span.end > 0 THEN 1 ELSE 0) + Len(span.events)
      [] OTHER -> IF Inside(span, ask) THEN 1 + Len(span.events) + span.links ELSE 0
HeldSpans(resources, ask) ==
    Sum(resources, LAMBDA r : Sum(r, LAMBDA scope : Sum(scope, LAMBDA s : HeldSpan(s, ask))))

HeldRuns(doc) ==
    IF ~ doc.whole THEN -1
    ELSE Sum(doc.runs, LAMBDA run : IF "name" \notin ToSet(run) THEN 0
                                    ELSE Quantify(DOMAIN run, LAMBDA i : run[i] \notin {"name", "excluded", "invalid"}))

HeldKernel(doc) ==
    Sum(doc.cases, LAMBDA c : Max({1, Sum(c.outputs, LAMBDA o :
        Max({1, Len(o.metrics) + o.failures}))}))

(* Numbers, and what else there is to see of each action and range *)
HeldActions(report) ==
    Sum(report, LAMBDA range : 1 + Sum(range, LAMBDA a :
        1 + Len(SelectSeq(a.metrics, LAMBDA m : m # "unknown")) + a.rules
          + (IF a.sources THEN 1 ELSE 0) + Sum(a.markers, LAMBDA m : IF m THEN 2 ELSE 1)))

(* The identities that two or more inputs measure, and the inputs *)
SampledKeys(doc, ask) ==
    { <<s.name, s.input>> : s \in { s \in ToSet(doc.series) :
        s.samples # <<>> /\ s.name \in ask.functions /\ (doc.format = "nvbench" => ~ s.skipped /\ s.hint = "file") } }
FiniteKeys(doc) ==
    UNION { UNION { { <<c.id, o.id, m.id>> : m \in { m \in ToSet(o.metrics) : m.kind = "finite" } }
                    : o \in ToSet(c.outputs) } : c \in ToSet(doc.cases) }
CommonKeys(docs, Keys(_)) ==
    Cardinality({ k \in Keys(docs[1]) : \A d \in ToSet(docs) : k \in Keys(d) }) * (Len(docs) - 1)

HeldBenchmarks(docs, ask) ==
    LET Live(doc) == IF doc.format = "nvbench"
                     THEN SelectSeq(doc.series, LAMBDA s : ~ s.skipped /\ s.hint = "file")
                     ELSE doc.series
    IN CASE Compares(ask) -> CommonKeys(docs, LAMBDA d : SampledKeys(d, ask))
         [] ask.operation = "analyze_benchmark_scaling" ->
               Cardinality(UNION { { s.name : s \in ToSet(Live(d)) } \cap ask.functions : d \in ToSet(docs) })
         [] OTHER -> Sum(docs, LAMBDA d : Sum(Live(d), LAMBDA s : Len(s.warmups) + Len(s.samples)))

HeldInference(docs, ask) ==
    IF Compares(ask) THEN Len(docs) - 1
    ELSE Sum(docs, LAMBDA d : IF d.format \in {"mooncake", "aiperf"}
                               THEN Quantify(DOMAIN d.lines, LAMBDA i : d.lines[i].kind # "blank")
                               ELSE Cardinality(DOMAIN d.metrics))

(* The measure of the documents, and of the rows that show them *)
Held(format, docs, ask) ==
    CASE format = "speedscope" -> HeldStacks(docs[1], ask)
      [] format = "perf-data"  -> Sum(docs[1], LAMBDA l : l.count)
      [] format = "pstats"     -> IF Callers(ask)
                                  THEN Quantify(DOMAIN docs[1].calls, LAMBDA e : Wanted(ask, e[1], e[2]))
                                  ELSE Cardinality(DOMAIN docs[1].functions)
      [] format = "memray"     -> Sum(docs[1], LAMBDA r : IF r.stack = <<>> THEN 0 ELSE r.size)
      [] format = "perfetto"   -> HeldSlices(docs[1], ask)
      [] format = "coverage"   -> Sum(docs[1], LAMBDA f : Sum(f.lines, LAMBDA n : Max({1, n})) + f.arcs)
      [] format = "sarif"      -> HeldRuns(docs[1])
      [] format = "compute-sanitizer" -> Total(docs[1].records)
      [] format = "otlp"       -> HeldSpans(docs[1], ask)
      [] format = "triton"     -> Len(docs[1])
      [] format = "triton-cache"  -> Sum(docs[1], Len)
      [] format = "nsight-compute" -> HeldActions(docs[1])
      [] format = "kernel-validation" ->
            IF Compares(ask) THEN CommonKeys(docs, FiniteKeys) ELSE HeldKernel(docs[1])
      [] format \in BenchmarkFormats -> HeldBenchmarks(docs, ask)
      [] format \in InferenceFormats -> HeldInference(docs, ask)
      [] format = "cpuprofile"  -> Sum(docs, LAMBDA d : Len(d.samples))
      [] format = "heapprofile" -> Sum(docs, LAMBDA d : Sum(d.nodes, LAMBDA n : n.size))
      [] OTHER -> Sum(docs, Len)

Shown(format, ask, rows) ==
    CASE format \in {"speedscope", "perf-data", "memray", "cpuprofile", "heapprofile"} ->
            Sum(rows, LAMBDA r : IF format = "speedscope" /\ Callers(ask) THEN r.weight ELSE r.self)
      [] format = "perfetto" /\ ask.operation = "inspect_trace_call_graph" ->
            Sum(rows, LAMBDA r : r.duration)
      [] format = "compute-sanitizer" -> Sum(rows, LAMBDA r : r.frames)
      [] format = "otlp" /\ ask.operation = "summarize_trace_operations" -> Sum(rows, LAMBDA r : r.calls)
      [] format = "otlp" /\ ask.operation # "summarize_trace_lifecycle" ->
            Quantify(DOMAIN rows, LAMBDA i : rows[i].table \in {"spans", "events", "links"})
      [] OTHER -> Len(rows)
=============================================================================
