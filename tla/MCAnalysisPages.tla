--------------------------- MODULE MCAnalysisPages ---------------------------
(* Documents for every provider, small but beyond the scaled-down limits:   *)
(* pages of at most two rows, so that a provider returns at most three.     *)
EXTENDS AnalysisPages

CONSTANTS c1, c2

MCLimits == [frames |-> 5, samples |-> 6, edges |-> 4, records |-> 3, depth |-> 2,
             aggregates |-> 3, nodes |-> 5, deferred |-> 2, series |-> 3, rows |-> 5,
             events |-> 4, candidates |-> 3, ranges |-> 2, actions |-> 1]

Plain(operation) == [operation |-> operation, direction |-> "both", functions |-> {1, 2},
                     metric |-> 1, start |-> 2, end |-> 4, baseline |-> 1, heterogeneous |-> FALSE]
Case(format, ask, docs) ==
    [format |-> format, ask |-> ask, sources |-> [s \in DOMAIN docs |-> <<docs[s]>>],
     maxRows |-> 2, clients |-> {c1}, limits |-> {1, 2}, racing |-> FALSE]
One(format, operations, docs) ==
    { Case(format, Plain(o), <<d>>) : o \in operations, d \in docs }

-----------------------------------------------------------------------------
Stacks == { <<>>, << <<>> >>, << <<1, 2>>, <<1, 2, 1>>, <<>> >>, << <<1, 1, 2>>, <<3>> >>,
            << <<4>>, <<3>>, <<2, 1>>, <<1>> >>, << <<1, 2, 3, 4>> >>, << <<6>> >>,
            << <<1>>, <<1>>, <<1>>, <<2>>, <<2>>, <<2>>, <<2>> >> }
Sampled(stacks, unit) ==
    [unit |-> unit, stacks |-> stacks, weights |-> [i \in DOMAIN stacks |-> 1 + (i % 2)]]
Speedscopes ==
    { [frames |-> 5, profiles |-> <<Sampled(s, "seconds")>>] : s \in Stacks }
        \cup { [frames |-> 6, profiles |-> <<Sampled(<< <<1>> >>, "seconds")>>],
               [frames |-> 2, profiles |-> <<>>],
               [frames |-> 2, profiles |-> <<Sampled(<< <<1>> >>, "bytes")>>],
               [frames |-> 3, profiles |-> <<Sampled(<< <<1, 2>> >>, "seconds"), Sampled(<< <<3>>, <<1, 2>> >>, "seconds")>>],
               [frames |-> 3, profiles |-> <<Sampled(<< <<1, 2>> >>, "seconds"), Sampled(<< <<3>> >>, "samples")>>],
               [frames |-> 3, profiles |-> <<[Sampled(<< <<1, 2>> >>, "seconds") EXCEPT !.weights = <<>>]>>] }
SpeedscopeCases ==
    One("speedscope", {"rank_cpu_hotspots", "inspect_cpu_callers"}, Speedscopes)
        \cup { Case("speedscope", [Plain("inspect_cpu_callers") EXCEPT !.direction = d, !.functions = {1}],
                    <<[frames |-> 5, profiles |-> <<Sampled(<< <<1, 2, 1, 3>> >>, "seconds")>>]>>)
               : d \in {"callers", "callees"} }

Lines(n) == [i \in 1..n |-> [stack |-> <<1, i>>, count |-> i]]
PerfCases == One("perf-data", {"rank_cpu_hotspots"},
    {Lines(1), Lines(3), Lines(4), Lines(6), <<[stack |-> <<>>, count |-> 1]>>,
     <<[stack |-> <<1, 1>>, count |-> 2], [stack |-> <<2, 1>>, count |-> 1]>>})

PstatsCases == One("pstats", {"rank_cpu_hotspots", "inspect_cpu_callers"},
    { [functions |-> [f \in 1..n |-> <<f>>], calls |-> [e \in calls |-> 1]] :
      n \in {1, 3, 4}, calls \in {{}, {<<1, 2>>, <<2, 1>>}, {<<1, 1>>, <<1, 2>>, <<1, 3>>, <<3, 1>>},
                                  {<<1, 3>>, <<3, 4>>}} })

Allocated(sizes, stack) == [i \in DOMAIN sizes |-> [size |-> sizes[i], stack |-> stack[i]]]
MemrayCases == One("memray", {"rank_allocation_hotspots"},
    {<<>>, Allocated(<<3, 5>>, << <<1, 2>>, <<1, 1>> >>), Allocated(<<1, 2, 3, 4>>, << <<1>>, <<2>>, <<1>>, <<2>> >>),
     Allocated(<<2, 1>>, << <<1, 2, 3>>, <<2>> >>), Allocated(<<2, 1, 1>>, << <<1, 2>>, <<3, 4>>, <<5>> >>),
     Allocated(<<2, 1>>, << <<>>, <<3, 4>> >>)})

Tree(ids, frames, children) ==
    [i \in DOMAIN ids |-> [id |-> ids[i], frame |-> frames[i], children |-> children[i], size |-> i]]
Trees == { Tree(<<1>>, <<1>>, << <<>> >>), Tree(<<1, 2, 3>>, <<1, 2, 1>>, << <<2>>, <<3>>, <<>> >>),
           Tree(<<1, 2, 3, 4>>, <<1, 2, 3, 4>>, << <<2, 3>>, <<4>>, <<>>, <<>> >>),
           Tree(<<1, 2>>, <<1, 2>>, << <<2>>, <<1>> >>), Tree(<<1, 2, 3>>, <<1, 2, 3>>, << <<3>>, <<3>>, <<>> >>),
           Tree(<<1, 1>>, <<1, 2>>, << <<>>, <<>> >>), Tree(<<1>>, <<1>>, << <<7>> >>),
           Tree(<<1, 2, 3, 4, 5, 6>>, <<1, 1, 1, 1, 1, 1>>, << <<>>, <<>>, <<>>, <<>>, <<>>, <<>> >>) }
Profiles == { [nodes |-> t, samples |-> s] : t \in Trees, s \in {<<1>>, <<1, 2, 2>>, <<3, 8>>} }
Wide == [nodes |-> Tree(<<1, 2, 3>>, <<1, 2, 3>>, << <<2, 3>>, <<>>, <<>> >>), samples |-> <<1, 2, 3>>]
V8Cases ==
    One("cpuprofile", {"rank_cpu_hotspots"}, Profiles) \cup One("heapprofile", {"rank_allocation_hotspots"}, Profiles)
        \cup { Case("cpuprofile", Plain("rank_cpu_hotspots"), <<Wide, d>>) : d \in Profiles }

Slice(ts, dur, parent, name) ==
    [ts |-> ts, dur |-> dur, depth |-> parent, parent |-> parent, name |-> name, torch |-> name = 1]
PerfettoCases == One("perfetto",
    {"summarize_trace", "inspect_trace_window", "inspect_trace_call_graph", "summarize_pytorch_trace"},
    {<<>>, <<Slice(0, 5, 0, 1), Slice(1, 3, 1, 2), Slice(2, 0, 2, 1)>>,
     <<Slice(3, -1, 0, 1), Slice(2, 0, 0, 2), Slice(4, 2, 0, 1)>>,
     [i \in 1..4 |-> Slice(i, 1, 0, 1)], [i \in 1..3 |-> Slice(i, 2, 0, 1)],
     [i \in 1..5 |-> Slice(i, 6 - i, i - 1, i)]})

-----------------------------------------------------------------------------
Covered(lines, arcs) == [lines |-> lines, arcs |-> arcs]
Files == {<<>>, <<Covered(<<0, 2>>, 0)>>, <<Covered(<<1>>, 1), Covered(<<0>>, 0)>>, <<Covered(<<3>>, 1)>>}
CoverageCases == One("coverage", {"summarize_coverage"}, Files)

SanitizerCases == One("compute-sanitizer", {"inspect_sanitizer_failures"},
    { [wellformed |-> w, records |-> r] : w \in BOOLEAN,
      r \in {<<>>, <<1, 3>>, <<0, 4>>, <<1, 1, 1>>, <<1, 1, 1, 1>>} })

SarifCases == One("sarif", {"inspect_performance_candidates"},
    { [version |-> v, runs |-> r, whole |-> w] : w \in BOOLEAN, v \in {"2.1.0", "2.0.0"},
      r \in {<<>>, << <<"name", "a", "excluded", "b">> >>, << <<"a", "invalid", "b", "name">> >>,
             << <<"a", "b", "c", "name">> >>, << <<"a", "b">>, <<"name", "c">> >>, << <<"name", "a", "b">>, <<"c", "name", "d">> >>} })

Span(start, end, events, links) ==
    [start |-> start, end |-> end, name |-> start % 2, events |-> events, links |-> links]
OtlpCases == One("otlp", {"summarize_trace", "inspect_trace_window", "summarize_trace_operations",
                          "summarize_trace_lifecycle"},
    {<<>>, << << <<Span(1, 2, <<>>, 0)>> >> >>, << << <<>> >> >>, << << <<Span(3, 3, <<>>, 0)>> >> >>,
     << << <<Span(0, 5, <<>>, 0), Span(1, 4, <<>>, 0)>> >> >>, << << <<Span(3, 2, <<>>, 0)>> >> >>,
     << << <<Span(5, 6, <<>>, 0)>>, <<Span(2, 3, <<>>, 0)>> >> >>,
     << << <<Span(1, 2, <<1, 2>>, 1)>> >>, << <<Span(3, 5, <<>>, 0)>> >> >>})

Series(name, input, samples) ==
    [name |-> name, input |-> input, warmups |-> <<0>>, samples |-> samples,
     skipped |-> FALSE, hint |-> "file", declared |-> Len(samples)]
Measured(series) == [format |-> "samples", series |-> series, roots |-> 1, major |-> 1]
Benches == { Measured(<<Series(1, 0, <<2>>)>>), Measured(<<Series(1, 1, <<2, 3>>), Series(1, 2, <<5>>)>>),
             Measured(<<Series(1, 1, <<4>>), Series(2, 1, <<1>>)>>), Measured(<<Series(1, 1, <<>>), Series(3, 1, <<1>>)>>),
             Measured(<<Series(1, 1, <<1>>), Series(1, 1, <<2>>), Series(2, 1, <<1>>), Series(2, 2, <<3>>)>>),
             Measured(<<[Series(1, 1, <<2>>) EXCEPT !.skipped = TRUE], Series(2, 1, <<1>>)>>),
             Measured(<<[Series(1, 1, <<2>>) EXCEPT !.declared = 2]>>) }
BenchmarkCases ==
    UNION { LET F(d) == [d EXCEPT !.format = f] IN
            { Case(f, Plain(o), <<F(d)>>) : o \in {"summarize_benchmarks", "analyze_benchmark_scaling"}, d \in Benches }
            \cup { Case(f, Plain("compare_benchmarks"), <<F(Measured(<<Series(1, 1, <<4>>), Series(2, 1, <<1>>)>>)), F(d)>>) : d \in Benches }
            \cup { Case(f, Plain("analyze_benchmark_scaling"), <<F(Measured(<<Series(1, 2, <<4>>), Series(2, 2, <<0>>)>>)), F(d)>>) : d \in Benches }
            : f \in {"pyperf", "samples", "nvbench"} }

-----------------------------------------------------------------------------
Metric(id, kind, comparator, value, status) ==
    [id |-> id, kind |-> kind, comparator |-> comparator, value |-> value, threshold |-> 1, status |-> status]
Output(id, status, metrics, failures) ==
    [id |-> id, status |-> status, metrics |-> metrics, failures |-> failures]
Validation(status, cases) == [schema |-> "v2", status |-> status, cases |-> cases]
Checked(id, status, outputs) == [id |-> id, status |-> status, outputs |-> outputs]
OneMetric(d, c, o, m) == Validation(d, <<Checked(1, c, <<Output(1, o, <<m>>, 0)>>)>>)
Verdicts == {"pass", "fail"}
Kernels ==
    { OneMetric(d, c, o, Metric(1, k, "<=", v, s)) :
        d \in Verdicts, c \in Verdicts, o \in Verdicts, s \in Verdicts, k \in {"finite", "none"}, v \in {1, 2} }
    \cup { OneMetric("pass", "pass", "pass", Metric(1, "positive_infinity", q, 0, "pass")) : q \in {"<=", ">=", "none"} }
    \cup { Validation("pass", <<>>), Validation("pass", <<Checked(1, "pass", <<>>), Checked(2, "pass", <<>>)>>),
           Validation("pass", <<Checked(1, "pass", <<>>), Checked(2, "fail", <<>>)>>),
           Validation("pass", <<Checked(1, "pass", <<>>), Checked(1, "pass", <<>>)>>),
           [Validation("pass", <<>>) EXCEPT !.schema = "v1"],
           Validation("fail", <<Checked(1, "fail", <<Output(1, "fail", <<Metric(1, "finite", ">=", 2, "pass"),
                                                     Metric(2, "finite", ">=", 0, "fail")>>, 2)>>)>>) }
Several == OneMetric("pass", "pass", "pass", Metric(1, "finite", "<=", 1, "pass"))
KernelCases ==
    One("kernel-validation", {"inspect_kernel_validation"}, Kernels)
        \cup { Case("kernel-validation", Plain("compare_kernel_validation"), <<Several, d>>) : d \in Kernels }

Selection(n, winner, hit, timed) ==
    [kind |-> "selection", candidates |-> 1..n, winner |-> winner, hit |-> hit, timed |-> timed]
TritonCases ==
    One("triton", {"inspect_triton_autotune"},
        {<<>>, <<Selection(2, 1, TRUE, FALSE)>>, <<Selection(2, 3, FALSE, TRUE), Selection(1, 1, FALSE, TRUE)>>,
         <<Selection(1, 1, TRUE, TRUE)>>, [i \in 1..4 |-> Selection(1, 1, FALSE, TRUE)],
         <<[Selection(1, 1, FALSE, TRUE) EXCEPT !.kind = "unavailable"], Selection(1, 1, FALSE, TRUE)>>})
    \cup One("triton-cache", {"inspect_triton_autotune"},
             {<<>>, << <<2, 1>> >>, << <<1, 1>>, <<3>> >>, << <<1, 2, 3>>, <<1>> >>, << <<>> >>, << <<1, 2, 3, 4>> >>})

Action(metrics, rules, sources, markers) ==
    [metrics |-> metrics, rules |-> rules, sources |-> sources, markers |-> markers]
Quiet == Action(<<>>, 0, FALSE, <<>>)
(* Six rows: three measurements, three observations *)
NcuCases == { [c EXCEPT !.maxRows = 5] : c \in One("nsight-compute", {"inspect_gpu_kernel_metrics"},
    {<<>>, << <<>> >>, << <<>>, <<>> >>, << <<>>, <<>>, <<>> >>, << <<Quiet>> >>, << <<Quiet, Quiet>> >>, << <<Quiet>>, <<>> >>,
     << <<Action(<<"number">>, 0, FALSE, <<>>)>> >>, << <<Action(<<"number", "string">>, 0, FALSE, <<>>)>> >>,
     << <<Action(<<"unknown", "number", "number">>, 0, FALSE, <<>>)>> >>, << <<Action(<<"number", "number", "number", "number">>, 0, FALSE, <<>>)>> >>,
     << <<Action(<<"number">>, 1, FALSE, <<>>)>> >>, << <<Action(<<>>, 0, TRUE, <<>>)>> >>, << <<Action(<<>>, 0, FALSE, <<TRUE>>)>> >>}) }

Exported(format, metrics, identity, failed) ==
    [format |-> format, metrics |-> metrics, identity |-> identity, succeeded |-> 2, failed |-> failed, total |-> 3,
     completed |-> 2, prompts |-> 2, records |-> 1, required |-> TRUE, detailed |-> FALSE, lines |-> <<>>]
Streamed(format, lines) == [Exported(format, <<>>, <<>>, 1) EXCEPT !.lines = lines]
Line(kind, outcome, tokens, latency) ==
    [kind |-> kind, outcome |-> outcome, tokens |-> tokens, latency |-> latency, length |-> tokens]
Request(outcome, tokens, latency) == Line("request", outcome, tokens, latency)
Blank == Line("blank", "none", 0, 0)
Wrong == Line("bad", "none", 0, 0)
Good == Request("succeeded", 3, 7)
Exports ==
    { Exported(f, m, i, x) : f \in {"vllm", "sglang"}, m \in {<<>>, <<4>>, <<4, 5, 6>>, <<4, 5, 6, 7>>},
      i \in {[model |-> 1], [model |-> 1, requests |-> 2], [model |-> 2, requests |-> 2]}, x \in {1, 2} }
    \cup { [Exported("sglang", <<4>>, <<>>, 1) EXCEPT !.detailed = TRUE], [Exported("sglang", <<4>>, <<>>, 1) EXCEPT !.records = 2] }
    \cup { Streamed("mooncake", l) : l \in {<<>>, <<Blank>>, <<Good, Blank, Good>>, <<Good, Wrong>>, <<Good, Good, Good, Blank, Good>>,
                                            <<Good, Good, Good, Blank>>} }
    \cup { Streamed("aiperf", l) : l \in {<<>>, <<Good, Blank, Request("failed", Missing, Missing)>>, <<Good, Good>>,
                                          <<Good, Good, Good, Wrong>>, <<Good, Wrong>>, <<Good, Good, Good>>,
                                          <<Request("failed", 1, Missing)>>} }
InferenceCases ==
    { Case(d.format, Plain("summarize_inference"), <<d>>) : d \in Exports }
        \cup { Case(d.format, [Plain("compare_inference") EXCEPT !.heterogeneous = h], <<b, d>>) :
               h \in BOOLEAN, d \in Exports,
               b \in { e \in Exports : e = Exported("vllm", <<4, 5, 6>>, [model |-> 1, requests |-> 2], 1)
                                       \/ e = Exported("sglang", <<4>>, [model |-> 1], 1)
                                       \/ e = Streamed("aiperf", <<Good, Good>>)
                                       \/ e = Streamed("mooncake", <<Good, Blank, Good>>) } }

PreviewCases == One("preview", {"preview_artifact"}, { [i \in 1..n |-> i] : n \in 0..5 })
                    \cup { Case("preview", Plain("preview_artifact"), << <<1>>, <<2, 3>> >>) }

-----------------------------------------------------------------------------
(* Sources that change while they are analysed *)
Racing(format, ask, sources) == [format |-> format, ask |-> ask, sources |-> sources,
                                 maxRows |-> 2, clients |-> {c1, c2}, limits |-> {1}, racing |-> TRUE]
RacingCases ==
    { [Racing("preview", Plain("preview_artifact"), << << <<1, 2, 3>>, <<4>> >> >>) EXCEPT !.limits = {1, 2}],
      Racing("perf-data", Plain("rank_cpu_hotspots"), << <<Lines(3), Lines(1)>> >>),
      Racing("coverage", Plain("summarize_coverage"), << << <<Covered(<<0, 2>>, 0)>>, <<Covered(<<0>>, 0)>> >> >>),
      Racing("samples", Plain("compare_benchmarks"),
             << <<Measured(<<Series(1, 1, <<4>>), Series(2, 1, <<1>>)>>), Measured(<<Series(1, 1, <<9>>)>>)>>,
                <<Measured(<<Series(1, 1, <<3>>), Series(2, 1, <<2>>)>>)>> >>) }

MCCases ==
    <<SpeedscopeCases, PerfCases, PstatsCases, MemrayCases, V8Cases, PerfettoCases, CoverageCases,
      SanitizerCases, SarifCases, OtlpCases, BenchmarkCases, KernelCases, TritonCases, NcuCases,
      InferenceCases, PreviewCases, RacingCases>>
=============================================================================
