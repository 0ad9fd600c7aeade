--------------------------- MODULE RecordDecoders ---------------------------
(***************************************************************************)
(* The decoders of record files: coverage data, SARIF, Compute Sanitizer    *)
(* reports, OTLP traces, and the benchmark formats with their comparison    *)
(* and scaling projections.  Names, identities and dimensions are numbers.  *)
(***************************************************************************)
EXTENDS Tables

(* The rows of several inputs, each already cut to the bound, cut again *)
Stacked(results, bound) ==
    LET rows == Capped(FlattenSeq([i \in DOMAIN results |->
                    [j \in DOMAIN results[i].rows |-> <<i, results[i].rows[j]>>]]), bound)
        observed == MapThenSumSet(LAMBDA i : results[i].observed, DOMAIN results)
    IN IF \E r \in ToSet(results) : ~ r.ok THEN Refused
       ELSE Table(rows, observed, observed <= Len(rows))

InOrder(S) == Sorted(S, LAMBDA n : <<n>>)
InOrderOf(S) == Sorted(S, LAMBDA keys : keys)

-----------------------------------------------------------------------------
(* coverage.py data: of each file the lines hit, once per test context (or  *)
(* once without one), then the branch arcs *)
Coverage(files, bound) ==
    LET Hits(f) == FlattenSeq([l \in DOMAIN files[f].lines |->
            [c \in 1..Max({1, files[f].lines[l]}) |-> <<f, "line", l, c>>]])
        Arcs(f) == [a \in 1..files[f].arcs |-> <<f, "arc", a>>]
    IN Bounded(FlattenSeq([f \in DOMAIN files |-> Hits(f) \o Arcs(f)]), bound)

(* Compute Sanitizer records, each with so many stack frames *)
Sanitizer(doc, bound) ==
    LET kept == Capped(doc.records, bound) IN
    IF ~ doc.wellformed THEN Refused
    ELSE Table([i \in DOMAIN kept |-> [record |-> i, frames |-> Min({kept[i], bound})]],
               Len(kept) + (IF Len(doc.records) > bound THEN 1 ELSE 0),
               Len(doc.records) <= bound /\ \A f \in ToSet(kept) : f <= bound)

-----------------------------------------------------------------------------
(* SARIF.  A run is a sequence of items in document order: "name", its tool *)
(* name; "excluded" and "invalid", results that make no candidate; and the  *)
(* candidates that other results make.  Results that precede the name    *)
(* wait for it in a bounded buffer.                                         *)

Candidates(results) == SelectSeq(results, LAMBDA r : r \notin {"excluded", "invalid"})
IsResult(item) == item # "name"

Named(run) == "name" \in ToSet(run)
NamedAt(run) == CHOOSE i \in DOMAIN run : run[i] = "name" /\ \A j \in 1..(i - 1) : run[j] # "name"
Early(run) == SelectSeq(SubSeq(run, 1, NamedAt(run)), IsResult)
Deferred(run) == Max({0, Len(Early(run)) - Limits.deferred})

SarifOmitted(runs, candidates, bound) ==
    Max({0, Len(candidates) - bound})
        + MapThenSumSet(LAMBDA i : Deferred(runs[i]), { i \in DOMAIN runs : Named(runs[i]) })

Sarif(doc, bound) ==
    LET named == SelectSeq(doc.runs, Named)
        Flushed(run) == Capped(Early(run), Limits.deferred)
                           \o SelectSeq(SubSeq(run, NamedAt(run), Len(run)), IsResult)
        candidates == Candidates(FlattenSeq([i \in DOMAIN named |-> Flushed(named[i])]))
        omitted == SarifOmitted(doc.runs, candidates, bound)
    IN IF doc.version # "2.1.0" THEN Refused
       ELSE Table(Capped(candidates, bound), Len(Capped(candidates, bound)) + omitted,
                  doc.whole /\ omitted = 0)

-----------------------------------------------------------------------------
(* OTLP.  Resources hold scopes, which hold spans with the times of their   *)
(* events and a number of links.  Rows are appended in this order up to the *)
(* limit; the first one beyond it is counted and ends the reading.  With a  *)
(* window, spans outside it are skipped, and a resource or scope is added   *)
(* with its first span.                                                     *)

Windowed(ask) == ask.operation = "inspect_trace_window"
InWindow(ask, span) == Windowed(ask) => span.end > ask.start /\ span.start < ask.end

SpanRows(s, place) ==
    <<[table |-> "spans", at |-> place, span |-> s]>>
        \o [e \in DOMAIN s.events |-> [table |-> "events", at |-> place \o <<e>>, span |-> s]]
        \o [l \in 1..s.links |-> [table |-> "links", at |-> place \o <<l>>, span |-> s]]
ScopeRows(scope, place, ask) ==
    LET spans == FlattenSeq([i \in DOMAIN scope |->
            IF InWindow(ask, scope[i]) THEN SpanRows(scope[i], place \o <<i>>) ELSE <<>>])
    IN IF Windowed(ask) /\ spans = <<>> THEN <<>>
       ELSE <<[table |-> "scopes", at |-> place]>> \o spans
ResourceRows(resource, place, ask) ==
    LET scopes == FlattenSeq([i \in DOMAIN resource |-> ScopeRows(resource[i], place \o <<i>>, ask)])
    IN IF Windowed(ask) /\ scopes = <<>> THEN <<>>
       ELSE <<[table |-> "resources", at |-> place]>> \o scopes
OtlpRows(resources, ask) ==
    FlattenSeq([i \in DOMAIN resources |-> ResourceRows(resources[i], <<i>>, ask)])

Of(rows, table) == SelectSeq(rows, LAMBDA r : r.table = table)
ByTable(rows) == FlattenSeq([i \in 1..5 |->
    Of(rows, <<"resources", "scopes", "spans", "events", "links">>[i])])

(* A span has a duration when both of its times are set and in order *)
Timed(span) == span.start > 0 /\ span.end >= span.start
Operations(rows) ==
    LET timed == { r.span : r \in { r \in ToSet(Of(rows, "spans")) : Timed(r.span) } }
        At(name) == { i \in DOMAIN rows :
            rows[i].table = "spans" /\ Timed(rows[i].span) /\ rows[i].span.name = name }
        Duration(name) == MapThenSumSet(LAMBDA i : rows[i].span.end - rows[i].span.start, At(name))
        order == Sorted({ s.name : s \in timed }, LAMBDA n : <<-Duration(n), n>>)
    IN [i \in DOMAIN order |-> [name |-> order[i], calls |-> Cardinality(At(order[i])),
                                duration |-> Duration(order[i])]]

(* The transitions of the spans in time: an end before an event before a    *)
(* start of the same span (the order of their names) *)
Lifecycle(rows) ==
    LET spans == { r \in ToSet(rows) : r.table = "spans" }
        events == { r \in ToSet(rows) : r.table = "events" }
    IN InOrderOf({ <<r.span.end>> \o r.at \o <<0, 0>> : r \in { r \in spans : r.span.end > 0 } }
        \cup { <<r.span.start>> \o r.at \o <<2, 0>> : r \in { r \in spans : r.span.start > 0 } }
        \cup { <<r.span.events[Last(r.at)]>> \o Front(r.at) \o <<1, Last(r.at)>> : r \in events })

Otlp(resources, ask, bound) ==
    LET all == OtlpRows(resources, ask)
        read == Capped(all, bound)
        exceeded == Len(all) > bound
        projected == IF ask.operation = "summarize_trace_operations"
                     THEN Operations(read) ELSE Lifecycle(read)
    IN IF ask.operation \in {"summarize_trace_operations", "summarize_trace_lifecycle"}
       THEN Table(Capped(projected, bound), Len(projected) + (IF exceeded THEN 1 ELSE 0),
                  ~ exceeded /\ Len(projected) <= bound)
       ELSE Table(ByTable(read), Min({Len(all), bound + 1}), ~ exceeded)

-----------------------------------------------------------------------------
(* Benchmarks.  A series has a name, the value of the dimension that a      *)
(* scaling request asks for (0 where it has none), warmups and samples.     *)
(* Both native formats and the sidecars of NVBench come to this.            *)

SampleRows(doc) ==
    FlattenSeq([s \in DOMAIN doc.series |->
        [i \in DOMAIN doc.series[s].warmups |-> <<s, "warmup", i>>]
            \o [i \in DOMAIN doc.series[s].samples |-> <<s, "sample", i>>]])

(* An NVBench directory: one JSON file of the known schema, whose states    *)
(* name sidecars with as many values as they declare.                       *)
NvbenchReadable(doc) ==
    /\ doc.roots = 1 /\ doc.major = 1
    /\ \A s \in ToSet(doc.series) :
          s.skipped \/ (s.hint # "file/unknown" /\ (s.hint = "file" => s.declared = Len(s.samples)))
NvbenchSeries(doc) ==
    [doc EXCEPT !.series = SelectSeq(@, LAMBDA s : ~ s.skipped /\ s.hint = "file")]

Readable(doc) == doc.format = "nvbench" => NvbenchReadable(doc)
Read(doc) == IF doc.format = "nvbench" THEN NvbenchSeries(doc) ELSE doc

SummarizedBenchmarks(docs, bound) ==
    Stacked([i \in DOMAIN docs |-> IF Readable(docs[i]) THEN Bounded(SampleRows(Read(docs[i])), bound)
                                   ELSE Refused], bound)

(* The series of one input that the request is about, and their identities  *)
Asked(doc, ask) == { s \in DOMAIN doc.series : doc.series[s].name \in ask.functions }
Identity(s) == <<s.name, s.input>>
Identities(doc, ask) == { Identity(doc.series[s]) : s \in Asked(doc, ask) }
Pooled(doc, ask, key) ==
    UNION { {s} \X DOMAIN doc.series[s].samples :
            s \in { s \in Asked(doc, ask) : Identity(doc.series[s]) = key } }

(* pyperf pools the samples of an identity before it applies the limit on   *)
(* series, the sample files count every series; NVBench has no such limit   *)
WithinSeriesLimit(doc, ask) ==
    CASE doc.format = "pyperf"  -> Cardinality(Identities(doc, ask)) <= Limits.series
      [] doc.format = "samples" -> Cardinality(Asked(doc, ask)) <= Limits.series
      [] OTHER -> TRUE

Mean(doc, ask, key) ==
    LET pool == Pooled(doc, ask, key) IN
    <<MapThenSumSet(LAMBDA p : doc.series[p[1]].samples[p[2]], pool), Cardinality(pool)>>

(* Means are kept as a total and a count.  Only identities with samples in  *)
(* every input are compared, each candidate with the baseline.              *)
Compared(docs, ask, bound) ==
    LET read == [i \in DOMAIN docs |-> Read(docs[i])]
        Measured(i) == { key \in Identities(read[i], ask) : Pooled(read[i], ask, key) # {} }
        common == { key \in Measured(ask.baseline) : \A i \in DOMAIN docs : key \in Measured(i) }
        order == Sorted(common \X (DOMAIN docs \ {ask.baseline}), LAMBDA p : p[1] \o <<p[2]>>)
    IN IF \/ Len(docs) < 2 \/ ask.baseline \notin DOMAIN docs
          \/ \E d \in ToSet(docs) : ~ Readable(d) \/ ~ WithinSeriesLimit(d, ask)
       THEN Refused
       ELSE Bounded([i \in DOMAIN order |->
                [key |-> order[i][1], candidate |-> order[i][2],
                 baseline |-> Mean(read[ask.baseline], ask, order[i][1]),
                 mean |-> Mean(read[order[i][2]], ask, order[i][1])]], bound)

(* A point of the fit: a positive input with a positive mean, which the     *)
(* native formats take over the positive samples and NVBench over all       *)
PositivePoint(doc, s) ==
    /\ s.input > 0
    /\ IF doc.format = "nvbench"
       THEN s.samples # <<>> /\ MapThenSumSet(LAMBDA i : s.samples[i], DOMAIN s.samples) > 0
       ELSE \E v \in ToSet(s.samples) : v > 0

(* One row per series without its input; two inputs make an estimate *)
Scaling(docs, ask, bound) ==
    LET read == [i \in DOMAIN docs |-> Read(docs[i])]
        places == UNION { {i} \X Asked(read[i], ask) : i \in DOMAIN docs }
        At(p) == read[p[1]].series[p[2]]
        order == InOrder({ At(p).name : p \in places })
        Inputs(name) == { At(p).input : p \in { p \in places :
                              At(p).name = name /\ PositivePoint(read[p[1]], At(p)) } }
    IN IF \E d \in ToSet(docs) : ~ Readable(d) \/ ~ WithinSeriesLimit(d, ask)
       THEN Refused
       ELSE Bounded([i \in DOMAIN order |->
                [name |-> order[i], inputs |-> Inputs(order[i]),
                 status |-> IF Cardinality(Inputs(order[i])) < 2 THEN "inconclusive" ELSE "estimated"]],
                bound)

Benchmarks(docs, ask, bound) ==
    CASE ask.operation = "compare_benchmarks" -> Compared(docs, ask, bound)
      [] ask.operation = "analyze_benchmark_scaling" -> Scaling(docs, ask, bound)
      [] OTHER -> SummarizedBenchmarks(docs, bound)
=============================================================================
