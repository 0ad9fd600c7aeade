-------------------------- MODULE InferenceDecoders --------------------------
(***************************************************************************)
(* The exports of inference benchmarks and their comparison.  The metrics   *)
(* of an aggregate export are numbered in the order they are listed in; an  *)
(* identity maps the fields that the export gives to their values.  A line  *)
(* of a trace is "blank", "bad" or a "request".                             *)
(***************************************************************************)
EXTENDS Tables

Summary(table, identity, values) ==
    [table |-> table, identity |-> identity, values |-> values]
RefusedSummary == Summary(Refused, <<>>, <<>>)

(* The value of the metric asked for among the rows of an aggregate *)
Aggregate(metrics, identity, ask, bound) ==
    LET names == Sorted(DOMAIN metrics, LAMBDA n : <<n>>)
        rows == [i \in DOMAIN names |-> [name |-> names[i], value |-> metrics[names[i]]]]
        asked == SelectSeq(Capped(rows, bound), LAMBDA r : r.name = ask.metric)
    IN Summary(Bounded(rows, bound), identity, [i \in DOMAIN asked |-> asked[i].value])

(* vLLM: the counts of requests must agree *)
Vllm(doc, ask, bound) ==
    IF doc.succeeded + doc.failed = doc.total /\ doc.succeeded = doc.completed
    THEN Aggregate(doc.metrics, doc.identity, ask, bound)
    ELSE RefusedSummary

(* SGLang: one record, without details *)
Sglang(doc, ask, bound) ==
    IF doc.records = 1 /\ doc.required /\ ~ doc.detailed /\ doc.completed <= doc.prompts
    THEN Aggregate(doc.metrics, doc.identity, ask, bound)
    ELSE RefusedSummary

(* Mooncake: every line is read, and the identity is that of all requests,  *)
(* shown or not *)
Requests(lines) == SelectSeq(lines, LAMBDA l : l.kind # "blank")
Bad(lines) == \E l \in ToSet(lines) : l.kind = "bad"
Mooncake(lines, bound) ==
    LET requests == Requests(lines) IN
    IF requests = <<>> \/ Bad(requests) THEN RefusedSummary
    ELSE LET lengths == [i \in DOMAIN requests |-> requests[i].length]
         IN Summary(Bounded(lengths, bound), [workload |-> lengths], Capped(lengths, bound))

Missing == -1
(* AIPerf: the worker stops at the first line beyond the bound, so that a   *)
(* bad line refuses the export only before it.  Values are those of the     *)
(* requests that succeeded; without all token counts there is no identity.  *)
Aiperf(lines, bound) ==
    LET requests == Requests(lines)
        read == Capped(requests, bound)
        measured == SelectSeq(read, LAMBDA r : r.outcome = "succeeded" /\ r.latency # Missing)
        more == Len(requests) > bound
    IN IF Bad(read) THEN RefusedSummary
       ELSE Summary(Table(read, Len(read) + (IF more THEN 1 ELSE 0), ~ more),
                    IF \E r \in ToSet(read) : r.tokens = Missing THEN <<>>
                    ELSE [workload |-> [i \in DOMAIN read |-> read[i].tokens]],
                    [i \in DOMAIN measured |-> measured[i].latency])

Export(doc, ask, bound) ==
    CASE doc.format = "vllm"     -> Vllm(doc, ask, bound)
      [] doc.format = "sglang"   -> Sglang(doc, ask, bound)
      [] doc.format = "mooncake" -> Mooncake(doc.lines, bound)
      [] doc.format = "aiperf"   -> Aiperf(doc.lines, bound)

IdentityFields(format) ==
    IF format \in {"mooncake", "aiperf"} THEN {"system", "workload"} ELSE {"model", "requests"}

(* assess_comparison: fields that differ where they are given, and fields   *)
(* that some export does not give *)
Differing(summaries, fields) ==
    { f \in fields : \E a, b \in ToSet(summaries) :
          f \in DOMAIN a.identity \cap DOMAIN b.identity /\ a.identity[f] # b.identity[f] }
Compatibility(summaries, fields) ==
    IF Differing(summaries, fields) # {} THEN "heterogeneous"
    ELSE IF \E f \in fields, a \in ToSet(summaries) : f \notin DOMAIN a.identity THEN "partial"
    ELSE "compatible"

MeanOf(values) == <<MapThenSumSet(LAMBDA i : values[i], DOMAIN values), Len(values)>>

InferenceCompared(docs, ask, bound) ==
    LET summaries == [i \in DOMAIN docs |-> Export(docs[i], ask, bound)]
        fields == IdentityFields(docs[1].format)
        others == Sorted(DOMAIN docs \ {ask.baseline}, LAMBDA i : <<i>>)
    IN IF \/ \E d \in ToSet(docs) : d.format # docs[1].format
          \/ \E s \in ToSet(summaries) : ~ s.table.complete \/ s.values = <<>>
          \/ Len(docs) < 2 \/ ask.baseline \notin DOMAIN docs
          \/ Differing(summaries, fields) # {} /\ ~ ask.heterogeneous
       THEN Refused
       ELSE Bounded([i \in DOMAIN others |->
                [candidate |-> others[i], compatibility |-> Compatibility(summaries, fields),
                 baseline |-> MeanOf(summaries[ask.baseline].values),
                 mean |-> MeanOf(summaries[others[i]].values)]], bound)

Inference(docs, ask, bound) ==
    IF ask.operation = "compare_inference" THEN InferenceCompared(docs, ask, bound)
    ELSE IF Len(docs) = 1 THEN Export(docs[1], ask, bound).table ELSE Refused
=============================================================================
