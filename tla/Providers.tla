------------------------------ MODULE Providers ------------------------------
(***************************************************************************)
(* Which provider answers an analysis of the runtime (_provider_analysis):  *)
(* by the operation, the formats and the number of the sources.  Providers  *)
(* return at most "bound" rows, one more than a page may have, and pages    *)
(* slice what they return.                                                  *)
(***************************************************************************)
EXTENDS ProfileDecoders, RecordDecoders, EvidenceDecoders, InferenceDecoders

InferenceFormats == {"vllm", "sglang", "mooncake", "aiperf"}
BenchmarkFormats == {"pyperf", "samples", "nvbench"}
(* Read in processes of their own: workers *)
WorkerFormats == {"pstats", "cpuprofile", "heapprofile", "memray", "perfetto", "coverage",
                  "compute-sanitizer", "otlp", "pyperf", "samples", "nsight-compute", "aiperf"}
(* Converted by a tool of the host, into scratch *)
ConvertedFormats == {"perf-data"}

(* Providers that take one source take none of several *)
OfOne(format, doc, ask, bound) ==
    CASE format = "speedscope"        -> Speedscope(doc, ask, bound)
      [] format = "perf-data"         -> Collapsed(doc, bound)
      [] format = "pstats"            -> Pstats(doc, ask, bound)
      [] format = "memray"            -> Memray(doc, bound)
      [] format = "perfetto"          -> Perfetto(doc, ask, bound)
      [] format = "coverage"          -> Coverage(doc, bound)
      [] format = "sarif"             -> Sarif(doc, bound)
      [] format = "compute-sanitizer" -> Sanitizer(doc, bound)
      [] format = "otlp"              -> Otlp(doc, ask, bound)
      [] format = "triton"            -> TritonEvents(doc, bound)
      [] format = "triton-cache"      -> TritonCaches(doc, bound)
      [] format = "nsight-compute"    -> Ncu(doc, bound)
      [] OTHER -> Refused

Analysis(format, docs, ask, bound) ==
    CASE format = "kernel-validation" -> Kernel(docs, ask, bound)
      [] format \in BenchmarkFormats  -> Benchmarks(docs, ask, bound)
      [] format \in InferenceFormats  -> Inference(docs, ask, bound)
      [] format = "cpuprofile"        -> V8Merged([i \in DOMAIN docs |-> V8Cpu(docs[i], bound)], bound)
      [] format = "heapprofile"       -> V8Merged([i \in DOMAIN docs |-> V8Heap(docs[i], bound)], bound)
      [] OTHER -> IF Len(docs) = 1 THEN OfOne(format, docs[1], ask, bound) ELSE Refused

(* _read_rows: a preview reads its rows again for every page, up to the     *)
(* first one beyond it *)
Preview(docs, offset, limit) ==
    LET rows == FlattenSeq(docs)
        read == Min({Len(rows), offset + limit + 1})
    IN Table(SubSeq(rows, offset + 1, Min({read, offset + limit})), read,
             read < offset + limit + 1)
=============================================================================
