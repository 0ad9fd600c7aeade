--------------------------- MODULE ProfileDecoders ---------------------------
(***************************************************************************)
(* The decoders of native profiles and traces: sampled stacks (Speedscope,  *)
(* collapsed perf), pstats, Memray, V8 CPU and heap profiles and Perfetto   *)
(* traces.  A document is what a decoder reads, its frames numbered in the  *)
(* order of their names; "ask" is the operation with its arguments, and     *)
(* "bound" the max_rows that the provider is called with.                   *)
(***************************************************************************)
EXTENDS Tables

-----------------------------------------------------------------------------
(* Sampled stacks.  A stack lists its frames from the outermost one.        *)

(* A caller edge is asked for by its direction from the matching functions  *)
Wanted(ask, caller, callee) ==
    \/ ask.direction \in {"callees", "both"} /\ caller \in ask.functions
    \/ ask.direction \in {"callers", "both"} /\ callee \in ask.functions

Adjacent(stack) == { <<stack[i], stack[i + 1]>> : i \in 1..(Len(stack) - 1) }

(* The rows of frames (or edges), heaviest first *)
Heaviest(S, Weight(_), Key(_)) == Sorted(S, LAMBDA x : <<-Weight(x)>> \o Key(x))

(* Only sampled profiles of one unit, and never bytes, are CPU evidence.  A *)
(* stack without frames is counted as unresolved and otherwise skipped.     *)
Speedscope(doc, ask, bound) ==
    LET profiles == doc.profiles
        At(s) == profiles[s[1]].stacks[s[2]]
        Weight(s) == profiles[s[1]].weights[s[2]]
        samples == Places([i \in DOMAIN profiles |-> profiles[i].stacks])
        resolved == { s \in samples : At(s) # <<>> }
        used == UNION { ToSet(At(s)) : s \in resolved }
        Within(f) == { s \in resolved : f \in ToSet(At(s)) }
        Own(f) == MapThenSumSet(Weight, { s \in resolved : Last(At(s)) = f })
        edges == UNION { { <<s[1]>> \o e : e \in { e \in Adjacent(At(s)) : Wanted(ask, e[1], e[2]) } }
                         : s \in resolved }
        Crossing(e) == { s \in resolved : s[1] = e[1] /\ <<e[2], e[3]>> \in Adjacent(At(s)) }
        Traffic(e) == MapThenSumSet(Weight, Crossing(e))
        hot == Heaviest(used, Own, LAMBDA f : <<f>>)
        calls == Heaviest(edges, Traffic, LAMBDA e : e)
    IN
    IF \/ profiles = <<>> \/ doc.frames > Limits.frames
       \/ Cardinality({ p.unit : p \in ToSet(profiles) }) > 1
       \/ \E p \in ToSet(profiles) : p.unit = "bytes" \/ Len(p.weights) # Len(p.stacks)
       \/ Cardinality(samples) > Limits.samples
       \/ ~ used \subseteq 1..doc.frames
       \/ resolved = {}
    THEN Refused
    ELSE IF ask.operation # "inspect_cpu_callers"
    THEN Bounded([i \in DOMAIN hot |-> [frame |-> hot[i], self |-> Own(hot[i]),
                      inclusive |-> MapThenSumSet(Weight, Within(hot[i]))]], bound)
    ELSE IF Cardinality(edges) > Limits.edges THEN Refused
    ELSE Bounded([i \in DOMAIN calls |-> [edge |-> calls[i], weight |-> Traffic(calls[i]),
                      samples |-> Cardinality(Crossing(calls[i]))]], bound)

(* One line per distinct stack; a line without frames is not a stack *)
Collapsed(lines, bound) ==
    LET leaves == { Last(l.stack) : l \in { l \in ToSet(lines) : l.stack # <<>> } }
        Own(f) == MapThenSumSet(LAMBDA i : lines[i].count,
                                { i \in DOMAIN lines : Last(lines[i].stack) = f })
        hot == Heaviest(leaves, Own, LAMBDA f : <<f>>)
    IN
    IF \/ \E l \in ToSet(lines) : l.stack = <<>>
       \/ Cardinality(leaves) > Limits.frames
    THEN Refused
    ELSE Bounded([i \in DOMAIN hot |-> [frame |-> hot[i], self |-> Own(hot[i])]], bound)

(* cProfile statistics: functions with their own and cumulative times, and  *)
(* the calls between them, whose callers must themselves be recorded.       *)
Pstats(doc, ask, bound) ==
    LET functions == DOMAIN doc.functions
        Metric(f) == doc.functions[f][ask.metric]
        hot == Heaviest(functions, Metric, LAMBDA f : <<f>>)
        calls == Heaviest({ e \in DOMAIN doc.calls : Wanted(ask, e[1], e[2]) },
                          LAMBDA e : doc.calls[e], LAMBDA e : e)
    IN
    IF ~ { e[1] : e \in DOMAIN doc.calls } \subseteq functions THEN Refused
    ELSE IF ask.operation = "inspect_cpu_callers"
    THEN Bounded([i \in DOMAIN calls |-> [edge |-> calls[i], cumulative |-> doc.calls[calls[i]]]],
                 bound)
    ELSE Bounded([i \in DOMAIN hot |-> [frame |-> hot[i], value |-> Metric(hot[i])]], bound)

-----------------------------------------------------------------------------
(* Memray.  Of the allocation records the largest are kept, of each stack   *)
(* the frames nearest the allocation (its first), of the frames those with  *)
(* the most bytes.  Every frame occurrence contributes, so a recursive      *)
(* function counts its bytes once per activation.  Only one metric is       *)
(* extracted, so the limit on aggregate rows, which equals the limit on     *)
(* frames, drops none.                                                      *)

(* _aggregate: the positions of the records kept, and what they contribute *)
KeptRecords(records) ==
    ToSet(Capped(Sorted(DOMAIN records, LAMBDA i : <<-records[i].size, i>>), Limits.records))
Contributions(records, kept) ==
    UNION { {i} \X (1..Min({Len(records[i].stack), Limits.depth})) : i \in kept }

MemrayComplete(records, kept, dropped) ==
    /\ Cardinality(kept) = Len(records)
    /\ \A i \in kept : Len(records[i].stack) <= Limits.depth
    /\ dropped = {}

Memray(records, bound) ==
    LET kept == KeptRecords(records)
        FrameOf(c) == records[c[1]].stack[c[2]]
        Size(c) == records[c[1]].size
        shares == Contributions(records, kept)
        Of(f) == { c \in shares : FrameOf(c) = f }
        Inclusive(f) == MapThenSumSet(Size, Of(f))
        Own(f) == MapThenSumSet(Size, { c \in Of(f) : c[2] = 1 })
        frames == { FrameOf(c) : c \in shares }
        selected == ToSet(Capped(Heaviest(frames, Inclusive, LAMBDA f : <<f>>),
                                 Limits.aggregates))
        ranked == Sorted(selected, LAMBDA f : <<-Inclusive(f), -Own(f), f>>)
    IN Table(Capped([i \in DOMAIN ranked |->
                [frame |-> ranked[i], self |-> Own(ranked[i]), inclusive |-> Inclusive(ranked[i])]],
                bound),
             Len(ranked),
             MemrayComplete(records, kept, frames \ selected) /\ Len(ranked) <= bound)

-----------------------------------------------------------------------------
(* V8 profiles: a tree of nodes, each an activation of a frame, and samples *)
(* that name nodes.                                                         *)

ChildPlaces(nodes) == Places([i \in DOMAIN nodes |-> nodes[i].children])
Child(nodes, c) == nodes[c[1]].children[c[2]]
Ids(nodes) == { n.id : n \in ToSet(nodes) }
Roots(nodes) == Ids(nodes) \ { Child(nodes, c) : c \in ChildPlaces(nodes) }

(* The nodes below those of S, and S: as many rounds as there are nodes *)
Reached(nodes, S) ==
    LET round[k \in 0..Len(nodes)] ==
            IF k = 0 THEN S
            ELSE LET above == round[k - 1] IN
                 above \cup { Child(nodes, c) : c \in { c \in ChildPlaces(nodes) : nodes[c[1]].id \in above } }
    IN round[Len(nodes)]

(* Each id once, each child a known node with one parent, no part of the    *)
(* nodes unreachable from the roots (a cycle would be)                      *)
IsForest(nodes) ==
    /\ nodes # <<>>
    /\ Cardinality(Ids(nodes)) = Len(nodes)
    /\ \A c \in ChildPlaces(nodes) :
          Child(nodes, c) \in Ids(nodes) /\ \A d \in ChildPlaces(nodes) \ {c} : Child(nodes, c) # Child(nodes, d)
    /\ Reached(nodes, Roots(nodes)) = Ids(nodes)

(* The frames' own and inclusive weights.  The inclusive ones sum over the  *)
(* activations, so a recursive frame repeats.                               *)
V8Rows(nodes, Own(_)) ==
    LET frames == { n.frame : n \in ToSet(nodes) }
        Of(f) == { i \in DOMAIN nodes : nodes[i].frame = f }
        Subtree(i) == MapThenSumSet(Own, { j \in DOMAIN nodes :
                          nodes[j].id \in Reached(nodes, {nodes[i].id}) })
        Self(f) == MapThenSumSet(Own, Of(f))
        Inclusive(f) == MapThenSumSet(Subtree, Of(f))
        order == Sorted(frames, LAMBDA f : <<-Self(f), -Inclusive(f), f>>)
    IN [i \in DOMAIN order |->
           [frame |-> order[i], self |-> Self(order[i]), inclusive |-> Inclusive(order[i])]]

(* A CPU profile weighs a node by the samples that name it *)
V8Cpu(doc, bound) ==
    IF \/ ~ IsForest(doc.nodes) \/ Len(doc.nodes) > Limits.nodes
       \/ ~ ToSet(doc.samples) \subseteq Ids(doc.nodes) \/ Len(doc.samples) > Limits.samples
    THEN Refused
    ELSE Bounded(V8Rows(doc.nodes, LAMBDA i :
                    Quantify(DOMAIN doc.samples, LAMBDA s : doc.samples[s] = doc.nodes[i].id)), bound)

(* A heap profile nests its nodes (there is no tree to check) and gives     *)
(* each its size; samples of nodes outside the tree leave it incomplete.    *)
V8Heap(doc, bound) ==
    LET table == Bounded(V8Rows(doc.nodes, LAMBDA i : doc.nodes[i].size), bound) IN
    IF \/ Cardinality(Ids(doc.nodes)) # Len(doc.nodes) \/ Len(doc.nodes) > Limits.nodes
       \/ Len(doc.samples) > Limits.samples
    THEN Refused
    ELSE [table EXCEPT !.complete = @ /\ ToSet(doc.samples) \subseteq Ids(doc.nodes)]

(* Several V8 profiles: each is decoded to the bound, then merged into the  *)
(* rows of those before it, which are cut to the bound again.               *)
V8Merged(tables, bound) ==
    LET Marked(k) == { <<k, i>> : i \in DOMAIN tables[k].rows }
        Row(p) == tables[p[1]].rows[p[2]]
        Order(p) == <<-Row(p).self, -Row(p).inclusive, p[1], Row(p).frame>>
        merged[k \in 0..Len(tables)] ==
            IF k = 0 THEN [places |-> {}, fits |-> TRUE]
            ELSE LET earlier == merged[k - 1]
                     all == earlier.places \cup Marked(k)
                 IN [places |-> ToSet(Capped(Sorted(all, Order), bound)),
                     fits |-> earlier.fits /\ Cardinality(all) <= bound]
        last == merged[Len(tables)]
        order == Sorted(last.places, Order)
    IN
    IF \E t \in ToSet(tables) : ~ t.ok THEN Refused
    ELSE Table([i \in DOMAIN order |-> [profile |-> order[i][1]] @@ Row(order[i])],
               MapThenSumSet(LAMBDA k : tables[k].observed, DOMAIN tables),
               last.fits /\ \A t \in ToSet(tables) : t.complete)

-----------------------------------------------------------------------------
(* Perfetto traces, read with SQL queries.                                  *)

(* Slices that overlap the window, counted apart from the rows read *)
Window(slices, ask, bound) ==
    LET inside == { i \in DOMAIN slices : /\ slices[i].ts < ask.end
                                          /\ slices[i].ts + slices[i].dur > ask.start
                                          /\ slices[i].dur >= 0 }
        rows == Capped(Sorted(inside, LAMBDA i : <<slices[i].ts, i>>), bound)
    IN Table(rows, Cardinality(inside), Len(rows) >= Cardinality(inside))

(* Slices that last, one more than the bound at most; a further one is      *)
(* counted as one *)
Slices(slices, ask, bound) ==
    LET shown == { i \in DOMAIN slices : /\ slices[i].dur > 0
                                         /\ ask.operation = "summarize_pytorch_trace"
                                               => slices[i].torch }
        rows == Capped(Sorted(shown, LAMBDA i : <<slices[i].ts, slices[i].depth, i>>), bound + 1)
    IN Table(Capped(rows, bound), Len(rows), Len(rows) <= bound)

(* The calls between the names of nested slices that last *)
CallGraph(slices, bound) ==
    LET lasting == { i \in DOMAIN slices : slices[i].dur > 0 }
        nested == { i \in lasting : slices[i].parent \in lasting }
        Edge(i) == <<slices[slices[i].parent].name, slices[i].name>>
        Duration(e) == MapThenSumSet(LAMBDA i : slices[i].dur, { i \in nested : Edge(i) = e })
        calls == Heaviest({ Edge(i) : i \in nested }, Duration, LAMBDA e : e)
    IN Bounded([i \in DOMAIN calls |-> [edge |-> calls[i], duration |-> Duration(calls[i])]], bound)

Perfetto(slices, ask, bound) ==
    CASE ask.operation = "inspect_trace_window" -> Window(slices, ask, bound)
      [] ask.operation = "inspect_trace_call_graph" -> CallGraph(slices, bound)
      [] OTHER -> Slices(slices, ask, bound)
=============================================================================
