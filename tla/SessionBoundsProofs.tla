------------------------- MODULE SessionBoundsProofs -------------------------
(***************************************************************************)
(* The bounds of SessionScratch, for every session: the shape of the two   *)
(* caches, the ceiling with every reservation honoured, and the captures   *)
(* that nothing will remove.                                               *)
(***************************************************************************)
EXTENDS SessionScratchProofs, FiniteSetTheorems

(***************************************************************************)
(* Sums.  What a set of roots adds up to is counted in blocks, one for     *)
(* each unit of each root: adding a root adds its blocks.                  *)
(***************************************************************************)
Blocks(w, S) == UNION { {r} \X (1 .. w[r]) : r \in S }

LEMMA BlocksFinite ==
    ASSUME NEW S, IsFiniteSet(S), NEW w, \A r \in S : w[r] \in Nat
    PROVE  IsFiniteSet(Blocks(w, S)) /\ Cardinality(Blocks(w, S)) \in Nat
  <1> DEFINE block == [r \in S |-> {r} \X (1 .. w[r])]
             all == { {r} \X (1 .. w[r]) : r \in S }
  <1>1. \A r \in S : IsFiniteSet({r} \X (1 .. w[r]))
    <2> SUFFICES ASSUME NEW r \in S PROVE IsFiniteSet({r} \X (1 .. w[r]))
      OBVIOUS
    <2>1. IsFiniteSet({r})
      BY FS_Singleton
    <2>2. IsFiniteSet(1 .. w[r])
      BY FS_Interval
    <2> QED BY <2>1, <2>2, FS_Product
  <1>2. block \in Surjection(S, all)
    BY DEF Surjection
  <1>3. IsFiniteSet(all)
    <2> HIDE DEF block, all
    <2> QED BY <1>2, FS_Surjection
  <1>4. \A b \in all : IsFiniteSet(b)
    BY <1>1
  <1>5. IsFiniteSet(UNION all)
    <2> HIDE DEF all
    <2> QED BY <1>3, <1>4, FS_UNION
  <1> QED BY <1>5, FS_CardinalityType DEF Blocks

LEMMA BlocksStep ==
    ASSUME NEW S, IsFiniteSet(S), NEW w, \A r \in S : w[r] \in Nat, NEW x \in S
    PROVE  Cardinality(Blocks(w, S)) = w[x] + Cardinality(Blocks(w, S \ {x}))
  <1> DEFINE mine == {x} \X (1 .. w[x])
             rest == Blocks(w, S \ {x})
  <1>1. Blocks(w, S) = mine \cup rest /\ mine \cap rest = {}
    BY DEF Blocks
  <1>2. IsFiniteSet(mine) /\ Cardinality(mine) = w[x]
    <2>1. IsFiniteSet({x}) /\ Cardinality({x}) = 1
      BY FS_Singleton
    <2>2. w[x] \in Nat
      OBVIOUS
    <2>3. /\ IsFiniteSet(1 .. w[x])
          /\ Cardinality(1 .. w[x]) = IF 1 > w[x] THEN 0 ELSE w[x] - 1 + 1
      BY <2>2, FS_Interval
    <2>4. Cardinality(1 .. w[x]) = w[x]
      BY <2>2, <2>3
    <2>5. IsFiniteSet(mine) /\ Cardinality(mine) = 1 * w[x]
      BY <2>1, <2>3, <2>4, FS_Product
    <2> QED BY <2>2, <2>5
  <1>3. IsFiniteSet(rest) /\ Cardinality(rest) \in Nat
    <2>1. IsFiniteSet(S \ {x})
      BY FS_RemoveElement
    <2> QED BY <2>1, BlocksFinite
  <1> HIDE DEF mine, rest
  <1>4. Cardinality(mine \cup rest) = Cardinality(mine) + Cardinality(rest) - Cardinality({})
    BY <1>1, <1>2, <1>3, FS_Union
  <1>5. w[x] \in Nat /\ Cardinality({}) = 0
    BY FS_EmptySet
  <1> QED BY <1>1, <1>2, <1>3, <1>4, <1>5 DEF rest

(* One step of a sum, whichever root the library's fold chooses *)
Folded(w, g, s) ==
    IF s = {} THEN 0 ELSE LET x == CHOOSE y \in s : TRUE IN w[x] + g[s \ {x}]

LEMMA SumCounts ==
    ASSUME NEW S, IsFiniteSet(S), NEW w, \A r \in S : w[r] \in Nat
    PROVE  SumFunctionOnSet(w, S) = Cardinality(Blocks(w, S))
  <1> DEFINE g == CHOOSE g : g = [s \in SUBSET S |-> Folded(w, g, s)]
             count == [s \in SUBSET S |-> Cardinality(Blocks(w, s))]
  <1>1. SumFunctionOnSet(w, S) = g[S]
    BY DEF SumFunctionOnSet, FoldFunctionOnSet, MapThenFoldSet, Folded
  <1>2. \A s \in SUBSET S : IsFiniteSet(s) /\ \A r \in s : w[r] \in Nat
    BY FS_Subset
  <1>3. ASSUME NEW s \in SUBSET S PROVE count[s] = Folded(w, count, s)
    <2>1. CASE s = {}
      BY <2>1, FS_EmptySet DEF Folded, Blocks
    <2>2. CASE s # {}
      <3>1. PICK x \in s : x = CHOOSE y \in s : TRUE
        BY <2>2
      <3>2. s \ {x} \in SUBSET S
        OBVIOUS
      <3>3. Cardinality(Blocks(w, s)) = w[x] + Cardinality(Blocks(w, s \ {x}))
        BY <1>2, BlocksStep
      <3> QED BY <2>2, <3>1, <3>2, <3>3 DEF Folded
    <2> QED BY <2>1, <2>2
  <1>4. count = [s \in SUBSET S |-> Folded(w, count, s)]
    BY <1>3
  <1>5. g = [s \in SUBSET S |-> Folded(w, g, s)]
    <2> HIDE DEF count
    <2> QED BY <1>4
  <1>6. \A s \in SUBSET S : g[s] = Folded(w, g, s)
    <2> HIDE DEF g
    <2> QED BY <1>5
  <1> DEFINE wrong == { s \in SUBSET S : g[s] # count[s] }
  <1>7. wrong = {}
    <2> SUFFICES ASSUME wrong # {} PROVE FALSE
      OBVIOUS
    <2>1. PICK s \in wrong : \A t \in wrong : <<t, s>> \notin StrictSubsetOrdering(S)
      <3>1. IsWellFoundedOn(StrictSubsetOrdering(S), FiniteSubsetsOf(S))
        BY FS_StrictSubsetOrderingWellFounded
      <3>2. wrong \subseteq FiniteSubsetsOf(S)
        BY FS_FiniteSubsetsOfFinite
      <3> HIDE DEF wrong
      <3> QED BY <3>1, <3>2, WFMin
    <2>2. s # {}
      <3>1. Folded(w, g, {}) = Folded(w, count, {})
        BY DEF Folded
      <3> HIDE DEF g, count
      <3> QED BY <1>3, <1>6, <3>1
    <2>3. PICK x \in s : x = CHOOSE y \in s : TRUE
      BY <2>2
    <2>4. s \ {x} \in SUBSET S /\ s \ {x} # s
      OBVIOUS
    <2>5. <<s \ {x}, s>> \in StrictSubsetOrdering(S)
      BY <2>4 DEF StrictSubsetOrdering
    <2>6. g[s \ {x}] = count[s \ {x}]
      BY <2>1, <2>4, <2>5
    <2>7. Folded(w, g, s) = Folded(w, count, s)
      <3> HIDE DEF g, count
      <3> QED BY <2>2, <2>3, <2>6 DEF Folded
    <2> HIDE DEF g, count
    <2> QED BY <1>3, <1>6, <2>7
  <1>8. g[S] = count[S]
    BY <1>7
  <1> HIDE DEF g
  <1> QED BY <1>1, <1>8

(* More roots, and more of each, add up to more. *)
LEMMA SumMonotone ==
    ASSUME NEW T, IsFiniteSet(T), NEW S \in SUBSET T, NEW v, NEW w,
           \A r \in T : w[r] \in Nat, \A r \in S : v[r] \in Nat /\ v[r] <= w[r]
    PROVE  /\ SumFunctionOnSet(v, S) \in Nat /\ SumFunctionOnSet(w, T) \in Nat
           /\ SumFunctionOnSet(v, S) <= SumFunctionOnSet(w, T)
  <1>1. IsFiniteSet(S)
    BY FS_Subset
  <1>2. Blocks(v, S) \in SUBSET Blocks(w, T)
    <2> SUFFICES ASSUME NEW r \in S PROVE {r} \X (1 .. v[r]) \subseteq {r} \X (1 .. w[r])
      BY DEF Blocks
    <2>1. v[r] \in Nat /\ w[r] \in Nat /\ v[r] <= w[r]
      OBVIOUS
    <2> QED BY <2>1
  <1>3. IsFiniteSet(Blocks(w, T)) /\ Cardinality(Blocks(w, T)) \in Nat
    BY BlocksFinite
  <1>4. Cardinality(Blocks(v, S)) \in Nat
    BY <1>1, BlocksFinite
  <1>5. Cardinality(Blocks(v, S)) <= Cardinality(Blocks(w, T))
    BY <1>2, <1>3, FS_Subset
  <1>6. /\ SumFunctionOnSet(v, S) = Cardinality(Blocks(v, S))
        /\ SumFunctionOnSet(w, T) = Cardinality(Blocks(w, T))
    BY <1>1, SumCounts
  <1> QED BY <1>3, <1>4, <1>5, <1>6

(* A root more adds what it weighs. *)
LEMMA SumAdds ==
    ASSUME NEW S, IsFiniteSet(S), NEW x, x \notin S, NEW w,
           \A r \in S \cup {x} : w[r] \in Nat
    PROVE  SumFunctionOnSet(w, S \cup {x}) = w[x] + SumFunctionOnSet(w, S)
  <1>1. IsFiniteSet(S \cup {x}) /\ (S \cup {x}) \ {x} = S
    BY FS_AddElement
  <1>2. Cardinality(Blocks(w, S \cup {x})) = w[x] + Cardinality(Blocks(w, S))
    BY <1>1, BlocksStep
  <1> QED BY <1>1, <1>2, SumCounts

(* Two sets of roots together add up to no more than each by itself. *)
LEMMA SumUnion ==
    ASSUME NEW S, IsFiniteSet(S), NEW T, IsFiniteSet(T), NEW w,
           \A r \in S \cup T : w[r] \in Nat
    PROVE  SumFunctionOnSet(w, S \cup T) <= SumFunctionOnSet(w, S) + SumFunctionOnSet(w, T)
  <1> DEFINE a == Blocks(w, S)
             b == Blocks(w, T)
  <1>1. IsFiniteSet(S \cup T)
    BY FS_Union
  <1>2. Blocks(w, S \cup T) = a \cup b
    BY DEF Blocks
  <1>3. /\ IsFiniteSet(a) /\ Cardinality(a) \in Nat
        /\ IsFiniteSet(b) /\ Cardinality(b) \in Nat
    BY BlocksFinite
  <1>4. /\ SumFunctionOnSet(w, S \cup T) = Cardinality(a \cup b)
        /\ SumFunctionOnSet(w, S) = Cardinality(a) /\ SumFunctionOnSet(w, T) = Cardinality(b)
    BY <1>1, <1>2, SumCounts
  <1> HIDE DEF a, b
  <1>5. IsFiniteSet(a \cap b)
    BY <1>3, FS_Intersection
  <1>6. Cardinality(a \cap b) \in Nat
    BY <1>5, FS_CardinalityType
  <1>7. Cardinality(a \cup b) = Cardinality(a) + Cardinality(b) - Cardinality(a \cap b)
    BY <1>3, FS_Union
  <1>8. Cardinality(a \cup b) <= Cardinality(a) + Cardinality(b)
    BY <1>3, <1>6, <1>7
  <1> QED BY <1>4, <1>8

(***************************************************************************)
(* The shape of the caches.  The order of use of the analyses ranks them;  *)
(* that of the artifacts is only asked who came before.                    *)
(***************************************************************************)
Ranked(order, keys) ==
    /\ order \subseteq keys \X keys
    /\ \A g, h \in keys : <<g, h>> \in order => <<h, g>> \notin order
    /\ \A g, h \in keys : g # h => <<g, h>> \in order \/ <<h, g>> \in order
    /\ \A f, g, h \in keys : <<f, g>> \in order /\ <<g, h>> \in order => <<f, h>> \in order

Orderly(s) ==
    /\ IsFiniteSet(DOMAIN s.analyses)
    /\ Ranked(s.older, DOMAIN s.analyses)
    /\ s.staler \subseteq s.artifacts \X s.artifacts
    /\ s.disk \subseteq Root /\ IsFiniteSet(s.disk)
    /\ s.disk \ Capture = s.artifacts

LEMMA NeededIsNamed ==
    ASSUME NEW analyses, NEW r, Needed(analyses, r)
    PROVE  Named(analyses, r)
  BY DEF Needed, Named

(* An operation that gives up the last need of a capture, or its last       *)
(* handle, keeps the root only if somebody holds it: a request in progress, *)
(* or the pins of this one                                                  *)
Keeps(s, t, pinned) ==
    \A c \in Capture \cap t.disk :
        /\ c \in s.disk
        /\ Needed(s.analyses, c) => Needed(t.analyses, c) \/ c \in Active \cup RootsOf(pinned)
        /\ Named(s.analyses, c) => Named(t.analyses, c) \/ c \in Active \cup RootsOf(pinned)

(* What an operation that makes room, or only notes a use, may change       *)
Shrinks(s, t, pinned) ==
    /\ Orderly(t)
    /\ t.disk \subseteq s.disk
    /\ DOMAIN t.analyses \subseteq DOMAIN s.analyses
    /\ \A h \in DOMAIN t.analyses : t.analyses[h].sources = s.analyses[h].sources
    /\ Keeps(s, t, pinned)

LEMMA RankedWithout ==
    ASSUME NEW order, NEW keys, NEW gone, Ranked(order, keys)
    PROVE  Ranked(Without(order, gone), keys \ gone)
  <1>1. \A g, h \in keys \ gone : <<g, h>> \in Without(order, gone) <=> <<g, h>> \in order
    BY DEF Without
  <1>2. Without(order, gone) \subseteq (keys \ gone) \X (keys \ gone)
    BY DEF Without, Ranked
  <1> QED BY <1>1, <1>2 DEF Ranked

LEMMA RankedMoved ==
    ASSUME NEW order, NEW keys, NEW key, Ranked(order, keys)
    PROVE  LET moved == MovedToEnd(order, keys \cup {key}, <<key>>)
           IN  /\ Ranked(moved, keys \cup {key})
               /\ \A g \in keys : <<key, g>> \notin moved
  <1> DEFINE all == keys \cup {key}
             moved == MovedToEnd(order, all, <<key>>)
  <1>1. Range(<<key>>) = {key}
    BY DEF Range
  <1>2. moved = { pair \in order : {pair[1], pair[2]} \cap {key} = {} } \cup ((all \ {key}) \X {key})
    <2>1. { <<<<key>>[k[1]], <<key>>[k[2]]>> :
              k \in { k \in (1 .. Len(<<key>>)) \X (1 .. Len(<<key>>)) : k[1] < k[2] } } = {}
      <3>1. ASSUME NEW k \in (1 .. Len(<<key>>)) \X (1 .. Len(<<key>>)) PROVE ~(k[1] < k[2])
        BY <3>1
      <3> QED BY <3>1
    <2> QED BY <1>1, <2>1 DEF MovedToEnd
  <1>3. moved \subseteq all \X all
    BY <1>2 DEF Ranked
  <1>4. \A g, h \in all \ {key} : <<g, h>> \in moved <=> <<g, h>> \in order
    BY <1>2
  <1>5. \A g \in all : (<<g, key>> \in moved <=> g # key) /\ <<key, g>> \notin moved
    BY <1>2
  <1> HIDE DEF moved
  <1>6. Ranked(moved, all)
    BY <1>3, <1>4, <1>5 DEF Ranked
  <1> QED BY <1>5, <1>6 DEF moved

(* A finite ranking has a first key, which is before all the others. *)
LEMMA RankedHasFirst ==
    ASSUME NEW order, NEW keys, Ranked(order, keys), IsFiniteSet(keys), keys # {}
    PROVE  \E h \in keys : { g \in keys : <<h, g>> \in order } = keys \ {h}
  <1> DEFINE before(h) == { g \in keys : <<g, h>> \in order }
             below == { before(h) : h \in keys }
  <1>1. PICK b \in below : \A a \in below : <<a, b>> \notin StrictSubsetOrdering(keys)
    <2>1. IsWellFoundedOn(StrictSubsetOrdering(keys), FiniteSubsetsOf(keys))
      BY FS_StrictSubsetOrderingWellFounded
    <2>2. below \subseteq FiniteSubsetsOf(keys) /\ below # {}
      <3>1. FiniteSubsetsOf(keys) = SUBSET keys
        BY FS_FiniteSubsetsOfFinite
      <3>2. \A h \in keys : before(h) \in SUBSET keys /\ before(h) \in below
        OBVIOUS
      <3> HIDE DEF before
      <3> QED BY <3>1, <3>2
    <2> HIDE DEF below
    <2> QED BY <2>1, <2>2, WFMin
  <1>2. PICK h \in keys : b = before(h)
    BY <1>1
  <1>3. b = {}
    <2> SUFFICES ASSUME NEW g \in b PROVE FALSE
      OBVIOUS
    <2>1. g \in keys /\ <<g, h>> \in order
      BY <1>2
    <2>2. before(g) \subseteq b /\ g \notin before(g)
      BY <1>2, <2>1 DEF Ranked
    <2>3. <<before(g), b>> \in StrictSubsetOrdering(keys)
      BY <1>2, <2>2 DEF StrictSubsetOrdering
    <2> QED BY <1>1, <2>1, <2>3
  <1>4. \A g \in keys : <<g, h>> \notin order
    BY <1>2, <1>3
  <1>5. \A g \in keys : <<h, g>> \in order <=> g # h
    BY <1>4 DEF Ranked
  <1>6. { g \in keys : <<h, g>> \in order } = keys \ {h}
    BY <1>5
  <1> QED BY <1>6

(* Shrinking further is shrinking *)
LEMMA ShrinksOn ==
    ASSUME NEW s, NEW t, NEW u, NEW pinned, Shrinks(s, t, pinned), Shrinks(t, u, pinned)
    PROVE  Shrinks(s, u, pinned)
  <1>1. Keeps(s, u, pinned)
    BY DEF Shrinks, Keeps
  <1> QED BY <1>1 DEF Shrinks

LEMMA RemovedShrinks ==
    ASSUME NEW s, NEW roots, NEW pinned, Safe(s), Orderly(s)
    PROVE  Shrinks(s, Removed(s, roots), pinned)
  <1> DEFINE t == Removed(s, roots)
  <1>1. /\ t.analyses = s.analyses /\ t.older = s.older /\ t.disk = s.disk \ roots
        /\ t.artifacts = s.artifacts \ roots /\ t.staler = Without(s.staler, roots)
    BY DEF Safe, Shape, Removed
  <1>2. t.staler \subseteq t.artifacts \X t.artifacts
    BY <1>1 DEF Orderly, Without
  <1>3. t.disk \subseteq Root /\ IsFiniteSet(t.disk) /\ t.disk \ Capture = t.artifacts
    <2>1. IsFiniteSet(s.disk) /\ s.disk \subseteq Root /\ s.disk \ Capture = s.artifacts
      BY DEF Orderly
    <2>2. IsFiniteSet(s.disk \ roots)
      BY <2>1, FS_Difference
    <2>3. (s.disk \ roots) \ Capture = s.artifacts \ roots
      BY <2>1
    <2> HIDE DEF t
    <2> QED BY <1>1, <2>1, <2>2, <2>3
  <1> HIDE DEF t
  <1>4. Orderly(t)
    BY <1>1, <1>2, <1>3 DEF Orderly
  <1>5. Shrinks(s, t, pinned)
    BY <1>1, <1>4 DEF Shrinks, Keeps
  <1> QED BY <1>5 DEF t

LEMMA ReleasedShrinks ==
    ASSUME NEW s, NEW sources, NEW pinned, Safe(s), Orderly(s)
    PROVE  /\ Shrinks(s, Released(s, sources, pinned), pinned)
           /\ \A c \in RootsOf(sources) \cap Released(s, sources, pinned).disk :
                 Needed(s.analyses, c) \/ c \in Active \cup RootsOf(pinned)
  <1> DEFINE gone == { r \in RootsOf(sources) :
                         /\ ~Needed(s.analyses, r)
                         /\ r \notin Active \cup RootsOf(pinned) }
  <1>1. Released(s, sources, pinned) = Removed(s, gone)
    BY DEF Released
  <1>2. Removed(s, gone).disk = s.disk \ gone
    BY DEF Removed, Safe, Shape
  <1>3. Shrinks(s, Removed(s, gone), pinned)
    <2> HIDE DEF gone
    <2> QED BY RemovedShrinks
  <1> QED BY <1>1, <1>2, <1>3

LEMMA EvictedShrinks ==
    ASSUME NEW s, NEW handles, NEW pinned, Safe(s), Orderly(s)
    PROVE  /\ Shrinks(s, Evicted(s, handles, pinned), pinned)
           /\ DOMAIN Evicted(s, handles, pinned).analyses = DOMAIN s.analyses \ handles
  <1> DEFINE left == DOMAIN s.analyses \ handles
             t == [s EXCEPT !.analyses = Restrict(@, DOMAIN @ \ handles),
                            !.older = Without(@, handles)]
             lost == UNION { s.analyses[h].sources : h \in handles }
             u == Released(t, lost, pinned)
  <1>1. /\ t.analyses = Restrict(s.analyses, left) /\ t.older = Without(s.older, handles)
        /\ t.artifacts = s.artifacts /\ t.staler = s.staler /\ t.disk = s.disk
    BY DEF Safe, Shape
  <1>2. DOMAIN t.analyses = left /\ \A h \in left : t.analyses[h] = s.analyses[h]
    BY <1>1 DEF Restrict
  <1>3. Safe(t)
    BY ForgottenSafe
  <1>4. Orderly(t)
    <2>1. IsFiniteSet(left)
      BY FS_Difference DEF Orderly
    <2>2. Ranked(t.older, left)
      BY <1>1, RankedWithout DEF Orderly
    <2> HIDE DEF t
    <2> QED BY <1>1, <1>2, <2>1, <2>2 DEF Orderly
  <1>5. Evicted(s, handles, pinned) = u
    BY DEF Evicted
  <1> HIDE DEF t, lost
  <1>6. /\ Shrinks(t, u, pinned) /\ u.analyses = t.analyses
        /\ \A c \in RootsOf(lost) \cap u.disk : Needed(t.analyses, c) \/ c \in Active \cup RootsOf(pinned)
    BY <1>3, <1>4, ReleasedShrinks, ReleasedSafe
  <1>7. ASSUME NEW c \in Capture \cap u.disk, Needed(s.analyses, c)
        PROVE  Needed(u.analyses, c) \/ c \in Active \cup RootsOf(pinned)
    <2>1. PICK h \in DOMAIN s.analyses : ~s.analyses[h].preserved /\ c \in RootsOf(s.analyses[h].sources)
      BY <1>7 DEF Needed
    <2>2. CASE h \in handles
      <3>1. c \in RootsOf(lost)
        BY <2>1, <2>2 DEF RootsOf, lost
      <3> QED BY <1>6, <3>1
    <2>3. CASE h \notin handles
      BY <1>2, <1>6, <2>1, <2>3 DEF Needed
    <2> QED BY <2>2, <2>3
  <1>8. ASSUME NEW c \in Capture \cap u.disk, Named(s.analyses, c)
        PROVE  Named(u.analyses, c) \/ c \in Active \cup RootsOf(pinned)
    <2>1. PICK h \in DOMAIN s.analyses : c \in RootsOf(s.analyses[h].sources)
      BY <1>8 DEF Named
    <2>2. CASE h \in handles
      <3>1. c \in RootsOf(lost)
        BY <2>1, <2>2 DEF RootsOf, lost
      <3> QED BY <1>6, <3>1, NeededIsNamed
    <2>3. CASE h \notin handles
      BY <1>2, <1>6, <2>1, <2>3 DEF Named
    <2> QED BY <2>2, <2>3
  <1> HIDE DEF u
  <1>9. Shrinks(s, u, pinned)
    BY <1>1, <1>2, <1>6, <1>7, <1>8 DEF Shrinks, Keeps
  <1> QED BY <1>2, <1>5, <1>6, <1>9

LEMMA PrunedShrinks ==
    ASSUME NEW s, NEW pinned, NEW protected, NEW wanted, Safe(s), Orderly(s)
    PROVE  Shrinks(s, Pruned(s, pinned, protected, wanted), pinned)
  <1> DEFINE kept == pinned \cup protected \cup { Top(c) : c \in Active }
             free == { h \in DOMAIN s.analyses :
                         \A p \in s.analyses[h].sources, q \in kept : ~Overlap(p, q) }
             victims == { h \in free :
                            LET before == { g \in free : <<g, h>> \in s.older }
                            IN  ~Fits(Evicted(s, before, pinned), wanted) }
             t == Evicted(s, victims, pinned)
             loose == t.artifacts \ RootsOf(kept)
             gone == { a \in loose :
                         LET before == { b \in loose : <<b, a>> \in t.staler }
                         IN  ~Fits(Removed(t, before), wanted) }
  <1>1. Pruned(s, pinned, protected, wanted) = Removed(t, gone)
    BY DEF Pruned
  <1>2. Safe(t) /\ Shrinks(s, t, pinned)
    <2> HIDE DEF victims
    <2> QED BY EvictedSafe, EvictedShrinks
  <1> HIDE DEF t, gone
  <1>3. Shrinks(t, Removed(t, gone), pinned)
    BY <1>2, RemovedShrinks DEF Shrinks
  <1> QED BY <1>1, <1>2, <1>3, ShrinksOn

LEMMA UsedShrinks ==
    ASSUME NEW s, NEW handle, NEW pinned, Safe(s), Orderly(s), handle \in DOMAIN s.analyses
    PROVE  /\ Shrinks(s, Used(s, handle), pinned)
           /\ DOMAIN Used(s, handle).analyses = DOMAIN s.analyses
  <1> DEFINE keys == DOMAIN s.analyses
             t == Used(s, handle)
  <1>1. /\ t.analyses = s.analyses /\ t.older = MovedToEnd(s.older, keys, <<handle>>)
        /\ t.disk = s.disk /\ t.artifacts = s.artifacts /\ t.staler = s.staler
    BY DEF Safe, Shape, Used
  <1>2. keys \cup {handle} = keys /\ Ranked(s.older, keys)
    BY DEF Orderly
  <1> HIDE DEF keys
  <1>3. Ranked(MovedToEnd(s.older, keys, <<handle>>), keys)
    BY <1>2, RankedMoved
  <1> HIDE DEF t
  <1>4. Orderly(t)
    BY <1>1, <1>3 DEF Orderly, keys
  <1>5. Shrinks(s, t, pinned)
    BY <1>1, <1>4 DEF Shrinks, Keeps
  <1> QED BY <1>1, <1>5 DEF t

(* The cache takes a new handle as its newest and, beyond the limit, gives  *)
(* up the oldest, which is another.                                         *)
LEMMA StoredBounded ==
    ASSUME NEW s, NEW handle \in Handle, NEW sources \in SUBSET Path, NEW pinned,
           Safe(s), Orderly(s), handle \notin DOMAIN s.analyses,
           Cardinality(DOMAIN s.analyses) <= MaxAnalyses,
           RootsOf(sources) \cap Capture \subseteq s.disk
    PROVE  LET t == Stored(s, handle, sources, pinned)
           IN  /\ Orderly(t) /\ t.disk \subseteq s.disk /\ Keeps(s, t, pinned)
               /\ Cardinality(DOMAIN t.analyses) <= MaxAnalyses
               /\ handle \in DOMAIN t.analyses
               /\ t.analyses[handle].sources = sources
               /\ \A h \in DOMAIN t.analyses : h # handle =>
                     /\ h \in DOMAIN s.analyses
                     /\ t.analyses[h].sources = s.analyses[h].sources
  <1> DEFINE keys == DOMAIN s.analyses \cup {handle}
             cache == [h \in keys |-> IF h = handle
                                       THEN [sources |-> sources, preserved |-> FALSE]
                                       ELSE s.analyses[h]]
             order == MovedToEnd(s.older, keys, <<handle>>)
             t == [s EXCEPT !.analyses = cache, !.older = order]
             newer(h) == { g \in keys : <<h, g>> \in order }
             oldest == { h \in keys : Cardinality(newer(h)) >= MaxAnalyses }
             u == Evicted(t, oldest, pinned)
  <1>1. /\ DOMAIN t = DOMAIN s /\ t.analyses = cache /\ t.older = order
        /\ t.disk = s.disk /\ t.artifacts = s.artifacts /\ t.staler = s.staler
    BY DEF Safe, Shape
  <1>2. Stored(s, handle, sources, pinned) = u
    BY <1>1 DEF Stored
  <1>3. Ranked(order, keys) /\ newer(handle) = {}
    <2>1. Ranked(s.older, DOMAIN s.analyses)
      BY DEF Orderly
    <2>2. /\ Ranked(order, keys)
          /\ \A g \in DOMAIN s.analyses : <<handle, g>> \notin order
      BY <2>1, RankedMoved
    <2>3. <<handle, handle>> \notin order
      BY <2>2 DEF Ranked
    <2> HIDE DEF order
    <2> QED BY <2>2, <2>3
  <1>4. /\ IsFiniteSet(keys) /\ Cardinality(keys) = Cardinality(DOMAIN s.analyses) + 1
        /\ Cardinality(DOMAIN s.analyses) \in Nat /\ MaxAnalyses \in Nat \ {0}
    BY FS_AddElement, FS_CardinalityType, SessionConstants DEF Orderly
  <1>5. /\ DOMAIN cache = keys /\ cache[handle].sources = sources
        /\ \A h \in DOMAIN s.analyses : cache[h] = s.analyses[h]
    OBVIOUS
  <1>6. Safe(t)
    <2>1. cache \in Analyses
      <3>1. PICK known \in SUBSET Handle : s.analyses \in [known -> Cached]
        BY DEF Safe, Shape, Analyses
      <3>2. cache \in [known \cup {handle} -> Cached]
        BY <3>1 DEF Cached
      <3> QED BY <3>2 DEF Analyses
    <2>2. ASSUME NEW c \in Capture, Needed(cache, c) PROVE c \in s.disk
      <3>1. PICK h \in keys : ~cache[h].preserved /\ c \in RootsOf(cache[h].sources)
        BY <2>2 DEF Needed
      <3>2. CASE h = handle
        BY <3>1, <3>2
      <3>3. CASE h # handle
        BY <3>1, <3>3 DEF Safe, Needed
      <3> QED BY <3>2, <3>3
    <2> HIDE DEF cache, t
    <2> QED BY <1>1, <2>1, <2>2 DEF Safe, Shape
  <1> HIDE DEF cache, order, t
  <1>7. Orderly(t)
    BY <1>1, <1>3, <1>4, <1>5 DEF Orderly
  <1>8. /\ Shrinks(t, u, pinned) /\ DOMAIN u.analyses = keys \ oldest
    <2> HIDE DEF oldest
    <2> QED BY <1>1, <1>5, <1>6, <1>7, EvictedShrinks
  <1>9. handle \notin oldest
    <2>1. Cardinality(newer(handle)) = 0
      BY <1>3, FS_EmptySet
    <2> HIDE DEF newer
    <2> QED BY <1>4, <2>1
  <1>10. Cardinality(keys \ oldest) <= MaxAnalyses
    <2>1. IsFiniteSet(keys \ oldest) /\ Cardinality(keys \ oldest) <= Cardinality(keys)
      <3> HIDE DEF keys, oldest
      <3> QED BY <1>4, FS_Subset
    <2>2. Cardinality(keys \ oldest) \in Nat
      BY <2>1, FS_CardinalityType
    <2>3. CASE Cardinality(DOMAIN s.analyses) < MaxAnalyses
      BY <1>4, <2>1, <2>2, <2>3
    <2>4. CASE Cardinality(DOMAIN s.analyses) = MaxAnalyses
      <3>1. PICK h \in keys : newer(h) = keys \ {h}
        BY <1>3, <1>4, RankedHasFirst
      <3>2. Cardinality(keys \ {h}) = MaxAnalyses
        <4>1. IsFiniteSet(keys) /\ h \in keys /\ Cardinality(keys) = MaxAnalyses + 1 /\ MaxAnalyses \in Nat
          BY <1>4, <2>4
        <4> HIDE DEF keys
        <4>2. Cardinality(keys \ {h}) = Cardinality(keys) - 1
          BY <4>1, FS_RemoveElement
        <4> QED BY <4>1, <4>2
      <3>3. h \in oldest
        <4> HIDE DEF newer
        <4> QED BY <1>4, <3>1, <3>2
      <3>4. keys \ oldest \subseteq keys \ {h} /\ IsFiniteSet(keys \ {h})
        BY <1>4, <3>3, FS_RemoveElement
      <3> HIDE DEF keys, oldest
      <3> QED BY <3>2, <3>4, FS_Subset
    <2> QED BY <1>4, <2>3, <2>4
  <1>11. Keeps(s, u, pinned)
    <2> SUFFICES ASSUME NEW c \in Capture \cap u.disk
                 PROVE  /\ c \in s.disk
                        /\ Needed(s.analyses, c) =>
                              Needed(u.analyses, c) \/ c \in Active \cup RootsOf(pinned)
                        /\ Named(s.analyses, c) =>
                              Named(u.analyses, c) \/ c \in Active \cup RootsOf(pinned)
      BY DEF Keeps
    <2>1. /\ Needed(s.analyses, c) => Needed(t.analyses, c)
          /\ Named(s.analyses, c) => Named(t.analyses, c)
      BY <1>1, <1>5 DEF Needed, Named
    <2> QED BY <1>1, <1>8, <2>1 DEF Shrinks, Keeps
  <1> HIDE DEF u, oldest
  <1>12. \A h \in DOMAIN u.analyses : h \in keys /\ u.analyses[h].sources = cache[h].sources
    BY <1>1, <1>5, <1>8 DEF Shrinks
  <1>13. handle \in DOMAIN u.analyses
    BY <1>8, <1>9
  <1> QED BY <1>1, <1>2, <1>5, <1>8, <1>10, <1>11, <1>12, <1>13 DEF Shrinks

(***************************************************************************)
(* What is committed.                                                      *)
(***************************************************************************)
Counted ==
    /\ reserved \in [Capture -> {0} \cup Reservation]
    /\ written \in [Capture -> Nat]

LEMMA WeightIsNat ==
    ASSUME Counted, NEW r \in Root
    PROVE  /\ Weight[r] \in Nat
           /\ r \in Capture => /\ reserved[r] \in Nat /\ written[r] \in Nat
                               /\ written[r] <= Weight[r]
           /\ r \in Active => reserved[r] <= Weight[r]
  <1>1. CASE r \notin Capture
    BY <1>1, SessionConstants DEF Weight, Root, Active
  <1>2. CASE r \in Capture
    <2>1. reserved[r] \in Nat /\ written[r] \in Nat
      BY <1>2, SessionConstants DEF Counted
    <2>2. LET m == Max({reserved[r], written[r]})
          IN  m \in Nat /\ reserved[r] <= m /\ written[r] <= m
      <3>1. \E m \in {reserved[r], written[r]} :
                \A n \in {reserved[r], written[r]} : m >= n
        BY <2>1
      <3> QED BY <2>1, <3>1 DEF Max
    <2>3. Weight[r] = IF r \in Active THEN Max({reserved[r], written[r]}) ELSE written[r]
      BY <1>2 DEF Weight
    <2> QED BY <1>2, <2>1, <2>2, <2>3
  <1> QED BY <1>1, <1>2

LEMMA Committed ==
    ASSUME NEW s, Safe(s), Orderly(s), Counted
    PROVE  Commitment(s) = SumFunctionOnSet(Weight, s.disk) /\ Commitment(s) \in Nat
  <1>1. s.disk \cup Active = s.disk
    BY DEF Safe
  <1>2. IsFiniteSet(s.disk) /\ \A r \in s.disk : Weight[r] \in Nat
    BY WeightIsNat DEF Orderly
  <1>3. SumFunctionOnSet(Weight, s.disk) \in Nat
    BY <1>2, SumMonotone
  <1> QED BY <1>1, <1>3 DEF Commitment

(* What fits, still fits with less on disk. *)
LEMMA FitsShrunk ==
    ASSUME NEW s, NEW t, Safe(s), Orderly(s), Safe(t), Orderly(t), Counted,
           t.disk \subseteq s.disk, Fits(s, 0)
    PROVE  Fits(t, 0)
  <1>1. IsFiniteSet(s.disk) /\ \A r \in s.disk : Weight[r] \in Nat
    BY WeightIsNat DEF Orderly
  <1>2. SumFunctionOnSet(Weight, t.disk) <= SumFunctionOnSet(Weight, s.disk)
    BY <1>1, SumMonotone
  <1>3. Commitment(s) \in Nat /\ Commitment(t) \in Nat /\ Commitment(t) <= Commitment(s)
    BY <1>2, Committed
  <1> QED BY <1>3, SessionConstants DEF Fits

(* The elements of a finite sequence are finitely many. *)
LEMMA RangeFinite ==
    ASSUME NEW S, NEW q \in Seq(S)
    PROVE  Range(q) \subseteq S /\ IsFiniteSet(Range(q))
  <1>1. q \in Surjection(1 .. Len(q), Range(q)) /\ Range(q) \subseteq S
    BY DEF Surjection, Range
  <1>2. IsFiniteSet(1 .. Len(q))
    BY FS_Interval
  <1> QED BY <1>1, <1>2, FS_Surjection

LEMMA MaterializedOrderly ==
    ASSUME NEW s, NEW bundles \in Seq(Bundle \cup Export), NEW pinned, Safe(s), Orderly(s)
    PROVE  LET t == Materialized(s, bundles)
           IN  /\ Orderly(t) /\ Keeps(s, t, pinned)
               /\ t.analyses = s.analyses /\ t.disk = s.disk \cup Range(bundles)
  <1> DEFINE t == Materialized(s, bundles)
             more == Range(bundles)
  <1>1. /\ t.analyses = s.analyses /\ t.older = s.older
        /\ t.disk = s.disk \cup more /\ t.artifacts = s.artifacts \cup more
        /\ t.staler = MovedToEnd(s.staler, s.artifacts, bundles)
    BY DEF Safe, Shape, Materialized
  <1>2. more \subseteq Bundle \cup Export /\ IsFiniteSet(more)
    BY RangeFinite
  <1>3. t.staler \subseteq t.artifacts \X t.artifacts
    <2>1. \A k \in (1 .. Len(bundles)) \X (1 .. Len(bundles)) :
            bundles[k[1]] \in more /\ bundles[k[2]] \in more
      BY DEF Range
    <2>2. s.staler \subseteq s.artifacts \X s.artifacts
      BY DEF Orderly
    <2> HIDE DEF t, more
    <2> QED BY <1>1, <2>1, <2>2 DEF MovedToEnd, more
  <1>4. t.disk \subseteq Root /\ IsFiniteSet(t.disk) /\ t.disk \ Capture = t.artifacts
    <2>1. IsFiniteSet(s.disk \cup more)
      BY <1>2, FS_Union DEF Orderly
    <2>2. s.disk \subseteq Root /\ s.disk \ Capture = s.artifacts
      BY DEF Orderly
    <2>3. more \subseteq Root /\ more \cap Capture = {}
      BY <1>2, SessionConstants DEF Root
    <2> HIDE DEF t, more
    <2> QED BY <1>1, <2>1, <2>2, <2>3
  <1>5. more \cap Capture = {}
    BY <1>2, SessionConstants
  <1> HIDE DEF t, more
  <1>6. Orderly(t)
    BY <1>1, <1>3, <1>4 DEF Orderly
  <1>7. Keeps(s, t, pinned)
    BY <1>1, <1>5 DEF Keeps
  <1> QED BY <1>1, <1>6, <1>7 DEF t, more

(* A bundle finds the room that was made for it. *)
LEMMA MaterializedFits ==
    ASSUME NEW s, NEW bundles \in Seq(Bundle \cup Export), NEW new \in SUBSET Root,
           Safe(s), Orderly(s), Counted, IsFiniteSet(new), Range(bundles) \subseteq s.disk \cup new,
           Fits(s, SumFunctionOnSet(Weight, new))
    PROVE  Fits(Materialized(s, bundles), 0)
  <1> DEFINE t == Materialized(s, bundles)
             sum(S) == SumFunctionOnSet(Weight, S)
  <1>1. /\ Safe(t) /\ Orderly(t) /\ t.disk = s.disk \cup Range(bundles)
    BY MaterializedOrderly, MaterializedSafe, RangeFinite
  <1>2. IsFiniteSet(s.disk) /\ s.disk \subseteq Root
    BY DEF Orderly
  <1>3. \A r \in s.disk \cup new : Weight[r] \in Nat
    BY <1>2, WeightIsNat
  <1>4. IsFiniteSet(s.disk \cup new)
    BY <1>2, FS_Union
  <1>5. t.disk \in SUBSET (s.disk \cup new)
    BY <1>1
  <1> HIDE DEF t
  <1>6. sum(t.disk) \in Nat /\ sum(s.disk \cup new) \in Nat /\ sum(t.disk) <= sum(s.disk \cup new)
    BY <1>3, <1>4, <1>5, SumMonotone
  <1>7. sum(s.disk \cup new) <= sum(s.disk) + sum(new)
    BY <1>2, <1>3, SumUnion
  <1>8. sum(new) \in Nat
    BY <1>3, SumMonotone
  <1>9. /\ Commitment(s) = sum(s.disk) /\ Commitment(s) \in Nat /\ Commitment(t) = sum(t.disk)
    BY <1>1, Committed
  <1>10. Commitment(s) + sum(new) <= Ceiling
    BY DEF Fits
  <1> HIDE DEF sum
  <1>11. Commitment(t) + 0 <= Ceiling
    BY <1>6, <1>7, <1>8, <1>9, <1>10, SessionConstants
  <1> QED BY <1>11 DEF Fits, t

(***************************************************************************)
(* What every operation leaves: caches in their shape, no more committed   *)
(* than before or no more than fits, and no capture given up by nobody.    *)
(***************************************************************************)
Bounded(s) ==
    /\ Safe(s) /\ Orderly(s)
    /\ Cardinality(DOMAIN s.analyses) <= MaxAnalyses

Follows(s, t, pinned) ==
    /\ Bounded(t) /\ Keeps(s, t, pinned)
    /\ t.disk \subseteq s.disk \/ Fits(t, 0)

Inherits(s, t) ==
    \A h \in DOMAIN t.analyses :
        h \in DOMAIN s.analyses /\ t.analyses[h].sources = s.analyses[h].sources

LEMMA ShrinkingFollows ==
    ASSUME NEW s, NEW t, NEW pinned, Bounded(s), Safe(t), Shrinks(s, t, pinned)
    PROVE  Follows(s, t, pinned) /\ Inherits(s, t)
  <1>1. IsFiniteSet(DOMAIN s.analyses) /\ DOMAIN t.analyses \in SUBSET DOMAIN s.analyses
    BY DEF Bounded, Orderly, Shrinks
  <1>2. /\ IsFiniteSet(DOMAIN t.analyses)
        /\ Cardinality(DOMAIN t.analyses) <= Cardinality(DOMAIN s.analyses)
    BY <1>1, FS_Subset
  <1>3. /\ Cardinality(DOMAIN t.analyses) \in Nat /\ Cardinality(DOMAIN s.analyses) \in Nat
        /\ MaxAnalyses \in Nat
    BY <1>1, <1>2, FS_CardinalityType, SessionConstants
  <1>4. Cardinality(DOMAIN t.analyses) <= MaxAnalyses
    BY <1>2, <1>3 DEF Bounded
  <1> QED BY <1>4 DEF Shrinks, Follows, Bounded, Inherits

LEMMA FollowsOn ==
    ASSUME NEW s, NEW t, NEW u, NEW p, NEW q, Counted, Follows(s, t, p), Follows(t, u, q),
           RootsOf(q) \subseteq Active \cup RootsOf(p)
    PROVE  Follows(s, u, p)
  <1>1. Keeps(s, u, p)
    BY DEF Follows, Keeps
  <1>2. u.disk \subseteq s.disk \/ Fits(u, 0)
    <2>1. CASE Fits(t, 0) /\ u.disk \subseteq t.disk
      BY <2>1, FitsShrunk DEF Follows, Bounded
    <2> QED BY <2>1 DEF Follows
  <1> QED BY <1>1, <1>2 DEF Follows

LEMMA PrunedFollows ==
    ASSUME NEW s, NEW pinned, NEW protected, NEW wanted, Bounded(s)
    PROVE  LET t == Pruned(s, pinned, protected, wanted)
           IN  Follows(s, t, pinned) /\ Inherits(s, t)
  BY PrunedSafe, PrunedShrinks, ShrinkingFollows DEF Bounded

LEMMA UsedFollows ==
    ASSUME NEW s, NEW handle, NEW pinned, Bounded(s), handle \in DOMAIN s.analyses
    PROVE  LET t == Used(s, handle)
           IN  /\ Follows(s, t, pinned) /\ Inherits(s, t)
               /\ DOMAIN t.analyses = DOMAIN s.analyses
  BY UsedSafe, UsedShrinks, ShrinkingFollows DEF Bounded

(* The room made for directories takes those of them that were not there. *)
LEMMA RoomFollows ==
    ASSUME NEW s, NEW bundles \in Seq(Bundle), NEW pinned, NEW n \in 0 .. Len(bundles),
           Bounded(s), Counted, Range(bundles) \subseteq RootsOf(pinned),
           NEW wanted, wanted = SumFunctionOnSet(Weight, Range(bundles) \ s.disk),
           NEW room, room = Pruned(s, pinned, {}, wanted), Fits(room, wanted)
    PROVE  LET t == Materialized(room, SubSeq(bundles, 1, n))
           IN  Follows(s, t, pinned) /\ Inherits(s, t)
  <1> DEFINE some == SubSeq(bundles, 1, n)
             t == Materialized(room, some)
             new == Range(bundles) \ s.disk
  <1>1. some \in Seq(Bundle \cup Export) /\ Range(some) \subseteq Range(bundles)
    <2>1. some \in Seq(Bundle) /\ Len(some) = n /\ \A i \in 1 .. n : some[i] = bundles[i]
      OBVIOUS
    <2> HIDE DEF some
    <2>2. \A i \in 1 .. Len(some) : some[i] \in Range(bundles) /\ some[i] \in Bundle \cup Export
      BY <2>1 DEF Range
    <2> QED BY <2>1, <2>2 DEF Range
  <1>2. /\ Follows(s, room, pinned) /\ Inherits(s, room)
        /\ s.disk \cap RootsOf(pinned) \subseteq room.disk
    BY PrunedFollows, PrunedSafe DEF Bounded
  <1>3. IsFiniteSet(new) /\ new \in SUBSET Root
    <2>1. IsFiniteSet(Range(bundles)) /\ Range(bundles) \subseteq Bundle
      BY RangeFinite
    <2>2. IsFiniteSet(new)
      BY <2>1, FS_Difference
    <2> QED BY <2>1, <2>2 DEF Root
  <1>4. Range(some) \subseteq room.disk \cup new
    BY <1>1, <1>2
  <1> HIDE DEF some, t
  <1>5. Safe(room) /\ Orderly(room) /\ Cardinality(DOMAIN room.analyses) <= MaxAnalyses
    BY <1>2 DEF Follows, Bounded
  <1>6. Fits(t, 0)
    BY <1>1, <1>3, <1>4, <1>5, MaterializedFits DEF t
  <1>7. /\ Orderly(t) /\ Keeps(room, t, pinned) /\ t.analyses = room.analyses /\ Safe(t)
    <2>1. Range(some) \subseteq Bundle \cup Export
      BY <1>1, RangeFinite
    <2> QED BY <1>1, <1>5, <2>1, MaterializedOrderly, MaterializedSafe DEF t
  <1>8. Follows(room, t, pinned)
    BY <1>5, <1>6, <1>7 DEF Follows, Bounded
  <1>9. Follows(s, t, pinned)
    BY <1>2, <1>8, FollowsOn
  <1> QED BY <1>2, <1>7, <1>9 DEF Inherits, t, some

(* A conversion that is kept has its place. *)
LEMMA ConvertedFollows ==
    ASSUME NEW s, NEW x \in Export, NEW pinned, Bounded(s), Counted
    PROVE  LET t == Converted(s, x, pinned).state
           IN  Follows(s, t, pinned) /\ Inherits(s, t)
  <1> DEFINE t == Materialized(s, <<x>>)
             u == Pruned(t, pinned, {Top(x)}, 0)
             v == Removed(u, {x})
  <1>1. <<x>> \in Seq(Bundle \cup Export) /\ Range(<<x>>) = {x}
    BY DEF Range
  <1>2. /\ Bounded(t) /\ Keeps(s, t, pinned)
        /\ t.disk = s.disk \cup {x} /\ t.analyses = s.analyses
    <2>1. Range(<<x>>) \subseteq Bundle \cup Export
      BY <1>1
    <2>2. Safe(s) /\ Orderly(s) /\ Cardinality(DOMAIN s.analyses) <= MaxAnalyses
      BY DEF Bounded
    <2>3. Orderly(t) /\ Keeps(s, t, pinned)
      BY <1>1, <2>2, MaterializedOrderly
    <2>4. Safe(t) /\ t.disk = s.disk \cup Range(<<x>>) /\ t.analyses = s.analyses
      BY <2>1, <2>2, MaterializedSafe
    <2> HIDE DEF t
    <2> QED BY <1>1, <2>2, <2>3, <2>4 DEF Bounded
  <1> HIDE DEF t
  <1>3. Follows(t, u, pinned) /\ Inherits(t, u) /\ u.disk \subseteq t.disk
    BY <1>2, PrunedFollows, PrunedShrinks DEF Bounded, Shrinks
  <1> HIDE DEF u
  <1>4. Follows(u, v, pinned) /\ Inherits(u, v) /\ v.disk \subseteq u.disk \ {x}
    <2>1. Safe(u) /\ Orderly(u) /\ Bounded(u)
      BY <1>3 DEF Follows, Bounded
    <2>2. x \notin Capture /\ Active \subseteq Capture
      BY SessionConstants DEF Active
    <2>3. Safe(v) /\ v.disk = u.disk \ {x}
      BY <2>1, <2>2, RemovedSafe
    <2>4. Shrinks(u, v, pinned)
      BY <2>1, RemovedShrinks
    <2> HIDE DEF v
    <2> QED BY <2>1, <2>3, <2>4, ShrinkingFollows
  <1>5. Converted(s, x, pinned) = IF x \in s.artifacts THEN [ok |-> TRUE, state |-> t]
                                  ELSE IF Fits(u, 0) THEN [ok |-> TRUE, state |-> u]
                                  ELSE [ok |-> FALSE, state |-> v]
    BY DEF Converted, t, u
  <1> HIDE DEF v
  <1>6. CASE x \in s.artifacts
    <2>1. t.disk = s.disk
      BY <1>2, <1>6 DEF Bounded, Orderly
    <2>2. Follows(s, t, pinned) /\ Inherits(s, t)
      BY <1>2, <2>1 DEF Follows, Inherits
    <2> QED BY <1>5, <1>6, <2>2
  <1>7. Keeps(s, u, pinned) /\ Inherits(s, u) /\ Keeps(s, v, pinned) /\ Inherits(s, v)
    BY <1>2, <1>3, <1>4 DEF Follows, Keeps, Inherits
  <1>8. CASE x \notin s.artifacts /\ Fits(u, 0)
    <2>1. Follows(s, u, pinned)
      BY <1>3, <1>7, <1>8 DEF Follows
    <2> QED BY <1>5, <1>7, <1>8, <2>1
  <1>9. CASE x \notin s.artifacts /\ ~Fits(u, 0)
    <2>1. v.disk \subseteq s.disk
      BY <1>2, <1>3, <1>4
    <2>2. Follows(s, v, pinned)
      BY <1>4, <1>7, <2>1 DEF Follows
    <2> QED BY <1>5, <1>7, <1>9, <2>2
  <1> QED BY <1>6, <1>8, <1>9

LEMMA DiscardedFollows ==
    ASSUME NEW before, NEW s, NEW pinned, Bounded(s)
    PROVE  LET t == Discarded(before, s)
           IN  Follows(s, t, pinned) /\ Inherits(s, t)
  <1> DEFINE gone == { a \in s.artifacts \ before.artifacts :
                         \A h \in DOMAIN s.analyses :
                             a \notin RootsOf(s.analyses[h].sources) }
  <1>1. Discarded(before, s) = Removed(s, gone)
    BY DEF Discarded
  <1>2. Safe(Removed(s, gone))
    BY <1>1, DiscardedSafe DEF Bounded
  <1> HIDE DEF gone
  <1>3. Shrinks(s, Removed(s, gone), pinned)
    BY RemovedShrinks DEF Bounded
  <1> QED BY <1>1, <1>2, <1>3, ShrinkingFollows

(* The one handle that need not have been there before *)
InheritsBut(s, t, handle, sources) ==
    \A h \in DOMAIN t.analyses :
        \/ h \in DOMAIN s.analyses /\ t.analyses[h].sources = s.analyses[h].sources
        \/ h = handle /\ t.analyses[h].sources = sources

LEMMA StoredFollows ==
    ASSUME NEW s, NEW handle \in Handle, NEW sources \in SUBSET Path, NEW pinned,
           Bounded(s), handle \notin DOMAIN s.analyses,
           RootsOf(sources) \cap Capture \subseteq s.disk
    PROVE  LET t == Stored(s, handle, sources, pinned)
           IN  /\ Follows(s, t, pinned) /\ InheritsBut(s, t, handle, sources)
               /\ handle \in DOMAIN t.analyses
  <1> DEFINE t == Stored(s, handle, sources, pinned)
  <1>1. Safe(s) /\ Orderly(s) /\ Cardinality(DOMAIN s.analyses) <= MaxAnalyses
    BY DEF Bounded
  <1>2. Safe(t)
    BY <1>1, StoredSafe
  <1>3. /\ Orderly(t) /\ t.disk \subseteq s.disk /\ Keeps(s, t, pinned)
        /\ Cardinality(DOMAIN t.analyses) <= MaxAnalyses
        /\ handle \in DOMAIN t.analyses
        /\ t.analyses[handle].sources = sources
        /\ \A h \in DOMAIN t.analyses : h # handle =>
              /\ h \in DOMAIN s.analyses
              /\ t.analyses[h].sources = s.analyses[h].sources
    BY <1>1, StoredBounded
  <1> HIDE DEF t
  <1>4. Follows(s, t, pinned) /\ InheritsBut(s, t, handle, sources)
    BY <1>2, <1>3 DEF Follows, Bounded, InheritsBut
  <1> QED BY <1>3, <1>4 DEF t

(* However a request for analysis ends *)
LEMMA OutcomesFollow ==
    ASSUME NEW s, NEW request, Bounded(s), Counted,
           request.evidence \in Seq(Bundle), request.paths \subseteq Path,
           RootsOf(request.paths) \subseteq s.disk,
           NEW o \in Outcomes(s, request)
    PROVE  LET asked  == Asked(request)
               handle == [asked |-> asked, failedIn |-> None]
           IN  /\ Follows(s, o.state, asked) /\ InheritsBut(s, o.state, handle, asked)
               /\ IF o.ok THEN handle \in DOMAIN o.state.analyses ELSE Inherits(s, o.state)
  <1> DEFINE asked  == Asked(request)
             handle == [asked |-> asked, failedIn |-> None]
             wanted == SumFunctionOnSet(Weight, Range(request.evidence) \ s.disk)
             room   == Pruned(s, asked, {}, wanted)
             ready  == Materialized(room, request.evidence)
             tools  == { ExportOf[p] : p \in asked \cap DOMAIN ExportOf }
             decoded == { [ok |-> TRUE, state |-> ready] }
                        \cup { Converted(ready, x, asked) : x \in tools }
             begun == { Materialized(room, SubSeq(request.evidence, 1, n)) :
                          n \in 0 .. Len(request.evidence) }
             failures == { s } \cup
                 IF ~Fits(room, wanted) THEN { room }
                 ELSE begun \cup IF handle \in DOMAIN ready.analyses THEN {}
                                 ELSE { d.state : d \in decoded }
             successes ==
                 IF ~Fits(room, wanted) THEN {}
                 ELSE IF handle \in DOMAIN ready.analyses THEN { Used(ready, handle) }
                 ELSE { Stored(d.state, handle, asked, asked) :
                          d \in { d \in decoded : d.ok } }
             fine(t) == Follows(s, t, asked) /\ Inherits(s, t)
  <1>1. Outcomes(s, request) = { [ok |-> FALSE, state |-> Discarded(s, f)] : f \in failures }
                               \cup { [ok |-> TRUE, state |-> g] : g \in successes }
    BY DEF Outcomes
  <1>2. asked \in SUBSET Path /\ RootsOf(asked) = RootsOf(request.paths) \cup Range(request.evidence)
    BY RootsOfAsked
  <1>3. handle \in Handle
    BY <1>2 DEF Handle
  <1>4. RootsOf(asked) \cap Capture \subseteq s.disk
    <2>1. Range(request.evidence) \subseteq Bundle
      BY RangeFinite
    <2> QED BY <1>2, <2>1, SessionConstants
  <1> HIDE DEF asked, handle
  <1>5. fine(s)
    BY DEF Follows, Inherits, Keeps
  <1>6. fine(room)
    BY PrunedFollows
  <1>7. Fits(room, wanted) => \A f \in begun : fine(f)
    <2> SUFFICES ASSUME Fits(room, wanted), NEW n \in 0 .. Len(request.evidence)
                 PROVE  fine(Materialized(room, SubSeq(request.evidence, 1, n)))
      OBVIOUS
    <2>1. Range(request.evidence) \subseteq RootsOf(asked)
      BY <1>2
    <2> DEFINE w == wanted
               r == room
    <2>2. w = SumFunctionOnSet(Weight, Range(request.evidence) \ s.disk) /\ r = Pruned(s, asked, {}, w)
          /\ Fits(r, w)
      OBVIOUS
    <2> HIDE DEF w, r
    <2>3. fine(Materialized(r, SubSeq(request.evidence, 1, n)))
      BY <2>1, <2>2, RoomFollows
    <2> QED BY <2>3 DEF w, r
  <1>8. ready \in begun /\ RootsOf(asked) \subseteq ready.disk
    <2>1. SubSeq(request.evidence, 1, Len(request.evidence)) = request.evidence
      OBVIOUS
    <2>2. Range(request.evidence) \subseteq Bundle \cup Export
      BY RangeFinite
    <2>3. Safe(room) /\ s.disk \cap RootsOf(asked) \subseteq room.disk
      BY PrunedSafe DEF Bounded
    <2> HIDE DEF room
    <2>4. RootsOf(asked) \subseteq ready.disk
      BY <1>2, <2>2, <2>3, MaterializedSafe
    <2>5. Len(request.evidence) \in 0 .. Len(request.evidence)
      OBVIOUS
    <2>6. ready \in begun
      BY <2>1, <2>5
    <2> HIDE DEF ready, begun
    <2> QED BY <2>4, <2>6
  <1> HIDE DEF wanted, room, begun
  <1>9. Fits(room, wanted) => fine(ready)
    BY <1>7, <1>8
  <1> HIDE DEF ready
  <1>10. Fits(room, wanted) => \A d \in decoded :
            /\ fine(d.state) /\ Inherits(ready, d.state)
            /\ d.ok => RootsOf(asked) \subseteq d.state.disk
    <2> SUFFICES ASSUME Fits(room, wanted), NEW d \in decoded
                 PROVE  /\ fine(d.state) /\ Inherits(ready, d.state)
                        /\ d.ok => RootsOf(asked) \subseteq d.state.disk
      OBVIOUS
    <2>1. CASE d = [ok |-> TRUE, state |-> ready]
      BY <1>8, <1>9, <2>1 DEF Inherits
    <2>2. CASE \E x \in tools : d = Converted(ready, x, asked)
      <3>1. PICK x \in Export : d = Converted(ready, x, asked)
        BY <2>2, SessionConstants
      <3>2. Follows(ready, d.state, asked) /\ Inherits(ready, d.state)
        BY <1>9, <3>1, ConvertedFollows DEF Follows
      <3>3. Follows(s, d.state, asked)
        BY <1>9, <3>2, FollowsOn
      <3>4. Inherits(s, d.state)
        BY <1>9, <3>2 DEF Inherits
      <3>5. d.ok => RootsOf(asked) \subseteq d.state.disk
        BY <1>8, <1>9, <3>1, ConvertedSafe DEF Follows, Bounded
      <3> QED BY <3>2, <3>3, <3>4, <3>5
    <2> QED BY <2>1, <2>2
  <1> HIDE DEF decoded
  <1>11. \A f \in failures : fine(f)
    BY <1>5, <1>6, <1>7, <1>10
  <1>12. \A g \in successes :
            Follows(s, g, asked) /\ InheritsBut(s, g, handle, asked) /\ handle \in DOMAIN g.analyses
    <2>1. CASE Fits(room, wanted) /\ handle \in DOMAIN ready.analyses
      <3> DEFINE g == Used(ready, handle)
      <3>1. Follows(ready, g, asked) /\ Inherits(ready, g) /\ DOMAIN g.analyses = DOMAIN ready.analyses
        BY <1>9, <2>1, UsedFollows DEF Follows
      <3> HIDE DEF g
      <3>2. Follows(s, g, asked)
        BY <1>9, <2>1, <3>1, FollowsOn
      <3>3. InheritsBut(s, g, handle, asked)
        BY <1>9, <2>1, <3>1 DEF Inherits, InheritsBut
      <3> QED BY <2>1, <3>1, <3>2, <3>3 DEF g
    <2>2. CASE Fits(room, wanted) /\ handle \notin DOMAIN ready.analyses
      <3> SUFFICES ASSUME NEW d \in decoded, d.ok
                   PROVE  LET g == Stored(d.state, handle, asked, asked)
                          IN  /\ Follows(s, g, asked) /\ InheritsBut(s, g, handle, asked)
                              /\ handle \in DOMAIN g.analyses
        BY <2>2
      <3> DEFINE g == Stored(d.state, handle, asked, asked)
      <3>1. fine(d.state) /\ handle \notin DOMAIN d.state.analyses
        BY <1>10, <2>2 DEF Inherits
      <3>2. RootsOf(asked) \cap Capture \subseteq d.state.disk
        BY <1>10, <2>2
      <3>3. /\ Follows(d.state, g, asked) /\ InheritsBut(d.state, g, handle, asked)
            /\ handle \in DOMAIN g.analyses
        BY <1>2, <1>3, <3>1, <3>2, StoredFollows DEF Follows
      <3> HIDE DEF g
      <3>4. Follows(s, g, asked)
        BY <3>1, <3>3, FollowsOn
      <3>5. InheritsBut(s, g, handle, asked)
        BY <3>1, <3>3 DEF Inherits, InheritsBut
      <3> QED BY <3>3, <3>4, <3>5 DEF g
    <2> QED BY <2>1, <2>2
  <1> HIDE DEF failures, successes
  <1>13. CASE \E f \in failures : o = [ok |-> FALSE, state |-> Discarded(s, f)]
    <2>1. PICK f \in failures : o = [ok |-> FALSE, state |-> Discarded(s, f)]
      BY <1>13
    <2>2. fine(f)
      BY <1>11
    <2> DEFINE g == Discarded(s, f)
    <2>3. Follows(f, g, asked) /\ Inherits(f, g)
      BY <2>2, DiscardedFollows DEF Follows
    <2> HIDE DEF g
    <2>4. Follows(s, g, asked) /\ InheritsBut(s, g, handle, asked) /\ Inherits(s, g)
      BY <2>2, <2>3, FollowsOn DEF Inherits, InheritsBut
    <2>5. o.state = g /\ ~o.ok
      BY <2>1 DEF g
    <2> QED BY <2>4, <2>5 DEF asked, handle
  <1>14. CASE \E g \in successes : o = [ok |-> TRUE, state |-> g]
    BY <1>12, <1>14 DEF asked, handle
  <1> QED BY <1>1, <1>13, <1>14

(* What a preserved handle gives up, nobody else needs. *)
LEMMA PublishedFollows ==
    ASSUME NEW s, NEW handle, Bounded(s), Counted, handle \in DOMAIN s.analyses
    PROVE  LET t == Published(s, handle)
           IN  Follows(s, t, {}) /\ Inherits(s, t)
  <1> DEFINE cache == [s.analyses EXCEPT ![handle].preserved = TRUE]
             t == [s EXCEPT !.analyses[handle].preserved = TRUE]
             sources == t.analyses[handle].sources
             u == Released(t, sources, {})
             v == Used(u, handle)
  <1>1. /\ t.analyses = cache /\ t.older = s.older /\ t.artifacts = s.artifacts
        /\ t.staler = s.staler /\ t.disk = s.disk
    BY DEF Bounded, Safe, Shape
  <1>2. PICK known \in SUBSET Handle : s.analyses \in [known -> Cached]
    BY DEF Bounded, Safe, Shape, Analyses
  <1>3. DOMAIN cache = DOMAIN s.analyses
    OBVIOUS
  <1>4. \A h \in DOMAIN s.analyses : cache[h].sources = s.analyses[h].sources
    BY <1>2 DEF Cached
  <1>5. \A h \in DOMAIN s.analyses : h # handle => cache[h] = s.analyses[h]
    OBVIOUS
  <1>6. Safe(t)
    BY MarkedSafe DEF Bounded
  <1> HIDE DEF t, cache
  <1>7. Bounded(t)
    <2>1. Orderly(t) /\ Cardinality(DOMAIN t.analyses) <= MaxAnalyses
      BY <1>1, <1>3 DEF Bounded, Orderly
    <2> QED BY <1>6, <2>1 DEF Bounded
  <1> HIDE DEF sources
  <1>8. /\ Safe(u) /\ u.analyses = t.analyses /\ Shrinks(t, u, {})
        /\ \A c \in RootsOf(sources) \cap u.disk :
              Needed(t.analyses, c) \/ c \in Active \cup RootsOf({})
    BY <1>7, ReleasedSafe, ReleasedShrinks DEF Bounded
  <1>9. Follows(t, u, {}) /\ Inherits(t, u)
    BY <1>7, <1>8, ShrinkingFollows
  <1> HIDE DEF u
  <1>10. ASSUME NEW c \in Capture \cap u.disk, Needed(s.analyses, c)
         PROVE  Needed(u.analyses, c) \/ c \in Active
    <2>1. PICK h \in DOMAIN s.analyses : ~s.analyses[h].preserved /\ c \in RootsOf(s.analyses[h].sources)
      BY <1>10 DEF Needed
    <2>2. CASE h = handle
      <3>1. c \in RootsOf(sources)
        BY <1>1, <1>4, <2>1, <2>2 DEF sources
      <3>2. RootsOf({}) = {}
        BY DEF RootsOf
      <3> QED BY <1>8, <3>1, <3>2
    <2>3. CASE h # handle
      BY <1>1, <1>3, <1>5, <1>8, <2>1, <2>3 DEF Needed
    <2> QED BY <2>2, <2>3
  <1>11. Follows(s, u, {}) /\ Inherits(s, u)
    <2>1. Keeps(s, u, {})
      <3>1. ASSUME NEW c, Named(s.analyses, c) PROVE Named(u.analyses, c)
        BY <1>1, <1>3, <1>4, <1>8, <3>1 DEF Named
      <3> QED BY <1>1, <1>8, <1>10, <3>1 DEF Shrinks, Keeps
    <2>2. u.disk \subseteq s.disk
      BY <1>1, <1>8 DEF Shrinks
    <2>3. Inherits(s, u)
      BY <1>1, <1>3, <1>4, <1>8 DEF Inherits
    <2> QED BY <1>9, <2>1, <2>2, <2>3 DEF Follows
  <1>12. Follows(u, v, {}) /\ Inherits(u, v)
    <2>1. Bounded(u) /\ handle \in DOMAIN u.analyses
      BY <1>1, <1>3, <1>8, <1>11 DEF Follows
    <2> QED BY <2>1, UsedFollows
  <1> HIDE DEF v
  <1>13. Follows(s, v, {}) /\ Inherits(s, v)
    <2>1. Follows(s, v, {})
      BY <1>11, <1>12, FollowsOn
    <2> QED BY <1>11, <1>12, <2>1 DEF Inherits
  <1>14. Published(s, handle) = v
    BY DEF Published, v, u, sources, t
  <1> QED BY <1>13, <1>14

(* The capture that owns a handle is still open. *)
LEMMA OwningFollows ==
    ASSUME NEW s, NEW handle, NEW captured \in SUBSET Path, NEW c \in Active,
           Bounded(s), handle \in DOMAIN s.analyses,
           RootsOf(s.analyses[handle].sources) \subseteq {c}, RootsOf(captured) \subseteq {c}
    PROVE  LET t == [s EXCEPT !.analyses[handle].sources = captured]
           IN  /\ Follows(s, t, {}) /\ DOMAIN t.analyses = DOMAIN s.analyses
               /\ \A h \in DOMAIN t.analyses :
                     t.analyses[h].sources = IF h = handle THEN captured
                                             ELSE s.analyses[h].sources
  <1> DEFINE cache == [s.analyses EXCEPT ![handle].sources = captured]
             t == [s EXCEPT !.analyses[handle].sources = captured]
  <1>1. /\ t.analyses = cache /\ t.older = s.older /\ t.artifacts = s.artifacts
        /\ t.staler = s.staler /\ t.disk = s.disk
    BY DEF Bounded, Safe, Shape
  <1>2. PICK known \in SUBSET Handle : s.analyses \in [known -> Cached]
    BY DEF Bounded, Safe, Shape, Analyses
  <1>3. DOMAIN cache = DOMAIN s.analyses
    OBVIOUS
  <1>4. cache[handle].sources = captured
    BY <1>2 DEF Cached
  <1>5. \A h \in DOMAIN s.analyses : h # handle => cache[h] = s.analyses[h]
    OBVIOUS
  <1>6. Safe(t)
    <2>1. Safe(s) /\ RootsOf(captured) \cap Capture \subseteq s.disk
      BY DEF Bounded, Safe
    <2> QED BY <2>1, OwningSafe
  <1> HIDE DEF t, cache
  <1>7. Bounded(t)
    <2>1. Orderly(t) /\ Cardinality(DOMAIN t.analyses) <= MaxAnalyses
      BY <1>1, <1>3 DEF Bounded, Orderly
    <2> QED BY <1>6, <2>1 DEF Bounded
  <1>8. ASSUME NEW d \in Capture, Needed(s.analyses, d) PROVE Needed(t.analyses, d) \/ d \in Active
    <2>1. PICK h \in DOMAIN s.analyses : ~s.analyses[h].preserved /\ d \in RootsOf(s.analyses[h].sources)
      BY <1>8 DEF Needed
    <2> QED BY <1>1, <1>3, <1>5, <2>1 DEF Needed
  <1>9. ASSUME NEW d \in Capture, Named(s.analyses, d) PROVE Named(t.analyses, d) \/ d \in Active
    <2>1. PICK h \in DOMAIN s.analyses : d \in RootsOf(s.analyses[h].sources)
      BY <1>9 DEF Named
    <2> QED BY <1>1, <1>3, <1>5, <2>1 DEF Named
  <1>10. Follows(s, t, {})
    BY <1>1, <1>7, <1>8, <1>9 DEF Follows, Keeps
  <1> QED BY <1>1, <1>3, <1>4, <1>5, <1>10 DEF t

(***************************************************************************)
(* The captures that are still open.  Until a capture has finished nothing *)
(* mentions it, and what mentions it afterwards mentions no other root.    *)
(***************************************************************************)
Proper(phases, h, sources) ==
    \A c \in Capture :
        /\ phases[c] # "idle" /\ c \in RootsOf(sources) => RootsOf(sources) = {c}
        /\ phases[c] \in {"executing", "settled"} =>
              c \notin RootsOf(h.asked \cup sources) /\ h.failedIn # c

Owned == \A h \in DOMAIN session.analyses : Proper(phase, h, session.analyses[h].sources)

BoundsInv == IInv /\ Bounded(session) /\ Counted /\ Owned /\ ReservationsFit

(* The handle a finished capture leaves *)
LEMMA FinishedFollows ==
    ASSUME NEW c \in Active, NEW captured \in SUBSET Path, NEW asked \in SUBSET Path,
           Bounded(session), Counted, Owned, phase[c] = "settled",
           RootsOf(captured) \subseteq {c}, RootsOf(asked) \subseteq {c},
           NEW f \in Finished(c, captured, asked)
    PROVE  /\ Follows(session, f.state, {})
           /\ InheritsBut(session, f.state, f.handle, captured)
           /\ f.handle \in DOMAIN f.state.analyses
           /\ f.handle.asked = asked /\ f.handle.failedIn \in {c, None}
  <1> DEFINE failure == [asked |-> asked, failedIn |-> c]
             handle  == [asked |-> asked, failedIn |-> None]
             failed(s) == [handle |-> failure, state |-> Stored(s, failure, captured, {})]
             request == [evidence |-> <<>>, paths |-> asked]
             owning(o) == [handle |-> handle,
                           state |-> [o.state EXCEPT !.analyses[handle].sources = captured]]
             fine(g) == /\ Follows(session, g.state, {})
                        /\ InheritsBut(session, g.state, g.handle, captured)
                        /\ g.handle \in DOMAIN g.state.analyses
                        /\ g.handle.asked = asked /\ g.handle.failedIn \in {c, None}
  <1>1. failure \in Handle /\ c \in session.disk
    BY DEF Handle, Active, Bounded, Safe
  <1>2. failure \notin DOMAIN session.analyses
    BY DEF Owned, Proper, Active
  <1>3. asked # {} => handle \notin DOMAIN session.analyses
    <2> SUFFICES ASSUME asked # {}, handle \in DOMAIN session.analyses PROVE FALSE
      OBVIOUS
    <2>1. PICK p \in asked : TRUE
      OBVIOUS
    <2>2. p.root = c
      BY DEF RootsOf
    <2>3. c \in RootsOf(handle.asked \cup session.analyses[handle].sources)
      BY <2>1, <2>2 DEF RootsOf
    <2> HIDE DEF handle
    <2> QED BY <2>3 DEF Owned, Proper, Active
  <1>4. ASSUME NEW s, Follows(session, s, {}), Inherits(session, s) PROVE fine(failed(s))
    <2> DEFINE t == Stored(s, failure, captured, {})
    <2>1. Bounded(s) /\ failure \notin DOMAIN s.analyses
      BY <1>2, <1>4 DEF Follows, Inherits
    <2>2. RootsOf(captured) \cap Capture \subseteq s.disk
      BY <2>1 DEF Bounded, Safe
    <2> HIDE DEF failure
    <2>3. Follows(s, t, {}) /\ InheritsBut(s, t, failure, captured) /\ failure \in DOMAIN t.analyses
      BY <1>1, <2>1, <2>2, StoredFollows
    <2> HIDE DEF t
    <2>4. Follows(session, t, {}) /\ InheritsBut(session, t, failure, captured)
      BY <1>4, <2>3, FollowsOn DEF Inherits, InheritsBut
    <2>5. failure.asked = asked /\ failure.failedIn = c
      BY DEF failure
    <2> QED BY <2>3, <2>4, <2>5 DEF t
  <1>5. Follows(session, session, {}) /\ Inherits(session, session)
    BY DEF Follows, Keeps, Inherits
  <1>6. ASSUME asked # {}, NEW o \in Outcomes(session, request)
        PROVE  fine(IF o.ok THEN owning(o) ELSE failed(o.state))
    <2>1. /\ request.evidence \in Seq(Bundle) /\ request.paths \subseteq Path
          /\ RootsOf(request.paths) \subseteq session.disk
      BY <1>1
    <2>2. Asked(request) = asked
      BY DEF Asked, Range
    <2> HIDE DEF request
    <2>3. /\ Follows(session, o.state, asked) /\ InheritsBut(session, o.state, handle, asked)
          /\ IF o.ok THEN handle \in DOMAIN o.state.analyses ELSE Inherits(session, o.state)
      BY <1>6, <2>1, <2>2, OutcomesFollow
    <2>4. Follows(session, o.state, {})
      <3>1. RootsOf(asked) \subseteq Active
        OBVIOUS
      <3> QED BY <2>3, <3>1 DEF Follows, Keeps
    <2>5. CASE o.ok
      <3> DEFINE t == [o.state EXCEPT !.analyses[handle].sources = captured]
      <3> HIDE DEF handle
      <3>1. o.state.analyses[handle].sources = asked
        BY <1>3, <1>6, <2>3, <2>5 DEF InheritsBut
      <3>2. /\ Follows(o.state, t, {}) /\ DOMAIN t.analyses = DOMAIN o.state.analyses
            /\ \A h \in DOMAIN t.analyses :
                  t.analyses[h].sources = IF h = handle THEN captured
                                          ELSE o.state.analyses[h].sources
        <4>1. Bounded(o.state)
          BY <2>4 DEF Follows
        <4> QED BY <2>3, <2>5, <3>1, <4>1, OwningFollows
      <3> HIDE DEF t
      <3>3. Follows(session, t, {})
        BY <2>4, <3>2, FollowsOn
      <3>4. InheritsBut(session, t, handle, captured) /\ handle \in DOMAIN t.analyses
        BY <2>3, <2>5, <3>2 DEF InheritsBut
      <3>5. handle.asked = asked /\ handle.failedIn = None
        BY DEF handle
      <3>6. owning(o).state = t /\ owning(o).handle = handle
        BY DEF t
      <3> HIDE DEF owning
      <3> QED BY <2>5, <3>3, <3>4, <3>5, <3>6
    <2>6. CASE ~o.ok
      <3> HIDE DEF fine, failed
      <3> QED BY <1>4, <2>3, <2>4, <2>6
    <2> QED BY <2>5, <2>6
  <1>7. Finished(c, captured, asked) =
            IF asked = {} THEN { failed(session) }
            ELSE { IF o.ok THEN owning(o) ELSE failed(o.state) :
                     o \in Outcomes(session, request) }
    BY DEF Finished
  <1> HIDE DEF failed, owning, request, fine
  <1>8. fine(f)
    BY <1>4, <1>5, <1>6, <1>7
  <1> QED BY <1>8 DEF fine

(***************************************************************************)
(* Every step keeps the bounds.                                            *)
(***************************************************************************)
StrandsOnlyPins ==
    /\ Unneeded' \subseteq Unneeded \cup reply'.pinned
    /\ Stranded' \subseteq Stranded \cup reply'.pinned

(* What keeps the needs and the names of the captures that are left strands *)
(* nothing but pins                                                         *)
LEMMA KeptIsNotStranded ==
    ASSUME \A c \in (Capture \cap session'.disk) \ (Active' \cup reply'.pinned) :
              /\ c \in session.disk \ Active
              /\ Needed(session.analyses, c) => Needed(session'.analyses, c)
              /\ Named(session.analyses, c) => Named(session'.analyses, c)
    PROVE  StrandsOnlyPins
  BY DEF StrandsOnlyPins, Unneeded, Stranded

Running == {"executing", "unwinding"}

(* What a running capture was promised is at least its due *)
LEMMA PromisedBelow ==
    ASSUME Counted, NEW r \in Root
    PROVE  Promised[r] \in Nat /\ Promised[r] <= Weight[r]
  <1>1. CASE r \in Capture /\ phase[r] \in {"executing", "unwinding"}
    <2>1. r \in Active
      BY <1>1 DEF Active
    <2>2. Promised[r] = reserved[r]
      BY <1>1 DEF Promised
    <2> QED BY <1>1, <2>1, <2>2, WeightIsNat
  <1>2. CASE ~(r \in Capture /\ phase[r] \in {"executing", "unwinding"})
    <2>1. Promised[r] = Weight[r]
      BY <1>2 DEF Promised
    <2> QED BY <2>1, WeightIsNat
  <1> QED BY <1>1, <1>2

(* The same, when only a phase has changed *)
LEMMA PromisedLater ==
    ASSUME Counted, UNCHANGED <<reserved, written>>, Active' = Active, NEW r \in Root
    PROVE  /\ Promised'[r] \in Nat /\ Promised'[r] <= Weight[r]
           /\ r \notin Capture \/ phase'[r] \in Running \/ phase[r] \notin Running =>
                 Promised'[r] <= Promised[r]
  <1>1. Weight' = Weight
    BY DEF Weight
  <1>2. Promised'[r] = IF r \in Capture /\ phase'[r] \in Running THEN reserved[r] ELSE Weight[r]
    BY <1>1 DEF Promised, Running
  <1>3. Promised[r] = IF r \in Capture /\ phase[r] \in Running THEN reserved[r] ELSE Weight[r]
    BY DEF Promised, Running
  <1>4. r \in Capture /\ phase'[r] \in Running => r \in Active
    <2>1. r \in Capture /\ phase'[r] \in Running => r \in Active'
      BY DEF Active, Running
    <2> QED BY <2>1
  <1> HIDE DEF Running
  <1>5. Weight[r] \in Nat /\ (r \in Capture => reserved[r] \in Nat)
        /\ (r \in Active => reserved[r] <= Weight[r])
    BY WeightIsNat
  <1> QED BY <1>2, <1>3, <1>4, <1>5

(* A step that opens and closes no capture *)
LEMMA FollowsStep ==
    ASSUME BoundsInv, NEW pinned, Follows(session, session', pinned),
           UNCHANGED <<reserved, written>>, Active' = Active, IInv',
           \/ Fits(session', 0)
           \/ \A c \in Capture : phase'[c] \in Running \/ phase[c] \notin Running,
           RootsOf(pinned) \subseteq Active \cup reply'.pinned, Owned'
    PROVE  BoundsInv' /\ StrandsOnlyPins
  <1>1. Safe(session') /\ Orderly(session') /\ Cardinality(DOMAIN session'.analyses) <= MaxAnalyses
    BY DEF Follows, Bounded
  <1>2. Bounded(session)'
    BY <1>1, SafeStep DEF Bounded, Orderly
  <1>3. Counted'
    BY DEF BoundsInv, Counted
  <1>4. session'.disk \subseteq Root /\ IsFiniteSet(session'.disk)
    BY <1>1 DEF Orderly
  <1>5. session'.disk \cup Active' = session'.disk
    BY <1>1 DEF Safe
  <1>6. SumFunctionOnSet(Promised', session'.disk) <= Ceiling
    <2>1. CASE Fits(session', 0)
      <3>1. \A r \in session'.disk :
                Weight[r] \in Nat /\ Promised'[r] \in Nat /\ Promised'[r] <= Weight[r]
        BY <1>4, PromisedLater, WeightIsNat DEF BoundsInv
      <3>2. /\ SumFunctionOnSet(Promised', session'.disk) \in Nat
            /\ SumFunctionOnSet(Promised', session'.disk) <= SumFunctionOnSet(Weight, session'.disk)
        BY <1>4, <3>1, SumMonotone
      <3>3. Commitment(session') = SumFunctionOnSet(Weight, session'.disk) /\ Commitment(session') \in Nat
        BY <1>1, Committed DEF BoundsInv
      <3> QED BY <2>1, <3>2, <3>3, SessionConstants DEF Fits
    <2>2. CASE ~Fits(session', 0)
      <3>1. session'.disk \in SUBSET session.disk
        BY <2>2 DEF Follows
      <3>2. session.disk \subseteq Root /\ IsFiniteSet(session.disk)
            /\ session.disk \cup Active = session.disk
        BY DEF BoundsInv, Bounded, Orderly, Safe
      <3>3. \A r \in session.disk : Promised[r] \in Nat
        BY <3>2, PromisedBelow DEF BoundsInv
      <3>4. \A r \in session'.disk : Promised'[r] \in Nat /\ Promised'[r] <= Promised[r]
        BY <1>4, <2>2, PromisedLater DEF BoundsInv
      <3>5. /\ SumFunctionOnSet(Promised', session'.disk) \in Nat
            /\ SumFunctionOnSet(Promised, session.disk) \in Nat
            /\ SumFunctionOnSet(Promised', session'.disk) <= SumFunctionOnSet(Promised, session.disk)
        BY <3>1, <3>2, <3>3, <3>4, SumMonotone
      <3>6. SumFunctionOnSet(Promised, session.disk) <= Ceiling
        BY <3>2 DEF BoundsInv, ReservationsFit
      <3> QED BY <3>5, <3>6, SessionConstants
    <2> QED BY <2>1, <2>2
  <1>7. ReservationsFit'
    BY <1>5, <1>6 DEF ReservationsFit
  <1>8. StrandsOnlyPins
    BY KeptIsNotStranded DEF Follows, Keeps
  <1> QED BY <1>2, <1>3, <1>7, <1>8 DEF BoundsInv

(* Handles that were there before stay proper. *)
LEMMA OwnedStep ==
    ASSUME Owned, NEW handle, NEW sources, InheritsBut(session, session', handle, sources),
           \A c \in Capture :
               /\ phase'[c] # "idle" => phase[c] # "idle"
               /\ phase'[c] \in {"executing", "settled"} => phase[c] \in {"executing", "settled"},
           handle \in DOMAIN session'.analyses => Proper(phase', handle, sources)
    PROVE  Owned'
  <1> SUFFICES ASSUME NEW h \in DOMAIN session'.analyses
               PROVE  Proper(phase', h, session'.analyses[h].sources)
    BY DEF Owned
  <1>1. CASE h \in DOMAIN session.analyses
             /\ session'.analyses[h].sources = session.analyses[h].sources
    <2>1. Proper(phase, h, session.analyses[h].sources)
      BY <1>1 DEF Owned
    <2> QED BY <1>1, <2>1 DEF Proper
  <1>2. CASE h = handle /\ session'.analyses[h].sources = sources
    BY <1>2
  <1> QED BY <1>1, <1>2 DEF InheritsBut

LEMMA OwnedInherited ==
    ASSUME Owned, Inherits(session, session'),
           \A c \in Capture :
               /\ phase'[c] # "idle" => phase[c] # "idle"
               /\ phase'[c] \in {"executing", "settled"} => phase[c] \in {"executing", "settled"}
    PROVE  Owned'
  <1> SUFFICES ASSUME NEW h \in DOMAIN session'.analyses
               PROVE  Proper(phase', h, session'.analyses[h].sources)
    BY DEF Owned
  <1>1. /\ h \in DOMAIN session.analyses
        /\ session'.analyses[h].sources = session.analyses[h].sources
    BY DEF Inherits
  <1>2. Proper(phase, h, session.analyses[h].sources)
    BY <1>1 DEF Owned
  <1> QED BY <1>1, <1>2 DEF Proper

LEMMA AnalyzeBounded ==
    ASSUME BoundsInv, NEW request \in Requests, Analyze(request)
    PROVE  BoundsInv' /\ StrandsOnlyPins
  <1> DEFINE asked  == Asked(request)
             handle == [asked |-> asked, failedIn |-> None]
  <1>1. PICK o \in Outcomes(session, request) :
            session' = o.state /\ Replied(o.ok, RootsOf(asked), asked)
    BY DEF Analyze
  <1>2. request.evidence \in Seq(Bundle) /\ request.paths \subseteq Path
    BY SessionConstants
  <1>3. RootsOf(request.paths) \subseteq session.disk \ Active
    BY DEF Analyze, RootsOf
  <1>4. Follows(session, session', asked) /\ InheritsBut(session, session', handle, asked)
    BY <1>1, <1>2, <1>3, OutcomesFollow DEF BoundsInv
  <1>5. Active' = Active /\ phase' = phase /\ UNCHANGED <<reserved, written>>
    BY DEF Analyze, Active
  <1>6. Proper(phase', handle, asked)
    <2>1. RootsOf(asked) = RootsOf(request.paths) \cup Range(request.evidence)
      BY <1>2, RootsOfAsked
    <2>2. Range(request.evidence) \subseteq Bundle
      BY <1>2, RangeFinite
    <2>3. \A c \in Capture : phase'[c] # "idle" => c \notin RootsOf(asked)
      BY <1>3, <1>5, <2>1, <2>2, SessionConstants DEF Active
    <2>4. handle.asked \cup asked = asked /\ handle.failedIn \notin Capture
      BY SessionConstants
    <2> HIDE DEF handle, asked
    <2> QED BY <2>3, <2>4 DEF Proper
  <1>7. reply'.pinned = RootsOf(asked)
    BY <1>1 DEF Replied
  <1>8. IInv'
    BY AnalyzeSafe DEF BoundsInv
  <1> HIDE DEF handle, asked
  <1>9. Owned'
    BY <1>4, <1>5, <1>6, OwnedStep DEF BoundsInv
  <1> QED BY <1>4, <1>5, <1>7, <1>8, <1>9, FollowsStep

LEMMA WriteBounded ==
    ASSUME BoundsInv, NEW c \in Capture, Write(c)
    PROVE  BoundsInv' /\ StrandsOnlyPins
  <1>1. /\ session' = session /\ phase' = phase /\ reserved' = reserved
        /\ written' = [written EXCEPT ![c] = @ + 1] /\ phase[c] = "executing"
        /\ reply'.pinned = RootsOf({})
    BY DEF Write, Quiet, RootsOf
  <1>2. IInv'
    BY CaptureSafe DEF BoundsInv
  <1>3. Active' = Active
    BY <1>1 DEF Active
  <1>4. Counted'
    BY <1>1 DEF BoundsInv, Counted
  <1>5. Promised' = Promised
    <2> SUFFICES ASSUME NEW r \in Root PROVE Promised'[r] = Promised[r]
      BY DEF Promised
    <2>1. CASE r = c
      BY <1>1, <2>1 DEF Promised
    <2>2. CASE r # c
      <3>1. r \in Capture => written'[r] = written[r]
        BY <1>1, <2>2 DEF BoundsInv, Counted
      <3>2. Weight'[r] = Weight[r]
        BY <1>1, <1>3, <3>1 DEF Weight
      <3> QED BY <1>1, <3>2 DEF Promised
    <2> QED BY <2>1, <2>2
  <1>6. ReservationsFit'
    BY <1>1, <1>3, <1>5 DEF BoundsInv, ReservationsFit
  <1>7. Bounded(session)' /\ Owned'
    BY <1>1, <1>2 DEF BoundsInv, Bounded, IInv, Orderly, Owned
  <1>8. StrandsOnlyPins
    BY <1>1, <1>3, KeptIsNotStranded
  <1> QED BY <1>2, <1>4, <1>6, <1>7, <1>8 DEF BoundsInv

LEMMA CaptureBounded ==
    ASSUME BoundsInv, NEW c \in Capture, CaseSettled(c) \/ NextCase(c) \/ Abort(c)
    PROVE  BoundsInv' /\ StrandsOnlyPins
  <1>1. IInv' /\ UNCHANGED <<reserved, written>>
    BY CaptureSafe DEF BoundsInv, CaseSettled, NextCase, Abort
  <1>2. phase[c] \in {"executing", "settled"}
        /\ \E to \in {"executing", "settled", "unwinding"} : phase' = [phase EXCEPT ![c] = to]
    BY DEF CaseSettled, NextCase, Abort, Enter
  <1>3. Active' = Active
    BY <1>2 DEF Active, BoundsInv, IInv, PhasesOK
  <1>4. \A d \in Capture :
            /\ phase'[d] # "idle" => phase[d] # "idle"
            /\ phase'[d] \in {"executing", "settled"} => phase[d] \in {"executing", "settled"}
    BY <1>2 DEF BoundsInv, IInv, PhasesOK
  <1>5. Follows(session, session', {}) /\ Inherits(session, session')
    <2>1. CASE CaseSettled(c)
      <3>1. session' = Pruned(session, {}, {Top(c)}, 0)
        BY <2>1 DEF CaseSettled
      <3> QED BY <3>1, PrunedFollows DEF BoundsInv
    <2>2. CASE NextCase(c) \/ Abort(c)
      <3>1. session' = session
        BY <2>2 DEF NextCase, Abort
      <3> QED BY <3>1 DEF BoundsInv, Follows, Keeps, Inherits
    <2> QED BY <2>1, <2>2
  <1>6. \/ Fits(session', 0)
        \/ \A d \in Capture : phase'[d] \in Running \/ phase[d] \notin Running
    <2>1. CASE CaseSettled(c) /\ ~Fits(session', 0)
      <3>1. phase' = [phase EXCEPT ![c] = "unwinding"]
        BY <2>1 DEF CaseSettled, Enter
      <3> QED BY <3>1 DEF Running, BoundsInv, IInv, PhasesOK
    <2>2. CASE NextCase(c) \/ Abort(c)
      <3>1. \E to \in Running : phase' = [phase EXCEPT ![c] = to]
        BY <2>2 DEF NextCase, Abort, Enter, Running
      <3> QED BY <3>1 DEF BoundsInv, IInv, PhasesOK
    <2> QED BY <2>1, <2>2
  <1>7. RootsOf({}) \subseteq Active \cup reply'.pinned
    BY DEF RootsOf
  <1>8. Owned'
    BY <1>4, <1>5, OwnedInherited DEF BoundsInv
  <1> QED BY <1>1, <1>3, <1>5, <1>6, <1>7, <1>8, FollowsStep

LEMMA PreserveBounded ==
    ASSUME BoundsInv, NEW h \in DOMAIN session.analyses, Preserve(h) \/ RescueFromScratch(h)
    PROVE  BoundsInv' /\ StrandsOnlyPins
  <1>1. IInv'
    BY PreserveSafe, RescueFromScratchSafe DEF BoundsInv
  <1>2. Active' = Active /\ phase' = phase /\ UNCHANGED <<reserved, written>>
    BY DEF Preserve, RescueFromScratch, Active
  <1>3. session' \in {session, Used(session, h), Published(session, h)}
    BY DEF Preserve, RescueFromScratch
  <1>4. Follows(session, session', {}) /\ Inherits(session, session')
    <2>1. CASE session' = session
      BY <2>1 DEF BoundsInv, Follows, Keeps, Inherits
    <2>2. CASE session' = Used(session, h)
      BY <2>2, UsedFollows DEF BoundsInv
    <2>3. CASE session' = Published(session, h)
      BY <2>3, PublishedFollows DEF BoundsInv
    <2> QED BY <1>3, <2>1, <2>2, <2>3
  <1>5. RootsOf({}) \subseteq Active \cup reply'.pinned
    BY DEF RootsOf
  <1>6. Owned'
    BY <1>2, <1>4, OwnedInherited DEF BoundsInv
  <1> QED BY <1>1, <1>2, <1>4, <1>5, <1>6, FollowsStep

LEMMA RescueBounded ==
    ASSUME BoundsInv, NEW h \in DOMAIN session.analyses, NEW bundles \in Seq(Bundle),
           Rescue(h, bundles)
    PROVE  BoundsInv' /\ StrandsOnlyPins
  <1> DEFINE wanted == SumFunctionOnSet(Weight, Range(bundles) \ session.disk)
             pinned == session.analyses[h].sources \cup { Top(d) : d \in Range(bundles) }
             room == Pruned(session, pinned, {}, wanted)
             ready(n) == Materialized(room, SubSeq(bundles, 1, n))
             whole(n) == Fits(room, wanted) /\ n = Len(bundles)
             end(n, ok) == /\ session' = IF ok THEN Used(ready(n), h) ELSE ready(n)
                           /\ Replied(ok, Range(bundles), pinned)
  <1>1. PICK n \in IF Fits(room, wanted) THEN 0 .. Len(bundles) ELSE {0} :
          \E ok \in IF whole(n) /\ h \in DOMAIN ready(n).analyses THEN BOOLEAN ELSE {FALSE} :
              end(n, ok)
    BY DEF Rescue
  <1>2. n \in 0 .. Len(bundles) /\ (Fits(room, wanted) \/ n = 0)
    BY <1>1
  <1>3. Active' = Active /\ phase' = phase /\ UNCHANGED <<reserved, written>> /\ IInv'
    BY RescueSafe DEF Rescue, Active, BoundsInv
  <1>4. Range(bundles) \subseteq RootsOf(pinned)
    <2> SUFFICES ASSUME NEW d \in Range(bundles) PROVE d \in RootsOf(pinned)
      OBVIOUS
    <2>1. Top(d) \in pinned /\ Top(d).root = d
      BY DEF Top
    <2> HIDE DEF pinned
    <2> QED BY <2>1 DEF RootsOf
  <1> HIDE DEF pinned, ready
  <1>5. reply'.pinned = RootsOf(pinned)
    BY <1>1 DEF Replied
  <1>6. \E ok \in BOOLEAN : /\ session' = IF ok THEN Used(ready(n), h) ELSE ready(n)
                            /\ ok => h \in DOMAIN ready(n).analyses
    BY <1>1
  <1>7. Bounded(session) /\ Counted /\ wanted = SumFunctionOnSet(Weight, Range(bundles) \ session.disk)
        /\ room = Pruned(session, pinned, {}, wanted)
    BY DEF BoundsInv
  <1> HIDE DEF wanted
  <1>8. Follows(session, room, pinned) /\ Inherits(session, room)
    BY <1>7, PrunedFollows
  <1> HIDE DEF room
  <1>9. Follows(session, ready(n), pinned) /\ Inherits(session, ready(n))
    <2>1. CASE Fits(room, wanted)
      BY <1>2, <1>4, <1>7, <2>1, RoomFollows DEF ready
    <2>2. CASE ~Fits(room, wanted)
      <3> DEFINE none == SubSeq(bundles, 1, 0)
                 t == Materialized(room, none)
      <3>1. none \in Seq(Bundle \cup Export) /\ none = <<>>
        OBVIOUS
      <3>2. Range(none) = {}
        BY <3>1 DEF Range
      <3>3. Safe(room) /\ Orderly(room) /\ Cardinality(DOMAIN room.analyses) <= MaxAnalyses
        BY <1>8 DEF Follows, Bounded
      <3> HIDE DEF none
      <3>4. /\ Orderly(t) /\ Keeps(room, t, pinned) /\ t.analyses = room.analyses
            /\ t.disk = room.disk \cup Range(none)
        BY <3>1, <3>3, MaterializedOrderly
      <3>5. Safe(t)
        BY <3>2, <3>3, MaterializedSafe
      <3> HIDE DEF t
      <3>6. Follows(room, t, pinned)
        BY <3>2, <3>3, <3>4, <3>5 DEF Follows, Bounded
      <3>7. Follows(session, t, pinned)
        BY <1>7, <1>8, <3>6, FollowsOn
      <3>8. Inherits(session, t)
        BY <1>8, <3>4 DEF Inherits
      <3>9. ready(n) = t
        BY <1>2, <2>2 DEF ready, t, none
      <3> QED BY <3>7, <3>8, <3>9
    <2> QED BY <2>1, <2>2
  <1>10. Follows(session, session', pinned) /\ Inherits(session, session')
    <2>1. CASE session' = ready(n)
      BY <1>9, <2>1
    <2>2. CASE session' = Used(ready(n), h) /\ h \in DOMAIN ready(n).analyses
      <3> DEFINE r == ready(n)
                 t == Used(r, h)
      <3> HIDE DEF r
      <3>1. Follows(session, r, pinned) /\ Inherits(session, r) /\ h \in DOMAIN r.analyses
        BY <1>9, <2>2 DEF r
      <3>2. Follows(r, t, pinned) /\ Inherits(r, t)
        BY <3>1, UsedFollows DEF Follows
      <3> HIDE DEF t
      <3>3. Follows(session, t, pinned) /\ Inherits(session, t)
        BY <1>7, <3>1, <3>2, FollowsOn DEF Inherits
      <3> QED BY <2>2, <3>3 DEF t, r
    <2> QED BY <1>6, <2>1, <2>2
  <1>11. Owned'
    BY <1>3, <1>10, OwnedInherited DEF BoundsInv
  <1> QED BY <1>3, <1>5, <1>10, <1>11, FollowsStep

LEMMA FinishBounded ==
    ASSUME BoundsInv, NEW c \in Capture, Finish(c)
    PROVE  BoundsInv' /\ StrandsOnlyPins
  <1>1. c \in Active /\ phase[c] = "settled" /\ UNCHANGED <<reserved, written>>
    BY DEF Finish, Active
  <1>2. PICK captured \in { {}, [root : {c}, member : Member] },
             asked \in {{}} \cup { [root : {c}, member : A] : A \in Analyzed },
             preserve \in {"off", "done", "refused", "failed"} :
               \E f \in Finished(c, captured, asked \cap captured) :
                   Ends(c, f, preserve)
    BY ZenonT(60) DEF Finish, Ends
  <1> DEFINE read == asked \cap captured
  <1>3. captured \in SUBSET Path /\ RootsOf(captured) \subseteq {c}
    BY DEF Path, Root, RootsOf
  <1>4. read \in SUBSET Path /\ RootsOf(read) \subseteq {c}
    BY <1>3 DEF RootsOf
  <1>5. PICK f \in Finished(c, captured, read) : Ends(c, f, preserve)
    BY <1>2
  <1> HIDE DEF read
  <1>6. /\ Follows(session, f.state, {})
        /\ InheritsBut(session, f.state, f.handle, captured)
        /\ f.handle \in DOMAIN f.state.analyses
        /\ f.handle.asked = read /\ f.handle.failedIn \in {c, None}
    BY <1>1, <1>3, <1>4, <1>5, FinishedFollows DEF BoundsInv
  <1> DEFINE s == IF preserve = "done" THEN Published(f.state, f.handle) ELSE f.state
             t == IF preserve \in {"off", "done"} THEN Pruned(s, {}, {Top(c)}, 0) ELSE s
  <1>7. Follows(f.state, s, {}) /\ Inherits(f.state, s)
    <2>1. CASE preserve = "done"
      BY <1>6, <2>1, PublishedFollows DEF Follows, BoundsInv
    <2>2. CASE preserve # "done"
      BY <1>6, <2>2 DEF Follows, Keeps, Inherits
    <2> QED BY <2>1, <2>2
  <1> HIDE DEF s
  <1>8. Follows(s, t, {}) /\ Inherits(s, t)
    <2>1. CASE preserve \in {"off", "done"}
      BY <1>7, <2>1, PrunedFollows DEF Follows
    <2>2. CASE preserve \notin {"off", "done"}
      BY <1>7, <2>2 DEF Follows, Keeps, Inherits
    <2> QED BY <2>1, <2>2
  <1>9. session' = t /\ \E to \in {"returning", "unwinding"} : phase' = [phase EXCEPT ![c] = to]
    BY <1>5 DEF Ends, Enter, s
  <1> HIDE DEF t
  <1>10. Follows(session, session', {}) /\ InheritsBut(session, session', f.handle, captured)
    <2>1. Follows(session, s, {})
      BY <1>6, <1>7, FollowsOn DEF BoundsInv
    <2>2. Follows(session, t, {})
      BY <1>8, <2>1, FollowsOn DEF BoundsInv
    <2>3. InheritsBut(session, t, f.handle, captured)
      BY <1>6, <1>7, <1>8 DEF Inherits, InheritsBut
    <2> QED BY <1>9, <2>2, <2>3
  <1>11. Active' = Active /\ IInv'
    BY <1>1, <1>9, FinishSafe DEF Active, BoundsInv, IInv, PhasesOK
  <1>12. /\ phase[c] \notin Running
         /\ \A d \in Capture : d # c => phase'[d] = phase[d]
         /\ phase'[c] \notin {"executing", "settled"}
    BY <1>1, <1>9 DEF Running, BoundsInv, IInv, PhasesOK
  <1>13. Proper(phase', f.handle, captured)
    <2>1. RootsOf(f.handle.asked \cup captured) \subseteq {c}
      BY <1>3, <1>4, <1>6 DEF RootsOf
    <2>2. ASSUME NEW d \in Capture, d \in RootsOf(captured) PROVE RootsOf(captured) = {d}
      BY <1>3, <2>2
    <2>3. ASSUME NEW d \in Capture, phase'[d] \in {"executing", "settled"}
          PROVE  d \notin RootsOf(f.handle.asked \cup captured) /\ f.handle.failedIn # d
      <3>1. d # c
        BY <1>12, <2>3
      <3>2. d \notin RootsOf(f.handle.asked \cup captured)
        BY <2>1, <3>1
      <3>3. None \notin Capture
        BY SessionConstants
      <3>4. f.handle.failedIn # d
        BY <1>6, <3>1, <3>3
      <3> QED BY <3>2, <3>4
    <2> QED BY <2>2, <2>3 DEF Proper
  <1>14. Owned'
    <2>1. \A d \in Capture :
              /\ phase'[d] # "idle" => phase[d] # "idle"
              /\ phase'[d] \in {"executing", "settled"} => phase[d] \in {"executing", "settled"}
      BY <1>1, <1>12
    <2> QED BY <1>10, <1>13, <2>1, OwnedStep DEF BoundsInv
  <1>15. \A d \in Capture : phase'[d] \in Running \/ phase[d] \notin Running
    BY <1>12
  <1>16. RootsOf({}) \subseteq Active \cup reply'.pinned
    BY DEF RootsOf
  <1> QED BY <1>1, <1>10, <1>11, <1>14, <1>15, <1>16, FollowsStep

LEMMA AdmitBounded ==
    ASSUME BoundsInv, NEW c \in Capture, NEW budget \in Reservation, Admit(c, budget)
    PROVE  BoundsInv' /\ StrandsOnlyPins
  <1> DEFINE s == Pruned(session, {}, {}, budget)
             t == [s EXCEPT !.disk = @ \cup {c}]
  <1>1. Follows(session, s, {}) /\ Inherits(session, s) /\ s.disk \subseteq session.disk
    <2>1. Safe(session) /\ Orderly(session)
      BY DEF BoundsInv, Bounded
    <2>2. Shrinks(session, s, {})
      BY <2>1, PrunedShrinks
    <2> HIDE DEF s
    <2>3. s.disk \subseteq session.disk
      BY <2>2 DEF Shrinks
    <2> QED BY <2>3, PrunedFollows DEF BoundsInv, s
  <1>2. IInv'
    BY AdmitSafe DEF BoundsInv
  <1>3. Fresh(c) /\ c \notin session.disk \cup Active
    BY DEF Admit, Fresh
  <1>4. RootsOf({}) = {}
    BY DEF RootsOf
  <1>5. CASE ~Fits(s, budget)
    <2>1. session' = s /\ phase' = phase /\ UNCHANGED <<reserved, written>>
      BY <1>5 DEF Admit
    <2> HIDE DEF s
    <2>2. Active' = Active
      BY <2>1 DEF Active
    <2>3. Owned'
      BY <1>1, <2>1, OwnedInherited DEF BoundsInv
    <2> QED BY <1>1, <1>2, <1>4, <2>1, <2>2, <2>3, FollowsStep
  <1>6. CASE Fits(s, budget)
    <2>1. /\ session' = t /\ phase' = [phase EXCEPT ![c] = "executing"]
          /\ reserved' = [reserved EXCEPT ![c] = budget] /\ written' = [written EXCEPT ![c] = 0]
      BY <1>6 DEF Admit, Enter
    <2> HIDE DEF s
    <2>2. /\ session'.analyses = s.analyses /\ session'.older = s.older
          /\ session'.artifacts = s.artifacts /\ session'.staler = s.staler
          /\ session'.disk = s.disk \cup {c}
      BY <1>1, <2>1 DEF Follows, Bounded, Safe, Shape
    <2> HIDE DEF t
    <2>3. /\ phase'[c] = "executing" /\ reserved'[c] = budget /\ written'[c] = 0
          /\ \A d \in Capture : d # c =>
                phase'[d] = phase[d] /\ reserved'[d] = reserved[d] /\ written'[d] = written[d]
      BY <2>1 DEF BoundsInv, IInv, PhasesOK, Counted
    <2>4. Active' = Active \cup {c}
      BY <2>3 DEF Active
    <2>5. Counted'
      BY <2>1 DEF BoundsInv, Counted
    <2>6. Safe(s) /\ Orderly(s) /\ Cardinality(DOMAIN s.analyses) <= MaxAnalyses
      BY <1>1 DEF Follows, Bounded
    <2>7. Bounded(session)'
      <3>1. Safe(session)'
        BY <1>2 DEF IInv
      <3>2. IsFiniteSet(s.disk \cup {c})
        BY <2>6, FS_AddElement DEF Orderly
      <3>3. session'.disk \subseteq Root /\ session'.disk \ Capture = session'.artifacts
        BY <2>2, <2>6 DEF Orderly, Root
      <3>4. Orderly(session')
        BY <2>2, <2>6, <3>2, <3>3 DEF Orderly
      <3> QED BY <2>2, <2>6, <3>1, <3>4 DEF Bounded, Orderly
    <2>8. Owned'
      <3> SUFFICES ASSUME NEW h \in DOMAIN session'.analyses
                   PROVE  Proper(phase', h, session'.analyses[h].sources)
        BY DEF Owned
      <3>1. /\ h \in DOMAIN session.analyses
            /\ session'.analyses[h].sources = session.analyses[h].sources
        BY <1>1, <2>2 DEF Inherits
      <3>2. Proper(phase, h, session.analyses[h].sources)
        BY <3>1 DEF BoundsInv, Owned
      <3>3. c \notin RootsOf(h.asked \cup session.analyses[h].sources) /\ h.failedIn # c
        BY <1>3, <3>1 DEF Fresh
      <3>4. c \notin RootsOf(session.analyses[h].sources)
        BY <3>3 DEF RootsOf
      <3> QED BY <2>3, <3>1, <3>2, <3>3, <3>4 DEF Proper
    <2>9. ReservationsFit'
      <3>1. session'.disk \cup Active' = s.disk \cup {c}
        BY <2>2, <2>4, <2>6 DEF Safe
      <3>2. c \notin s.disk /\ s.disk \subseteq Root /\ IsFiniteSet(s.disk) /\ budget \in Nat
        BY <1>1, <1>3, <2>6, SessionConstants DEF Orderly
      <3>3. Promised'[c] = budget
        BY <2>3 DEF Promised, Root
      <3>4. \A r \in s.disk : Promised'[r] = Promised[r]
        <4> SUFFICES ASSUME NEW r \in s.disk PROVE Promised'[r] = Promised[r]
          OBVIOUS
        <4>1. r \in Root /\ r # c
          BY <3>2
        <4>2. r \in Capture => phase'[r] = phase[r] /\ reserved'[r] = reserved[r] /\ written'[r] = written[r]
          BY <2>3, <4>1
        <4>3. Weight'[r] = Weight[r]
          BY <2>4, <4>1, <4>2 DEF Weight
        <4> QED BY <4>1, <4>2, <4>3 DEF Promised
      <3>5. \A r \in s.disk : Weight[r] \in Nat /\ Promised'[r] \in Nat /\ Promised'[r] <= Weight[r]
        BY <3>2, <3>4, PromisedBelow, WeightIsNat DEF BoundsInv
      <3>6. /\ SumFunctionOnSet(Promised', s.disk) \in Nat
            /\ SumFunctionOnSet(Promised', s.disk) <= SumFunctionOnSet(Weight, s.disk)
        BY <3>2, <3>5, SumMonotone
      <3>7. SumFunctionOnSet(Promised', s.disk \cup {c}) = budget + SumFunctionOnSet(Promised', s.disk)
        BY <3>2, <3>3, <3>5, SumAdds
      <3>8. Commitment(s) = SumFunctionOnSet(Weight, s.disk) /\ Commitment(s) \in Nat
        BY <2>6, Committed DEF BoundsInv
      <3>9. Commitment(s) + budget <= Ceiling
        BY <1>6 DEF Fits
      <3>10. SumFunctionOnSet(Promised', s.disk \cup {c}) <= Ceiling
        BY <3>2, <3>6, <3>7, <3>8, <3>9, SessionConstants
      <3> QED BY <3>1, <3>10 DEF ReservationsFit
    <2>10. StrandsOnlyPins
      BY <1>1, <1>4, <2>2, <2>4, KeptIsNotStranded DEF Follows, Keeps
    <2> QED BY <1>2, <2>5, <2>7, <2>8, <2>9, <2>10 DEF BoundsInv
  <1> QED BY <1>5, <1>6

LEMMA LeaveBounded ==
    ASSUME BoundsInv, NEW c \in Capture, Leave(c)
    PROVE  BoundsInv' /\ StrandsOnlyPins
  <1> DEFINE mine == { h \in DOMAIN session.analyses :
                         c \in RootsOf(session.analyses[h].sources) }
             lost == IF phase[c] = "unwinding" THEN mine ELSE {}
             left == Restrict(session.analyses, DOMAIN session.analyses \ lost)
             order == Without(session.older, lost)
             s == [session EXCEPT !.analyses = left, !.older = order]
  <1>1. /\ phase[c] \in {"returning", "unwinding"} /\ phase' = [phase EXCEPT ![c] = "idle"]
        /\ reserved' = [reserved EXCEPT ![c] = 0] /\ written' = written
        /\ session' = IF Needed(s.analyses, c) THEN s ELSE [s EXCEPT !.disk = @ \ {c}]
    BY DEF Leave, Enter
  <1>2. IInv'
    BY LeaveSafe DEF BoundsInv
  <1>3. /\ s.analyses = left /\ s.older = order /\ s.artifacts = session.artifacts
        /\ s.staler = session.staler /\ s.disk = session.disk /\ DOMAIN s = DOMAIN session
    BY DEF BoundsInv, IInv, Safe, Shape
  <1>4. /\ DOMAIN left = DOMAIN session.analyses \ lost
        /\ \A h \in DOMAIN left : left[h] = session.analyses[h]
    BY DEF Restrict
  <1>5. Ranked(order, DOMAIN session.analyses \ lost)
    <2>1. Ranked(session.older, DOMAIN session.analyses)
      BY DEF BoundsInv, Bounded, Orderly
    <2> HIDE DEF lost
    <2> QED BY <2>1, RankedWithout
  <1>6. ~Needed(left, c) \/ phase[c] = "returning"
    BY <1>1, <1>4 DEF Needed
  <1>7. ASSUME NEW d \in Capture, d # c, Needed(session.analyses, d) PROVE Needed(left, d)
    <2>1. PICK h \in DOMAIN session.analyses :
              ~session.analyses[h].preserved /\ d \in RootsOf(session.analyses[h].sources)
      BY <1>7 DEF Needed
    <2>2. h \notin mine
      <3>1. Proper(phase, h, session.analyses[h].sources)
        BY DEF BoundsInv, Owned
      <3> QED BY <1>1, <1>7, <2>1, <3>1 DEF Proper
    <2> QED BY <1>4, <2>1, <2>2 DEF Needed
  <1>17. ASSUME NEW d \in Capture, d # c, Named(session.analyses, d) PROVE Named(left, d)
    <2>1. PICK h \in DOMAIN session.analyses : d \in RootsOf(session.analyses[h].sources)
      BY <1>17 DEF Named
    <2>2. h \notin mine
      <3>1. Proper(phase, h, session.analyses[h].sources)
        BY DEF BoundsInv, Owned
      <3> QED BY <1>1, <1>17, <2>1, <3>1 DEF Proper
    <2> QED BY <1>4, <2>1, <2>2 DEF Named
  <1> HIDE DEF s, left, order, lost
  <1>8. /\ session'.analyses = left /\ session'.older = order
        /\ session'.artifacts = session.artifacts /\ session'.staler = session.staler
        /\ session'.disk = IF Needed(left, c) THEN session.disk ELSE session.disk \ {c}
    BY <1>1, <1>3 DEF BoundsInv, IInv, Safe, Shape
  <1>9. /\ phase'[c] = "idle" /\ reserved'[c] = 0
        /\ \A d \in Capture : d # c => phase'[d] = phase[d] /\ reserved'[d] = reserved[d]
    BY <1>1 DEF BoundsInv, IInv, PhasesOK, Counted
  <1>10. Active' = Active \ {c} /\ c \in Active
    BY <1>1, <1>9 DEF Active
  <1>11. Counted'
    BY <1>1 DEF BoundsInv, Counted
  <1>12. /\ IsFiniteSet(session.disk) /\ session.disk \subseteq Root /\ Active \subseteq session.disk
         /\ session.disk \ Capture = session.artifacts
         /\ session.staler \subseteq session.artifacts \X session.artifacts
         /\ IsFiniteSet(DOMAIN session.analyses)
         /\ Cardinality(DOMAIN session.analyses) <= MaxAnalyses
    BY DEF BoundsInv, Bounded, Orderly, Safe
  <1>13. session'.disk \in SUBSET session.disk
    BY <1>8
  <1>14. Bounded(session)'
    <2>1. Safe(session)'
      BY <1>2 DEF IInv
    <2>2. DOMAIN left \in SUBSET DOMAIN session.analyses
      BY <1>4
    <2>3. /\ IsFiniteSet(DOMAIN left)
          /\ Cardinality(DOMAIN left) <= Cardinality(DOMAIN session.analyses)
      BY <1>12, <2>2, FS_Subset
    <2>4. Cardinality(DOMAIN left) <= MaxAnalyses
      <3>1. /\ Cardinality(DOMAIN left) \in Nat /\ Cardinality(DOMAIN session.analyses) \in Nat
            /\ MaxAnalyses \in Nat
        BY <1>12, <2>3, FS_CardinalityType, SessionConstants
      <3> QED BY <1>12, <2>3, <3>1
    <2>5. IsFiniteSet(session'.disk)
      BY <1>12, <1>13, FS_Subset
    <2>6. session'.disk \subseteq Root /\ session'.disk \ Capture = session'.artifacts
      BY <1>8, <1>12, <1>13
    <2>7. Orderly(session')
      BY <1>4, <1>5, <1>8, <1>12, <2>3, <2>5, <2>6 DEF Orderly
    <2> QED BY <1>8, <2>1, <2>4, <2>7 DEF Bounded, Orderly
  <1>15. Owned'
    <2>1. Inherits(session, session')
      BY <1>4, <1>8 DEF Inherits
    <2>2. \A d \in Capture :
              /\ phase'[d] # "idle" => phase[d] # "idle"
              /\ phase'[d] \in {"executing", "settled"} => phase[d] \in {"executing", "settled"}
      BY <1>9
    <2> QED BY <2>1, <2>2, OwnedInherited DEF BoundsInv
  <1>16. ReservationsFit'
    <2>1. session'.disk \cup Active' = session'.disk /\ session.disk \cup Active = session.disk
      BY <1>8, <1>10, <1>12
    <2>2. ASSUME NEW r \in session'.disk
          PROVE  Promised'[r] \in Nat /\ Promised'[r] <= Promised[r]
      <3>1. r \in Root /\ Promised[r] \in Nat
        BY <1>12, <1>13, PromisedBelow DEF BoundsInv
      <3>2. CASE r # c
        <4>1. r \in Capture => phase'[r] = phase[r] /\ reserved'[r] = reserved[r]
          BY <1>9, <3>2
        <4>2. Weight'[r] = Weight[r]
          BY <1>1, <1>10, <3>1, <3>2, <4>1 DEF Weight
        <4>3. Promised'[r] = Promised[r]
          BY <3>1, <4>1, <4>2 DEF Promised
        <4> QED BY <3>1, <4>3
      <3>3. CASE r = c
        <4>1. phase[c] = "returning"
          BY <1>6, <1>8, <2>2, <3>3
        <4>2. Promised[c] = Weight[c]
          BY <3>1, <3>3, <4>1 DEF Promised
        <4>3. Weight'[c] = written[c]
          BY <1>1, <1>10, <3>1, <3>3 DEF Weight
        <4>4. Promised'[c] = Weight'[c]
          BY <1>9, <3>1, <3>3 DEF Promised
        <4> QED BY <3>1, <3>3, <4>2, <4>3, <4>4, WeightIsNat DEF BoundsInv
      <3> QED BY <3>2, <3>3
    <2>3. \A r \in session.disk : Promised[r] \in Nat
      BY <1>12, PromisedBelow DEF BoundsInv
    <2>4. /\ SumFunctionOnSet(Promised', session'.disk) \in Nat
          /\ SumFunctionOnSet(Promised, session.disk) \in Nat
          /\ SumFunctionOnSet(Promised', session'.disk) <= SumFunctionOnSet(Promised, session.disk)
      BY <1>12, <1>13, <2>2, <2>3, SumMonotone
    <2>5. SumFunctionOnSet(Promised, session.disk) <= Ceiling
      BY <2>1 DEF BoundsInv, ReservationsFit
    <2>6. SumFunctionOnSet(Promised', session'.disk) <= Ceiling
      BY <2>4, <2>5, SessionConstants
    <2> QED BY <2>1, <2>6 DEF ReservationsFit
  <1>18. StrandsOnlyPins
    <2>1. ASSUME NEW d \in Unneeded'
          PROVE  d \in Unneeded /\ (Named(session.analyses, d) => Named(session'.analyses, d))
      <3>1. d \in Capture \cap session'.disk /\ d \notin Active' /\ ~Needed(left, d)
        BY <1>8 DEF Unneeded
      <3>2. d # c
        BY <1>8, <3>1
      <3>3. d \in session.disk /\ d \notin Active /\ ~Needed(session.analyses, d)
        BY <1>7, <1>10, <1>13, <3>1, <3>2
      <3>4. Named(session.analyses, d) => Named(left, d)
        BY <1>17, <3>1, <3>2
      <3> QED BY <1>8, <3>1, <3>3, <3>4 DEF Unneeded
    <2> QED BY <2>1 DEF StrandsOnlyPins, Stranded
  <1> QED BY <1>2, <1>11, <1>14, <1>15, <1>16, <1>18 DEF BoundsInv

LEMMA InitBounded == Init => BoundsInv
  <1> SUFFICES ASSUME Init PROVE BoundsInv
    OBVIOUS
  <1>1. IInv
    BY InitSafe
  <1>2. /\ session.analyses = <<>> /\ session.older = {} /\ session.artifacts = {}
        /\ session.staler = {} /\ session.disk = {}
    BY DEF Init, Empty
  <1>3. DOMAIN session.analyses = {}
    BY <1>2
  <1>4. IsFiniteSet({}) /\ Cardinality({}) = 0
    BY FS_EmptySet
  <1>5. Orderly(session)
    BY <1>2, <1>3, <1>4 DEF Orderly, Ranked
  <1>6. Cardinality(DOMAIN session.analyses) <= MaxAnalyses
    BY <1>3, <1>4, SessionConstants
  <1>7. Counted
    BY DEF Init, Counted
  <1>8. Owned
    BY <1>3 DEF Owned
  <1>9. ReservationsFit
    <2>1. session.disk \cup Active = {}
      BY <1>2 DEF Init, Active
    <2>2. SumFunctionOnSet(Promised, {}) = Cardinality(Blocks(Promised, {}))
      BY <1>4, SumCounts
    <2>3. Blocks(Promised, {}) = {}
      BY DEF Blocks
    <2>4. SumFunctionOnSet(Promised, session.disk \cup Active) = 0
      BY <1>4, <2>1, <2>2, <2>3
    <2>5. 0 <= Ceiling
      BY SessionConstants
    <2> QED BY <2>4, <2>5 DEF ReservationsFit
  <1> QED BY <1>1, <1>5, <1>6, <1>7, <1>8, <1>9 DEF BoundsInv, Bounded, IInv

LEMMA NextBounded == BoundsInv /\ [Next]_vars => BoundsInv' /\ (StrandsOnlyPins \/ UNCHANGED vars)
  <1> SUFFICES ASSUME BoundsInv, [Next]_vars
               PROVE  BoundsInv' /\ (StrandsOnlyPins \/ UNCHANGED vars)
    OBVIOUS
  <1>1. CASE \E request \in Requests : Analyze(request)
    BY <1>1, AnalyzeBounded
  <1>2. CASE \E c \in Capture : \E budget \in Reservation : Admit(c, budget)
    BY <1>2, AdmitBounded
  <1>3. CASE \E c \in Capture : Write(c)
    BY <1>3, WriteBounded
  <1>4. CASE \E c \in Capture : CaseSettled(c) \/ NextCase(c) \/ Abort(c)
    BY <1>4, CaptureBounded
  <1>5. CASE \E c \in Capture : Finish(c)
    BY <1>5, FinishBounded
  <1>6. CASE \E c \in Capture : Leave(c)
    BY <1>6, LeaveBounded
  <1>7. CASE \E h \in DOMAIN session.analyses : Preserve(h) \/ RescueFromScratch(h)
    BY <1>7, PreserveBounded
  <1>8. CASE \E h \in DOMAIN session.analyses :
               \E bundles \in { <<d>> : d \in Bundle } \cup { <<>> } : Rescue(h, bundles)
    <2>1. { <<d>> : d \in Bundle } \cup { <<>> } \subseteq Seq(Bundle)
      <3>1. <<>> \in Seq(Bundle) /\ \A d \in Bundle : <<d>> \in Seq(Bundle)
        OBVIOUS
      <3> QED BY <3>1
    <2> QED BY <1>8, <2>1, RescueBounded
  <1>9. CASE UNCHANGED vars
    <2>1. /\ session' = session /\ phase' = phase /\ reserved' = reserved /\ written' = written
          /\ reply' = reply
      BY <1>9 DEF vars
    <2>2. Active' = Active /\ Promised' = Promised
      BY <2>1 DEF Active, Promised, Weight
    <2>3. IInv'
      BY NextSafe DEF BoundsInv
    <2>4. Bounded(session)'
      BY <2>1, <2>3 DEF BoundsInv, Bounded, Orderly, IInv
    <2>5. Counted' /\ Owned' /\ ReservationsFit'
      BY <2>1, <2>2 DEF BoundsInv, Counted, Owned, ReservationsFit
    <2> QED BY <1>9, <2>3, <2>4, <2>5 DEF BoundsInv
  <1> QED BY <1>1, <1>2, <1>3, <1>4, <1>5, <1>6, <1>7, <1>8, <1>9 DEF Next

(* The bounds of a session, all at once: an inductive invariant, for every   *)
(* ceiling, every number of cached analyses and every request.               *)
THEOREM BoundsInvariance == Spec => []BoundsInv
  BY InitBounded, NextBounded, PTL DEF Spec

(* The analysis cache never holds more than its limit, its order of use      *)
(* ranks exactly the handles it holds, and what is on disk is what is        *)
(* indexed (_cache_analysis, _prune_scratch, _release_analysis_scratch).     *)
THEOREM CachesAreConsistent == Spec => []TypeOK
  <1>1. BoundsInv => TypeOK
    <2> SUFFICES ASSUME BoundsInv PROVE TypeOK
      OBVIOUS
    <2>1. PICK known \in SUBSET Handle : session.analyses \in [known -> Cached]
      BY DEF BoundsInv, IInv, Safe, Shape, Analyses
    <2>2. /\ DOMAIN session.analyses \subseteq Handle
          /\ \A h \in DOMAIN session.analyses : session.analyses[h] \in Cached
      BY <2>1
    <2> QED BY <2>2 DEF TypeOK, BoundsInv, Bounded, Orderly, Ranked, IInv, PhasesOK, Counted
  <1> QED BY <1>1, BoundsInvariance, PTL

(* What is retained and the budgets of the captures that run always fit      *)
(* under the session's ceiling together, whatever is admitted, converted,    *)
(* materialized or released (_scratch_commitment, _reserve_capture_capacity). *)
THEOREM CeilingHolds == Spec => []ReservationsFit
  <1>1. BoundsInv => ReservationsFit
    BY DEF BoundsInv
  <1> QED BY <1>1, BoundsInvariance, PTL

(* A capture root that outlives the last handle which needs it, or the last  *)
(* that names it at all, was pinned by the request during which that handle  *)
(* was given up (_release_analysis_scratch, runtime.py:346).                 *)
THEOREM StrandedByPinsOnly == Spec => StrandedOnlyByPins
  <1>1. BoundsInv /\ [Next]_vars =>
            [ /\ Unneeded' \subseteq Unneeded \cup reply'.pinned
              /\ Stranded' \subseteq Stranded \cup reply'.pinned ]_vars
    BY NextBounded DEF StrandsOnlyPins
  <1> QED BY <1>1, BoundsInvariance, PTL DEF Spec, StrandedOnlyByPins
=============================================================================
