------------------------- MODULE EvidenceQueryProofs -------------------------
(***************************************************************************)
(* Chains of pages are complete, in order, and lead somewhere, for any      *)
(* inventory, filters, page sizes and publishers.                           *)
(***************************************************************************)
EXTENDS EvidenceQuery, FiniteSetTheorems, TLAPS

(* What a cursor promises: its chain has got exactly the matches before its *)
(* offset, of an inventory that has all the chain knew when it began        *)
ChainOK(chain) ==
    LET c == chain.cursor IN
    /\ c.inventory \subseteq published /\ c.filter \in Filters /\ c.offset \in Nat
    /\ chain.got = { e \in c.inventory \cap c.filter : Place(e, c.inventory) < c.offset }
    /\ chain.known \subseteq c.inventory
    /\ \E e \in c.inventory \cap c.filter : Place(e, c.inventory) = c.offset

(* A first page will have listed what was published when it was asked for   *)
CallInv ==
    call # Idle =>
        IF call.first
        THEN /\ call.chain = [NoChain EXCEPT !.known = call.chain.known]
             /\ call.chain.known \subseteq published
             /\ \A e \in call.chain.known : Prefix[e] \in unread \/ e \in inventory
        ELSE call.chain \in issued

Settled ==
    /\ \A e \in published : Prefix[e] \in prefixes
    /\ \A chain \in issued : ChainOK(chain)
    /\ answer.of.chain.got \in SUBSET published

IInv == TypeOK /\ Settled /\ CallInv /\ ChainsComplete /\ PagesInOrder

-----------------------------------------------------------------------------
(* Places in a finite set of numbers *)

LEMMA PlacesAre ==
    ASSUME NEW S \in SUBSET Nat, IsFiniteSet(S), NEW e \in S
    PROVE  Place(e, S) \in Nat /\ Place(e, S) < Cardinality(S)
  <1> DEFINE before == { x \in S : x < e }
  <1>1. before \in SUBSET (S \ {e})
    OBVIOUS
  <1>2. IsFiniteSet(S \ {e}) /\ Cardinality(S \ {e}) = Cardinality(S) - 1 /\ Cardinality(S) \in Nat
    BY FS_RemoveElement, FS_CardinalityType
  <1> HIDE DEF before
  <1>3. Cardinality(before) <= Cardinality(S) - 1 /\ Cardinality(before) \in Nat
    <2>1. before \subseteq S \ {e}
      BY <1>1
    <2>2. IsFiniteSet(before) /\ Cardinality(before) <= Cardinality(S \ {e})
      BY <1>2, <2>1, FS_Subset
    <2>3. Cardinality(before) \in Nat
      BY <2>2, FS_CardinalityType
    <2> QED BY <1>2, <2>2, <2>3
  <1>4. Place(e, S) = Cardinality(before)
    BY DEF Place, before
  <1> QED BY <1>2, <1>3, <1>4

LEMMA PlacesGrow ==
    ASSUME NEW S \in SUBSET Nat, IsFiniteSet(S), NEW x \in S, NEW y \in S, x < y
    PROVE  Place(x, S) < Place(y, S)
  <1> DEFINE smaller == { z \in S : z < x }  larger == { z \in S : z < y }
  <1>1. x \in Nat /\ y \in Nat /\ ~ (x < x)
    OBVIOUS
  <1>2. \A z \in Nat : z < x => z < y
    BY <1>1
  <1>3. smaller \in SUBSET larger /\ larger \in SUBSET S /\ x \in larger /\ x \notin smaller
    BY <1>1, <1>2
  <1>4. Place(x, S) = Cardinality(smaller) /\ Place(y, S) = Cardinality(larger)
    BY DEF Place
  <1> HIDE DEF smaller, larger
  <1>5. IsFiniteSet(larger) /\ Cardinality(larger) \in Nat
    BY <1>3, FS_Subset, FS_CardinalityType
  <1>6. /\ IsFiniteSet(smaller) /\ Cardinality(smaller) <= Cardinality(larger)
        /\ Cardinality(larger) = Cardinality(smaller) => larger = smaller
    BY <1>3, <1>5, FS_Subset
  <1>7. Cardinality(smaller) \in Nat
    BY <1>6, FS_CardinalityType
  <1> QED BY <1>3, <1>4, <1>5, <1>6, <1>7

LEMMA PlacesOrder ==
    ASSUME NEW S \in SUBSET Nat, IsFiniteSet(S), NEW x \in S, NEW y \in S
    PROVE  x < y <=> Place(x, S) < Place(y, S)
  <1>1. x < y \/ x = y \/ y < x
    OBVIOUS
  <1>2. Place(x, S) \in Nat /\ Place(y, S) \in Nat
    BY PlacesAre
  <1>3. y < x => Place(y, S) < Place(x, S)
    BY PlacesGrow
  <1>4. x < y => Place(x, S) < Place(y, S)
    BY PlacesGrow
  <1> QED BY <1>1, <1>2, <1>3, <1>4

(* No place below the number of elements is free *)
LEMMA PlacesTaken ==
    ASSUME NEW S \in SUBSET Nat, IsFiniteSet(S), NEW n \in Nat, n < Cardinality(S)
    PROVE  \E e \in S : Place(e, S) = n
  <1> DEFINE T == 0..(Cardinality(S) - 1)
             place == [e \in S |-> Place(e, S)]
  <1>1. Cardinality(S) \in Nat
    BY FS_CardinalityType
  <1>2. IsFiniteSet(T) /\ Cardinality(T) = Cardinality(S)
    <2>1. 0 \in Int /\ Cardinality(S) - 1 \in Int
      BY <1>1
    <2>2. /\ IsFiniteSet(T)
          /\ Cardinality(T) = IF 0 > Cardinality(S) - 1 THEN 0
                              ELSE (Cardinality(S) - 1) - 0 + 1
      BY <2>1, FS_Interval
    <2> HIDE DEF T
    <2> QED BY <1>1, <2>2
  <1>3. place \in [S -> T]
    BY <1>1, PlacesAre
  <1>4. ASSUME NEW x \in S, NEW y \in S, place[x] = place[y] PROVE x = y
    <2>1. Place(x, S) = Place(y, S) /\ Place(x, S) \in Nat
      BY <1>4, PlacesAre
    <2>2. ~ (x < y) /\ ~ (y < x)
      BY <2>1, PlacesGrow
    <2> QED BY <2>2
  <1> HIDE DEF T, place
  <1>5. place \in Injection(S, T)
    BY <1>3, <1>4 DEF Injection, IsInjective
  <1>6. place \in Surjection(S, T)
    BY <1>2, <1>5, FS_Injection
  <1>7. n \in T
    BY <1>1 DEF T
  <1>8. \E e \in S : place[e] = n
    BY <1>6, <1>7 DEF Surjection
  <1> QED BY <1>8 DEF place

-----------------------------------------------------------------------------
(* Pages cut the matches of an inventory in order *)

Before(I, F, o) == { e \in I \cap F : Place(e, I) < o }
From(I, F, o) == { e \in I \cap F : Place(e, I) >= o }
First(C, limit) == { e \in C : Place(e, C) < limit }

LEMMA PagesCut ==
    ASSUME NEW I \in SUBSET Nat, IsFiniteSet(I), NEW F, NEW o \in Nat, NEW limit \in Nat
    PROVE  /\ \A x \in Before(I, F, o), y \in First(From(I, F, o), limit) : x < y
           /\ \A e \in From(I, F, o) : Place(e, From(I, F, o)) = limit =>
                  Before(I, F, o) \cup First(From(I, F, o), limit) = Before(I, F, Place(e, I))
           /\ (\A e \in From(I, F, o) : Place(e, From(I, F, o)) # limit) =>
                  Before(I, F, o) \cup First(From(I, F, o), limit) = I \cap F
  <1> DEFINE got == Before(I, F, o)  C == From(I, F, o)  P == First(C, limit)
  <1>0. /\ got = { e \in I \cap F : Place(e, I) < o }
        /\ C = { e \in I \cap F : Place(e, I) >= o }
        /\ P = { e \in C : Place(e, C) < limit }
    BY DEF Before, From, First
  <1> HIDE DEF got, C, P
  <1>1. C \in SUBSET I /\ C \in SUBSET Nat
    BY <1>0
  <1>2. IsFiniteSet(C) /\ Cardinality(C) \in Nat
    BY <1>1, FS_Subset, FS_CardinalityType
  <1>3. \A x \in I : Place(x, I) \in Nat
    BY PlacesAre
  <1>4. \A x \in C : Place(x, C) \in Nat /\ Place(x, C) < Cardinality(C)
    BY <1>1, <1>2, PlacesAre
  <1>5. \A x \in I, y \in I : x < y <=> Place(x, I) < Place(y, I)
    BY PlacesOrder
  <1>6. \A x \in C, y \in C : x < y <=> Place(x, C) < Place(y, C)
    BY <1>1, <1>2, PlacesOrder
  <1>7. ASSUME NEW x \in got, NEW y \in P PROVE x < y
    <2>1. Place(x, I) < o /\ Place(y, I) >= o /\ x \in I /\ y \in I
      BY <1>0
    <2>2. Place(x, I) < Place(y, I)
      BY <1>3, <2>1
    <2> QED BY <1>5, <2>1, <2>2
  <1>8. ASSUME NEW e \in C, Place(e, C) = limit
        PROVE  got \cup P = Before(I, F, Place(e, I))
    <2>1. e \in I /\ Place(e, I) >= o /\ Place(e, I) \in Nat
      BY <1>0, <1>3
    <2>2. ASSUME NEW x \in I \cap F, Place(x, I) < Place(e, I) PROVE x \in got \cup P
      <3>1. CASE Place(x, I) < o
        BY <1>0, <3>1
      <3>2. CASE Place(x, I) >= o
        <4>1. x \in C /\ x < e
          BY <1>0, <1>5, <2>1, <2>2, <3>2
        <4>2. Place(x, C) < limit
          BY <1>6, <1>8, <4>1
        <4> QED BY <1>0, <4>1, <4>2
      <3>3. Place(x, I) \in Nat
        BY <1>3
      <3> QED BY <3>1, <3>2, <3>3
    <2>3. ASSUME NEW x \in got PROVE x \in I \cap F /\ Place(x, I) < Place(e, I)
      <3>1. x \in I \cap F /\ Place(x, I) < o /\ Place(x, I) \in Nat
        BY <1>0, <1>3
      <3> QED BY <2>1, <3>1
    <2>4. ASSUME NEW x \in P PROVE x \in I \cap F /\ Place(x, I) < Place(e, I)
      <3>1. x \in C /\ Place(x, C) < Place(e, C) /\ x \in I \cap F
        BY <1>0, <1>8
      <3>2. x < e
        BY <1>6, <3>1
      <3> QED BY <1>5, <2>1, <3>1, <3>2
    <2> QED BY <2>2, <2>3, <2>4 DEF Before
  <1>9. ASSUME \A e \in C : Place(e, C) # limit PROVE got \cup P = I \cap F
    <2>1. ~ (limit < Cardinality(C))
      BY <1>1, <1>2, <1>9, PlacesTaken
    <2>2. limit \in Nat /\ Cardinality(C) <= limit
      BY <1>2, <2>1
    <2>3. \A x \in C : Place(x, C) < limit
      BY <1>2, <1>4, <2>2
    <2>4. P = C
      BY <1>0, <2>3
    <2>5. \A x \in I \cap F : Place(x, I) < o \/ Place(x, I) >= o
      BY <1>3
    <2> QED BY <1>0, <2>4, <2>5
  <1> QED BY <1>7, <1>8, <1>9 DEF got, C, P

-----------------------------------------------------------------------------
(* The invariant is inductive *)

LEMMA InitOK == Init => IInv
  BY DEF Init, IInv, TypeOK, Settled, CallInv, ChainsComplete, PagesInOrder, NoAnswer,
         Idle, NoChain

LEMMA IdleIsNoCall == Idle \notin Calls
  BY QueryConstants DEF Idle, Calls

(* What is published stays published: a chain stays good *)
LEMMA ChainsStay ==
    ASSUME Settled, published \subseteq published', NEW chain \in issued
    PROVE  ChainOK(chain)'
  BY DEF Settled, ChainOK, Place

LEMMA MakePrefixKeeps ==
    ASSUME IInv, NEW e \in Evidence, MakePrefix(e)
    PROVE  IInv'
  <1>1. \A chain \in issued : ChainOK(chain)'
    BY ChainsStay DEF IInv, MakePrefix
  <1>2. TypeOK'
    BY DEF IInv, TypeOK, MakePrefix
  <1>3. Settled'
    BY <1>1 DEF IInv, Settled, MakePrefix
  <1>4. CallInv' /\ ChainsComplete' /\ PagesInOrder'
    BY DEF IInv, CallInv, ChainsComplete, Collected, PagesInOrder, MakePrefix
  <1> QED BY <1>2, <1>3, <1>4 DEF IInv

LEMMA PublishKeeps ==
    ASSUME IInv, NEW e \in Evidence, Publish(e)
    PROVE  IInv'
  <1>1. \A chain \in issued : ChainOK(chain)'
    BY ChainsStay DEF IInv, Publish
  <1>2. TypeOK'
    BY DEF IInv, TypeOK, Publish
  <1>3. Settled'
    BY <1>1 DEF IInv, Settled, Publish
  <1>4. CallInv'
    BY DEF IInv, CallInv, Publish
  <1>5. ChainsComplete' /\ PagesInOrder'
    BY DEF IInv, ChainsComplete, Collected, PagesInOrder, Publish
  <1> QED BY <1>2, <1>3, <1>4, <1>5 DEF IInv

(* A query starts with nothing listed *)
LEMMA StartedKeeps ==
    ASSUME IInv, NEW c \in Calls, Started(c),
           c.first => c.chain = [NoChain EXCEPT !.known = published],
           ~ c.first => c.chain \in issued
    PROVE  IInv'
  <1>1. \A chain \in issued : ChainOK(chain)'
    BY ChainsStay DEF IInv, Started
  <1>2. TypeOK'
    BY DEF IInv, TypeOK, Started
  <1>3. Settled'
    BY <1>1 DEF IInv, Settled, Started
  <1>4. CallInv'
    <2>1. CASE c.first
      <3>1. c.chain.known = published
        BY <2>1 DEF NoChain
      <3> QED BY <2>1, <3>1 DEF IInv, CallInv, Settled, Started
    <2>2. CASE ~ c.first
      BY <2>2 DEF CallInv, Started
    <2> QED BY <2>1, <2>2
  <1>5. ChainsComplete' /\ PagesInOrder'
    BY DEF IInv, ChainsComplete, Collected, PagesInOrder, Started
  <1> QED BY <1>2, <1>3, <1>4, <1>5 DEF IInv

LEMMA FirstPageKeeps ==
    ASSUME IInv, NEW filter \in Filters, NEW limit \in Limits, FirstPage(filter, limit)
    PROVE  IInv'
  <1> DEFINE c == [first |-> TRUE, filter |-> filter, limit |-> limit,
                   chain |-> [NoChain EXCEPT !.known = published]]
  <1>1. published \subseteq Evidence
    BY DEF IInv, TypeOK
  <1>2. [NoChain EXCEPT !.known = published] \in Chains
    BY <1>1 DEF NoChain, Chains, Cursor
  <1>3. c \in Calls /\ c.first /\ c.chain = [NoChain EXCEPT !.known = published]
    BY <1>2 DEF Calls
  <1>4. Started(c)
    BY DEF FirstPage
  <1> HIDE DEF c
  <1> QED BY <1>3, <1>4, StartedKeeps

LEMMA NextPageKeeps ==
    ASSUME IInv, NEW filter \in Filters, NEW limit \in Limits, NEW chain \in issued,
           NextPage(chain, filter, limit)
    PROVE  IInv'
  <1> DEFINE c == [first |-> FALSE, filter |-> filter, limit |-> limit, chain |-> chain]
  <1>1. chain \in Chains
    BY DEF IInv, TypeOK
  <1>2. c \in Calls /\ ~ c.first /\ c.chain \in issued
    BY <1>1 DEF Calls
  <1>3. Started(c)
    BY DEF NextPage
  <1> HIDE DEF c
  <1> QED BY <1>2, <1>3, StartedKeeps

LEMMA ListPrefixKeeps ==
    ASSUME IInv, NEW prefix \in unread, ListPrefix(prefix)
    PROVE  IInv'
  <1>1. \A chain \in issued : ChainOK(chain)'
    BY ChainsStay DEF IInv, ListPrefix
  <1>2. TypeOK'
    BY DEF IInv, TypeOK, ListPrefix
  <1>3. Settled'
    BY <1>1 DEF IInv, Settled, ListPrefix
  <1>4. CallInv'
    BY DEF IInv, CallInv, ListPrefix
  <1>5. ChainsComplete' /\ PagesInOrder'
    BY DEF IInv, ChainsComplete, Collected, PagesInOrder, ListPrefix
  <1> QED BY <1>2, <1>3, <1>4, <1>5 DEF IInv

-----------------------------------------------------------------------------
(* What an accepted query knows when its inventory is complete: the matches  *)
(* before its offset were returned, and nothing it must return is missing    *)

LEMMA WhatItHas ==
    ASSUME IInv, call # Idle, unread = {}, Accepted(call)
    PROVE  LET c == call.chain IN
           /\ c.cursor.offset \in Nat
           /\ c.got = { e \in inventory \cap call.filter :
                          Place(e, inventory) < c.cursor.offset }
           /\ c.known \subseteq inventory
  <1>1. CASE call.first
    <2>1. call.chain = [NoChain EXCEPT !.known = call.chain.known]
      BY <1>1 DEF IInv, CallInv
    <2>2. call.chain.cursor.offset = 0 /\ call.chain.got = {}
      BY <2>1 DEF NoChain
    <2>3. call.chain.known \subseteq inventory
      BY <1>1 DEF IInv, CallInv
    <2>4. \A e \in inventory : Place(e, inventory) \in Nat
      <3>1. inventory \in SUBSET Nat /\ IsFiniteSet(inventory)
        <4>1. inventory \in SUBSET Evidence
          BY DEF IInv, TypeOK
        <4> QED BY <4>1, QueryConstants, FS_Subset
      <3> QED BY <3>1, PlacesAre
    <2>5. \A n \in Nat : ~ (n < 0)
      OBVIOUS
    <2> QED BY <2>2, <2>3, <2>4, <2>5
  <1>2. CASE ~ call.first
    <2>1. call.chain \in issued /\ ChainOK(call.chain)
      BY <1>2 DEF IInv, CallInv, Settled
    <2>2. call.chain.cursor.inventory = inventory /\ call.chain.cursor.filter = call.filter
      BY <1>2 DEF Accepted
    <2> QED BY <2>1, <2>2 DEF ChainOK
  <1> QED BY <1>1, <1>2

LEMMA AnswerKeeps ==
    ASSUME IInv, Answer
    PROVE  IInv'
  <1> DEFINE c == call.chain
             I == inventory
             F == call.filter
             C == Candidates(call)
             P == Page(call)
  <1>1. /\ call \in Calls /\ call # Idle /\ unread = {} /\ call' = Idle
        /\ UNCHANGED <<prefixes, published, unread, inventory>>
    BY DEF Answer, IInv, TypeOK
  <1>2. /\ I \in SUBSET Evidence /\ I \in SUBSET Nat /\ IsFiniteSet(I)
        /\ I \subseteq published /\ published \subseteq Evidence
    <2>1. I \in SUBSET Evidence /\ I \subseteq published /\ published \subseteq Evidence
      BY DEF IInv, TypeOK
    <2> QED BY <2>1, QueryConstants, FS_Subset
  <1>3. F \in Filters /\ F \subseteq Evidence /\ call.limit \in Nat /\ c \in Chains
    BY <1>1, QueryConstants DEF Calls
  <1>4. \A chain \in issued : ChainOK(chain)'
    BY <1>1, ChainsStay DEF IInv
  <1>5. CallInv'
    BY <1>1 DEF CallInv
  <1>6. CASE ~ Accepted(call)
    <2>1. answer' = NoAnswer /\ issued' = issued
      BY <1>6 DEF Answer
    <2>2. TypeOK'
      BY <1>1, <2>1 DEF IInv, TypeOK, NoAnswer
    <2>3. Settled'
      BY <1>1, <1>4, <2>1 DEF IInv, Settled, NoAnswer, Idle, NoChain
    <2>4. ChainsComplete' /\ PagesInOrder'
      BY <2>1 DEF ChainsComplete, PagesInOrder, NoAnswer
    <2> QED BY <1>5, <2>2, <2>3, <2>4 DEF IInv
  <1>7. CASE Accepted(call)
    <2> DEFINE chainAt(next) ==
                   [cursor |-> [inventory |-> I, filter |-> F, offset |-> next],
                    got |-> c.got \cup P, known |-> c.known]
    <2>1. /\ answer' = [of |-> call, page |-> P, last |-> NextOffsets(call) = {}]
          /\ issued' = issued \cup { chainAt(next) : next \in NextOffsets(call) }
      BY <1>7 DEF Answer
    <2>2. /\ c.cursor.offset \in Nat
          /\ c.got = { e \in I \cap F : Place(e, I) < c.cursor.offset }
          /\ c.known \subseteq I
      BY <1>1, <1>7, WhatItHas
    <2>3. /\ c.got = Before(I, F, c.cursor.offset)
          /\ C = From(I, F, c.cursor.offset)
          /\ P = First(C, call.limit)
      BY <2>2 DEF Candidates, Page, Before, From, First
    <2>4. /\ \A x \in c.got, y \in P : x < y
          /\ \A e \in C : Place(e, C) = call.limit =>
                 c.got \cup P = Before(I, F, Place(e, I))
          /\ (\A e \in C : Place(e, C) # call.limit) => c.got \cup P = I \cap F
      <3> DEFINE o == c.cursor.offset  limit == call.limit
                 before == Before(I, F, o)  from == From(I, F, o)
                 first == First(from, limit)
      <3>1. I \in SUBSET Nat /\ IsFiniteSet(I) /\ o \in Nat /\ limit \in Nat
        BY <1>2, <1>3, <2>2
      <3>2. before = c.got /\ from = C /\ first = P
        BY <2>3
      <3> HIDE DEF c, I, F, C, P, o, limit
      <3>3. /\ \A x \in before, y \in first : x < y
            /\ \A e \in from : Place(e, from) = limit =>
                   before \cup first = Before(I, F, Place(e, I))
            /\ (\A e \in from : Place(e, from) # limit) => before \cup first = I \cap F
        BY <3>1, PagesCut
      <3> HIDE DEF before, from, first
      <3> QED BY <3>2, <3>3 DEF limit
    <2>5. NextOffsets(call) = { Place(e, I) : e \in { e \in C : Place(e, C) = call.limit } }
      BY DEF NextOffsets
    <2>6. C \subseteq I \cap F /\ P \subseteq I \cap F /\ c.got \subseteq I \cap F
      BY <2>3 DEF Before, From, First
    <2>7. ASSUME NEW next \in NextOffsets(call), NEW chain, chain = chainAt(next)
          PROVE  ChainOK(chain) /\ chain \in Chains
      <3>1. PICK e \in C : Place(e, C) = call.limit /\ next = Place(e, I)
        BY <2>5
      <3>2. e \in I \cap F /\ next \in Nat
        BY <1>2, <2>6, <3>1, PlacesAre
      <3>3. c.got \cup P = { x \in I \cap F : Place(x, I) < next }
        BY <2>4, <3>1 DEF Before
      <3>4. c.got \cup P \subseteq Evidence /\ c.known \subseteq Evidence
        BY <1>2, <2>2, <2>6
      <3> HIDE DEF c, I, F, C, P
      <3>5. /\ chain.cursor.inventory = I /\ chain.cursor.filter = F
            /\ chain.cursor.offset = next
            /\ chain.got = c.got \cup P /\ chain.known = c.known
        BY <2>7
      <3>6. chain \in Chains
        BY <1>2, <1>3, <2>7, <3>2, <3>4 DEF Chains, Cursor
      <3>7. ChainOK(chain)
        <4> HIDE DEF chainAt
        <4> QED BY <1>2, <1>3, <2>2, <3>1, <3>2, <3>3, <3>5 DEF ChainOK
      <3> QED BY <3>6, <3>7
    <2>8. TypeOK'
      <3>1. answer'.page = P
        BY <2>1
      <3>2. issued \subseteq Chains
        BY DEF IInv, TypeOK
      <3>3. issued' \subseteq Chains
        BY <2>1, <2>7, <3>2
      <3>4. P \subseteq published
        BY <1>2, <2>6
      <3> HIDE DEF P
      <3> QED BY <1>1, <3>1, <3>3, <3>4 DEF IInv, TypeOK
    <2>9. Settled'
      <3>1. answer'.of.chain.got = c.got
        BY <2>1
      <3>2. c.got \subseteq published
        BY <1>2, <2>6
      <3>3. ASSUME NEW chain \in issued' PROVE ChainOK(chain)'
        <4>1. CASE chain \in issued
          BY <1>4, <4>1
        <4>2. CASE chain \notin issued
          <5>1. PICK next \in NextOffsets(call) : chain = chainAt(next)
            BY <2>1, <4>2
          <5>2. ChainOK(chain)
            BY <2>7, <5>1
          <5> QED BY <1>1, <5>2 DEF ChainOK, Place
        <4> QED BY <4>1, <4>2
      <3> HIDE DEF c
      <3> QED BY <1>1, <3>1, <3>2, <3>3 DEF IInv, Settled
    <2>10. PagesInOrder'
      BY <2>1, <2>4 DEF PagesInOrder
    <2>11. ChainsComplete'
      <3> SUFFICES ASSUME answer'.last
                   PROVE  /\ c.known \cap F \subseteq c.got \cup P
                          /\ c.got \cup P \subseteq published \cap F
        BY <1>1, <2>1 DEF ChainsComplete, Collected
      <3>1. \A e \in C : Place(e, C) # call.limit
        BY <2>1, <2>5
      <3>2. c.got \cup P = I \cap F
        BY <2>4, <3>1
      <3> HIDE DEF c, I, F, C, P
      <3> QED BY <1>2, <2>2, <3>2
    <2> QED BY <1>5, <2>8, <2>9, <2>10, <2>11 DEF IInv
  <1> QED BY <1>6, <1>7

LEMMA StepKeeps == IInv /\ [Next]_vars => IInv'
  <1> SUFFICES ASSUME IInv, [Next]_vars PROVE IInv'
    OBVIOUS
  <1>1. CASE \E e \in Evidence : MakePrefix(e) \/ Publish(e)
    BY <1>1, MakePrefixKeeps, PublishKeeps
  <1>2. CASE \E filter \in Filters, limit \in Limits :
                \/ FirstPage(filter, limit)
                \/ \E chain \in issued : NextPage(chain, filter, limit)
    BY <1>2, FirstPageKeeps, NextPageKeeps
  <1>3. CASE \E prefix \in unread : ListPrefix(prefix)
    BY <1>3, ListPrefixKeeps
  <1>4. CASE Answer
    BY <1>4, AnswerKeeps
  <1>5. CASE UNCHANGED vars
    BY <1>5 DEF vars, IInv, TypeOK, Settled, ChainOK, CallInv, ChainsComplete, Collected,
                PagesInOrder, Place
  <1> QED BY <1>1, <1>2, <1>3, <1>4, <1>5 DEF Next

(* The invariant that carries all four properties of a paged query holds *)
THEOREM Inductive == Spec => []IInv
  <1> QED BY InitOK, StepKeeps, PTL DEF Spec

-----------------------------------------------------------------------------
(* Queries and chains keep their shape, and a page returns published         *)
(* evidence only (EvidenceRepository.query)                                  *)
THEOREM QueriesKeepTheirShape == Spec => []TypeOK
  <1>1. IInv => TypeOK
    BY DEF IInv
  <1> QED BY Inductive, <1>1, PTL

(* A chain of pages that ends has returned every match that was published   *)
(* when it began, and nothing else: query with its _decode_cursor           *)
THEOREM EndedChainsAreComplete == Spec => []ChainsComplete
  <1>1. IInv => ChainsComplete
    BY DEF IInv
  <1> QED BY Inductive, <1>1, PTL

(* No page repeats or precedes what its chain returned before               *)
THEOREM PagesComeInOrder == Spec => []PagesInOrder
  <1>1. IInv => PagesInOrder
    BY DEF IInv
  <1> QED BY Inductive, <1>1, PTL

(* A cursor names a match that its chain has not returned                   *)
THEOREM CursorsHaveAPage == Spec => []CursorsLeadSomewhere
  <1>1. IInv => CursorsLeadSomewhere
    <2> SUFFICES ASSUME IInv, NEW chain \in issued
                 PROVE  \E e \in chain.cursor.inventory \cap chain.cursor.filter :
                            /\ Place(e, chain.cursor.inventory) = chain.cursor.offset
                            /\ e \notin chain.got
      BY DEF CursorsLeadSomewhere
    <2>1. ChainOK(chain)
      BY DEF IInv, Settled
    <2>2. \A n \in Nat : ~ (n < n)
      OBVIOUS
    <2> QED BY <2>1, <2>2 DEF ChainOK
  <1> QED BY Inductive, <1>1, PTL
=============================================================================
