------------------------- MODULE AnalysisPagesProofs -------------------------
(***************************************************************************)
(* What the session's lock and its caches keep, for any number of clients,  *)
(* any cases, any versions of any sources and caches of any size.           *)
(***************************************************************************)
EXTENDS AnalysisPages, TLAPS

Count == Len(case.sources)

CaseOK ==
    /\ Count \in Nat /\ Sources = 1..Count /\ case.clients \subseteq Clients
    /\ \A s \in Sources : Len(case.sources[s]) \in Nat \ {0}
                          /\ DOMAIN case.sources[s] = 1..Len(case.sources[s])

WorkOK ==
    /\ DOMAIN work = {"stage", "limit", "asked", "seen", "tool", "read", "table", "fresh", "checked"}
    /\ work.stage \in {"idle", "resolve", "identified", "read", "page", "verify"}
    /\ work.seen \in Seq(Nat) /\ work.read \in Seq(Nat) /\ work.checked \in Nat

JobOK == DOMAIN job = {"stage", "exit", "answer", "response"}

CacheOK(cache, max) == cache \in Seq(ToSet(cache)) /\ Len(cache) <= max

Shape ==
    /\ CaseOK /\ WorkOK /\ JobOK
    /\ file \in [Sources -> Nat] /\ \A s \in Sources : file[s] \in DOMAIN case.sources[s]
    /\ tool \in 1..2
    /\ queue \in Seq(Clients)
    /\ CacheOK(projections, MaxProjections) /\ CacheOK(analyses, MaxAnalyses)

(* A process runs for the holder, while it has a source to read *)
JobInv ==
    /\ job.stage = "none" => roots = {}
    /\ job.stage # "none" => At("read") /\ case.format \in WorkerFormats
    /\ job.stage = "started" => Len(work.read) < Count

(* The lock is held by the head of the queue *)
LockInv ==
    /\ work.stage # "idle" => queue # <<>>
    /\ ThreadsHoldTheLock

(* What was hashed first is not newer than what was read, and that is not   *)
(* newer than what is there now                                             *)
HashInv ==
    /\ Len(work.seen) <= Count
    /\ \A s \in 1..Len(work.seen) : work.seen[s] <= file[s]
    /\ work.stage \in {"identified", "read", "page", "verify"} => Len(work.seen) = Count

ReadInv ==
    /\ Len(work.read) <= Count
    /\ work.read # <<>> => work.stage \in {"read", "page", "verify"}
    /\ \A s \in 1..Len(work.read) : work.seen[s] <= work.read[s] /\ work.read[s] <= file[s]

(* A source that was found unchanged was read as it was hashed *)
CheckInv ==
    /\ work.checked <= Count
    /\ work.checked # 0 => work.stage = "verify"
    /\ \A s \in 1..work.checked : s <= Len(work.read) => work.read[s] = work.seen[s]

TableInv ==
    work.stage \in {"page", "verify"} /\ case.format # "preview" =>
        \/ work.read = <<>> /\ work.table = decoded[work.seen]
        \/ Len(work.read) = Count /\ work.table = decoded[work.read]

(* Conversions of this request are of the version it read *)
FreshInv ==
    \A k \in work.fresh :
        /\ work.read # <<>> /\ Count > 0
        /\ k[1] = work.seen[1] /\ conversions[k] = work.read[1]
        /\ work.stage \in {"page", "verify"} => Len(work.read) = Count

RequestInv == HashInv /\ ReadInv /\ CheckInv /\ TableInv /\ FreshInv

IInv == Shape /\ JobInv /\ LockInv /\ RequestInv /\ CachesTrue

-----------------------------------------------------------------------------
(* Sequences *)

LEMMA OwnElements ==
    ASSUME NEW S, NEW q \in Seq(S)
    PROVE  q \in Seq(ToSet(q)) /\ ToSet(q) \subseteq S
  <1>1. \A i \in 1..Len(q) : q[i] \in S /\ q[i] \in ToSet(q)
    BY DEF ToSet
  <1>2. DOMAIN q = 1..Len(q)
    OBVIOUS
  <1> QED BY <1>1, <1>2 DEF ToSet

LEMMA RemovedAt ==
    ASSUME NEW S, NEW q \in Seq(S), NEW i \in DOMAIN q
    PROVE  /\ RemoveAt(q, i) \in Seq(S)
           /\ Len(RemoveAt(q, i)) = Len(q) - 1
           /\ i # 1 => RemoveAt(q, i) # <<>> /\ Head(RemoveAt(q, i)) = Head(q)
  <1>1. i \in 1..Len(q) /\ Len(q) \in Nat
    OBVIOUS
  <1> DEFINE front == SubSeq(q, 1, i - 1)  back == SubSeq(q, i + 1, Len(q))
  <1>2. front \in Seq(S) /\ Len(front) = i - 1 /\ back \in Seq(S) /\ Len(back) = Len(q) - i
    BY <1>1
  <1>3. i # 1 => front[1] = q[1]
    BY <1>1
  <1>4. RemoveAt(q, i) = front \o back
    BY DEF RemoveAt
  <1> HIDE DEF front, back
  <1>5. front \o back \in Seq(S) /\ Len(front \o back) = Len(q) - 1
    BY <1>1, <1>2
  <1>6. i # 1 => (front \o back)[1] = q[1] /\ front \o back # <<>>
    BY <1>1, <1>2, <1>3, <1>5
  <1> QED BY <1>1, <1>4, <1>5, <1>6

LEMMA WithoutKept ==
    ASSUME NEW S, NEW cache \in Seq(S), NEW key
    PROVE  /\ Without(cache, key) \in Seq(S)
           /\ Len(Without(cache, key)) <= Len(cache)
           /\ Holds(cache, key) => Len(Without(cache, key)) = Len(cache) - 1
                                   /\ Entry(cache, key) \in S /\ Entry(cache, key).key = key
  <1>1. CASE Holds(cache, key)
    <2>1. PlaceOf(cache, key) \in DOMAIN cache /\ cache[PlaceOf(cache, key)].key = key
      BY <1>1 DEF Holds, PlaceOf
    <2>2. Entry(cache, key) \in S /\ Entry(cache, key).key = key
      BY <2>1 DEF Entry
    <2> QED BY <1>1, <2>1, <2>2, RemovedAt DEF Without
  <1>2. CASE ~ Holds(cache, key)
    BY <1>2 DEF Without
  <1> QED BY <1>1, <1>2

(* Using an entry keeps a cache as it is but for the order *)
LEMMA UsedKept ==
    ASSUME NEW cache, NEW max \in Nat, CacheOK(cache, max), NEW key, Holds(cache, key)
    PROVE  CacheOK(Used(cache, key), max) /\ ToSet(Used(cache, key)) \subseteq ToSet(cache)
  <1> DEFINE S == ToSet(cache)
  <1>1. cache \in Seq(S) /\ Len(cache) <= max
    BY DEF CacheOK
  <1> HIDE DEF S
  <1>2. Without(cache, key) \in Seq(S) /\ Len(Without(cache, key)) = Len(cache) - 1
        /\ Entry(cache, key) \in S
    BY <1>1, WithoutKept
  <1>3. Used(cache, key) \in Seq(S) /\ Len(Used(cache, key)) = Len(cache)
    BY <1>1, <1>2 DEF Used
  <1> QED BY <1>1, <1>3, OwnElements DEF CacheOK, S

(* Storing an entry adds nothing else, and keeps the bound *)
LEMMA StoredKept ==
    ASSUME NEW cache, NEW max \in Nat \ {0}, CacheOK(cache, max), NEW key, NEW value
    PROVE  /\ CacheOK(Stored(cache, key, value, max), max)
           /\ ToSet(Stored(cache, key, value, max))
                \subseteq ToSet(cache) \cup {[key |-> key, value |-> value]}
  <1> DEFINE e == [key |-> key, value |-> value]
             S == ToSet(cache) \cup {e}
             all == Append(Without(cache, key), e)
             first == Max({1, Len(all) - max + 1})
  <1>1. cache \in Seq(S)
    <2>1. cache \in Seq(ToSet(cache))
      BY DEF CacheOK
    <2> QED BY <2>1
  <1>2. Without(cache, key) \in Seq(S)
    BY <1>1, WithoutKept
  <1>3. all \in Seq(S) /\ Len(all) \in Nat
    BY <1>2
  <1>4. first \in Nat /\ first >= 1 /\ first >= Len(all) - max + 1
    <2> DEFINE a == Len(all) - max + 1
    <2>1. a \in Int
      BY <1>3
    <2> HIDE DEF a
    <2>2. \E x \in {1, a} : \A y \in {1, a} : x >= y
      BY <2>1
    <2>3. Max({1, a}) \in {1, a} /\ \A y \in {1, a} : Max({1, a}) >= y
      BY <2>2 DEF Max
    <2> QED BY <2>1, <2>3 DEF a
  <1>5. Stored(cache, key, value, max) = SubSeq(all, first, Len(all))
    BY DEF Stored
  <1> HIDE DEF first, all, S
  <1>6. SubSeq(all, first, Len(all)) \in Seq(S) /\ Len(SubSeq(all, first, Len(all))) <= max
    BY <1>3, <1>4
  <1> QED BY <1>5, <1>6, OwnElements DEF CacheOK, S

-----------------------------------------------------------------------------
LEMMA InitOK == Init => IInv
  <1> SUFFICES ASSUME Init PROVE IInv
    OBVIOUS
  <1>1. CaseOK
    BY CasesHaveShape DEF Init, CaseOK, Count, Sources
  <1>2. work = Idle /\ WorkOK /\ work.stage = "idle" /\ work.seen = <<>> /\ work.read = <<>>
        /\ work.fresh = {} /\ work.checked = 0
    BY DEF Init, WorkOK, Idle
  <1>3. job = NoJob /\ roots = {} /\ JobOK /\ job.stage = "none"
    BY DEF Init, JobInit, JobOK, NoJob
  <1>4. CacheOK(projections, MaxProjections) /\ CacheOK(analyses, MaxAnalyses)
    BY CachesHold DEF Init, CacheOK
  <1>5. Shape
    BY <1>1, <1>2, <1>3, <1>4 DEF Shape, Init, CaseOK
  <1>6. JobInv /\ LockInv
    BY <1>2, <1>3 DEF Init, JobInv, LockInv, ThreadsHoldTheLock
  <1>7. RequestInv
    BY <1>1, <1>2 DEF RequestInv, HashInv, ReadInv, CheckInv, TableInv, FreshInv, CaseOK
  <1>8. CachesTrue
    BY DEF Init, CachesTrue, ToSet
  <1> QED BY <1>5, <1>6, <1>7, <1>8 DEF IInv

(* The thread goes on *)
LEMMA WorkStep ==
    ASSUME IInv, queue # <<>>, UNCHANGED <<case, file, tool, queue, cancelled>>,
           WorkOK', JobOK',
           CacheOK(projections, MaxProjections)', CacheOK(analyses, MaxAnalyses)',
           work'.stage # "idle",
           roots' \subseteq (IF work'.stage = "read" THEN {Holder} ELSE {})
    PROVE  Shape' /\ LockInv'
  <1>1. Shape'
    BY DEF IInv, Shape, CaseOK, Count, Sources
  <1>2. work' # Idle
    BY DEF Idle
  <1>3. cancelled \subseteq {Holder}
    BY DEF IInv, LockInv, ThreadsHoldTheLock
  <1>4. LockInv'
    BY <1>2, <1>3 DEF LockInv, ThreadsHoldTheLock, At, Holder
  <1> QED BY <1>1, <1>4

(* The thread ends with an answer *)
LEMMA AnsweredOK ==
    ASSUME IInv, queue # <<>>, NEW answer, Answer(answer),
           UNCHANGED <<case, decoded, file, tool>>,
           JobOK', job'.stage = "none", roots' = {},
           CacheOK(projections, MaxProjections)', CacheOK(analyses, MaxAnalyses)', CachesTrue'
    PROVE  IInv'
  <1>1. work' = Idle /\ queue' = Tail(queue) /\ cancelled' = cancelled \ {Holder}
    BY DEF Answer
  <1>2. WorkOK' /\ work'.stage = "idle" /\ work'.seen = <<>> /\ work'.read = <<>>
        /\ work'.fresh = {} /\ work'.checked = 0
    BY <1>1 DEF WorkOK, Idle
  <1>3. queue' \in Seq(Clients)
    BY <1>1 DEF IInv, Shape
  <1>4. Shape'
    BY <1>2, <1>3 DEF IInv, Shape, CaseOK, Count, Sources
  <1>5. cancelled' = {}
    BY <1>1 DEF IInv, LockInv, ThreadsHoldTheLock
  <1>6. JobInv' /\ LockInv'
    BY <1>1, <1>2, <1>5 DEF JobInv, LockInv, ThreadsHoldTheLock
  <1>7. Count' \in Nat
    BY <1>4 DEF Shape, CaseOK
  <1>8. RequestInv'
    BY <1>2, <1>7 DEF RequestInv, HashInv, ReadInv, CheckInv, TableInv, FreshInv
  <1> QED BY <1>4, <1>6, <1>8 DEF IInv

(* A failed request leaves its conversions to nobody *)
LEMMA FailedOK ==
    ASSUME IInv, queue # <<>>, NEW code, Fail(code),
           UNCHANGED <<case, decoded, file, tool>>,
           JobOK', job'.stage = "none", roots' = {}
    PROVE  IInv'
  <1>1. UNCHANGED <<projections, analyses>>
        /\ conversions' = [k \in DOMAIN conversions \ work.fresh |-> conversions[k]]
        /\ Answer([NoReply EXCEPT !.status = code])
    BY DEF Fail
  <1>2. CachesTrue'
    <2>1. CachesTrue
      BY DEF IInv
    <2>2. \A k \in DOMAIN conversions' : conversions'[k] = k[1]
      BY <1>1, <2>1 DEF CachesTrue
    <2> QED BY <1>1, <2>1, <2>2 DEF CachesTrue
  <1>3. CacheOK(projections, MaxProjections)' /\ CacheOK(analyses, MaxAnalyses)'
    BY <1>1 DEF IInv, Shape, CacheOK
  <1> QED BY <1>1, <1>2, <1>3, AnsweredOK

LEMMA QuietJob ==
    ASSUME IInv, UNCHANGED jobVars, job.stage = "none"
    PROVE  JobOK' /\ job'.stage = "none" /\ roots' = {}
  BY DEF IInv, Shape, JobInv, JobOK, jobVars

-----------------------------------------------------------------------------
(* The world and the queue *)

LEMMA EditOK == ASSUME IInv, NEW s \in Sources, Edit(s) PROVE IInv'
  <1>1. Shape /\ CaseOK
    BY DEF IInv, Shape
  <1>2. file' = [file EXCEPT ![s] = @ + 1] /\ file[s] < Len(case.sources[s])
        /\ UNCHANGED <<case, decoded, tool, work, sessionVars, clientVars, jobVars>>
    BY DEF Edit
  <1>3. /\ file' \in [Sources -> Nat]
        /\ \A t \in Sources : file[t] <= file'[t] /\ file'[t] \in DOMAIN case.sources[t]
    BY <1>1, <1>2 DEF Shape, CaseOK
  <1>4. Shape'
    <2>1. UNCHANGED <<case, tool, work, queue, projections, analyses, job>>
      BY <1>2 DEF sessionVars, clientVars, jobVars
    <2>2. CaseOK' /\ WorkOK' /\ JobOK' /\ Sources' = Sources
      BY <1>1, <2>1 DEF Shape, CaseOK, Count, Sources, WorkOK, JobOK
    <2>3. CacheOK(projections, MaxProjections)' /\ CacheOK(analyses, MaxAnalyses)'
      BY <1>1, <2>1 DEF Shape, CacheOK
    <2>4. \A t \in Sources' : file'[t] \in DOMAIN case'.sources[t]
      BY <1>3, <2>1, <2>2
    <2>5. tool' \in 1..2 /\ queue' \in Seq(Clients) /\ file' \in [Sources' -> Nat]
      BY <1>1, <1>3, <2>1, <2>2 DEF Shape
    <2> QED BY <2>2, <2>3, <2>4, <2>5 DEF Shape
  <1>5. JobInv' /\ LockInv' /\ CachesTrue'
    BY <1>2 DEF IInv, JobInv, LockInv, ThreadsHoldTheLock, CachesTrue, At, Holder, Count,
       sessionVars, clientVars, jobVars
  <1>6. HashInv'
    <2>1. HashInv
      BY DEF IInv, RequestInv
    <2>2. \A t \in 1..Len(work.seen) : work.seen[t] \in Nat /\ t \in Sources
      BY <1>1, <2>1 DEF Shape, CaseOK, WorkOK, HashInv
    <2>3. ASSUME NEW t \in 1..Len(work.seen) PROVE work.seen[t] <= file'[t]
      <3>1. t \in Sources /\ work.seen[t] \in Nat /\ work.seen[t] <= file[t]
        BY <2>1, <2>2 DEF HashInv
      <3>2. file[t] \in Nat /\ file'[t] \in Nat /\ file[t] <= file'[t]
        BY <1>1, <1>3, <3>1 DEF Shape
      <3> QED BY <3>1, <3>2
    <2> QED BY <1>2, <2>1, <2>3 DEF HashInv, Count
  <1>7. ReadInv'
    <2>1. ReadInv
      BY DEF IInv, RequestInv
    <2>2. \A t \in 1..Len(work.read) : work.read[t] \in Nat /\ t \in Sources
      BY <1>1, <2>1 DEF Shape, CaseOK, WorkOK, ReadInv
    <2>3. ASSUME NEW t \in 1..Len(work.read) PROVE work.read[t] <= file'[t]
      <3>1. t \in Sources /\ work.read[t] \in Nat /\ work.read[t] <= file[t]
        BY <2>1, <2>2 DEF ReadInv
      <3>2. file[t] \in Nat /\ file'[t] \in Nat /\ file[t] <= file'[t]
        BY <1>1, <1>3, <3>1 DEF Shape
      <3> QED BY <3>1, <3>2
    <2> QED BY <1>2, <2>1, <2>3 DEF ReadInv, Count
  <1>8. CheckInv' /\ TableInv' /\ FreshInv'
    BY <1>2 DEF IInv, RequestInv, CheckInv, TableInv, FreshInv, Count, sessionVars
  <1> QED BY <1>4, <1>5, <1>6, <1>7, <1>8 DEF IInv, RequestInv

LEMMA UpdateToolOK == ASSUME IInv, UpdateTool PROVE IInv'
  <1>1. UNCHANGED <<case, decoded, file, work, sessionVars, clientVars, jobVars>> /\ tool' = 2
    BY DEF UpdateTool
  <1>2. Shape'
    <2>1. UNCHANGED <<case, file, work, queue, projections, analyses, job>> /\ tool' \in 1..2
      BY <1>1 DEF sessionVars, clientVars, jobVars
    <2>2. Shape
      BY DEF IInv
    <2>3. CaseOK' /\ WorkOK' /\ JobOK' /\ Sources' = Sources
      BY <2>1, <2>2 DEF Shape, CaseOK, Count, Sources, WorkOK, JobOK
    <2>4. CacheOK(projections, MaxProjections)' /\ CacheOK(analyses, MaxAnalyses)'
      BY <2>1, <2>2 DEF Shape, CacheOK
    <2> QED BY <2>1, <2>2, <2>3, <2>4 DEF Shape
  <1>3. JobInv' /\ LockInv' /\ CachesTrue'
    BY <1>1 DEF IInv, JobInv, LockInv, ThreadsHoldTheLock, CachesTrue, At, Holder, Count,
       sessionVars, clientVars, jobVars
  <1>4. RequestInv'
    BY <1>1 DEF IInv, RequestInv, HashInv, ReadInv, CheckInv, TableInv, FreshInv, Count, sessionVars
  <1> QED BY <1>2, <1>3, <1>4 DEF IInv

(* Clients come and go behind the holder, and the holder only when there is *)
(* no thread                                                                *)
LEMMA QueueStep ==
    ASSUME IInv, queue' \in Seq(Clients),
           UNCHANGED <<case, decoded, file, tool, work, sessionVars, jobVars>>,
           queue # <<>> /\ work # Idle => queue' # <<>> /\ Head(queue') = Head(queue),
           cancelled' \subseteq cancelled \cup (IF work # Idle THEN {Holder} ELSE {})
    PROVE  IInv'
  <1>1. Shape'
    BY DEF IInv, Shape, CaseOK, Count, Sources, WorkOK, JobOK, CacheOK, sessionVars, jobVars
  <1>2. work # Idle => queue # <<>>
    BY DEF IInv, LockInv, ThreadsHoldTheLock
  <1>3. work.stage # "idle" => work # Idle
    BY DEF Idle
  <1>4. ASSUME At("read") PROVE At("read")' /\ Holder' = Holder
    BY <1>2, <1>3, <1>4 DEF At, Holder
  <1>5. JobInv'
    BY <1>4 DEF IInv, JobInv, Count, jobVars
  <1>6. roots' \subseteq (IF At("read") THEN {Holder} ELSE {})'
    BY <1>4 DEF IInv, LockInv, ThreadsHoldTheLock, jobVars
  <1>7. cancelled' \subseteq (IF work # Idle THEN {Holder} ELSE {})'
    <2>1. cancelled' \subseteq (IF work # Idle THEN {Holder} ELSE {})
      BY DEF IInv, LockInv, ThreadsHoldTheLock
    <2> QED BY <1>2, <2>1 DEF Holder
  <1>8. LockInv'
    BY <1>2, <1>3, <1>6, <1>7 DEF LockInv, ThreadsHoldTheLock
  <1>9. RequestInv' /\ CachesTrue'
    BY DEF IInv, RequestInv, HashInv, ReadInv, CheckInv, TableInv, FreshInv, CachesTrue, Count,
       sessionVars
  <1> QED BY <1>1, <1>5, <1>8, <1>9 DEF IInv

LEMMA JoinOK ==
    ASSUME IInv, NEW c \in case.clients, queue' = Append(queue, c), UNCHANGED cancelled,
           UNCHANGED <<case, decoded, file, tool, work, sessionVars, jobVars>>
    PROVE  IInv'
  <1>1. queue \in Seq(Clients) /\ c \in Clients
    BY DEF IInv, Shape, CaseOK
  <1>2. queue' \in Seq(Clients) /\ (queue # <<>> => queue' # <<>> /\ Head(queue') = Head(queue))
    BY <1>1
  <1> QED BY <1>2, QueueStep

LEMMA AskOK == ASSUME IInv, NEW c \in case.clients, NEW limit, Ask(c, limit) PROVE IInv'
  BY JoinOK DEF Ask

LEMMA FollowOK == ASSUME IInv, NEW c \in case.clients, NEW limit, Follow(c, limit) PROVE IInv'
  BY JoinOK DEF Follow

LEMMA CancelOK == ASSUME IInv, NEW c \in case.clients, Cancel(c) PROVE IInv'
  <1>1. queue \in Seq(Clients) /\ UNCHANGED <<case, decoded, file, tool, work, sessionVars, jobVars>>
    BY DEF IInv, Shape, Cancel
  <1>2. CASE c = Head(queue) /\ work # Idle
    <2>1. cancelled' = cancelled \cup {Holder} /\ UNCHANGED queue
      BY <1>2 DEF Cancel, Holder
    <2> QED BY <1>1, <1>2, <2>1, QueueStep
  <1>3. CASE ~ (c = Head(queue) /\ work # Idle)
    <2>1. queue' = RemoveAt(queue, Place(c)) /\ UNCHANGED cancelled /\ c \in ToSet(queue)
      BY <1>3 DEF Cancel
    <2>2. Place(c) \in DOMAIN queue /\ queue[Place(c)] = c
      BY <2>1 DEF Place, ToSet
    <2>3. Place(c) = 1 => c = Head(queue)
      BY <1>1, <2>2
    <2>4. queue' \in Seq(Clients)
          /\ (Place(c) # 1 => queue' # <<>> /\ Head(queue') = Head(queue))
      BY <1>1, <2>1, <2>2, RemovedAt
    <2> QED BY <1>1, <1>3, <2>1, <2>3, <2>4, QueueStep
  <1> QED BY <1>2, <1>3

-----------------------------------------------------------------------------
(* The thread *)

(* What a step of the thread works with *)
LEMMA Working ==
    ASSUME IInv
    PROVE  /\ Shape /\ CaseOK /\ WorkOK /\ JobInv /\ HashInv /\ ReadInv /\ CheckInv /\ TableInv
           /\ FreshInv /\ CachesTrue /\ LockInv
           /\ Count \in Nat /\ Sources = 1..Count
           /\ \A s \in Sources : file[s] \in Nat
           /\ roots \subseteq (IF work.stage = "read" THEN {Holder} ELSE {})
           /\ work.stage \notin {"read"} => job.stage = "none" /\ roots = {}
  BY DEF IInv, RequestInv, Shape, CaseOK, LockInv, ThreadsHoldTheLock, JobInv, At

(* The thread goes on without the caches, and without a process *)
LEMMA QuietStep ==
    ASSUME IInv, queue # <<>>,
           UNCHANGED <<case, file, tool, clientVars, projections, analyses>>, UNCHANGED jobVars,
           WorkOK', work'.stage # "idle", job.stage = "none"
    PROVE  Shape' /\ LockInv' /\ JobInv'
  <1>1. JobOK' /\ job'.stage = "none" /\ roots' = {}
    BY QuietJob
  <1>2. CacheOK(projections, MaxProjections)' /\ CacheOK(analyses, MaxAnalyses)'
    BY DEF IInv, Shape, CacheOK
  <1>3. Shape' /\ LockInv'
    BY <1>1, <1>2, WorkStep DEF clientVars
  <1> QED BY <1>1, <1>3 DEF JobInv

LEMMA AcquireOK == ASSUME IInv, Acquire PROVE IInv'
  <1>1. queue # <<>> /\ work.stage = "idle" /\ job.stage = "none"
        /\ UNCHANGED <<case, decoded, file, tool, sessionVars, clientVars, jobVars>>
    BY Working DEF Acquire, At
  <1>2. /\ work' = [Idle EXCEPT !.stage = "resolve", !.limit = reply[Holder].limit,
                                !.asked = reply[Holder].asked]
        /\ DOMAIN Idle = {"stage", "limit", "asked", "seen", "tool", "read", "table", "fresh", "checked"}
        /\ Idle.seen = <<>> /\ Idle.read = <<>> /\ Idle.fresh = {} /\ Idle.checked = 0
    BY DEF Acquire, Idle
  <1>3. work'.stage = "resolve" /\ work'.seen = <<>> /\ work'.read = <<>> /\ work'.fresh = {}
        /\ work'.checked = 0 /\ WorkOK'
    <2>1. /\ DOMAIN work' = DOMAIN Idle /\ work'.stage = "resolve" /\ work'.seen = Idle.seen
          /\ work'.read = Idle.read /\ work'.fresh = Idle.fresh /\ work'.checked = Idle.checked
      BY <1>2
    <2>2. /\ DOMAIN work' = {"stage", "limit", "asked", "seen", "tool", "read", "table", "fresh", "checked"}
          /\ work'.stage = "resolve" /\ work'.seen = <<>> /\ work'.read = <<>> /\ work'.fresh = {}
          /\ work'.checked = 0
      BY <1>2, <2>1
    <2> QED BY <2>2 DEF WorkOK
  <1>4. Shape' /\ LockInv' /\ JobInv'
    BY <1>1, <1>3, QuietStep DEF sessionVars
  <1>5. Count' \in Nat
    BY <1>4 DEF Shape, CaseOK
  <1>6. RequestInv'
    BY <1>3, <1>5 DEF RequestInv, HashInv, ReadInv, CheckInv, TableInv, FreshInv
  <1>7. CachesTrue'
    BY <1>1, <1>3, Working DEF CachesTrue, sessionVars, IInv, RequestInv, FreshInv, ReadInv
  <1> QED BY <1>4, <1>6, <1>7 DEF IInv

LEMMA ResolveOK == ASSUME IInv, Resolve PROVE IInv'
  <1>1. queue # <<>> /\ work.stage = "resolve" /\ job.stage = "none"
        /\ UNCHANGED <<case, decoded, file, tool, jobVars>>
    BY Working DEF Resolve, At
  <1>2. JobOK' /\ job'.stage = "none" /\ roots' = {}
    BY <1>1, QuietJob
  <1> DEFINE s == Len(work.seen) + 1
  <1>3. CASE Fail("MISSING_OR_CHANGED_INPUT")
    BY <1>1, <1>2, <1>3, FailedOK
  <1>4. CASE work' = [work EXCEPT !.seen = Append(@, file[s])] /\ UNCHANGED <<sessionVars, clientVars>>
    <2>1. s \in Sources /\ file[s] \in Nat
      BY Working DEF Resolve
    <2>2. /\ work'.stage = "resolve" /\ work'.seen = Append(work.seen, file[s])
          /\ work'.read = work.read /\ work'.fresh = work.fresh /\ work'.checked = work.checked
          /\ DOMAIN work' = DOMAIN work
      BY <1>1, <1>4, Working DEF WorkOK
    <2>3. work'.seen \in Seq(Nat) /\ Len(work'.seen) = s
          /\ \A t \in 1..s : work'.seen[t] = IF t = s THEN file[s] ELSE work.seen[t]
      BY <2>1, <2>2, Working DEF WorkOK
    <2>4. WorkOK'
      BY <2>2, <2>3, Working DEF WorkOK
    <2>5. Shape' /\ LockInv' /\ JobInv'
      BY <1>1, <1>4, <2>2, <2>4, QuietStep DEF sessionVars
    <2>6. work.read = <<>> /\ work.checked = 0 /\ work.fresh = {} /\ Count' = Count
      BY <1>1, Working DEF ReadInv, CheckInv, FreshInv, Count
    <2>7. HashInv'
      BY <1>1, <2>1, <2>2, <2>3, <2>6, Working DEF HashInv
    <2>8. ReadInv' /\ CheckInv' /\ TableInv' /\ FreshInv'
      BY <2>2, <2>6, Working DEF ReadInv, CheckInv, TableInv, FreshInv
    <2>9. CachesTrue'
      BY <1>1, <1>4, <2>2, Working DEF CachesTrue, sessionVars
    <2> QED BY <2>5, <2>7, <2>8, <2>9 DEF IInv, RequestInv
  <1> QED BY <1>3, <1>4 DEF Resolve

(* A step that changes neither what was hashed nor what was read *)
LEMMA SameSources ==
    ASSUME IInv, UNCHANGED <<case, decoded, file, conversions>>,
           work'.seen = work.seen, work'.read = work.read, work'.fresh = work.fresh,
           work'.checked = work.checked, WorkOK',
           work'.stage = work.stage \/
           (work.stage = "resolve" /\ Len(work.seen) = Count /\ work'.stage = "identified") \/
           (work.stage = "identified" /\ work'.stage = "read") \/
           (work.stage = "identified" /\ work'.stage = "page") \/
           (work.stage = "page" /\ work'.stage = "verify") \/
           (work.stage = "read" /\ Len(work.read) = Count /\ work'.stage = "page")
    PROVE  HashInv' /\ ReadInv' /\ CheckInv' /\ FreshInv'
  <1>1. Count' = Count
    BY DEF Count
  <1>2. HashInv'
    BY <1>1, Working DEF HashInv
  <1>3. ReadInv'
    BY <1>1, Working DEF ReadInv
  <1>4. CheckInv'
    BY <1>1, Working DEF CheckInv
  <1>5. FreshInv'
    BY <1>1, Working DEF FreshInv, ReadInv
  <1> QED BY <1>2, <1>3, <1>4, <1>5

LEMMA IdentifyOK == ASSUME IInv, Identify PROVE IInv'
  <1>1. queue # <<>> /\ work.stage = "resolve" /\ job.stage = "none" /\ Len(work.seen) = Count
        /\ UNCHANGED <<case, decoded, file, tool, sessionVars, clientVars, jobVars>>
    BY Working DEF Identify, At, Count
  <1>2. /\ work'.stage = "identified" /\ work'.seen = work.seen /\ work'.read = work.read
        /\ work'.fresh = work.fresh /\ work'.checked = work.checked /\ WorkOK'
    BY Working DEF Identify, WorkOK
  <1>3. Shape' /\ LockInv' /\ JobInv'
    BY <1>1, <1>2, QuietStep DEF sessionVars
  <1>4. HashInv' /\ ReadInv' /\ CheckInv' /\ FreshInv'
    BY <1>1, <1>2, SameSources DEF sessionVars
  <1>5. TableInv' /\ CachesTrue'
    BY <1>1, <1>2, Working DEF TableInv, CachesTrue, sessionVars
  <1> QED BY <1>3, <1>4, <1>5 DEF IInv, RequestInv

LEMMA LookOK == ASSUME IInv, Look PROVE IInv'
  <1>1. queue # <<>> /\ work.stage = "identified" /\ job.stage = "none"
        /\ UNCHANGED <<case, decoded, file, tool, jobVars>>
    BY Working DEF Look, At
  <1>2. JobOK' /\ job'.stage = "none" /\ roots' = {}
    BY <1>1, QuietJob
  <1>3. work.read = <<>> /\ work.fresh = {}
    BY <1>1, Working DEF ReadInv, FreshInv
  <1>4. /\ CacheOK(projections, MaxProjections) /\ CacheOK(analyses, MaxAnalyses)
        /\ MaxProjections \in Nat /\ MaxAnalyses \in Nat
    BY CachesHold DEF IInv, Shape
  <1>5. CASE Fail("INVALID_INPUT")
    BY <1>1, <1>2, <1>5, FailedOK
  <1> DEFINE page == <<Identified, Offset>>
  <1>6. CASE /\ Holds(analyses, page) /\ Answer(Entry(analyses, page).value)
             /\ analyses' = Used(analyses, page) /\ UNCHANGED <<projections, conversions>>
    <2>1. CacheOK(analyses, MaxAnalyses)' /\ ToSet(analyses') \subseteq ToSet(analyses)
      BY <1>4, <1>6, UsedKept
    <2>2. CacheOK(projections, MaxProjections)'
      BY <1>4, <1>6 DEF CacheOK
    <2>3. CachesTrue'
      BY <1>1, <1>3, <1>6, <2>1, Working DEF CachesTrue
    <2> HIDE DEF page
    <2> QED BY <1>1, <1>2, <1>6, <2>1, <2>2, <2>3, AnsweredOK
  <1>7. CASE /\ IF Holds(projections, Identified)
                THEN /\ work' = [work EXCEPT !.stage = "page",
                                             !.table = Entry(projections, Identified).value]
                     /\ projections' = Used(projections, Identified)
                ELSE work' = [work EXCEPT !.stage = "read"] /\ UNCHANGED projections
             /\ UNCHANGED <<analyses, conversions, clientVars>>
    <2>1. /\ work'.stage \in {"read", "page"} /\ work'.seen = work.seen /\ work'.read = work.read
          /\ work'.fresh = work.fresh /\ work'.checked = work.checked /\ WorkOK'
      BY <1>7, Working DEF WorkOK
    <2>2. CacheOK(projections, MaxProjections)' /\ ToSet(projections') \subseteq ToSet(projections)
      BY <1>4, <1>7, UsedKept DEF CacheOK
    <2>3. CacheOK(analyses, MaxAnalyses)'
      BY <1>4, <1>7 DEF CacheOK
    <2>4. Shape' /\ LockInv'
      BY <1>1, <1>2, <1>7, <2>1, <2>2, <2>3, WorkStep DEF clientVars
    <2>5. HashInv' /\ ReadInv' /\ CheckInv' /\ FreshInv'
      BY <1>1, <1>7, <2>1, SameSources
    <2>6. TableInv'
      <3>1. CASE Holds(projections, Identified)
        <4>1. /\ Entry(projections, Identified) \in ToSet(projections)
              /\ Entry(projections, Identified).key = Identified
          BY <1>4, <3>1, WithoutKept DEF CacheOK
        <4>2. Entry(projections, Identified).value = decoded[work.seen]
          BY <4>1, Working DEF CachesTrue, Identified
        <4>3. work'.table = decoded[work.seen]
          BY <1>7, <3>1, <4>2, Working DEF WorkOK
        <4> QED BY <1>1, <1>3, <2>1, <4>3 DEF TableInv
      <3>2. CASE ~ Holds(projections, Identified)
        BY <1>7, <3>2, Working DEF TableInv, WorkOK
      <3> QED BY <3>1, <3>2
    <2>7. CachesTrue'
      BY <1>1, <1>7, <2>1, <2>2, Working DEF CachesTrue
    <2> QED BY <1>2, <2>4, <2>5, <2>6, <2>7 DEF IInv, RequestInv, JobInv
  <1> QED BY <1>5, <1>6, <1>7 DEF Look

(* Another source is read: not older than its hash *)
LEMMA ReadStep ==
    ASSUME IInv, NEW v \in Nat, work.stage = "read", Len(work.read) + 1 \in Sources,
           work.seen[Len(work.read) + 1] <= v, v <= file[Len(work.read) + 1],
           UNCHANGED <<case, decoded, file>>,
           DOMAIN work' = DOMAIN work, work'.stage = "read", work'.seen = work.seen,
           work'.read = Append(work.read, v), work'.checked = work.checked
    PROVE  WorkOK' /\ HashInv' /\ ReadInv' /\ CheckInv' /\ TableInv'
  <1> DEFINE s == Len(work.read) + 1
  <1>1. work'.read \in Seq(Nat) /\ Len(work'.read) = s
        /\ \A t \in 1..s : work'.read[t] = IF t = s THEN v ELSE work.read[t]
    BY Working DEF WorkOK
  <1>2. WorkOK' /\ Count' = Count
    BY <1>1, Working DEF WorkOK, Count
  <1>3. HashInv'
    BY <1>2, Working DEF HashInv
  <1>4. ReadInv'
    BY <1>1, <1>2, Working DEF ReadInv
  <1>5. CheckInv' /\ TableInv'
    BY <1>2, Working DEF CheckInv, TableInv
  <1> QED BY <1>2, <1>3, <1>4, <1>5

LEMMA ReadSourceOK == ASSUME IInv, ReadSource PROVE IInv'
  <1>1. PICK s \in Sources : /\ Reading(s) /\ case.format \notin WorkerFormats
                             /\ HasRead(file[s])
                             /\ UNCHANGED <<case, decoded, file, tool, sessionVars, clientVars, jobVars>>
    BY DEF ReadSource
  <1>2. queue # <<>> /\ work.stage = "read" /\ s = Len(work.read) + 1
        /\ job.stage = "none"
    BY <1>1, Working DEF Reading, At, JobInv
  <1>3. /\ DOMAIN work' = DOMAIN work /\ work'.stage = "read" /\ work'.seen = work.seen
        /\ work'.read = Append(work.read, file[s]) /\ work'.checked = work.checked
        /\ work'.fresh = work.fresh
    BY <1>1, <1>2, Working DEF HasRead, WorkOK
  <1>4. file[s] \in Nat /\ work.seen[s] <= file[s]
    BY <1>2, Working DEF HashInv
  <1>5. WorkOK' /\ HashInv' /\ ReadInv' /\ CheckInv' /\ TableInv'
    BY <1>1, <1>2, <1>3, <1>4, ReadStep
  <1>6. Shape' /\ LockInv' /\ JobInv'
    BY <1>1, <1>2, <1>3, <1>5, QuietStep DEF sessionVars
  <1>7. FreshInv'
    <2>1. work.read # <<>> => work'.read # <<>> /\ work'.read[1] = work.read[1]
      <3>1. PICK old, new, v : old = work.read /\ new = work'.read /\ v = file[s]
        OBVIOUS
      <3>2. old \in Seq(Nat) /\ v \in Nat /\ new = Append(old, v)
        BY <3>1, <1>3, <1>4, Working DEF WorkOK
      <3>3. old # <<>> => new # <<>> /\ new[1] = old[1]
        BY <3>2
      <3> QED BY <3>1, <3>3
    <2> QED BY <1>1, <1>3, <2>1, Working DEF FreshInv, Count, sessionVars
  <1>8. CachesTrue'
    BY <1>1, <1>3, Working DEF CachesTrue, sessionVars
  <1> QED BY <1>5, <1>6, <1>7, <1>8 DEF IInv, RequestInv

LEMMA ConvertOK == ASSUME IInv, Convert PROVE IInv'
  <1> DEFINE key == <<work.seen[1], tool>>
  <1>1. queue # <<>> /\ work.stage = "read" /\ 1 = Len(work.read) + 1 /\ 1 \in Sources
        /\ job.stage = "none" /\ UNCHANGED <<case, decoded, file, tool, jobVars>>
    BY Working DEF Convert, Reading, At, JobInv, ConvertedFormats, WorkerFormats
  <1>2. JobOK' /\ job'.stage = "none" /\ roots' = {}
    BY <1>1, QuietJob
  <1>3. work.read = <<>> /\ work.fresh = {}
    BY <1>1, Working DEF WorkOK, FreshInv
  <1>4. file[1] \in Nat /\ work.seen[1] \in Nat /\ work.seen[1] <= file[1] /\ Count > 0
    BY <1>1, Working DEF HashInv, WorkOK
  <1>5. CASE key \in DOMAIN conversions /\ HasRead(conversions[key]) /\ UNCHANGED <<sessionVars, clientVars>>
    <2>1. conversions[key] = work.seen[1]
      BY <1>3, <1>5, Working DEF CachesTrue
    <2>2. /\ DOMAIN work' = DOMAIN work /\ work'.stage = "read" /\ work'.seen = work.seen
          /\ work'.read = Append(work.read, work.seen[1]) /\ work'.checked = work.checked
          /\ work'.fresh = work.fresh
      BY <1>1, <1>5, <2>1, Working DEF HasRead, WorkOK
    <2>3. WorkOK' /\ HashInv' /\ ReadInv' /\ CheckInv' /\ TableInv'
      BY <1>1, <1>4, <2>2, ReadStep
    <2>4. Shape' /\ LockInv' /\ JobInv'
      BY <1>1, <1>5, <2>2, <2>3, QuietStep DEF sessionVars
    <2>5. FreshInv' /\ CachesTrue'
      BY <1>1, <1>3, <1>5, <2>2, Working DEF FreshInv, CachesTrue, sessionVars
    <2> QED BY <2>3, <2>4, <2>5 DEF IInv, RequestInv
  <1>6. CASE /\ key \notin DOMAIN conversions
             /\ conversions' = [k \in DOMAIN conversions \cup {key} |->
                                   IF k = key THEN file[1] ELSE conversions[k]]
             /\ work' = [work EXCEPT !.read = Append(@, file[1]), !.fresh = @ \cup {key}]
             /\ UNCHANGED <<projections, analyses, clientVars>>
    <2>1. /\ DOMAIN work' = DOMAIN work /\ work'.stage = "read" /\ work'.seen = work.seen
          /\ work'.read = Append(work.read, file[1]) /\ work'.checked = work.checked
          /\ work'.fresh = {key}
      BY <1>1, <1>3, <1>6, Working DEF WorkOK
    <2>2. WorkOK' /\ HashInv' /\ ReadInv' /\ CheckInv' /\ TableInv'
      BY <1>1, <1>4, <2>1, ReadStep
    <2>3. Shape' /\ LockInv' /\ JobInv'
      BY <1>1, <1>6, <2>1, <2>2, QuietStep
    <2>4. /\ DOMAIN conversions' = DOMAIN conversions \cup {key} /\ conversions'[key] = file[1]
          /\ \A k \in DOMAIN conversions : conversions'[k] = conversions[k]
      BY <1>6
    <2>5. work'.read = <<file[1]>> /\ Count' = Count
      BY <1>1, <1>3, <2>1 DEF Count
    <2>6. FreshInv'
      BY <1>4, <2>1, <2>4, <2>5 DEF FreshInv
    <2>7. CachesTrue'
      BY <1>1, <1>3, <1>6, <2>1, <2>4, Working DEF CachesTrue
    <2> QED BY <2>2, <2>3, <2>6, <2>7 DEF IInv, RequestInv
  <1>7. CASE Fail("DECODE_FAILURE")
    BY <1>1, <1>2, <1>7, FailedOK
  <1> QED BY <1>5, <1>6, <1>7 DEF Convert

(* Only the process moves *)
LEMMA JobStep ==
    ASSUME IInv, UNCHANGED <<case, decoded, file, tool, work, sessionVars, clientVars>>,
           work.stage = "read", queue # <<>>, JobOK', case.format \in WorkerFormats,
           roots' \subseteq {Holder}, job'.stage # "none",
           job'.stage = "started" => Len(work.read) < Count
    PROVE  IInv'
  <1>1. WorkOK' /\ Count' = Count
    BY Working DEF WorkOK, Count
  <1>2. CacheOK(projections, MaxProjections)' /\ CacheOK(analyses, MaxAnalyses)'
    BY DEF IInv, Shape, CacheOK, sessionVars
  <1>3. Shape' /\ LockInv'
    BY <1>1, <1>2, WorkStep DEF clientVars
  <1>4. JobInv'
    BY <1>1 DEF JobInv, At, clientVars
  <1>5. RequestInv' /\ CachesTrue'
    BY <1>1, Working DEF RequestInv, HashInv, ReadInv, CheckInv, TableInv, FreshInv, CachesTrue,
       sessionVars
  <1> QED BY <1>3, <1>4, <1>5 DEF IInv

LEMMA StartWorkerOK == ASSUME IInv, StartWorker PROVE IInv'
  <1>1. PICK s \in Sources : Reading(s)
    BY DEF StartWorker
  <1>2. queue # <<>> /\ work.stage = "read" /\ Len(work.read) < Count
    BY <1>1, Working DEF Reading, At, WorkOK
  <1>3. job' = [NoJob EXCEPT !.stage = "started"] /\ roots' = roots \cup {Holder}
        /\ case.format \in WorkerFormats
        /\ UNCHANGED <<case, decoded, file, tool, work, sessionVars, clientVars>>
    BY DEF StartWorker, StartJob
  <1>4. JobOK' /\ job'.stage = "started" /\ roots' \subseteq {Holder}
    BY <1>2, <1>3, Working DEF JobOK, NoJob
  <1> QED BY <1>2, <1>3, <1>4, JobStep

(* A process that has started belongs to the holder, who is reading *)
LEMMA Running ==
    ASSUME IInv, job.stage # "none"
    PROVE  queue # <<>> /\ work.stage = "read" /\ case.format \in WorkerFormats /\ JobOK
           /\ roots \subseteq {Holder}
  BY Working DEF JobInv, At, Shape

LEMMA WorkerReadsOK == ASSUME IInv, WorkerReads PROVE IInv'
  <1> DEFINE s == Len(work.read) + 1
  <1>1. /\ job.stage = "started" /\ HasRead(file[s]) /\ UNCHANGED roots
        /\ job' = [job EXCEPT !.stage = "handled", !.answer = "success"]
        /\ UNCHANGED <<case, decoded, file, tool, sessionVars, clientVars>>
    BY DEF WorkerReads, HandleJob
  <1>2. queue # <<>> /\ work.stage = "read" /\ case.format \in WorkerFormats
        /\ roots' \subseteq {Holder} /\ JobOK' /\ job'.stage = "handled"
    BY <1>1, Running DEF JobOK
  <1>3. s \in Sources /\ file[s] \in Nat /\ work.seen[s] <= file[s]
    BY <1>1, <1>2, Working DEF JobInv, HashInv, WorkOK
  <1>4. /\ DOMAIN work' = DOMAIN work /\ work'.stage = "read" /\ work'.seen = work.seen
        /\ work'.read = Append(work.read, file[s]) /\ work'.checked = work.checked
        /\ work'.fresh = work.fresh
    BY <1>1, <1>2, Working DEF HasRead, WorkOK
  <1>5. WorkOK' /\ HashInv' /\ ReadInv' /\ CheckInv' /\ TableInv'
    BY <1>1, <1>2, <1>3, <1>4, ReadStep
  <1>6. CacheOK(projections, MaxProjections)' /\ CacheOK(analyses, MaxAnalyses)'
    BY <1>1 DEF IInv, Shape, CacheOK, sessionVars
  <1>7. Shape' /\ LockInv'
    BY <1>1, <1>2, <1>4, <1>5, <1>6, WorkStep DEF clientVars
  <1>8. JobInv'
    BY <1>1, <1>2, <1>4 DEF JobInv, At, clientVars
  <1>9. FreshInv'
    <2>1. work.read # <<>> => work'.read # <<>> /\ work'.read[1] = work.read[1]
      BY <1>3, <1>4, Working DEF WorkOK
    <2> QED BY <1>1, <1>4, <2>1, Working DEF FreshInv, Count, sessionVars
  <1>10. CachesTrue'
    BY <1>1, <1>4, Working DEF CachesTrue, sessionVars
  <1> QED BY <1>5, <1>7, <1>8, <1>9, <1>10 DEF IInv, RequestInv

LEMMA WorkerStepOK == ASSUME IInv, WorkerStep PROVE IInv'
  <1>1. UNCHANGED <<case, decoded, file, tool, work, sessionVars, clientVars>>
    BY DEF WorkerStep
  <1>2. job.stage # "none" /\ UNCHANGED roots
    BY DEF WorkerStep, WriteResponse, ExitJob, RejectJob, HandleJob, KillJob
  <1>3. job'.stage \in {"handled", "written", "exited"} /\ DOMAIN job' = DOMAIN job
    BY <1>2, Running DEF WorkerStep, WriteResponse, ExitJob, RejectJob, HandleJob, KillJob, Exited, JobOK
  <1> QED BY <1>1, <1>2, <1>3, Running, JobStep DEF JobOK

LEMMA LoadWorkerOK == ASSUME IInv, LoadWorker PROVE IInv'
  <1>1. /\ job.stage = "exited" /\ roots' = roots \ {Holder} /\ job' = NoJob
        /\ UNCHANGED <<case, decoded, file, tool>>
    BY DEF LoadWorker, EndJob
  <1>2. queue # <<>> /\ work.stage = "read"
        /\ roots' = {} /\ JobOK' /\ job'.stage = "none"
    BY <1>1, Running DEF JobOK, NoJob
  <1>3. CASE UNCHANGED <<work, sessionVars, clientVars>>
    <2>1. WorkOK' /\ Count' = Count
      BY <1>1, <1>3, Working DEF WorkOK, Count
    <2>2. CacheOK(projections, MaxProjections)' /\ CacheOK(analyses, MaxAnalyses)'
      BY <1>3 DEF IInv, Shape, CacheOK, sessionVars
    <2>3. Shape' /\ LockInv'
      BY <1>1, <1>2, <1>3, <2>1, <2>2, WorkStep DEF clientVars
    <2>4. RequestInv' /\ CachesTrue'
      BY <1>1, <1>3, <2>1, Working DEF RequestInv, HashInv, ReadInv, CheckInv, TableInv, FreshInv,
         CachesTrue, sessionVars
    <2> QED BY <1>2, <2>3, <2>4 DEF IInv, JobInv
  <1>4. CASE Fail(Loaded)
    BY <1>1, <1>2, <1>4, FailedOK
  <1> QED BY <1>3, <1>4 DEF LoadWorker

(* The thread has what it needs *)
LEMMA DecodeOK == ASSUME IInv, Decode PROVE IInv'
  <1>1. queue # <<>> /\ work.stage = "read" /\ job.stage = "none" /\ Len(work.read) = Count
        /\ UNCHANGED <<case, decoded, file, tool, jobVars>>
    BY DEF Decode, At, Count
  <1>2. JobOK' /\ job'.stage = "none" /\ roots' = {}
    BY <1>1, QuietJob
  <1>3. CASE Fail("DECODE_FAILURE")
    BY <1>1, <1>2, <1>3, FailedOK
  <1>4. ASSUME NEW table, case.format # "preview" => table = decoded[work.read],
               work' = [work EXCEPT !.stage = "page", !.table = table],
               UNCHANGED <<sessionVars, clientVars>>
        PROVE  IInv'
    <2>1. /\ work'.stage = "page" /\ work'.seen = work.seen /\ work'.read = work.read
          /\ work'.fresh = work.fresh /\ work'.checked = work.checked /\ WorkOK'
          /\ work'.table = table
      BY <1>4, Working DEF WorkOK
    <2>2. Shape' /\ LockInv' /\ JobInv'
      BY <1>1, <1>4, <2>1, QuietStep DEF sessionVars
    <2>3. HashInv' /\ ReadInv' /\ CheckInv' /\ FreshInv'
      BY <1>1, <1>4, <2>1, SameSources DEF sessionVars
    <2>4. TableInv' /\ CachesTrue'
      BY <1>1, <1>4, <2>1, Working DEF TableInv, CachesTrue, sessionVars, Count
    <2> QED BY <2>2, <2>3, <2>4 DEF IInv, RequestInv
  <1> QED BY <1>3, <1>4 DEF Decode

LEMMA PageOK == ASSUME IInv, Page PROVE IInv'
  <1>1. queue # <<>> /\ work.stage = "page" /\ job.stage = "none"
        /\ UNCHANGED <<case, decoded, file, tool, jobVars>>
    BY Working DEF Page, At
  <1>2. JobOK' /\ job'.stage = "none" /\ roots' = {}
    BY <1>1, QuietJob
  <1>3. CASE Fail("INVALID_INPUT")
    BY <1>1, <1>2, <1>3, FailedOK
  <1>4. CASE work' = [work EXCEPT !.stage = "verify"] /\ UNCHANGED <<sessionVars, clientVars>>
    <2>1. /\ work'.stage = "verify" /\ work'.seen = work.seen /\ work'.read = work.read
          /\ work'.fresh = work.fresh /\ work'.checked = work.checked /\ WorkOK'
          /\ work'.table = work.table
      BY <1>4, Working DEF WorkOK
    <2>2. Shape' /\ LockInv' /\ JobInv'
      BY <1>1, <1>4, <2>1, QuietStep DEF sessionVars
    <2>3. HashInv' /\ ReadInv' /\ CheckInv' /\ FreshInv'
      BY <1>1, <1>4, <2>1, SameSources DEF sessionVars
    <2>4. TableInv' /\ CachesTrue'
      BY <1>1, <1>4, <2>1, Working DEF TableInv, CachesTrue, sessionVars, Count
    <2> QED BY <2>2, <2>3, <2>4 DEF IInv, RequestInv
  <1> QED BY <1>3, <1>4 DEF Page

LEMMA VerifyOK == ASSUME IInv, Verify PROVE IInv'
  <1> DEFINE s == work.checked + 1
  <1>1. queue # <<>> /\ work.stage = "verify" /\ job.stage = "none" /\ s \in Sources
        /\ UNCHANGED <<case, decoded, file, tool, jobVars>>
    BY Working DEF Verify, At
  <1>2. JobOK' /\ job'.stage = "none" /\ roots' = {}
    BY <1>1, QuietJob
  <1>3. CASE Fail("MISSING_OR_CHANGED_INPUT")
    BY <1>1, <1>2, <1>3, FailedOK
  <1>4. CASE file[s] = work.seen[s] /\ work' = [work EXCEPT !.checked = s]
             /\ UNCHANGED <<sessionVars, clientVars>>
    <2>1. /\ work'.stage = "verify" /\ work'.seen = work.seen /\ work'.read = work.read
          /\ work'.fresh = work.fresh /\ work'.checked = s /\ WorkOK'
          /\ work'.table = work.table
      BY <1>1, <1>4, Working DEF WorkOK
    <2>2. Shape' /\ LockInv' /\ JobInv'
      BY <1>1, <1>4, <2>1, QuietStep DEF sessionVars
    <2>3. s <= Len(work.read) => work.read[s] = work.seen[s]
      BY <1>1, <1>4, Working DEF WorkOK, ReadInv, HashInv
    <2>4. Count' = Count
      BY <1>1 DEF Count
    <2>5. CheckInv'
      BY <1>1, <2>1, <2>3, <2>4, Working DEF CheckInv, WorkOK
    <2>6. HashInv' /\ ReadInv' /\ FreshInv'
      BY <1>1, <1>4, <2>1, <2>4, Working DEF HashInv, ReadInv, FreshInv, sessionVars
    <2>7. TableInv' /\ CachesTrue'
      BY <1>1, <1>4, <2>1, <2>4, Working DEF TableInv, CachesTrue, sessionVars
    <2> QED BY <2>2, <2>5, <2>6, <2>7 DEF IInv, RequestInv
  <1> QED BY <1>3, <1>4 DEF Verify

(* A request whose sources are all found unchanged read what it hashed *)
LEMMA VerifiedReads ==
    ASSUME IInv, work.stage = "verify", work.checked = Count, Len(work.read) = Count
    PROVE  work.read = work.seen
  <1>1. \A s \in 1..Count : work.read[s] = work.seen[s]
    BY Working DEF CheckInv
  <1>2. Len(work.seen) = Count /\ work.seen \in Seq(Nat) /\ work.read \in Seq(Nat)
    BY Working DEF HashInv, WorkOK
  <1>3. PICK read, seen : read = work.read /\ seen = work.seen
    OBVIOUS
  <1>4. /\ read \in Seq(Nat) /\ seen \in Seq(Nat) /\ Len(read) = Len(seen)
        /\ \A s \in 1..Len(seen) : read[s] = seen[s]
    BY <1>1, <1>2, <1>3
  <1>5. read = seen
    BY <1>4, SMTT(30)
  <1> QED BY <1>3, <1>5

LEMMA VerifiedTable ==
    ASSUME IInv, work.stage = "verify", work.checked = Count, case.format # "preview"
    PROVE  work.table = decoded[work.seen]
  BY VerifiedReads, Working DEF TableInv

LEMMA ReplyOK == ASSUME IInv, Reply PROVE IInv'
  <1>1. queue # <<>> /\ work.stage = "verify" /\ job.stage = "none" /\ work.checked = Count
        /\ UNCHANGED <<case, decoded, file, tool, conversions, jobVars>>
    BY Working DEF Reply, At, Count
  <1>2. JobOK' /\ job'.stage = "none" /\ roots' = {}
    BY <1>1, QuietJob
  <1>3. PICK answer : /\ answer.seen = work.seen /\ Answer(answer)
                      /\ analyses' = Stored(analyses, <<Identified, Offset>>, answer, MaxAnalyses)
    BY DEF Reply, NoReply
  <1>4. Len(work.read) = Count => work.read = work.seen
    BY <1>1, VerifiedReads
  <1>5. case.format # "preview" => work.table = decoded[work.seen]
    BY <1>1, VerifiedTable
  <1>6. /\ CacheOK(projections, MaxProjections) /\ CacheOK(analyses, MaxAnalyses)
        /\ MaxProjections \in Nat \ {0} /\ MaxAnalyses \in Nat \ {0}
    BY CachesHold DEF IInv, Shape
  <1>7. /\ CacheOK(analyses, MaxAnalyses)'
        /\ ToSet(analyses') \subseteq
             ToSet(analyses) \cup {[key |-> <<Identified, Offset>>, value |-> answer]}
    BY <1>3, <1>6, StoredKept
  <1>8. /\ CacheOK(projections, MaxProjections)'
        /\ \/ ToSet(projections') = ToSet(projections)
           \/ /\ case.format # "preview"
              /\ ToSet(projections') \subseteq
                   ToSet(projections) \cup {[key |-> Identified, value |-> work.table]}
    <2>1. \/ projections' = projections
          \/ case.format # "preview"
             /\ projections' = Stored(projections, Identified, work.table, MaxProjections)
      BY DEF Reply
    <2> QED BY <1>6, <2>1, StoredKept DEF CacheOK
  <1>9. CachesTrue'
    <2>1. work'.fresh = {}
      BY <1>3 DEF Answer, Idle
    <2>2. \A k \in DOMAIN conversions : conversions[k] = k[1]
      <3>1. ASSUME NEW k \in work.fresh PROVE conversions[k] = k[1]
        <4>1. Len(work.read) = Count /\ k[1] = work.seen[1] /\ conversions[k] = work.read[1]
          BY <1>1, <3>1, Working DEF FreshInv
        <4> QED BY <1>4, <4>1
      <3> QED BY <3>1, Working DEF CachesTrue
    <2>3. Identified.seen = work.seen
      BY DEF Identified
    <2>4. \A e \in ToSet(projections') : e.value = decoded[e.key.seen]
      BY <1>5, <1>8, <2>3, Working DEF CachesTrue
    <2>5. \A e \in ToSet(analyses') : e.value.seen = e.key[1].seen
      BY <1>3, <1>7, <2>3, Working DEF CachesTrue
    <2> QED BY <1>1, <2>1, <2>2, <2>4, <2>5 DEF CachesTrue
  <1> QED BY <1>1, <1>2, <1>3, <1>7, <1>8, <1>9, AnsweredOK

-----------------------------------------------------------------------------
LEMMA StepOK == IInv /\ [Next]_vars => IInv'
  <1> SUFFICES ASSUME IInv, [Next]_vars PROVE IInv'
    OBVIOUS
  <1>1. CASE \E s \in Sources : Edit(s)
    BY <1>1, EditOK
  <1>2. CASE UpdateTool
    BY <1>2, UpdateToolOK
  <1>3. CASE \E c \in case.clients : \/ \E limit \in case.limits : Ask(c, limit) \/ Follow(c, limit)
                                     \/ Cancel(c)
    BY <1>3, AskOK, FollowOK, CancelOK
  <1>4. CASE Serve
    BY <1>4, AcquireOK, ResolveOK, IdentifyOK, LookOK, ReadSourceOK, ConvertOK, StartWorkerOK,
       WorkerReadsOK, WorkerStepOK, LoadWorkerOK, DecodeOK, PageOK, VerifyOK, ReplyOK DEF Serve
  <1>5. CASE UNCHANGED vars
    <2>1. UNCHANGED <<case, decoded, file, tool, work, sessionVars, jobVars, queue, cancelled>>
      BY <1>5 DEF vars, clientVars
    <2>2. queue \in Seq(Clients)
      BY DEF IInv, Shape
    <2> QED BY <2>1, <2>2, QueueStep
  <1> QED BY <1>1, <1>2, <1>3, <1>4, <1>5 DEF Next

LEMMA Inductive == Spec => []IInv
  BY InitOK, StepOK, PTL DEF Spec

(* However many clients share a session, its state keeps its shape, its      *)
(* caches their bounds, and only clients of the case wait for the lock.      *)
THEOREM SessionKeepsItsShape == Spec => []TypeOK
  <1>1. IInv => TypeOK
    <2> SUFFICES ASSUME IInv PROVE TypeOK
      OBVIOUS
    <2>1. ToSet(queue) \subseteq Clients
      BY OwnElements DEF IInv, Shape
    <2>2. queue # <<>> => Holder \in Clients
      BY DEF IInv, Shape, Holder
    <2>3. cancelled \subseteq Clients /\ roots \subseteq Clients
      BY <2>2 DEF IInv, LockInv, ThreadsHoldTheLock, At
    <2> QED BY <2>1, <2>3 DEF IInv, Shape, CacheOK, TypeOK
  <1> QED BY <1>1, Inductive, PTL

(* Whatever is edited during however many requests, whichever of them fail,  *)
(* and whatever is evicted, a session keeps nothing under an identity that   *)
(* it was not made from (the second hash of _analyze, and the removal of a   *)
(* failed request's conversions in analyze).                                 *)
THEOREM NothingStaleIsCached == Spec => []CachesTrue
  <1>1. IInv => CachesTrue
    BY DEF IInv
  <1> QED BY <1>1, Inductive, PTL

(* A thread runs only for the client at the head of the queue, and a client  *)
(* that leaves hands the lock on only when its thread and the directory of   *)
(* its process are gone (run_in_request).                                    *)
THEOREM StateBelongsToTheHolder == Spec => []ThreadsHoldTheLock
  <1>1. IInv => ThreadsHoldTheLock
    BY DEF IInv, LockInv
  <1> QED BY <1>1, Inductive, PTL

-----------------------------------------------------------------------------
(* Pages and continuations.  What they are about: the rows of every          *)
(* combination of versions, and the versions and the tool there are now.     *)
World == [all |-> [v \in Versions |-> AllRows(v)], file |-> file, tool |-> tool]

Later(w, x) ==
    /\ x.all = w.all /\ DOMAIN x.file = DOMAIN w.file
    /\ \A s \in DOMAIN w.file : w.file[s] \in Nat /\ x.file[s] \in Nat /\ w.file[s] <= x.file[s]
    /\ w.tool \in Nat /\ x.tool \in Nat /\ w.tool <= x.tool

Older(w, versions) ==
    versions \in DOMAIN w.all /\ \A s \in DOMAIN w.file : versions[s] \in Nat /\ versions[s] <= w.file[s]

(* A continuation names what was there, and a row that is there *)
TokenOK(w, t) ==
    t # NoToken => /\ Older(w, t.seen)
                   /\ t.tool \in Nat /\ t.tool <= w.tool
                   /\ t.offset \in Nat /\ t.offset < Len(w.all[t.seen])

(* Rows that follow the first "offset" of some versions, and what comes next *)
Cut(w, rows, versions, offset, token) ==
    /\ Older(w, versions) /\ TokenOK(w, token)
    /\ rows \in Seq(ToSet(w.all[versions]))
    /\ offset \in Nat /\ offset + Len(rows) <= Len(w.all[versions])
    /\ rows = SubSeq(w.all[versions], offset + 1, offset + Len(rows))
    /\ token # NoToken => token.seen = versions /\ token.offset = offset + Len(rows)

(* The answer to a client, and the rows it has followed to it *)
Chain(w, r, rows) ==
    /\ DOMAIN r = DOMAIN NoReply /\ r.limit \in Nat /\ TokenOK(w, r.asked)
    /\ r.status # "ok" => r.token = NoToken
    /\ r.status = "none" =>
          IF r.asked = NoToken THEN rows = <<>> ELSE Cut(w, rows, r.asked.seen, 0, r.asked)
    /\ r.status = "ok" => Cut(w, rows, r.seen, 0, r.token)
    /\ r.status = "INVALID_INPUT" =>
          /\ r.asked # NoToken
          /\ \/ r.limit # r.asked.limit \/ r.asked.tool < w.tool
             \/ \E s \in DOMAIN w.file : r.asked.seen[s] < w.file[s]

KeptPage(w, e) ==
    /\ DOMAIN e.value = DOMAIN NoReply /\ e.value.status = "ok" /\ e.value.seen = e.key[1].seen
    /\ Cut(w, e.value.rows, e.value.seen, e.key[2], e.value.token)

(* Nobody waits twice, and who waits has no answer yet *)
Distinct(q) == \A i, j \in DOMAIN q : q[i] = q[j] => i = j
Waiting ==
    /\ Distinct(queue)
    /\ \A i \in DOMAIN queue : reply[queue[i]].status = "none"

(* The thread works on what its client asked: the versions and the tool of a *)
(* continuation are those it names, or newer ones are there                  *)
Asking ==
    work.stage # "idle" =>
        /\ work.limit = reply[Holder].limit /\ work.asked = reply[Holder].asked
        /\ \A s \in 1..Len(work.seen) :
              /\ work.seen[s] \in DOMAIN case.sources[s]
              /\ work.asked # NoToken => work.seen[s] = work.asked.seen[s]
        /\ work.stage # "resolve" =>
              /\ work.tool \in Nat /\ work.tool <= tool
              /\ work.asked # NoToken => work.asked.tool <= work.tool
        /\ work.stage \in {"read", "page", "verify"} /\ work.asked # NoToken => Matches
        /\ work.stage \in {"page", "verify"} /\ case.format = "preview" =>
              Len(work.read) = Count /\ work.table = Preview(DocsAt(work.read), Offset, work.limit)

PageInv ==
    /\ DOMAIN reply = Clients /\ DOMAIN got = Clients /\ case.limits \subseteq Nat
    /\ \A v \in Versions : AllRows(v) \in Seq(ToSet(AllRows(v)))
    /\ \A c \in Clients : Chain(World, reply[c], got[c])
    /\ Waiting /\ Asking
    /\ \A e \in ToSet(analyses) : KeptPage(World, e)
    /\ case.format = "preview" => projections = <<>>

LEMMA Joined ==
    ASSUME NEW S, NEW p \in Seq(S), NEW q \in Seq(S)
    PROVE  /\ p \o q \in Seq(S) /\ Len(p \o q) = Len(p) + Len(q)
           /\ \A i \in 1..Len(p) : (p \o q)[i] = p[i]
           /\ \A i \in 1..Len(q) : (p \o q)[Len(p) + i] = q[i]
  OBVIOUS

LEMMA SameElements ==
    ASSUME NEW S, NEW p \in Seq(S), NEW q \in Seq(S), Len(p) = Len(q),
           \A i \in 1..Len(p) : p[i] = q[i]
    PROVE  p = q
  OBVIOUS

LEMMA Sliced ==
    ASSUME NEW S, NEW all \in Seq(S), NEW m \in Nat, NEW n \in Nat, m + n <= Len(all)
    PROVE  /\ SubSeq(all, m + 1, m + n) \in Seq(S) /\ Len(SubSeq(all, m + 1, m + n)) = n
           /\ \A i \in 1..n : SubSeq(all, m + 1, m + n)[i] = all[m + i]
  OBVIOUS

LEMMA SlicesJoin ==
    ASSUME NEW S, NEW all \in Seq(S), NEW m \in Nat, NEW n \in Nat, m + n <= Len(all),
           NEW front, front = SubSeq(all, 1, m), NEW back, back = SubSeq(all, m + 1, m + n)
    PROVE  front \o back = SubSeq(all, 1, m + n)
  <1>1. front \in Seq(S) /\ Len(front) = m /\ \A i \in 1..m : front[i] = all[i]
    <2>1. 0 + m <= Len(all)
      OBVIOUS
    <2>2. SubSeq(all, 0 + 1, 0 + m) = front /\ \A i \in 1..m : all[0 + i] = all[i]
      OBVIOUS
    <2> QED BY <2>1, <2>2, Sliced
  <1>2. back \in Seq(S) /\ Len(back) = n /\ \A i \in 1..n : back[i] = all[m + i]
    BY Sliced
  <1>3. PICK whole : whole = SubSeq(all, 1, m + n)
    OBVIOUS
  <1>4. whole \in Seq(S) /\ Len(whole) = m + n /\ \A i \in 1..(m + n) : whole[i] = all[i]
    BY <1>3
  <1>5. PICK both : both = front \o back
    OBVIOUS
  <1>6. /\ both \in Seq(S) /\ Len(both) = m + n
        /\ \A i \in 1..m : both[i] = front[i]
        /\ \A i \in 1..n : both[m + i] = back[i]
    BY <1>1, <1>2, <1>5, Joined
  <1>7. ASSUME NEW i \in 1..(m + n) PROVE both[i] = whole[i]
    <2>1. CASE i <= m
      <3>1. i \in 1..m
        BY <2>1
      <3>2. both[i] = front[i] /\ front[i] = all[i] /\ whole[i] = all[i]
        BY <1>1, <1>4, <1>6, <3>1
      <3> QED BY <3>2
    <2>2. CASE i > m
      <3>1. i - m \in 1..n /\ i = m + (i - m)
        BY <2>2
      <3>2. PICK j \in 1..n : i = m + j
        BY <3>1
      <3>3. both[m + j] = back[j] /\ back[j] = all[m + j] /\ whole[m + j] = all[m + j]
        BY <1>2, <1>4, <1>6, <3>2
      <3> QED BY <3>2, <3>3
    <2> QED BY <2>1, <2>2
  <1>8. both = whole
    BY <1>4, <1>6, <1>7, SameElements
  <1> QED BY <1>3, <1>5, <1>8

(* A page continues the rows that were followed to its continuation *)
LEMMA CutsJoin ==
    ASSUME NEW w, NEW rows, NEW next, NEW versions, NEW t, NEW u,
           w.all[versions] \in Seq(ToSet(w.all[versions])),
           t # NoToken, Cut(w, rows, versions, 0, t), Cut(w, next, versions, t.offset, u)
    PROVE  Cut(w, rows \o next, versions, 0, u)
  <1>1. PICK all, S : all = w.all[versions] /\ S = ToSet(all)
    OBVIOUS
  <1>2. all \in Seq(S) /\ rows \in Seq(S) /\ next \in Seq(S)
    BY <1>1 DEF Cut
  <1>3. PICK m \in Nat, n \in Nat : m = Len(rows) /\ n = Len(next)
    BY <1>2
  <1>4. t.offset = m /\ rows = SubSeq(all, 1, m)
    BY <1>1, <1>2, <1>3 DEF Cut
  <1>5. m + n <= Len(all) /\ next = SubSeq(all, m + 1, m + n)
    <2>1. /\ t.offset + Len(next) <= Len(w.all[versions])
          /\ next = SubSeq(w.all[versions], t.offset + 1, t.offset + Len(next))
      BY DEF Cut
    <2> QED BY <1>1, <1>3, <1>4, <2>1
  <1>6. PICK both : both = rows \o next
    OBVIOUS
  <1>7. both = SubSeq(all, 1, m + n)
    BY <1>2, <1>4, <1>5, <1>6, SlicesJoin, SMTT(30)
  <1>8. both \in Seq(S) /\ Len(both) = m + n
    <2>1. rows \o next \in Seq(S) /\ Len(rows \o next) = Len(rows) + Len(next)
      BY <1>2, Joined
    <2> QED BY <1>3, <1>6, <2>1
  <1>9. u # NoToken => u.seen = versions /\ u.offset = m + n
    BY <1>3, <1>4 DEF Cut
  <1>10. Older(w, versions) /\ TokenOK(w, u)
    BY DEF Cut
  <1>11. 0 + Len(both) = m + n /\ 0 + 1 = 1 /\ 0 \in Nat
    BY <1>8
  <1> QED BY <1>1, <1>5, <1>6, <1>7, <1>8, <1>9, <1>10, <1>11 DEF Cut

LEMMA FirstCut ==
    ASSUME NEW w, NEW next, NEW versions, NEW u, Cut(w, next, versions, 0, u)
    PROVE  Cut(w, <<>> \o next, versions, 0, u)
  <1>1. next \in Seq(ToSet(w.all[versions]))
    BY DEF Cut
  <1>2. <<>> \o next = next
    BY <1>1
  <1> QED BY <1>2

(* Whatever is edited or updated later *)
LEMMA LaterOlder ==
    ASSUME NEW w, NEW x, Later(w, x), NEW versions, Older(w, versions)
    PROVE  Older(x, versions)
  <1>1. versions \in DOMAIN x.all
    BY DEF Later, Older
  <1>2. ASSUME NEW s \in DOMAIN x.file PROVE versions[s] \in Nat /\ versions[s] <= x.file[s]
    <2>1. versions[s] \in Nat /\ versions[s] <= w.file[s] /\ w.file[s] <= x.file[s]
          /\ w.file[s] \in Nat /\ x.file[s] \in Nat
      BY <1>2 DEF Later, Older
    <2> QED BY <2>1
  <1> QED BY <1>1, <1>2 DEF Older

LEMMA LaterToken ==
    ASSUME NEW w, NEW x, Later(w, x), NEW t, TokenOK(w, t)
    PROVE  TokenOK(x, t)
  <1>1. CASE t = NoToken
    BY <1>1 DEF TokenOK
  <1>2. CASE t # NoToken
    <2>1. Older(x, t.seen)
      BY <1>2, LaterOlder DEF TokenOK
    <2>2. t.tool \in Nat /\ t.tool <= w.tool /\ w.tool <= x.tool /\ w.tool \in Nat /\ x.tool \in Nat
      BY <1>2 DEF TokenOK, Later
    <2>3. t.tool <= x.tool
      BY <2>2
    <2> QED BY <1>2, <2>1, <2>2, <2>3 DEF TokenOK, Later
  <1> QED BY <1>1, <1>2

LEMMA LaterCut ==
    ASSUME NEW w, NEW x, Later(w, x), NEW rows, NEW versions, NEW offset, NEW t,
           Cut(w, rows, versions, offset, t)
    PROVE  Cut(x, rows, versions, offset, t)
  <1>1. Older(x, versions) /\ TokenOK(x, t)
    BY LaterOlder, LaterToken DEF Cut
  <1>2. x.all = w.all
    BY DEF Later
  <1> QED BY <1>1, <1>2 DEF Cut

LEMMA LaterChain ==
    ASSUME NEW w, NEW x, Later(w, x), NEW r, NEW rows, Chain(w, r, rows)
    PROVE  Chain(x, r, rows)
  <1>1. TokenOK(x, r.asked)
    BY LaterToken DEF Chain
  <1>2. r.status = "none" =>
            IF r.asked = NoToken THEN rows = <<>> ELSE Cut(x, rows, r.asked.seen, 0, r.asked)
    BY LaterCut DEF Chain
  <1>3. r.status = "ok" => Cut(x, rows, r.seen, 0, r.token)
    BY LaterCut DEF Chain
  <1>4. ASSUME r.status = "INVALID_INPUT"
        PROVE  /\ r.asked # NoToken
               /\ \/ r.limit # r.asked.limit \/ r.asked.tool < x.tool
                  \/ \E s \in DOMAIN x.file : r.asked.seen[s] < x.file[s]
    <2>1. r.asked # NoToken /\ TokenOK(w, r.asked)
          /\ \/ r.limit # r.asked.limit \/ r.asked.tool < w.tool
             \/ \E s \in DOMAIN w.file : r.asked.seen[s] < w.file[s]
      BY <1>4 DEF Chain
    <2>2. CASE r.asked.tool < w.tool
      <3>1. r.asked.tool \in Nat /\ w.tool \in Nat /\ x.tool \in Nat /\ w.tool <= x.tool
        BY <2>1 DEF TokenOK, Later
      <3> QED BY <2>1, <2>2, <3>1
    <2>3. CASE \E s \in DOMAIN w.file : r.asked.seen[s] < w.file[s]
      <3>1. PICK s \in DOMAIN w.file : r.asked.seen[s] < w.file[s]
        BY <2>3
      <3>2. r.asked.seen[s] \in Nat /\ w.file[s] \in Nat /\ x.file[s] \in Nat /\ w.file[s] <= x.file[s]
            /\ s \in DOMAIN x.file
        BY <2>1 DEF TokenOK, Older, Later
      <3>3. r.asked.seen[s] < x.file[s]
        BY <3>1, <3>2
      <3> QED BY <2>1, <3>2, <3>3
    <2> QED BY <2>1, <2>2, <2>3
  <1> QED BY <1>1, <1>2, <1>3, <1>4 DEF Chain

LEMMA LaterPage ==
    ASSUME NEW w, NEW x, Later(w, x), NEW e, KeptPage(w, e)
    PROVE  KeptPage(x, e)
  BY LaterCut DEF KeptPage

(* Queues of distinct clients *)
LEMMA LeftInPlace ==
    ASSUME NEW S, NEW q \in Seq(S), NEW i \in DOMAIN q, NEW j \in DOMAIN RemoveAt(q, i)
    PROVE  RemoveAt(q, i)[j] = q[IF j < i THEN j ELSE j + 1]
           /\ (IF j < i THEN j ELSE j + 1) \in DOMAIN q /\ j \in Nat
  <1>1. i \in 1..Len(q) /\ Len(q) \in Nat
    OBVIOUS
  <1>2. PICK front, back : front = SubSeq(q, 1, i - 1) /\ back = SubSeq(q, i + 1, Len(q))
    OBVIOUS
  <1>3. /\ front \in Seq(S) /\ Len(front) = i - 1
        /\ \A k \in 1..(i - 1) : front[k] = q[k]
    BY <1>1, <1>2
  <1>4. /\ back \in Seq(S) /\ Len(back) = Len(q) - i
        /\ \A k \in 1..(Len(q) - i) : back[k] = q[i + k]
    BY <1>1, <1>2
  <1>5. PICK both : both = front \o back
    OBVIOUS
  <1>6. RemoveAt(q, i) = both
    BY <1>2, <1>5 DEF RemoveAt
  <1>7. /\ both \in Seq(S) /\ Len(both) = Len(q) - 1
        /\ \A k \in 1..Len(front) : both[k] = front[k]
        /\ \A k \in 1..Len(back) : both[Len(front) + k] = back[k]
    <2>1. front \in Seq(S) /\ back \in Seq(S)
      BY <1>3, <1>4
    <2>2. /\ both \in Seq(S) /\ Len(both) = Len(front) + Len(back)
          /\ \A k \in 1..Len(front) : both[k] = front[k]
          /\ \A k \in 1..Len(back) : both[Len(front) + k] = back[k]
      BY <2>1, <1>5, Joined
    <2>3. Len(both) = Len(q) - 1
      BY <1>1, <1>3, <1>4, <2>2
    <2> QED BY <2>2, <2>3
  <1>8. j \in 1..(Len(q) - 1)
    BY <1>1, <1>6, <1>7
  <1>9. CASE j < i
    <2>1. j \in 1..(i - 1)
      BY <1>1, <1>8, <1>9
    <2>2. both[j] = front[j] /\ front[j] = q[j]
      BY <1>3, <1>7, <2>1
    <2> QED BY <1>1, <1>6, <1>8, <1>9, <2>2
  <1>10. CASE ~ (j < i)
    <2>1. j - i + 1 \in 1..(Len(q) - i) /\ (i - 1) + (j - i + 1) = j /\ i + (j - i + 1) = j + 1
      BY <1>1, <1>8, <1>10
    <2>2. PICK k \in 1..(Len(q) - i) : (i - 1) + k = j /\ i + k = j + 1
      BY <2>1
    <2>3. both[(i - 1) + k] = back[k] /\ back[k] = q[i + k]
      BY <1>3, <1>4, <1>7, <2>2
    <2>4. j + 1 \in DOMAIN q
      BY <1>1, <1>8
    <2> QED BY <1>6, <1>8, <1>10, <2>2, <2>3, <2>4
  <1> QED BY <1>9, <1>10

LEMMA LeftDistinct ==
    ASSUME NEW S, NEW q \in Seq(S), Distinct(q), NEW i \in DOMAIN q
    PROVE  Distinct(RemoveAt(q, i))
  <1> DEFINE Old(j) == IF j < i THEN j ELSE j + 1
  <1> SUFFICES ASSUME NEW j \in DOMAIN RemoveAt(q, i), NEW k \in DOMAIN RemoveAt(q, i),
                      RemoveAt(q, i)[j] = RemoveAt(q, i)[k]
               PROVE  j = k
    BY DEF Distinct
  <1>1. /\ RemoveAt(q, i)[j] = q[Old(j)] /\ Old(j) \in DOMAIN q /\ j \in Nat
        /\ RemoveAt(q, i)[k] = q[Old(k)] /\ Old(k) \in DOMAIN q /\ k \in Nat
    BY LeftInPlace
  <1>2. Old(j) = Old(k)
    BY <1>1 DEF Distinct
  <1>3. i \in Nat
    OBVIOUS
  <1> QED BY <1>1, <1>2, <1>3

LEMMA JoinedDistinct ==
    ASSUME NEW S, NEW q \in Seq(S), Distinct(q), NEW c, c \notin ToSet(q), NEW p,
           DOMAIN p = 1..(Len(q) + 1),
           \A i \in 1..(Len(q) + 1) : p[i] = IF i = Len(q) + 1 THEN c ELSE q[i]
    PROVE  Distinct(p)
  <1>1. Len(q) \in Nat /\ DOMAIN q = 1..Len(q)
    OBVIOUS
  <1>2. \A i \in 1..Len(q) : q[i] # c
    BY <1>1 DEF ToSet
  <1>3. ASSUME NEW i \in 1..(Len(q) + 1), NEW j \in 1..(Len(q) + 1), p[i] = p[j]
        PROVE  i = j
    <2>1. CASE i = Len(q) + 1 \/ j = Len(q) + 1
      BY <1>1, <1>2, <1>3, <2>1
    <2>2. CASE i # Len(q) + 1 /\ j # Len(q) + 1
      <3>1. i \in DOMAIN q /\ j \in DOMAIN q /\ q[i] = q[j]
        BY <1>1, <1>3, <2>2
      <3> QED BY <3>1 DEF Distinct
    <2> QED BY <2>1, <2>2
  <1> QED BY <1>1, <1>3 DEF Distinct

LEMMA TailDistinct ==
    ASSUME NEW S, NEW q \in Seq(S), q # <<>>, Distinct(q), NEW p, DOMAIN p = 1..(Len(q) - 1),
           \A i \in 1..(Len(q) - 1) : p[i] = q[i + 1]
    PROVE  /\ Distinct(p)
           /\ \A i \in DOMAIN p : i + 1 \in DOMAIN q /\ p[i] = q[i + 1] /\ p[i] # q[1]
  <1>1. Len(q) \in Nat /\ DOMAIN q = 1..Len(q) /\ 1 \in DOMAIN q
    OBVIOUS
  <1>2. \A i \in DOMAIN p : i + 1 \in DOMAIN q /\ p[i] = q[i + 1] /\ i \in Nat /\ i + 1 # 1
    BY <1>1
  <1>3. \A i \in DOMAIN p : q[i + 1] # q[1]
    BY <1>1, <1>2 DEF Distinct
  <1>4. Distinct(p)
    <2> SUFFICES ASSUME NEW i \in DOMAIN p, NEW j \in DOMAIN p, p[i] = p[j] PROVE i = j
      BY DEF Distinct
    <2>1. i + 1 = j + 1
      BY <1>2 DEF Distinct
    <2> QED BY <1>2, <2>1
  <1> QED BY <1>2, <1>3, <1>4

LEMMA WorldTyped ==
    ASSUME IInv
    PROVE  /\ World.all = [v \in Versions |-> AllRows(v)] /\ DOMAIN World.all = Versions
           /\ World.file = file /\ World.tool = tool
           /\ file \in [Sources -> Nat] /\ tool \in Nat /\ Later(World, World)
  BY DEF World, Later, IInv, Shape

LEMMA SameWorld ==
    ASSUME IInv, UNCHANGED <<case, decoded, file, tool>>
    PROVE  World' = World /\ Later(World, World')
  <1>1. World' = World
    BY DEF World, Versions, VersionsOf, AllRows, DocsAt, DocsOf
  <1> QED BY <1>1, WorldTyped

(* Every step: what it answers and what it stores is in order, the rest is   *)
(* as it was                                                                 *)
LEMMA PagesKept ==
    ASSUME PageInv, UNCHANGED <<case, decoded>>, Later(World, World'), Waiting', Asking',
           DOMAIN reply' = Clients, DOMAIN got' = Clients,
           \A c \in Clients : \/ reply'[c] = reply[c] /\ got'[c] = got[c]
                              \/ Chain(World', reply'[c], got'[c]),
           \A e \in ToSet(analyses') : e \in ToSet(analyses) \/ KeptPage(World', e),
           case.format = "preview" => projections' = <<>>
    PROVE  PageInv'
  <1>1. ASSUME NEW c \in Clients PROVE Chain(World', reply'[c], got'[c])
    <2>1. Chain(World, reply[c], got[c])
      BY DEF PageInv
    <2>2. Chain(World', reply[c], got[c])
      BY <2>1, LaterChain
    <2> QED BY <2>2
  <1>2. ASSUME NEW e \in ToSet(analyses') PROVE KeptPage(World', e)
    BY <1>2, LaterPage DEF PageInv
  <1>3. \A v \in Versions' : AllRows(v)' \in Seq(ToSet(AllRows(v)'))
    <2>1. Versions' = Versions /\ \A v \in Versions : AllRows(v)' = AllRows(v)
      BY DEF Versions, VersionsOf, AllRows, DocsAt, DocsOf
    <2> QED BY <2>1 DEF PageInv
  <1>4. case'.limits \subseteq Nat /\ (case'.format = "preview" => projections' = <<>>)
    BY DEF PageInv
  <1> QED BY <1>1, <1>2, <1>3, <1>4 DEF PageInv

(* The thread goes on, the clients wait *)
LEMMA ThreadPages ==
    ASSUME IInv, PageInv, UNCHANGED <<case, decoded, file, tool, clientVars, analyses>>,
           case.format = "preview" => projections' = <<>>, Asking'
    PROVE  PageInv'
  <1>1. Later(World, World')
    BY SameWorld
  <1>2. Waiting' /\ DOMAIN reply' = Clients /\ DOMAIN got' = Clients
    BY DEF PageInv, Waiting, clientVars
  <1>3. \A c \in Clients : reply'[c] = reply[c] /\ got'[c] = got[c]
    BY DEF clientVars
  <1> QED BY <1>1, <1>2, <1>3, PagesKept

LEMMA EditPages == ASSUME IInv, PageInv, NEW s \in Sources, Edit(s) PROVE PageInv'
  <1>1. file' = [file EXCEPT ![s] = @ + 1]
        /\ UNCHANGED <<case, decoded, tool, work, sessionVars, clientVars, jobVars>>
    BY DEF Edit
  <1>2. World'.all = World.all /\ World'.file = file' /\ World'.tool = tool
    BY <1>1 DEF World, Versions, VersionsOf, AllRows, DocsAt, DocsOf
  <1>3. \A t \in Sources : file[t] \in Nat /\ file'[t] \in Nat /\ file[t] <= file'[t]
    BY <1>1, WorldTyped
  <1>4. DOMAIN file' = Sources /\ DOMAIN file = Sources
    BY <1>1, WorldTyped
  <1>5. Later(World, World')
    BY <1>2, <1>3, <1>4, WorldTyped DEF Later
  <1>6. Waiting' /\ Asking' /\ DOMAIN reply' = Clients /\ DOMAIN got' = Clients
    BY <1>1 DEF PageInv, Waiting, Asking, Holder, Matches, Identified, Offset, DocsAt, DocsOf, Count,
       clientVars
  <1> QED BY <1>1, <1>5, <1>6, PagesKept DEF PageInv, clientVars, sessionVars

LEMMA UpdateToolPages == ASSUME IInv, PageInv, UpdateTool PROVE PageInv'
  <1>1. tool = 1 /\ tool' = 2
        /\ UNCHANGED <<case, decoded, file, work, sessionVars, clientVars, jobVars>>
    BY DEF UpdateTool
  <1>2. World'.all = World.all /\ World'.file = file /\ World'.tool = tool'
    BY <1>1 DEF World, Versions, VersionsOf, AllRows, DocsAt, DocsOf
  <1>3. Later(World, World')
    BY <1>1, <1>2, WorldTyped DEF Later
  <1>4. Waiting' /\ DOMAIN reply' = Clients /\ DOMAIN got' = Clients
    BY <1>1 DEF PageInv, Waiting, clientVars
  <1>5. work.tool \in Nat /\ work.tool <= tool => work.tool <= tool'
    BY <1>1
  <1>6. Asking'
    BY <1>1, <1>5 DEF PageInv, Asking, Holder, Matches, Identified, Offset, DocsAt, DocsOf, Count,
       clientVars
  <1> QED BY <1>1, <1>3, <1>4, <1>6, PagesKept DEF PageInv, clientVars, sessionVars

(* A client that asks waits behind the holder *)
LEMMA JoinPages ==
    ASSUME IInv, PageInv, NEW c \in Clients, c \notin ToSet(queue), queue' = Append(queue, c),
           UNCHANGED <<case, decoded, file, tool, work, sessionVars>>,
           NEW r, r.status = "none", NEW rows, Chain(World, r, rows),
           reply' = [reply EXCEPT ![c] = r], DOMAIN got' = Clients, got'[c] = rows,
           \A d \in Clients \ {c} : got'[d] = got[d]
    PROVE  PageInv'
  <1>1. queue \in Seq(Clients) /\ DOMAIN reply = Clients /\ DOMAIN got = Clients /\ Waiting
    BY DEF IInv, Shape, PageInv
  <1>2. Later(World, World') /\ World' = World
    BY SameWorld
  <1>3. /\ Distinct(queue') /\ DOMAIN queue' = 1..(Len(queue) + 1) /\ DOMAIN queue = 1..Len(queue)
        /\ \A i \in 1..(Len(queue) + 1) : queue'[i] = IF i = Len(queue) + 1 THEN c ELSE queue[i]
    <2>1. Distinct(queue)
      BY <1>1 DEF Waiting
    <2>2. /\ DOMAIN queue' = 1..(Len(queue) + 1) /\ DOMAIN queue = 1..Len(queue)
          /\ \A i \in 1..(Len(queue) + 1) : queue'[i] = IF i = Len(queue) + 1 THEN c ELSE queue[i]
      BY <1>1
    <2>3. PICK p : p = queue'
      OBVIOUS
    <2>4. Distinct(p)
      BY <1>1, <2>1, <2>2, <2>3, JoinedDistinct
    <2> QED BY <2>2, <2>3, <2>4
  <1>4. reply'[c] = r /\ got'[c] = rows
        /\ \A d \in Clients \ {c} : reply'[d] = reply[d] /\ got'[d] = got[d]
    BY <1>1
  <1>5. \A i \in DOMAIN queue : queue[i] \in Clients \ {c}
    BY <1>1 DEF ToSet
  <1>6. Waiting'
    <2>1. ASSUME NEW i \in DOMAIN queue' PROVE reply'[queue'[i]].status = "none"
      <3>1. CASE i = Len(queue) + 1
        BY <1>3, <1>4, <3>1
      <3>2. CASE i # Len(queue) + 1
        <4>1. i \in DOMAIN queue /\ queue'[i] = queue[i]
          BY <1>1, <1>3, <3>2
        <4> QED BY <1>1, <1>4, <1>5, <4>1 DEF Waiting
      <3> QED BY <3>1, <3>2
    <2> QED BY <1>3, <2>1 DEF Waiting
  <1>7. Asking'
    <2>1. CASE work.stage = "idle"
      BY <2>1 DEF Asking
    <2>2. CASE work.stage # "idle"
      <3>1. queue # <<>>
        BY <2>2 DEF IInv, LockInv
      <3>2. Holder' = Holder /\ Holder \in Clients \ {c}
        <4>1. Head(queue') = Head(queue) /\ 1 \in DOMAIN queue /\ Head(queue) = queue[1]
          BY <1>1, <3>1
        <4> QED BY <1>5, <4>1 DEF Holder
      <3>3. reply'[Holder'] = reply[Holder]
        BY <1>4, <3>2
      <3> QED BY <3>3 DEF PageInv, Asking, Matches, Identified, Offset, DocsAt, DocsOf, Count
    <2> QED BY <2>1, <2>2
  <1>8. \A d \in Clients : \/ reply'[d] = reply[d] /\ got'[d] = got[d]
                           \/ Chain(World', reply'[d], got'[d])
    BY <1>2, <1>4
  <1>9. DOMAIN reply' = Clients /\ DOMAIN got' = Clients /\ UNCHANGED <<analyses, projections>>
    BY <1>1 DEF sessionVars
  <1> QED BY <1>2, <1>6, <1>7, <1>8, <1>9, PagesKept DEF PageInv

LEMMA NoReplyFields ==
    /\ NoReply.status = "none" /\ NoReply.token = NoToken /\ NoReply.asked = NoToken
    /\ NoReply.limit = 1
    /\ "limit" \in DOMAIN NoReply /\ "asked" \in DOMAIN NoReply /\ "status" \in DOMAIN NoReply
  BY DEF NoReply

LEMMA NothingFollowed == ASSUME NEW w PROVE Chain(w, NoReply, <<>>)
  BY NoReplyFields DEF Chain, TokenOK

LEMMA AskPages ==
    ASSUME IInv, PageInv, NEW c \in case.clients, NEW limit \in case.limits, Ask(c, limit)
    PROVE  PageInv'
  <1>1. c \in Clients /\ limit \in Nat
    BY DEF IInv, Shape, CaseOK, PageInv
  <1> DEFINE r == [NoReply EXCEPT !.limit = limit]
  <1>2. r.status = "none" /\ r.token = NoToken /\ r.asked = NoToken /\ r.limit = limit
        /\ DOMAIN r = DOMAIN NoReply
    BY NoReplyFields
  <1>3. reply' = [reply EXCEPT ![c] = r] /\ got' = [got EXCEPT ![c] = <<>>] /\ DOMAIN got = Clients
    BY DEF Ask, PageInv
  <1> HIDE DEF r
  <1>4. Chain(World, r, <<>>)
    BY <1>1, <1>2 DEF Chain, TokenOK
  <1> QED BY <1>1, <1>2, <1>3, <1>4, JoinPages DEF Ask

LEMMA FollowPages ==
    ASSUME IInv, PageInv, NEW c \in case.clients, NEW limit \in case.limits, Follow(c, limit)
    PROVE  PageInv'
  <1>1. c \in Clients /\ limit \in Nat /\ DOMAIN got = Clients
    BY DEF IInv, Shape, CaseOK, PageInv
  <1> DEFINE r == [NoReply EXCEPT !.limit = limit, !.asked = reply[c].token]
  <1>2. r.status = "none" /\ r.token = NoToken /\ r.asked = reply[c].token /\ r.limit = limit
        /\ DOMAIN r = DOMAIN NoReply
    BY NoReplyFields
  <1>3. reply' = [reply EXCEPT ![c] = r] /\ UNCHANGED got
    BY DEF Follow
  <1> HIDE DEF r
  <1>5. Cut(World, got[c], reply[c].token.seen, 0, reply[c].token) /\ TokenOK(World, reply[c].token)
    <2>1. reply[c].token # NoToken /\ Chain(World, reply[c], got[c])
      BY <1>1 DEF Follow, PageInv
    <2>2. Cut(World, got[c], reply[c].seen, 0, reply[c].token)
      BY <2>1 DEF Chain
    <2> QED BY <2>1, <2>2 DEF Cut
  <1>6. Chain(World, r, got[c])
    BY <1>1, <1>2, <1>5 DEF Chain, Follow
  <1> QED BY <1>1, <1>2, <1>3, <1>6, JoinPages DEF Follow

LEMMA CancelPages == ASSUME IInv, PageInv, NEW c \in case.clients, Cancel(c) PROVE PageInv'
  <1>1. /\ queue \in Seq(Clients) /\ Waiting /\ Asking /\ DOMAIN reply = Clients /\ DOMAIN got = Clients
        /\ UNCHANGED <<case, decoded, file, tool, work, sessionVars, reply, got>>
    BY DEF IInv, Shape, PageInv, Cancel
  <1>2. Later(World, World')
    BY <1>1, SameWorld
  <1>3. UNCHANGED <<analyses, projections>>
    BY <1>1 DEF sessionVars
  <1>4. CASE c = Head(queue) /\ work # Idle
    <2>1. UNCHANGED queue
      BY <1>4 DEF Cancel
    <2>2. Waiting' /\ Asking'
      BY <1>1, <2>1 DEF Waiting, Asking, Holder, Matches, Identified, Offset, DocsAt, DocsOf, Count
    <2> QED BY <1>1, <1>2, <1>3, <2>2, PagesKept DEF PageInv
  <1>5. CASE ~ (c = Head(queue) /\ work # Idle)
    <2>1. queue' = RemoveAt(queue, Place(c)) /\ c \in ToSet(queue)
      BY <1>5 DEF Cancel
    <2>2. PICK p : p = Place(c)
      OBVIOUS
    <2>3. p \in DOMAIN queue /\ queue[p] = c
      BY <2>1, <2>2 DEF Place, ToSet
    <2>4. queue' = RemoveAt(queue, p)
      BY <2>1, <2>2
    <2>5. Distinct(queue')
      BY <1>1, <2>3, <2>4, LeftDistinct DEF Waiting
    <2>6. ASSUME NEW i \in DOMAIN queue' PROVE reply'[queue'[i]].status = "none"
      <3>1. \E j \in DOMAIN queue : queue'[i] = queue[j]
        BY <1>1, <2>3, <2>4, LeftInPlace
      <3> QED BY <1>1, <3>1 DEF Waiting
    <2>7. Asking'
      <3>1. CASE work.stage = "idle"
        BY <1>1, <3>1 DEF Asking
      <3>2. CASE work.stage # "idle"
        <4>1. queue # <<>> /\ work # Idle
          BY <3>2 DEF IInv, LockInv, Idle
        <4>2. p # 1
          BY <1>1, <1>5, <2>3, <4>1
        <4>3. Holder' = Holder
          BY <1>1, <2>3, <2>4, <4>2, RemovedAt DEF Holder
        <4> QED BY <1>1, <4>3 DEF Asking, Matches, Identified, Offset, DocsAt, DocsOf, Count
      <3> QED BY <3>1, <3>2
    <2>8. Waiting'
      BY <2>5, <2>6 DEF Waiting
    <2> QED BY <1>1, <1>2, <1>3, <2>7, <2>8, PagesKept DEF PageInv
  <1> QED BY <1>4, <1>5

(* The thread ends: its client gets an answer that continues what it        *)
(* followed, or has left                                                    *)
LEMMA AnswerPages ==
    ASSUME IInv, PageInv, queue # <<>>, UNCHANGED <<case, decoded, file, tool>>,
           NEW answer, Answer(answer), NEW r,
           r = [answer EXCEPT !.limit = work.limit, !.asked = work.asked],
           Chain(World, r, got[Holder] \o answer.rows),
           \A e \in ToSet(analyses') : e \in ToSet(analyses) \/ KeptPage(World, e),
           case.format = "preview" => projections' = <<>>
    PROVE  PageInv'
  <1>1. /\ queue \in Seq(Clients) /\ Waiting /\ DOMAIN reply = Clients /\ DOMAIN got = Clients
        /\ Holder = queue[1] /\ Holder \in Clients
    BY DEF IInv, Shape, PageInv, Holder
  <1>2. World' = World /\ Later(World, World')
    BY SameWorld
  <1>3. /\ queue' = Tail(queue) /\ work' = Idle
        /\ reply' = [reply EXCEPT ![Holder] = IF Holder \in cancelled THEN NoReply ELSE r]
        /\ got' = [got EXCEPT ![Holder] = IF Holder \in cancelled THEN <<>>
                                          ELSE got[Holder] \o answer.rows]
    BY DEF Answer
  <1>4. /\ DOMAIN reply' = Clients /\ DOMAIN got' = Clients
        /\ \A d \in Clients \ {Holder} : reply'[d] = reply[d] /\ got'[d] = got[d]
    BY <1>1, <1>3
  <1>5. Chain(World', reply'[Holder], got'[Holder])
    <2>1. CASE Holder \in cancelled
      BY <1>1, <1>3, <2>1, NothingFollowed
    <2>2. CASE Holder \notin cancelled
      BY <1>1, <1>2, <1>3, <2>2
    <2> QED BY <2>1, <2>2
  <1>6. PICK q, p : q = queue /\ p = queue'
    OBVIOUS
  <1>7. /\ q \in Seq(Clients) /\ q # <<>> /\ Distinct(q) /\ DOMAIN p = 1..(Len(q) - 1)
        /\ \A i \in 1..(Len(q) - 1) : p[i] = q[i + 1]
    <2>1. /\ DOMAIN queue' = 1..(Len(queue) - 1)
          /\ \A i \in 1..(Len(queue) - 1) : queue'[i] = queue[i + 1]
      BY <1>1, <1>3
    <2> QED BY <1>1, <1>6, <2>1 DEF Waiting
  <1>8. /\ Distinct(p)
        /\ \A i \in DOMAIN p : i + 1 \in DOMAIN q /\ p[i] = q[i + 1] /\ p[i] # q[1]
    BY <1>7, TailDistinct
  <1>9. ASSUME NEW i \in DOMAIN queue' PROVE reply'[queue'[i]].status = "none"
    <2>1. i + 1 \in DOMAIN queue /\ queue'[i] = queue[i + 1] /\ queue'[i] # Holder
      BY <1>1, <1>6, <1>8, <1>9
    <2>2. queue[i + 1] \in Clients /\ reply[queue[i + 1]].status = "none"
      BY <1>1, <2>1 DEF Waiting
    <2> QED BY <1>4, <2>1, <2>2
  <1>10. Waiting' /\ Asking'
    <2>1. work'.stage = "idle"
      BY <1>3 DEF Idle
    <2> QED BY <1>6, <1>8, <1>9, <2>1 DEF Waiting, Asking
  <1>11. \A d \in Clients : \/ reply'[d] = reply[d] /\ got'[d] = got[d]
                            \/ Chain(World', reply'[d], got'[d])
    BY <1>4, <1>5
  <1>12. \A e \in ToSet(analyses') : e \in ToSet(analyses) \/ KeptPage(World', e)
    BY <1>2
  <1> QED BY <1>2, <1>4, <1>10, <1>11, <1>12, PagesKept

(* What the holder asked *)
LEMMA HolderAsked ==
    ASSUME IInv, PageInv, queue # <<>>, work.stage # "idle"
    PROVE  /\ Holder \in Clients /\ reply[Holder].status = "none"
           /\ Chain(World, reply[Holder], got[Holder])
           /\ work.limit \in Nat /\ TokenOK(World, work.asked)
           /\ IF work.asked = NoToken THEN got[Holder] = <<>>
              ELSE Cut(World, got[Holder], work.asked.seen, 0, work.asked)
           /\ Offset \in Nat
  <1>1. Holder \in Clients /\ 1 \in DOMAIN queue /\ Holder = queue[1]
    BY DEF IInv, Shape, Holder
  <1>2. reply[Holder].status = "none" /\ Chain(World, reply[Holder], got[Holder])
    BY <1>1 DEF PageInv, Waiting
  <1>3. work.limit = reply[Holder].limit /\ work.asked = reply[Holder].asked
    BY DEF PageInv, Asking
  <1>4. /\ work.limit \in Nat /\ TokenOK(World, work.asked)
        /\ IF work.asked = NoToken THEN got[Holder] = <<>>
           ELSE Cut(World, got[Holder], work.asked.seen, 0, work.asked)
    BY <1>2, <1>3 DEF Chain
  <1>5. Offset \in Nat
    BY <1>4 DEF Offset, TokenOK, NoToken
  <1> QED BY <1>1, <1>2, <1>4, <1>5

LEMMA FailPages ==
    ASSUME IInv, PageInv, queue # <<>>, work.stage # "idle", UNCHANGED <<case, decoded, file, tool>>,
           NEW code, code \notin {"none", "ok"}, Fail(code),
           code = "INVALID_INPUT" =>
               /\ work.asked # NoToken
               /\ \/ work.limit # work.asked.limit \/ work.asked.tool < tool
                  \/ \E s \in Sources : work.asked.seen[s] < file[s]
    PROVE  PageInv'
  <1> DEFINE answer == [NoReply EXCEPT !.status = code]
             r == [answer EXCEPT !.limit = work.limit, !.asked = work.asked]
  <1>1. Answer(answer) /\ UNCHANGED <<projections, analyses>>
    BY DEF Fail
  <1>2. /\ r.status = code /\ r.token = NoToken /\ r.limit = work.limit /\ r.asked = work.asked
        /\ DOMAIN r = DOMAIN NoReply
    BY NoReplyFields
  <1>3. work.limit \in Nat /\ TokenOK(World, work.asked)
    BY HolderAsked
  <1>4. DOMAIN World.file = Sources /\ World.file = file /\ World.tool = tool
    BY WorldTyped
  <1> HIDE DEF r
  <1>5. Chain(World, r, got[Holder] \o answer.rows)
    BY <1>2, <1>3, <1>4 DEF Chain
  <1>6. case.format = "preview" => projections' = <<>>
    BY <1>1 DEF PageInv
  <1>7. r = [answer EXCEPT !.limit = work.limit, !.asked = work.asked]
    BY DEF r
  <1> HIDE DEF answer
  <1> QED BY <1>1, <1>5, <1>6, <1>7, AnswerPages

-----------------------------------------------------------------------------
(* The steps of the thread *)

LEMMA SameAsking ==
    ASSUME IInv, PageInv, work.stage # "idle", UNCHANGED <<case, tool, clientVars>>,
           work'.limit = work.limit, work'.asked = work.asked, work'.seen = work.seen,
           work'.tool = work.tool, work'.stage # "resolve" => work.stage # "resolve",
           work'.stage \in {"read", "page", "verify"} /\ work.asked # NoToken => Matches,
           work'.stage \in {"page", "verify"} /\ case.format = "preview" =>
              Len(work'.read) = Count /\ work'.table = Preview(DocsAt(work'.read), Offset, work.limit)
    PROVE  Asking'
  <1>1. Holder' = Holder /\ reply' = reply /\ Identified' = Identified /\ Offset' = Offset
        /\ Count' = Count
    BY DEF Holder, Identified, Offset, Count, clientVars
  <1>2. Matches' <=> Matches
    BY <1>1 DEF Matches
  <1>3. DocsAt(work.read)' = DocsAt(work'.read)
    BY DEF DocsAt, DocsOf
  <1> QED BY <1>1, <1>2, <1>3 DEF PageInv, Asking

LEMMA AcquirePages == ASSUME IInv, PageInv, Acquire PROVE PageInv'
  <1>1. queue # <<>> /\ work.stage = "idle"
        /\ UNCHANGED <<case, decoded, file, tool, sessionVars, clientVars, jobVars>>
    BY DEF Acquire, At
  <1>2. /\ DOMAIN Idle = {"stage", "limit", "asked", "seen", "tool", "read", "table", "fresh", "checked"}
        /\ Idle.seen = <<>>
    BY DEF Idle
  <1>3. work' = [Idle EXCEPT !.stage = "resolve", !.limit = reply[Holder].limit,
                             !.asked = reply[Holder].asked]
    BY DEF Acquire
  <1>4. work'.stage = "resolve" /\ work'.limit = reply[Holder].limit
        /\ work'.asked = reply[Holder].asked /\ work'.seen = <<>>
    BY <1>2, <1>3
  <1>5. Holder' = Holder /\ reply' = reply
    BY <1>1 DEF Holder, clientVars
  <1>6. Asking'
    BY <1>4, <1>5 DEF Asking
  <1> QED BY <1>1, <1>6, ThreadPages DEF sessionVars, PageInv

LEMMA ResolvePages == ASSUME IInv, PageInv, Resolve PROVE PageInv'
  <1> DEFINE s == Len(work.seen) + 1
  <1>1. queue # <<>> /\ work.stage = "resolve" /\ s \in Sources
        /\ UNCHANGED <<case, decoded, file, tool, jobVars>>
    BY DEF Resolve, At
  <1>2. CASE Fail("MISSING_OR_CHANGED_INPUT")
    BY <1>1, <1>2, FailPages
  <1>3. CASE /\ ~ (work.asked # NoToken /\ work.asked.seen[s] # file[s])
             /\ work' = [work EXCEPT !.seen = Append(@, file[s])] /\ UNCHANGED <<sessionVars, clientVars>>
    <2>1. /\ work'.stage = "resolve" /\ work'.seen = Append(work.seen, file[s])
          /\ work'.limit = work.limit /\ work'.asked = work.asked
      BY <1>1, <1>3, Working DEF WorkOK
    <2>2. work.seen \in Seq(Nat) /\ file[s] \in Nat /\ file[s] \in DOMAIN case.sources[s]
      BY <1>1, Working DEF WorkOK, Shape
    <2>3. Len(work'.seen) = s /\ \A t \in 1..s : work'.seen[t] = IF t = s THEN file[s] ELSE work.seen[t]
      BY <2>1, <2>2
    <2>4. Holder' = Holder /\ reply' = reply
      BY <1>3 DEF Holder, clientVars
    <2>5. ASSUME NEW t \in 1..Len(work'.seen)
          PROVE  /\ work'.seen[t] \in DOMAIN case'.sources[t]
                 /\ work'.asked # NoToken => work'.seen[t] = work'.asked.seen[t]
      <3>1. CASE t = s
        BY <1>1, <1>3, <2>1, <2>2, <2>3, <3>1
      <3>2. CASE t # s
        <4>1. t \in 1..Len(work.seen) /\ work'.seen[t] = work.seen[t]
          BY <2>2, <2>3, <3>2
        <4> QED BY <1>1, <2>1, <4>1 DEF PageInv, Asking
      <3> QED BY <3>1, <3>2
    <2>6. Asking'
      BY <1>1, <2>1, <2>4, <2>5 DEF PageInv, Asking
    <2> QED BY <1>1, <1>3, <2>6, ThreadPages DEF sessionVars, PageInv
  <1> QED BY <1>2, <1>3 DEF Resolve

LEMMA IdentifyPages == ASSUME IInv, PageInv, Identify PROVE PageInv'
  <1>1. queue # <<>> /\ work.stage = "resolve"
        /\ UNCHANGED <<case, decoded, file, tool, sessionVars, clientVars, jobVars>>
    BY DEF Identify, At
  <1>2. /\ work'.stage = "identified" /\ work'.seen = work.seen /\ work'.limit = work.limit
        /\ work'.asked = work.asked /\ work'.tool = tool
    BY Working DEF Identify, WorkOK
  <1>3. Holder' = Holder /\ reply' = reply
    BY <1>1 DEF Holder, clientVars
  <1>4. tool \in Nat /\ (work.asked # NoToken => work.asked.tool <= tool)
    BY <1>1, HolderAsked, WorldTyped DEF TokenOK
  <1>5. tool <= tool
    BY <1>4
  <1>6. Asking'
    BY <1>1, <1>2, <1>3, <1>4, <1>5 DEF PageInv, Asking
  <1> QED BY <1>1, <1>6, ThreadPages DEF sessionVars, PageInv

(* Nothing but the reading of sources goes on *)
LEMMA ReadingPages ==
    ASSUME IInv, PageInv, work.stage = "read",
           UNCHANGED <<case, decoded, file, tool, clientVars, projections, analyses>>,
           work'.stage = "read", work'.limit = work.limit, work'.asked = work.asked,
           work'.seen = work.seen, work'.tool = work.tool
    PROVE  PageInv'
  <1>1. work.asked # NoToken => Matches
    BY DEF PageInv, Asking
  <1>2. Asking'
    BY <1>1, SameAsking
  <1> QED BY <1>2, ThreadPages DEF PageInv

LEMMA ReadSourcePages == ASSUME IInv, PageInv, ReadSource PROVE PageInv'
  <1>1. PICK s \in Sources : /\ Reading(s) /\ HasRead(file[s])
                             /\ UNCHANGED <<case, decoded, file, tool, sessionVars, clientVars, jobVars>>
    BY DEF ReadSource
  <1>2. /\ work.stage = "read" /\ work'.stage = "read" /\ work'.limit = work.limit
        /\ work'.asked = work.asked /\ work'.seen = work.seen /\ work'.tool = work.tool
    BY <1>1, Working DEF Reading, At, HasRead, WorkOK
  <1> QED BY <1>1, <1>2, ReadingPages DEF sessionVars

LEMMA ConvertPages == ASSUME IInv, PageInv, Convert PROVE PageInv'
  <1> DEFINE key == <<work.seen[1], tool>>
  <1>1. queue # <<>> /\ work.stage = "read" /\ UNCHANGED <<case, decoded, file, tool, jobVars>>
    BY DEF Convert, Reading, At
  <1>2. CASE HasRead(conversions[key]) /\ UNCHANGED <<sessionVars, clientVars>>
    <2>1. /\ work'.stage = "read" /\ work'.limit = work.limit
          /\ work'.asked = work.asked /\ work'.seen = work.seen /\ work'.tool = work.tool
      BY <1>1, <1>2, Working DEF HasRead, WorkOK
    <2> QED BY <1>1, <1>2, <2>1, ReadingPages DEF sessionVars
  <1>3. CASE /\ work' = [work EXCEPT !.read = Append(@, file[1]), !.fresh = @ \cup {key}]
             /\ UNCHANGED <<projections, analyses, clientVars>>
    <2>1. /\ work'.stage = "read" /\ work'.limit = work.limit
          /\ work'.asked = work.asked /\ work'.seen = work.seen /\ work'.tool = work.tool
      BY <1>1, <1>3, Working DEF WorkOK
    <2> QED BY <1>1, <1>3, <2>1, ReadingPages
  <1>4. CASE Fail("DECODE_FAILURE")
    BY <1>1, <1>4, FailPages
  <1> QED BY <1>2, <1>3, <1>4 DEF Convert

LEMMA WorkerPages ==
    ASSUME IInv, PageInv, StartWorker \/ WorkerReads \/ WorkerStep
    PROVE  PageInv'
  <1>1. CASE StartWorker
    <2>1. PICK s \in Sources : Reading(s)
      BY <1>1 DEF StartWorker
    <2>2. work.stage = "read"
          /\ UNCHANGED <<case, decoded, file, tool, work, sessionVars, clientVars>>
      BY <1>1, <2>1 DEF StartWorker, Reading, At
    <2> QED BY <2>2, ReadingPages DEF sessionVars
  <1>2. CASE WorkerReads
    <2>1. job.stage # "none" /\ HasRead(file[Len(work.read) + 1])
          /\ UNCHANGED <<case, decoded, file, tool, sessionVars, clientVars>>
      BY <1>2 DEF WorkerReads
    <2>2. work.stage = "read"
      BY <2>1, Running
    <2>3. /\ work'.stage = "read" /\ work'.limit = work.limit
          /\ work'.asked = work.asked /\ work'.seen = work.seen /\ work'.tool = work.tool
      BY <2>1, <2>2, Working DEF HasRead, WorkOK
    <2> QED BY <2>1, <2>2, <2>3, ReadingPages DEF sessionVars
  <1>3. CASE WorkerStep
    <2>1. job.stage # "none"
          /\ UNCHANGED <<case, decoded, file, tool, work, sessionVars, clientVars>>
      BY <1>3 DEF WorkerStep, WriteResponse, ExitJob, RejectJob, HandleJob, KillJob
    <2>2. work.stage = "read"
      BY <2>1, Running
    <2> QED BY <2>1, <2>2, ReadingPages DEF sessionVars
  <1> QED BY <1>1, <1>2, <1>3

LEMMA LoadWorkerPages == ASSUME IInv, PageInv, LoadWorker PROVE PageInv'
  <1>1. job.stage # "none" /\ UNCHANGED <<case, decoded, file, tool>>
    BY DEF LoadWorker, EndJob
  <1>2. queue # <<>> /\ work.stage = "read"
    BY <1>1, Running
  <1>3. CASE UNCHANGED <<work, sessionVars, clientVars>>
    BY <1>1, <1>2, <1>3, ReadingPages DEF sessionVars
  <1>4. CASE Loaded # "ok" /\ Fail(Loaded)
    <2>1. Loaded \notin {"none", "INVALID_INPUT"}
      BY DEF Loaded
    <2> QED BY <1>1, <1>2, <1>4, <2>1, FailPages
  <1> QED BY <1>3, <1>4 DEF LoadWorker

LEMMA MinOfTwo == ASSUME NEW a \in Nat, NEW b \in Nat PROVE Min({a, b}) = IF a <= b THEN a ELSE b
  <1>1. \E x \in {a, b} : \A y \in {a, b} : x <= y
    OBVIOUS
  <1>2. Min({a, b}) \in {a, b} /\ \A y \in {a, b} : Min({a, b}) <= y
    BY <1>1 DEF Min
  <1> QED BY <1>2

(* A continuation that is honoured names the versions that were hashed *)
LEMMA SeenVersions ==
    ASSUME IInv, PageInv, work.stage \in {"identified", "read", "page", "verify"}
    PROVE  /\ work.seen \in Versions /\ Older(World, work.seen)
           /\ World.all[work.seen] \in Seq(ToSet(World.all[work.seen]))
           /\ World.all[work.seen] = AllRows(work.seen)
           /\ work.asked # NoToken => work.asked.seen = work.seen
  <1>1. /\ work.seen \in Seq(Nat) /\ Len(work.seen) = Count /\ Count \in Nat /\ Sources = 1..Count
        /\ \A s \in 1..Count : work.seen[s] <= file[s]
    BY Working DEF HashInv, WorkOK
  <1>2. /\ \A s \in 1..Count : work.seen[s] \in DOMAIN case.sources[s]
        /\ work.asked # NoToken => \A s \in 1..Count : work.seen[s] = work.asked.seen[s]
    BY <1>1 DEF PageInv, Asking
  <1>3. work.seen \in [Sources -> Nat]
    BY <1>1
  <1>4. work.seen \in Versions
    <2>1. \A s \in Sources : work.seen[s] \in UNION { DOMAIN case.sources[t] : t \in Sources }
      BY <1>1, <1>2
    <2>2. work.seen \in [Sources -> UNION { DOMAIN case.sources[t] : t \in Sources }]
      BY <1>3, <2>1
    <2> QED BY <1>1, <1>2, <2>2 DEF Versions, VersionsOf, Sources
  <1>5. Older(World, work.seen)
    BY <1>1, <1>3, <1>4, WorldTyped DEF Older
  <1>6. World.all[work.seen] = AllRows(work.seen)
    BY <1>4, WorldTyped
  <1>7. ASSUME work.asked # NoToken PROVE work.asked.seen = work.seen
    <2>1. queue # <<>>
      BY DEF IInv, LockInv
    <2>2. work.asked.seen \in Versions
      BY <1>7, <2>1, HolderAsked, WorldTyped DEF TokenOK, Older
    <2>3. work.asked.seen \in [Sources -> UNION { DOMAIN case.sources[t] : t \in Sources }]
      BY <2>2 DEF Versions, VersionsOf, Sources
    <2>4. \A s \in Sources : work.seen[s] = work.asked.seen[s]
      BY <1>1, <1>2, <1>7
    <2> QED BY <1>3, <2>3, <2>4
  <1> QED BY <1>4, <1>5, <1>6, <1>7 DEF PageInv

(* What was read is what was hashed, or there is a newer version of it *)
LEMMA ReadOrNewer ==
    ASSUME IInv, PageInv, work.stage \in {"page", "verify"}
    PROVE  \/ work.read = <<>> \/ work.read = work.seen
           \/ \E s \in Sources : work.seen[s] < file[s]
  <1>1. /\ work.seen \in Seq(Nat) /\ Len(work.seen) = Count /\ Count \in Nat /\ Sources = 1..Count
        /\ work.read \in Seq(Nat) /\ \A s \in Sources : file[s] \in Nat
        /\ \A s \in 1..Len(work.read) : work.seen[s] <= work.read[s] /\ work.read[s] <= file[s]
    BY Working DEF HashInv, ReadInv, WorkOK
  <1>2. work.read = <<>> \/ Len(work.read) = Count
    BY Working DEF TableInv, PageInv, Asking
  <1>3. ASSUME Len(work.read) = Count, ~ \E s \in Sources : work.seen[s] < file[s]
        PROVE  work.read = work.seen
    <2>1. ASSUME NEW s \in 1..Count PROVE work.read[s] = work.seen[s]
      <3>1. /\ work.seen[s] \in Nat /\ work.read[s] \in Nat /\ file[s] \in Nat
            /\ work.seen[s] <= work.read[s] /\ work.read[s] <= file[s] /\ ~ (work.seen[s] < file[s])
        BY <1>1, <1>3
      <3> QED BY <3>1
    <2> QED BY <1>1, <1>3, <2>1, SameElements
  <1> QED BY <1>2, <1>3

(* The table of the request is that of the versions it hashed, then *)
LEMMA TableOfSeen ==
    ASSUME IInv, PageInv, work.stage \in {"page", "verify"}, work.read = <<>> \/ work.read = work.seen
    PROVE  /\ case.format # "preview" => work.table.rows = World.all[work.seen]
           /\ case.format = "preview" =>
                 /\ work.table = Preview(DocsAt(work.seen), Offset, work.limit)
                 /\ FlattenSeq(DocsAt(work.seen)) = World.all[work.seen]
  <1>1. World.all[work.seen] = AllRows(work.seen)
    BY SeenVersions
  <1>2. CASE case.format # "preview"
    <2>1. work.seen \in Seq(Nat) /\ Len(work.seen) = Count /\ work.read \in Seq(Nat)
      BY Working DEF HashInv, WorkOK
    <2>2. Len(work.read) = Count => work.read = work.seen
      BY <2>1
    <2>3. work.table = decoded[work.seen]
      BY <1>2, <2>2, Working DEF TableInv
    <2> QED BY <1>1, <1>2, <2>3 DEF AllRows
  <1>3. CASE case.format = "preview"
    <2>1. Len(work.read) = Count /\ work.table = Preview(DocsAt(work.read), Offset, work.limit)
      BY <1>3 DEF PageInv, Asking
    <2>2. work.read = work.seen
      <3>1. work.seen \in Seq(Nat) /\ Len(work.seen) = Count /\ work.read \in Seq(Nat)
        BY Working DEF HashInv, WorkOK
      <3> QED BY <2>1, <3>1
    <2> QED BY <1>1, <1>3, <2>1, <2>2 DEF AllRows
  <1> QED BY <1>2, <1>3

(* A page of rows, as Page and Reply cut it, and the rows between two places *)
PageFrom(all, offset, limit) == SubSeq(all, offset + 1, Min({offset + limit, Len(all)}))
Between(all, m, n) == SubSeq(all, m + 1, n)

LEMMA PageOfRows ==
    ASSUME NEW S, NEW all \in Seq(S), NEW offset \in Nat, offset <= Len(all), NEW limit \in Nat,
           NEW rows, rows = PageFrom(all, offset, limit)
    PROVE  /\ rows \in Seq(S) /\ offset + Len(rows) <= Len(all)
           /\ rows = Between(all, offset, offset + Len(rows))
           /\ offset + Len(rows) <= offset + limit
           /\ Len(all) <= offset + limit => offset + Len(rows) = Len(all)
  <1>1. offset + limit \in Nat /\ Len(all) \in Nat
    OBVIOUS
  <1>2. Min({offset + limit, Len(all)}) = IF offset + limit <= Len(all) THEN offset + limit ELSE Len(all)
    BY <1>1, MinOfTwo
  <1>3. PICK n \in Nat : n = IF offset + limit <= Len(all) THEN limit ELSE Len(all) - offset
    <2>1. limit \in Nat /\ Len(all) - offset \in Nat
      BY <1>1
    <2> QED BY <2>1
  <1>4. offset + n <= Len(all) /\ n <= limit /\ Min({offset + limit, Len(all)}) = offset + n
    BY <1>1, <1>2, <1>3
  <1>5. rows = SubSeq(all, offset + 1, offset + n)
    BY <1>4 DEF PageFrom
  <1>6. SubSeq(all, offset + 1, offset + n) \in Seq(S) /\ Len(SubSeq(all, offset + 1, offset + n)) = n
    <2>1. offset + n <= Len(all)
      BY <1>4
    <2> QED BY <2>1, Sliced
  <1>7. rows \in Seq(S) /\ Len(rows) = n
    BY <1>5, <1>6
  <1>8. /\ offset + n <= Len(all) /\ offset + n <= offset + limit
        /\ Len(all) <= offset + limit => offset + n = Len(all)
    BY <1>1, <1>3, <1>4
  <1> QED BY <1>5, <1>7, <1>8 DEF Between

LEMMA PreviewOfRows ==
    ASSUME NEW S, NEW docs, NEW all \in Seq(S), all = FlattenSeq(docs), NEW offset \in Nat,
           NEW limit \in Nat, NEW table, table = Preview(docs, offset, limit)
    PROVE  /\ table.rows = PageFrom(all, offset, limit)
           /\ table.observed \in Nat /\ (table.observed > offset \/ Len(all) <= offset)
           /\ table.complete => Len(all) <= offset + limit
           /\ ~ table.complete => ~ (Len(all) <= offset + limit)
  <1> DEFINE read == Min({Len(all), offset + limit + 1})
  <1>1. Len(all) \in Nat /\ offset + limit + 1 \in Nat /\ offset + limit \in Nat
    OBVIOUS
  <1>2. read = IF Len(all) <= offset + limit + 1 THEN Len(all) ELSE offset + limit + 1
    BY <1>1, MinOfTwo
  <1>3. table = Table(SubSeq(all, offset + 1, Min({read, offset + limit})), read,
                      read < offset + limit + 1)
    BY DEF Preview
  <1> HIDE DEF read
  <1>4. read \in Nat
    BY <1>1, <1>2
  <1>5. Min({read, offset + limit}) = IF read <= offset + limit THEN read ELSE offset + limit
    BY <1>1, <1>4, MinOfTwo
  <1>6. Min({offset + limit, Len(all)}) = IF offset + limit <= Len(all) THEN offset + limit ELSE Len(all)
    BY <1>1, MinOfTwo
  <1>7. Min({read, offset + limit}) = Min({offset + limit, Len(all)})
    BY <1>1, <1>2, <1>5, <1>6
  <1>8. /\ table.rows = SubSeq(all, offset + 1, Min({read, offset + limit}))
        /\ table.observed = read /\ (table.complete <=> read < offset + limit + 1)
    <2>1. table = [ok |-> TRUE, rows |-> SubSeq(all, offset + 1, Min({read, offset + limit})),
                   observed |-> read, complete |-> (read < offset + limit + 1)]
      BY <1>3, Zenon DEF Table
    <2>2. PICK list : list = SubSeq(all, offset + 1, Min({read, offset + limit}))
      OBVIOUS
    <2>3. CASE read < offset + limit + 1
      <3>1. table = [ok |-> TRUE, rows |-> list, observed |-> read, complete |-> TRUE]
        BY <2>1, <2>2, <2>3
      <3>2. table.rows = list /\ table.observed = read
        BY <3>1
      <3>3. table.complete = TRUE
        BY <3>1
      <3>4. table.complete
        BY <3>3
      <3> QED BY <2>2, <2>3, <3>2, <3>4
    <2>4. CASE ~ (read < offset + limit + 1)
      <3>1. (read < offset + limit + 1) = FALSE
        BY <2>4
      <3>2. table = [ok |-> TRUE, rows |-> list, observed |-> read, complete |-> FALSE]
        BY <2>1, <2>2, <3>1, Zenon
      <3>3. table.rows = list /\ table.observed = read
        BY <3>2
      <3>4. table.complete = FALSE
        BY <3>2
      <3>5. ~ table.complete
        BY <3>4
      <3> QED BY <2>2, <2>4, <3>3, <3>5
    <2> QED BY <2>3, <2>4
  <1>9. read > offset \/ Len(all) <= offset
    BY <1>1, <1>2
  <1>10. read < offset + limit + 1 <=> Len(all) <= offset + limit
    BY <1>1, <1>2
  <1>11. table.rows = PageFrom(all, offset, limit)
    BY <1>7, <1>8 DEF PageFrom
  <1> QED BY <1>4, <1>8, <1>9, <1>10, <1>11

(* A preview looks beyond what it has skipped, when there is more *)
LEMMA PreviewObserves ==
    ASSUME NEW S, NEW docs, FlattenSeq(docs) \in Seq(S), NEW offset \in Nat,
           offset < Len(FlattenSeq(docs)), NEW limit \in Nat
    PROVE  Preview(docs, offset, limit).observed \in Nat
           /\ Preview(docs, offset, limit).observed > offset
  <1>1. PICK all, table : all = FlattenSeq(docs) /\ table = Preview(docs, offset, limit)
    OBVIOUS
  <1>2. all \in Seq(S) /\ Len(all) \in Nat /\ ~ (Len(all) <= offset)
    BY <1>1
  <1>3. table.observed \in Nat /\ (table.observed > offset \/ Len(all) <= offset)
    BY <1>1, <1>2, PreviewOfRows
  <1> QED BY <1>1, <1>2, <1>3

(* The client has followed its pages to this one *)
LEMMA FollowedPage ==
    ASSUME IInv, PageInv, queue # <<>>, work.stage \in {"identified", "verify"},
           NEW answer, DOMAIN answer = DOMAIN NoReply, answer.status = "ok",
           answer.seen = work.seen, Cut(World, answer.rows, work.seen, Offset, answer.token),
           NEW r, r = [answer EXCEPT !.limit = work.limit, !.asked = work.asked]
    PROVE  Chain(World, r, got[Holder] \o answer.rows)
  <1>1. /\ r.status = "ok" /\ r.seen = work.seen /\ r.token = answer.token /\ DOMAIN r = DOMAIN NoReply
        /\ r.limit = work.limit /\ r.asked = work.asked
    BY NoReplyFields
  <1>2. /\ work.limit \in Nat /\ TokenOK(World, work.asked)
        /\ IF work.asked = NoToken THEN got[Holder] = <<>>
           ELSE Cut(World, got[Holder], work.asked.seen, 0, work.asked)
    BY HolderAsked
  <1>3. PICK rows, next : rows = got[Holder] /\ next = answer.rows
    OBVIOUS
  <1>4. Cut(World, rows \o next, work.seen, 0, answer.token)
    <2>1. CASE work.asked = NoToken
      <3>1. Offset = 0 /\ rows = <<>>
        BY <1>2, <1>3, <2>1 DEF Offset, NoToken
      <3>2. Cut(World, next, work.seen, 0, answer.token)
        BY <1>3, <3>1
      <3> QED BY <3>1, <3>2, FirstCut
    <2>2. CASE work.asked # NoToken
      <3>1. work.asked.seen = work.seen
            /\ World.all[work.seen] \in Seq(ToSet(World.all[work.seen]))
        BY <2>2, SeenVersions
      <3>2. Cut(World, rows, work.seen, 0, work.asked)
            /\ Cut(World, next, work.seen, work.asked.offset, answer.token)
        BY <1>2, <1>3, <2>2, <3>1 DEF Offset
      <3> QED BY <2>2, <3>1, <3>2, CutsJoin
    <2> QED BY <2>1, <2>2
  <1> QED BY <1>1, <1>2, <1>3, <1>4 DEF Chain

LEMMA LookPages == ASSUME IInv, PageInv, Look PROVE PageInv'
  <1>1. queue # <<>> /\ work.stage = "identified"
        /\ UNCHANGED <<case, decoded, file, tool, jobVars>>
    BY DEF Look, At
  <1>2. CASE work.asked # NoToken /\ ~ Matches /\ Fail("INVALID_INPUT")
    <2>1. work.asked.seen = work.seen
      BY <1>1, <1>2, SeenVersions
    <2>2. work.limit # work.asked.limit \/ work.tool # work.asked.tool
      BY <1>2, <2>1 DEF Matches, Identified
    <2>3. work.asked.tool \in Nat /\ work.tool \in Nat /\ work.tool <= tool /\ tool \in Nat
          /\ work.asked.tool <= work.tool
      BY <1>1, <1>2, HolderAsked, WorldTyped DEF TokenOK, PageInv, Asking
    <2>4. work.tool # work.asked.tool => work.asked.tool < tool
      BY <2>3
    <2> QED BY <1>1, <1>2, <2>2, <2>4, FailPages
  <1> DEFINE page == <<Identified, Offset>>
  <1>3. CASE /\ work.asked # NoToken => Matches
             /\ Holds(analyses, page) /\ Answer(Entry(analyses, page).value)
             /\ analyses' = Used(analyses, page) /\ UNCHANGED <<projections, conversions>>
    <2>1. CacheOK(analyses, MaxAnalyses) /\ MaxAnalyses \in Nat
      BY CachesHold DEF IInv, Shape
    <2>2. ToSet(analyses') \subseteq ToSet(analyses)
      BY <1>3, <2>1, UsedKept
    <2>3. Entry(analyses, page) \in ToSet(analyses) /\ Entry(analyses, page).key = page
      BY <1>3, <2>1, WithoutKept DEF CacheOK
    <2>4. PICK e : e = Entry(analyses, page)
      OBVIOUS
    <2>5. KeptPage(World, e) /\ e.key = <<Identified, Offset>>
      BY <2>3, <2>4 DEF PageInv
    <2>6. e.value.seen = work.seen /\ Cut(World, e.value.rows, work.seen, Offset, e.value.token)
          /\ DOMAIN e.value = DOMAIN NoReply /\ e.value.status = "ok"
      BY <2>5 DEF KeptPage, Identified
    <2>7. PICK r : r = [e.value EXCEPT !.limit = work.limit, !.asked = work.asked]
      OBVIOUS
    <2>8. Chain(World, r, got[Holder] \o e.value.rows)
      BY <1>1, <1>3, <2>6, <2>7, FollowedPage
    <2>9. case.format = "preview" => projections' = <<>>
      BY <1>3 DEF PageInv
    <2> HIDE DEF page
    <2> QED BY <1>1, <1>3, <2>2, <2>4, <2>7, <2>8, <2>9, AnswerPages
  <1>4. CASE /\ work.asked # NoToken => Matches
             /\ IF Holds(projections, Identified)
                THEN /\ work' = [work EXCEPT !.stage = "page",
                                             !.table = Entry(projections, Identified).value]
                     /\ projections' = Used(projections, Identified)
                ELSE work' = [work EXCEPT !.stage = "read"] /\ UNCHANGED projections
             /\ UNCHANGED <<analyses, conversions, clientVars>>
    <2>1. case.format = "preview" => ~ Holds(projections, Identified)
      BY DEF PageInv, Holds
    <2>2. /\ work'.stage \in {"read", "page"} /\ work'.limit = work.limit /\ work'.asked = work.asked
          /\ work'.seen = work.seen /\ work'.tool = work.tool
          /\ case.format = "preview" => work'.stage = "read"
      BY <1>4, <2>1, Working DEF WorkOK
    <2>3. Asking'
      BY <1>1, <1>4, <2>2, SameAsking
    <2>4. case.format = "preview" => projections' = <<>>
      BY <1>4, <2>1 DEF PageInv
    <2> QED BY <1>1, <1>4, <2>3, <2>4, ThreadPages
  <1> QED BY <1>2, <1>3, <1>4 DEF Look

LEMMA DecodePages == ASSUME IInv, PageInv, Decode PROVE PageInv'
  <1>1. queue # <<>> /\ work.stage = "read" /\ Len(work.read) = Count
        /\ UNCHANGED <<case, decoded, file, tool, jobVars>>
    BY DEF Decode, At, Count
  <1>2. CASE Fail("DECODE_FAILURE")
    BY <1>1, <1>2, FailPages
  <1>3. ASSUME NEW table,
               case.format = "preview" => table = Preview(DocsAt(work.read), Offset, work.limit),
               work' = [work EXCEPT !.stage = "page", !.table = table],
               UNCHANGED <<sessionVars, clientVars>>
        PROVE  PageInv'
    <2>1. /\ work'.stage = "page" /\ work'.limit = work.limit /\ work'.asked = work.asked
          /\ work'.seen = work.seen /\ work'.tool = work.tool /\ work'.read = work.read
          /\ work'.table = table
      BY <1>3, Working DEF WorkOK
    <2>2. work.asked # NoToken => Matches
      BY <1>1 DEF PageInv, Asking
    <2>3. Asking'
      BY <1>1, <1>3, <2>1, <2>2, SameAsking
    <2> QED BY <1>1, <1>3, <2>3, ThreadPages DEF sessionVars, PageInv
  <1> QED BY <1>2, <1>3 DEF Decode

(* A continuation lies beyond its rows only when a source has changed *)
LEMMA BeyondChanged ==
    ASSUME IInv, PageInv, queue # <<>>, work.stage = "page", work.asked # NoToken, Offset >= Beyond
    PROVE  \E s \in Sources : work.asked.seen[s] < file[s]
  <1>1. work.asked.seen = work.seen
    BY SeenVersions
  <1>2. PICK all, S : all = World.all[work.seen] /\ S = ToSet(all)
    OBVIOUS
  <1>3. all \in Seq(S) /\ Offset \in Nat /\ work.limit \in Nat /\ Offset < Len(all)
    BY <1>1, <1>2, SeenVersions, HolderAsked DEF TokenOK, Offset
  <1>4. ASSUME work.read = <<>> \/ work.read = work.seen PROVE Beyond \in Nat /\ Beyond > Offset
    <2>1. CASE case.format # "preview"
      <3>1. Beyond = Len(all)
        BY <1>2, <1>4, <2>1, TableOfSeen DEF Beyond
      <3> QED BY <1>3, <3>1
    <2>2. CASE case.format = "preview"
      <3>1. work.table = Preview(DocsAt(work.seen), Offset, work.limit)
            /\ all = FlattenSeq(DocsAt(work.seen))
        BY <1>2, <1>4, <2>2, TableOfSeen
      <3>2. FlattenSeq(DocsAt(work.seen)) \in Seq(S) /\ Offset < Len(FlattenSeq(DocsAt(work.seen)))
        BY <1>3, <3>1
      <3>3. PICK offset, limit, docs : offset = Offset /\ limit = work.limit /\ docs = DocsAt(work.seen)
        OBVIOUS
      <3>4. /\ FlattenSeq(docs) \in Seq(S) /\ offset < Len(FlattenSeq(docs))
            /\ offset \in Nat /\ limit \in Nat
        BY <1>3, <3>2, <3>3
      <3>5. Preview(docs, offset, limit).observed \in Nat
            /\ Preview(docs, offset, limit).observed > offset
        BY <3>4, PreviewObserves
      <3> QED BY <2>2, <3>1, <3>3, <3>5 DEF Beyond
    <2> QED BY <2>1, <2>2
  <1>5. ~ (work.read = <<>> \/ work.read = work.seen)
    <2>1. Beyond \in Nat /\ Beyond > Offset => ~ (Offset >= Beyond)
      BY <1>3, <1>4
    <2> QED BY <1>4, <2>1
  <1> QED BY <1>1, <1>5, ReadOrNewer

LEMMA PagePages == ASSUME IInv, PageInv, Page PROVE PageInv'
  <1>1. queue # <<>> /\ work.stage = "page" /\ UNCHANGED <<case, decoded, file, tool, jobVars>>
    BY DEF Page, At
  <1>2. CASE work.asked # NoToken /\ Offset >= Beyond /\ Fail("INVALID_INPUT")
    BY <1>1, <1>2, BeyondChanged, FailPages
  <1>3. CASE work' = [work EXCEPT !.stage = "verify"] /\ UNCHANGED <<sessionVars, clientVars>>
    <2>1. /\ work'.stage = "verify" /\ work'.limit = work.limit /\ work'.asked = work.asked
          /\ work'.seen = work.seen /\ work'.tool = work.tool /\ work'.read = work.read
          /\ work'.table = work.table
      BY <1>3, Working DEF WorkOK
    <2>2. /\ work.asked # NoToken => Matches
          /\ case.format = "preview" =>
                Len(work.read) = Count /\ work.table = Preview(DocsAt(work.read), Offset, work.limit)
      BY <1>1 DEF PageInv, Asking
    <2>3. Asking'
      BY <1>1, <1>3, <2>1, <2>2, SameAsking
    <2> QED BY <1>1, <1>3, <2>3, ThreadPages DEF sessionVars, PageInv
  <1> QED BY <1>2, <1>3 DEF Page

LEMMA VerifyPages == ASSUME IInv, PageInv, Verify PROVE PageInv'
  <1>1. queue # <<>> /\ work.stage = "verify" /\ UNCHANGED <<case, decoded, file, tool, jobVars>>
    BY DEF Verify, At
  <1>2. CASE Fail("MISSING_OR_CHANGED_INPUT")
    BY <1>1, <1>2, FailPages
  <1>3. CASE work' = [work EXCEPT !.checked = work.checked + 1] /\ UNCHANGED <<sessionVars, clientVars>>
    <2>1. /\ work'.stage = "verify" /\ work'.limit = work.limit /\ work'.asked = work.asked
          /\ work'.seen = work.seen /\ work'.tool = work.tool /\ work'.read = work.read
          /\ work'.table = work.table
      BY <1>1, <1>3, Working DEF WorkOK
    <2>2. /\ work.asked # NoToken => Matches
          /\ case.format = "preview" =>
                Len(work.read) = Count /\ work.table = Preview(DocsAt(work.read), Offset, work.limit)
      BY <1>1 DEF PageInv, Asking
    <2>3. Asking'
      BY <1>1, <1>3, <2>1, <2>2, SameAsking
    <2> QED BY <1>1, <1>3, <2>3, ThreadPages DEF sessionVars, PageInv
  <1> QED BY <1>2, <1>3 DEF Verify

(* The rows of a preview are those of a page, and more of them lie beyond it *)
LEMMA PreviewPages ==
    ASSUME NEW S, NEW docs, FlattenSeq(docs) \in Seq(S), NEW offset \in Nat, NEW limit \in Nat
    PROVE  /\ Preview(docs, offset, limit).rows = PageFrom(FlattenSeq(docs), offset, limit)
           /\ Preview(docs, offset, limit).complete => Len(FlattenSeq(docs)) <= offset + limit
           /\ ~ Preview(docs, offset, limit).complete => ~ (Len(FlattenSeq(docs)) <= offset + limit)
  <1>1. PICK all, table : all = FlattenSeq(docs) /\ table = Preview(docs, offset, limit)
    OBVIOUS
  <1>2. all \in Seq(S)
    BY <1>1
  <1>3. /\ table.rows = PageFrom(all, offset, limit)
        /\ table.complete => Len(all) <= offset + limit
        /\ ~ table.complete => ~ (Len(all) <= offset + limit)
    BY <1>1, <1>2, PreviewOfRows
  <1> QED BY <1>1, <1>3

(* What Reply answers: the rows of its page, and a continuation when there   *)
(* are more, whatever the provider's format                                  *)
LEMMA PageRowsOfSeen ==
    ASSUME IInv, PageInv, queue # <<>>, work.stage = "verify",
           work.read = <<>> \/ work.read = work.seen,
           NEW all, all = World.all[work.seen], NEW S, all \in Seq(S)
    PROVE  /\ PageRows = PageFrom(all, Offset, work.limit)
           /\ case.format = "preview" =>
                 /\ Continues => ~ (Len(all) <= Offset + work.limit)
                 /\ ~ Continues => Len(all) <= Offset + work.limit
           /\ case.format # "preview" => (Continues <=> Offset + Len(PageRows) < Len(all))
  <1>1. Offset \in Nat /\ work.limit \in Nat
    BY HolderAsked
  <1>2. CASE case.format # "preview"
    <2>1. work.table.rows = all
      BY <1>2, TableOfSeen
    <2> QED BY <1>2, <2>1 DEF PageRows, Continues, PageFrom
  <1>3. CASE case.format = "preview"
    <2>1. PICK docs, offset, limit, table :
             /\ docs = DocsAt(work.seen) /\ offset = Offset /\ limit = work.limit /\ table = work.table
      OBVIOUS
    <2>2. table = Preview(docs, offset, limit) /\ FlattenSeq(docs) = all
      BY <1>3, <2>1, TableOfSeen
    <2>3. FlattenSeq(docs) \in Seq(S) /\ offset \in Nat /\ limit \in Nat
      BY <1>1, <2>1, <2>2
    <2>4. /\ table.rows = PageFrom(all, offset, limit)
          /\ table.complete => Len(all) <= offset + limit
          /\ ~ table.complete => ~ (Len(all) <= offset + limit)
      BY <2>2, <2>3, PreviewPages
    <2>5. PageRows = table.rows /\ (Continues => ~ table.complete) /\ (~ Continues => table.complete)
      BY <1>3, <2>1 DEF PageRows, Continues
    <2>6. /\ Continues => ~ (Len(all) <= offset + limit)
          /\ ~ Continues => Len(all) <= offset + limit
      BY <2>4, <2>5
    <2> QED BY <1>3, <2>1, <2>4, <2>5, <2>6
  <1> QED BY <1>2, <1>3

LEMMA PageCut ==
    ASSUME IInv, PageInv, queue # <<>>, work.stage = "verify",
           work.read = <<>> \/ work.read = work.seen,
           NEW token, token = IF Continues THEN Continuation ELSE NoToken
    PROVE  /\ Cut(World, PageRows, work.seen, Offset, token)
           /\ ~ Continues => Offset + Len(PageRows) = Len(World.all[work.seen])
  <1>1. /\ Older(World, work.seen)
        /\ World.all[work.seen] \in Seq(ToSet(World.all[work.seen]))
    BY SeenVersions
  <1>2. PICK all, S, rows, offset, limit :
           /\ all = World.all[work.seen] /\ S = ToSet(all) /\ rows = PageRows
           /\ offset = Offset /\ limit = work.limit
    OBVIOUS
  <1>3. all \in Seq(S) /\ offset \in Nat /\ limit \in Nat /\ Len(all) \in Nat
    BY <1>1, <1>2, HolderAsked
  <1>4. offset <= Len(all)
    <2>1. CASE work.asked = NoToken
      BY <1>2, <1>3, <2>1 DEF Offset, NoToken
    <2>2. CASE work.asked # NoToken
      <3>1. work.asked.seen = work.seen /\ TokenOK(World, work.asked)
        BY <2>2, SeenVersions, HolderAsked
      <3> QED BY <1>2, <1>3, <2>2, <3>1 DEF TokenOK, Offset
    <2> QED BY <2>1, <2>2
  <1>5. /\ rows = PageFrom(all, offset, limit)
        /\ case.format = "preview" =>
              /\ Continues => ~ (Len(all) <= offset + limit)
              /\ ~ Continues => Len(all) <= offset + limit
        /\ case.format # "preview" => (Continues <=> offset + Len(rows) < Len(all))
    BY <1>2, <1>3, PageRowsOfSeen
  <1>6. /\ rows \in Seq(S) /\ offset + Len(rows) <= Len(all)
        /\ rows = Between(all, offset, offset + Len(rows))
        /\ offset + Len(rows) <= offset + limit
        /\ Len(all) <= offset + limit => offset + Len(rows) = Len(all)
    BY <1>3, <1>4, <1>5, PageOfRows
  <1>7. (Continues => offset + Len(rows) < Len(all)) /\ (~ Continues => offset + Len(rows) = Len(all))
    <2>1. offset + Len(rows) \in Nat /\ offset + limit \in Nat
      BY <1>3, <1>6
    <2> QED BY <1>3, <1>5, <1>6, <2>1
  <1>8. TokenOK(World, token) /\ (token # NoToken => token.seen = work.seen
                                                    /\ token.offset = offset + Len(rows))
    <2>1. CASE ~ Continues
      BY <2>1 DEF TokenOK
    <2>2. CASE Continues
      <3>1. token.seen = work.seen /\ token.tool = work.tool /\ token.offset = offset + Len(rows)
        BY <1>2, <2>2 DEF Continuation
      <3>2. work.tool \in Nat /\ work.tool <= tool /\ World.tool = tool
        BY WorldTyped DEF PageInv, Asking
      <3>3. offset + Len(rows) \in Nat
        BY <1>3, <1>6
      <3> QED BY <1>1, <1>2, <1>7, <2>2, <3>1, <3>2, <3>3 DEF TokenOK
    <2> QED BY <2>1, <2>2
  <1> QED BY <1>1, <1>2, <1>3, <1>6, <1>7, <1>8 DEF Cut, Between

LEMMA VerifiedOrCached ==
    ASSUME IInv, PageInv, work.stage = "verify", work.checked = Count
    PROVE  work.read = <<>> \/ work.read = work.seen
  <1>1. work.read = <<>> \/ Len(work.read) = Count
    BY Working DEF TableInv, PageInv, Asking
  <1> QED BY <1>1, VerifiedReads

LEMMA ReplyPages == ASSUME IInv, PageInv, Reply PROVE PageInv'
  <1>1. queue # <<>> /\ work.stage = "verify" /\ work.checked = Count
        /\ UNCHANGED <<case, decoded, file, tool, conversions, jobVars>>
    BY DEF Reply, At, Count
  <1>2. work.read = <<>> \/ work.read = work.seen
    BY <1>1, VerifiedOrCached
  <1>3. PICK token : token = IF Continues THEN Continuation ELSE NoToken
    OBVIOUS
  <1>4. PICK answer :
           /\ answer.status = "ok" /\ answer.rows = PageRows /\ answer.seen = work.seen
           /\ answer.token = token /\ DOMAIN answer = DOMAIN NoReply
           /\ Answer(answer)
           /\ analyses' = Stored(analyses, <<Identified, Offset>>, answer, MaxAnalyses)
    BY <1>3 DEF Reply, NoReply
  <1>5. Cut(World, answer.rows, work.seen, Offset, answer.token)
    BY <1>1, <1>2, <1>3, <1>4, PageCut
  <1>6. PICK r : r = [answer EXCEPT !.limit = work.limit, !.asked = work.asked]
    OBVIOUS
  <1>7. Chain(World, r, got[Holder] \o answer.rows)
    BY <1>1, <1>4, <1>5, <1>6, FollowedPage
  <1>8. \A e \in ToSet(analyses') : e \in ToSet(analyses) \/ KeptPage(World, e)
    <2>1. CacheOK(analyses, MaxAnalyses) /\ MaxAnalyses \in Nat \ {0}
      BY CachesHold DEF IInv, Shape
    <2>2. ToSet(analyses') \subseteq
             ToSet(analyses) \cup {[key |-> <<Identified, Offset>>, value |-> answer]}
      BY <1>4, <2>1, StoredKept
    <2>3. PICK e : e = [key |-> <<Identified, Offset>>, value |-> answer]
      OBVIOUS
    <2>4. e.key[1] = Identified /\ e.key[2] = Offset /\ e.value = answer
      BY <2>3
    <2>5. Identified.seen = work.seen
      BY DEF Identified
    <2>6. KeptPage(World, e)
      BY <1>4, <1>5, <2>4, <2>5 DEF KeptPage
    <2> QED BY <2>2, <2>3, <2>6
  <1>9. case.format = "preview" => projections' = <<>>
    BY DEF Reply, PageInv
  <1> QED BY <1>1, <1>4, <1>6, <1>7, <1>8, <1>9, AnswerPages

-----------------------------------------------------------------------------
LEMMA InitPages == Init => PageInv
  <1> SUFFICES ASSUME Init PROVE PageInv
    OBVIOUS
  <1>1. PICK i \in DOMAIN Cases : case \in Cases[i]
    BY DEF Init
  <1>2. case.limits \subseteq Nat
    BY <1>1, CasesHaveShape
  <1>3. \A v \in Versions : AllRows(v) \in Seq(ToSet(AllRows(v)))
    <2>1. ASSUME NEW v \in Versions PROVE AllRows(v) = RowsOf(case, v)
      <3>1. decoded[v] = ResultOf(case, v)
        BY DEF Init
      <3> QED BY <3>1 DEF AllRows, RowsOf, DocsAt
    <2>2. \A v \in Versions : RowsOf(case, v) \in Seq(ToSet(RowsOf(case, v)))
      BY <1>1, ProvidersReturnRows DEF Versions
    <2> QED BY <2>1, <2>2
  <1>4. ASSUME NEW c \in Clients PROVE Chain(World, reply[c], got[c])
    <2>1. reply[c] = NoReply /\ got[c] = <<>>
      BY DEF Init
    <2> QED BY <2>1, NothingFollowed
  <1>5. Waiting /\ Asking
    BY DEF Init, Waiting, Asking, Distinct, Idle
  <1>6. ToSet(analyses) = {} /\ projections = <<>> /\ DOMAIN reply = Clients /\ DOMAIN got = Clients
    BY DEF Init, ToSet
  <1> QED BY <1>2, <1>3, <1>4, <1>5, <1>6 DEF PageInv

LEMMA StepPages == IInv /\ PageInv /\ [Next]_vars => PageInv'
  <1> SUFFICES ASSUME IInv, PageInv, [Next]_vars PROVE PageInv'
    OBVIOUS
  <1>1. CASE \E s \in Sources : Edit(s)
    BY <1>1, EditPages
  <1>2. CASE UpdateTool
    BY <1>2, UpdateToolPages
  <1>3. CASE \E c \in case.clients : \/ \E limit \in case.limits : Ask(c, limit) \/ Follow(c, limit)
                                     \/ Cancel(c)
    BY <1>3, AskPages, FollowPages, CancelPages
  <1>4. CASE Serve
    BY <1>4, AcquirePages, ResolvePages, IdentifyPages, LookPages, ReadSourcePages, ConvertPages,
       WorkerPages, LoadWorkerPages, DecodePages, PagePages, VerifyPages, ReplyPages DEF Serve
  <1>5. CASE UNCHANGED vars
    <2>1. UNCHANGED <<case, decoded, file, tool, work, clientVars, projections, analyses>>
      BY <1>5 DEF vars, sessionVars
    <2>2. Asking'
      BY <2>1 DEF PageInv, Asking, Holder, Matches, Identified, Offset, DocsAt, DocsOf, Count, clientVars
    <2> QED BY <2>1, <2>2, ThreadPages DEF PageInv
  <1> QED BY <1>1, <1>2, <1>3, <1>4, <1>5 DEF Next

LEMMA PagesInductive == Spec => [](IInv /\ PageInv)
  <1>1. Init => IInv /\ PageInv
    BY InitOK, InitPages
  <1>2. IInv /\ PageInv /\ [Next]_vars => (IInv /\ PageInv)'
    BY StepOK, StepPages
  <1> QED BY <1>1, <1>2, PTL DEF Spec

(* However many clients page through however many versions of their sources, *)
(* with pages of any size, each has followed a prefix of what the provider   *)
(* makes of the very versions that its answers name (analyze and its cursor  *)
(* in runtime.py): no row is skipped, repeated or of another version,        *)
(* whatever was edited, cached or evicted between and during its requests.   *)
THEOREM PagesFollowTheirVersions == Spec => []PagesAgree
  <1>1. PageInv => PagesAgree
    <2> SUFFICES ASSUME PageInv, NEW c \in Clients, reply[c].status = "ok"
                 PROVE  got[c] = SubSeq(AllRows(reply[c].seen), 1, Len(got[c]))
      BY DEF PagesAgree
    <2>1. Cut(World, got[c], reply[c].seen, 0, reply[c].token)
      BY DEF PageInv, Chain
    <2>2. reply[c].seen \in Versions
      BY <2>1 DEF Cut, Older, World
    <2>3. World.all[reply[c].seen] = AllRows(reply[c].seen)
      BY <2>2 DEF World
    <2>4. got[c] = SubSeq(World.all[reply[c].seen], 0 + 1, 0 + Len(got[c]))
      BY <2>1 DEF Cut
    <2>5. 0 + 1 = 1 /\ 0 + Len(got[c]) = Len(got[c])
      BY <2>1 DEF Cut
    <2> QED BY <2>3, <2>4, <2>5
  <1> QED BY <1>1, PagesInductive, PTL

(* A continuation that the session named and a client follows as it was      *)
(* given always leads to a page: it is refused as invalid only when a source *)
(* or the tool has changed since (the offset check of _page_result), for any *)
(* format, any rows and any page size.                                       *)
THEOREM ContinuationsLeadSomewhere == Spec => []ContinuationsConsumable
  <1>1. IInv /\ PageInv => ContinuationsConsumable
    <2> SUFFICES ASSUME IInv, PageInv, NEW c \in Clients, reply[c].status = "INVALID_INPUT"
                 PROVE  \/ reply[c].limit # reply[c].asked.limit \/ tool # reply[c].asked.tool
                        \/ file # reply[c].asked.seen
      BY DEF ContinuationsConsumable
    <2>1. /\ reply[c].asked # NoToken /\ TokenOK(World, reply[c].asked)
          /\ \/ reply[c].limit # reply[c].asked.limit \/ reply[c].asked.tool < tool
             \/ \E s \in Sources : reply[c].asked.seen[s] < file[s]
      BY WorldTyped DEF PageInv, Chain
    <2>2. reply[c].asked.tool \in Nat /\ tool \in Nat /\ \A s \in Sources : file[s] \in Nat
      BY <2>1, WorldTyped DEF TokenOK
    <2> QED BY <2>1, <2>2
  <1> QED BY <1>1, PagesInductive, PTL

-----------------------------------------------------------------------------
(* The verdict of a kernel.  What the decoder reports: *)
LEMMA BoundedPlain ==
    ASSUME NEW rows, NEW bound
    PROVE  "verdict" \notin DOMAIN Bounded(rows, bound)
  BY Zenon DEF Bounded, Table

LEMMA RefusedPlain == "verdict" \notin DOMAIN Refused
  BY DEF Refused

LEMMA ComparedPlain ==
    ASSUME NEW docs, NEW ask, NEW bound
    PROVE  "verdict" \notin DOMAIN KernelCompared(docs, ask, bound)
  BY BoundedPlain, RefusedPlain DEF KernelCompared

LEMMA KernelVerdict ==
    ASSUME NEW docs, NEW ask, NEW bound, "verdict" \in DOMAIN Kernel(docs, ask, bound)
    PROVE  Kernel(docs, ask, bound).verdict = KernelStatus(docs[1])
  <1>1. PICK table : table = Bounded(KernelRows(docs[1]), bound)
    OBVIOUS
  <1>2. WithVerdict(table, KernelStatus(docs[1])).verdict = KernelStatus(docs[1])
    BY DEF WithVerdict
  <1>3. \/ Kernel(docs, ask, bound) = Refused
        \/ Kernel(docs, ask, bound) = KernelCompared(docs, ask, bound)
        \/ Kernel(docs, ask, bound) = WithVerdict(table, KernelStatus(docs[1]))
    BY <1>1 DEF Kernel
  <1> QED BY <1>2, <1>3, ComparedPlain, RefusedPlain

(* A document that passes has nothing below it that does not *)
LEMMA PassIsAllTheWay ==
    ASSUME NEW doc, KernelStatus(doc) = "pass", NEW k \in ToSet(doc.cases)
    PROVE  /\ k.status = "pass"
           /\ \A o \in ToSet(k.outputs) :
                 o.status = "pass" /\ \A m \in ToSet(o.metrics) : MetricHolds(m)
  <1>1. ~ Contradicted(doc) /\ doc.status = "pass" /\ k.status = "pass"
    BY DEF KernelStatus, Contradicted
  <1> SUFFICES ASSUME NEW o \in ToSet(k.outputs)
               PROVE  o.status = "pass" /\ \A m \in ToSet(o.metrics) : MetricHolds(m)
    BY <1>1
  <1>2. o.status = "pass"
    BY <1>1 DEF Contradicted
  <1>3. ASSUME NEW m \in ToSet(o.metrics) PROVE m.status = "pass" /\ (Decides(m) => Satisfied(m))
    <2>1. m.status = "pass"
      BY <1>1, <1>2 DEF Contradicted
    <2>2. ASSUME Decides(m) PROVE (m.status = "pass") = Satisfied(m)
      BY <1>1, <2>1, <2>2 DEF Contradicted
    <2> QED BY <2>1, <2>2
  <1>4. ASSUME NEW m \in ToSet(o.metrics) PROVE MetricHolds(m)
    <2>1. CASE m.kind = "finite"
      BY <1>3, <2>1 DEF Decides, Satisfied, MetricHolds
    <2>2. CASE m.kind = "positive_infinity"
      BY <1>3, <2>2 DEF Decides, Satisfied, MetricHolds
    <2> QED BY <1>3, <2>1, <2>2 DEF MetricHolds
  <1> QED BY <1>2, <1>4

(* What the session answers and keeps: verdicts of the versions they name *)
VerdictOK(r) ==
    r.verdict = "pass" =>
        /\ case.format = "kernel-validation" /\ r.seen \in Versions
        /\ "verdict" \in DOMAIN decoded[r.seen] /\ decoded[r.seen].verdict = "pass"

VerdictInv ==
    /\ decoded = [v \in Versions |-> ResultOf(case, v)]
    /\ \A c \in Clients : VerdictOK(reply[c])
    /\ \A e \in ToSet(analyses) : VerdictOK(e.value)

LEMMA VerdictsKept ==
    ASSUME VerdictInv, UNCHANGED <<case, decoded>>,
           \A c \in Clients : reply'[c] = reply[c] \/ VerdictOK(reply'[c]),
           \A e \in ToSet(analyses') : e \in ToSet(analyses) \/ VerdictOK(e.value)
    PROVE  VerdictInv'
  <1>1. Versions' = Versions /\ decoded' = [v \in Versions' |-> ResultOf(case', v)]
    BY DEF VerdictInv, Versions
  <1>2. ASSUME NEW r, VerdictOK(r)
        PROVE  r.verdict = "pass" =>
                  /\ case'.format = "kernel-validation" /\ r.seen \in Versions'
                  /\ "verdict" \in DOMAIN decoded'[r.seen] /\ decoded'[r.seen].verdict = "pass"
    BY <1>1, <1>2 DEF VerdictOK
  <1>3. ASSUME NEW c \in Clients PROVE VerdictOK(reply[c])'
    <2>1. VerdictOK(reply'[c])
      BY DEF VerdictInv
    <2> QED BY <1>2, <2>1 DEF VerdictOK
  <1>4. ASSUME NEW e \in ToSet(analyses') PROVE VerdictOK(e.value)'
    <2>1. VerdictOK(e.value)
      BY <1>4 DEF VerdictInv
    <2> QED BY <1>2, <2>1 DEF VerdictOK
  <1> QED BY <1>1, <1>3, <1>4 DEF VerdictInv

LEMMA NoVerdict ==
    ASSUME NEW r, r.verdict = "none"
    PROVE  VerdictOK(r)
  BY DEF VerdictOK

LEMMA AnswerVerdicts ==
    ASSUME IInv, PageInv, VerdictInv, UNCHANGED <<case, decoded>>, queue # <<>>,
           NEW answer, DOMAIN answer = DOMAIN NoReply, VerdictOK(answer), Answer(answer),
           \A e \in ToSet(analyses') : e \in ToSet(analyses) \/ VerdictOK(e.value)
    PROVE  VerdictInv'
  <1>1. PICK r : r = [answer EXCEPT !.limit = work.limit, !.asked = work.asked]
    OBVIOUS
  <1>2. reply' = [reply EXCEPT ![Holder] = IF Holder \in cancelled THEN NoReply ELSE r]
    BY <1>1 DEF Answer
  <1>3. r.verdict = answer.verdict /\ r.seen = answer.seen
    BY <1>1 DEF NoReply
  <1>4. VerdictOK(r) /\ VerdictOK(NoReply)
    BY <1>3 DEF VerdictOK, NoReply
  <1>5. DOMAIN reply = Clients
    BY DEF PageInv
  <1>6. \A c \in Clients : reply'[c] = reply[c] \/ VerdictOK(reply'[c])
    BY <1>2, <1>4, <1>5
  <1> QED BY <1>6, VerdictsKept

LEMMA FailVerdicts ==
    ASSUME IInv, PageInv, VerdictInv, UNCHANGED <<case, decoded>>, queue # <<>>,
           NEW code, Fail(code)
    PROVE  VerdictInv'
  <1>1. PICK answer : answer = [NoReply EXCEPT !.status = code]
    OBVIOUS
  <1>2. answer.verdict = "none" /\ DOMAIN answer = DOMAIN NoReply
    BY <1>1 DEF NoReply
  <1>3. Answer(answer) /\ UNCHANGED analyses
    BY <1>1 DEF Fail
  <1> QED BY <1>2, <1>3, NoVerdict, AnswerVerdicts

LEMMA ClientVerdicts ==
    ASSUME IInv, PageInv, VerdictInv, NEW c \in case.clients,
           \/ \E limit \in case.limits : Ask(c, limit) \/ Follow(c, limit)
           \/ Cancel(c)
    PROVE  VerdictInv'
  <1>1. UNCHANGED <<case, decoded, analyses>>
    BY DEF Ask, Follow, Cancel, sessionVars
  <1>2. \/ UNCHANGED reply
        \/ \E r : reply' = [reply EXCEPT ![c] = r] /\ r.verdict = "none"
    <2>1. ASSUME NEW limit, Ask(c, limit)
          PROVE  \E r : reply' = [reply EXCEPT ![c] = r] /\ r.verdict = "none"
      <3>1. [NoReply EXCEPT !.limit = limit].verdict = "none"
        BY DEF NoReply
      <3>2. reply' = [reply EXCEPT ![c] = [NoReply EXCEPT !.limit = limit]]
        BY <2>1 DEF Ask
      <3> QED BY <3>1, <3>2
    <2>2. ASSUME NEW limit, Follow(c, limit)
          PROVE  \E r : reply' = [reply EXCEPT ![c] = r] /\ r.verdict = "none"
      <3>1. [NoReply EXCEPT !.limit = limit, !.asked = reply[c].token].verdict = "none"
        BY DEF NoReply
      <3>2. reply' = [reply EXCEPT ![c] = [NoReply EXCEPT !.limit = limit, !.asked = reply[c].token]]
        BY <2>2 DEF Follow
      <3> QED BY <3>1, <3>2
    <2>3. CASE Cancel(c)
      BY <2>3 DEF Cancel
    <2> QED BY <2>1, <2>2, <2>3
  <1>3. DOMAIN reply = Clients
    BY DEF PageInv
  <1>4. \A d \in Clients : reply'[d] = reply[d] \/ VerdictOK(reply'[d])
    BY <1>2, <1>3, NoVerdict
  <1> QED BY <1>1, <1>4, VerdictsKept

LEMMA LookVerdicts == ASSUME IInv, PageInv, VerdictInv, Look PROVE VerdictInv'
  <1>1. queue # <<>> /\ UNCHANGED <<case, decoded>>
    BY DEF Look, At
  <1>2. CASE Fail("INVALID_INPUT")
    BY <1>1, <1>2, FailVerdicts
  <1>3. CASE UNCHANGED <<analyses, clientVars>>
    BY <1>1, <1>3, VerdictsKept DEF clientVars
  <1>4. ASSUME NEW page, Holds(analyses, page), Answer(Entry(analyses, page).value),
               analyses' = Used(analyses, page)
        PROVE  VerdictInv'
    <2>1. CacheOK(analyses, MaxAnalyses) /\ MaxAnalyses \in Nat
      BY CachesHold DEF IInv, Shape
    <2>2. ToSet(analyses') \subseteq ToSet(analyses)
      BY <1>4, <2>1, UsedKept
    <2>3. PICK e : e = Entry(analyses, page)
      OBVIOUS
    <2>4. e \in ToSet(analyses)
      BY <1>4, <2>1, <2>3, WithoutKept DEF CacheOK
    <2>5. VerdictOK(e.value) /\ DOMAIN e.value = DOMAIN NoReply
      BY <2>4 DEF VerdictInv, PageInv, KeptPage
    <2> QED BY <1>1, <1>4, <2>2, <2>3, <2>5, AnswerVerdicts
  <1> QED BY <1>2, <1>3, <1>4 DEF Look

LEMMA ReplyVerdicts == ASSUME IInv, PageInv, VerdictInv, Reply PROVE VerdictInv'
  <1>1. queue # <<>> /\ work.stage = "verify" /\ work.checked = Count
        /\ UNCHANGED <<case, decoded>>
    BY DEF Reply, At, Count
  <1>2. PICK answer :
           /\ answer.seen = work.seen /\ answer.verdict = VerdictOf(work.table)
           /\ DOMAIN answer = DOMAIN NoReply /\ Answer(answer)
           /\ analyses' = Stored(analyses, <<Identified, Offset>>, answer, MaxAnalyses)
    BY DEF Reply, NoReply
  <1>3. VerdictOK(answer)
    <2> SUFFICES ASSUME answer.verdict = "pass"
                 PROVE  /\ case.format = "kernel-validation" /\ work.seen \in Versions
                        /\ "verdict" \in DOMAIN decoded[work.seen]
                        /\ decoded[work.seen].verdict = "pass"
      BY <1>2 DEF VerdictOK
    <2>1. case.format = "kernel-validation" /\ "verdict" \in DOMAIN work.table
          /\ work.table.verdict = "pass"
      BY <1>2 DEF VerdictOf
    <2>2. work.table = decoded[work.seen]
      BY <1>1, <2>1, VerifiedTable
    <2> QED BY <1>1, <2>1, <2>2, SeenVersions
  <1>4. \A e \in ToSet(analyses') : e \in ToSet(analyses) \/ VerdictOK(e.value)
    <2>1. CacheOK(analyses, MaxAnalyses) /\ MaxAnalyses \in Nat \ {0}
      BY CachesHold DEF IInv, Shape
    <2>2. ToSet(analyses') \subseteq
             ToSet(analyses) \cup {[key |-> <<Identified, Offset>>, value |-> answer]}
      BY <1>2, <2>1, StoredKept
    <2> QED BY <1>3, <2>2
  <1> QED BY <1>1, <1>2, <1>3, <1>4, AnswerVerdicts

LEMMA StepVerdicts == IInv /\ PageInv /\ VerdictInv /\ [Next]_vars => VerdictInv'
  <1> SUFFICES ASSUME IInv, PageInv, VerdictInv, [Next]_vars PROVE VerdictInv'
    OBVIOUS
  <1>1. ASSUME UNCHANGED <<case, decoded, analyses, clientVars>> PROVE VerdictInv'
    BY <1>1, VerdictsKept DEF clientVars
  <1>2. CASE UpdateTool \/ \E s \in Sources : Edit(s)
    BY <1>1, <1>2 DEF UpdateTool, Edit, sessionVars
  <1>3. CASE \E c \in case.clients : \/ \E limit \in case.limits : Ask(c, limit) \/ Follow(c, limit)
                                     \/ Cancel(c)
    BY <1>3, ClientVerdicts
  <1>4. CASE Acquire \/ Identify \/ ReadSource \/ StartWorker \/ WorkerReads \/ WorkerStep
    BY <1>1, <1>4 DEF Acquire, Identify, ReadSource, StartWorker, WorkerReads, WorkerStep, sessionVars
  <1>5. CASE Resolve \/ Convert \/ Decode \/ Page \/ Verify
    <2>1. queue # <<>> /\ UNCHANGED <<case, decoded>>
      BY <1>5 DEF Resolve, Convert, Decode, Page, Verify, At, Reading
    <2>2. UNCHANGED <<analyses, clientVars>> \/ \E code : Fail(code)
      BY <1>5 DEF Resolve, Convert, Decode, Page, Verify, sessionVars
    <2> QED BY <1>1, <2>1, <2>2, FailVerdicts
  <1>6. CASE LoadWorker
    <2>1. queue # <<>> /\ UNCHANGED <<case, decoded>>
      BY <1>6, Running DEF LoadWorker, EndJob
    <2>2. UNCHANGED <<analyses, clientVars>> \/ Fail(Loaded)
      BY <1>6 DEF LoadWorker, sessionVars
    <2> QED BY <1>1, <2>1, <2>2, FailVerdicts
  <1>7. CASE Look \/ Reply
    BY <1>7, LookVerdicts, ReplyVerdicts
  <1>8. CASE UNCHANGED vars
    BY <1>1, <1>8 DEF vars, sessionVars
  <1> QED BY <1>2, <1>3, <1>4, <1>5, <1>6, <1>7, <1>8 DEF Next, Serve

LEMMA VerdictsInductive == Spec => []VerdictInv
  <1>1. Init => VerdictInv
    <2> SUFFICES ASSUME Init PROVE VerdictInv
      OBVIOUS
    <2>1. \A c \in Clients : reply[c] = NoReply
      BY DEF Init
    <2>2. ToSet(analyses) = {}
      BY DEF Init, ToSet
    <2>3. VerdictOK(NoReply)
      BY DEF VerdictOK, NoReply
    <2>4. decoded = [v \in Versions |-> ResultOf(case, v)]
      BY DEF Init
    <2> QED BY <2>1, <2>2, <2>3, <2>4 DEF VerdictInv
  <1> QED BY <1>1, StepVerdicts, PagesInductive, PTL DEF Spec

(* A page that reports a kernel to pass reports it of the document that its  *)
(* request hashed (and never a verdict that was cached for another one), and *)
(* everything below that document passes and agrees with its comparators     *)
(* (_summarize_kernel), for any document of any size.                        *)
THEOREM PassesAreTrue == Spec => []KernelVerdictsHold
  <1>1. VerdictInv => KernelVerdictsHold
    <2> SUFFICES ASSUME VerdictInv, NEW c \in Clients, reply[c].verdict = "pass",
                        NEW k \in ToSet(DocsAt(reply[c].seen)[1].cases)
                 PROVE  /\ k.status = "pass"
                        /\ \A o \in ToSet(k.outputs) :
                              o.status = "pass" /\ \A m \in ToSet(o.metrics) : MetricHolds(m)
      BY DEF KernelVerdictsHold
    <2>1. PICK v : v = reply[c].seen
      OBVIOUS
    <2>2. /\ case.format = "kernel-validation" /\ v \in Versions /\ decoded[v] = ResultOf(case, v)
          /\ "verdict" \in DOMAIN decoded[v] /\ decoded[v].verdict = "pass"
      BY <2>1 DEF VerdictInv, VerdictOK
    <2>3. PICK docs, ask, bound :
             docs = DocsOf(case, v) /\ ResultOf(case, v) = Kernel(docs, ask, bound)
      <3>1. ResultOf(case, v) = Kernel(DocsOf(case, v), case.ask, case.maxRows + 1)
        BY <2>2 DEF ResultOf, Analysis, BenchmarkFormats, InferenceFormats
      <3> QED BY <3>1
    <2>4. KernelStatus(docs[1]) = "pass"
      BY <2>2, <2>3, KernelVerdict
    <2>5. k \in ToSet(docs[1].cases)
      BY <2>1, <2>3 DEF DocsAt
    <2> QED BY <2>4, <2>5, PassIsAllTheWay
  <1> QED BY <1>1, VerdictsInductive, PTL

-----------------------------------------------------------------------------
(* What a page that claims to be complete promises of the pages to it *)
CompleteOK(r, rows, offset) ==
    r.status = "ok" /\ r.complete =>
        /\ r.token = NoToken /\ offset + Len(rows) = Len(World.all[r.seen])
        /\ case.format # "preview" => decoded[r.seen].complete

CompleteInv ==
    /\ \E i \in DOMAIN Cases : case \in Cases[i]
    /\ \A c \in Clients : CompleteOK(reply[c], got[c], 0)
    /\ \A e \in ToSet(analyses) : CompleteOK(e.value, e.value.rows, e.key[2])

LEMMA CompleteKept ==
    ASSUME CompleteInv, World'.all = World.all, UNCHANGED <<case, decoded>>,
           \A c \in Clients : \/ reply'[c] = reply[c] /\ got'[c] = got[c]
                              \/ CompleteOK(reply'[c], got'[c], 0),
           \A e \in ToSet(analyses') :
               e \in ToSet(analyses) \/ CompleteOK(e.value, e.value.rows, e.key[2])
    PROVE  CompleteInv'
  <1>1. ASSUME NEW r, NEW rows, NEW offset, CompleteOK(r, rows, offset)
        PROVE  r.status = "ok" /\ r.complete =>
                  /\ r.token = NoToken /\ offset + Len(rows) = Len(World'.all[r.seen])
                  /\ case'.format # "preview" => decoded'[r.seen].complete
    BY <1>1 DEF CompleteOK
  <1>2. ASSUME NEW c \in Clients PROVE CompleteOK(reply[c], got[c], 0)'
    <2>1. CompleteOK(reply'[c], got'[c], 0)
      BY DEF CompleteInv
    <2> QED BY <1>1, <2>1 DEF CompleteOK
  <1>3. ASSUME NEW e \in ToSet(analyses') PROVE CompleteOK(e.value, e.value.rows, e.key[2])'
    <2>1. CompleteOK(e.value, e.value.rows, e.key[2])
      BY <1>3 DEF CompleteInv
    <2> QED BY <1>1, <2>1 DEF CompleteOK
  <1> QED BY <1>2, <1>3 DEF CompleteInv

LEMMA CompleteSame ==
    ASSUME CompleteInv, World'.all = World.all, UNCHANGED <<case, decoded, analyses, clientVars>>
    PROVE  CompleteInv'
  BY CompleteKept DEF clientVars

LEMMA EndsWithPage ==
    ASSUME NEW S, NEW p \in Seq(S), NEW q \in Seq(S), NEW offset, offset = Len(p), NEW n,
           offset + Len(q) = n
    PROVE  0 + Len(p \o q) = n
  <1>1. Len(p \o q) = Len(p) + Len(q) /\ Len(p) \in Nat /\ Len(q) \in Nat
    BY Joined
  <1> QED BY <1>1

LEMMA AnswerCompletes ==
    ASSUME IInv, PageInv, CompleteInv, UNCHANGED <<case, decoded, file, tool>>,
           queue # <<>>, work.stage \in {"identified", "verify"},
           NEW answer, DOMAIN answer = DOMAIN NoReply, Answer(answer),
           answer.seen = work.seen, Cut(World, answer.rows, work.seen, Offset, answer.token),
           CompleteOK(answer, answer.rows, Offset),
           \A e \in ToSet(analyses') :
               e \in ToSet(analyses) \/ CompleteOK(e.value, e.value.rows, e.key[2])
    PROVE  CompleteInv'
  <1>1. World' = World
    BY SameWorld
  <1>2. PICK r : r = [answer EXCEPT !.limit = work.limit, !.asked = work.asked]
    OBVIOUS
  <1>3. /\ r.status = answer.status /\ r.seen = answer.seen /\ r.token = answer.token
        /\ r.complete = answer.complete
    BY <1>2 DEF NoReply
  <1>4. PICK S, rows, next, offset :
           /\ S = ToSet(World.all[work.seen]) /\ rows = got[Holder] /\ next = answer.rows
           /\ offset = Offset
    OBVIOUS
  <1>5. next \in Seq(S) /\ rows \in Seq(S) /\ offset = Len(rows)
    <2>1. next \in Seq(S)
      BY <1>4 DEF Cut
    <2>2. CASE work.asked = NoToken
      <3>1. rows = <<>> /\ offset = 0
        BY <1>4, <2>2, HolderAsked DEF Offset, NoToken
      <3> QED BY <2>1, <3>1
    <2>3. CASE work.asked # NoToken
      <3>1. work.asked.seen = work.seen
        BY <2>3, SeenVersions
      <3>2. Cut(World, rows, work.seen, 0, work.asked)
        BY <1>4, <2>3, <3>1, HolderAsked
      <3>3. rows \in Seq(S) /\ work.asked.offset = 0 + Len(rows)
        BY <1>4, <2>3, <3>2 DEF Cut
      <3>4. offset = 0 + Len(rows) /\ Len(rows) \in Nat
        BY <1>4, <3>3 DEF Offset
      <3> QED BY <2>1, <3>3, <3>4
    <2> QED BY <2>2, <2>3
  <1>6. CompleteOK(r, rows \o next, 0)
    <2> SUFFICES ASSUME r.status = "ok", r.complete
                 PROVE  /\ r.token = NoToken
                        /\ 0 + Len(rows \o next) = Len(World.all[r.seen])
                        /\ case.format # "preview" => decoded[r.seen].complete
      BY DEF CompleteOK
    <2>1. answer.status = "ok" /\ answer.complete
      BY <1>3
    <2>2. /\ answer.token = NoToken /\ offset + Len(next) = Len(World.all[answer.seen])
          /\ case.format # "preview" => decoded[answer.seen].complete
      BY <1>4, <2>1 DEF CompleteOK
    <2>3. 0 + Len(rows \o next) = Len(World.all[answer.seen])
      BY <1>5, <2>2, EndsWithPage
    <2> QED BY <1>3, <2>2, <2>3
  <1>7. /\ reply' = [reply EXCEPT ![Holder] = IF Holder \in cancelled THEN NoReply ELSE r]
        /\ got' = [got EXCEPT ![Holder] = IF Holder \in cancelled THEN <<>> ELSE rows \o next]
    BY <1>2, <1>4 DEF Answer
  <1>8. CompleteOK(NoReply, <<>>, 0)
    BY DEF CompleteOK, NoReply
  <1>9. DOMAIN reply = Clients /\ DOMAIN got = Clients /\ Holder \in Clients
    BY HolderAsked DEF PageInv
  <1>10. /\ \A c \in Clients \ {Holder} : reply'[c] = reply[c] /\ got'[c] = got[c]
         /\ reply'[Holder] = IF Holder \in cancelled THEN NoReply ELSE r
         /\ got'[Holder] = IF Holder \in cancelled THEN <<>> ELSE rows \o next
    BY <1>7, <1>9
  <1>11. CompleteOK(reply'[Holder], got'[Holder], 0)
    <2>1. CASE Holder \in cancelled
      BY <1>8, <1>10, <2>1
    <2>2. CASE Holder \notin cancelled
      BY <1>6, <1>10, <2>2
    <2> QED BY <2>1, <2>2
  <1> QED BY <1>1, <1>10, <1>11, CompleteKept

(* An answer that is none *)
LEMMA FailCompletes ==
    ASSUME IInv, PageInv, CompleteInv, UNCHANGED <<case, decoded, file, tool>>, queue # <<>>,
           NEW code, code # "ok", Fail(code)
    PROVE  CompleteInv'
  <1>1. PICK answer, r : /\ answer = [NoReply EXCEPT !.status = code]
                         /\ r = [answer EXCEPT !.limit = work.limit, !.asked = work.asked]
    OBVIOUS
  <1>2. r.status # "ok" /\ NoReply.status # "ok"
    BY <1>1 DEF NoReply
  <1>3. Answer(answer) /\ UNCHANGED analyses
    BY <1>1 DEF Fail
  <1>4. DOMAIN reply = Clients /\ DOMAIN got = Clients
    BY DEF PageInv
  <1>5. /\ \A c \in Clients \ {Holder} : reply'[c] = reply[c] /\ got'[c] = got[c]
        /\ Holder \in Clients => reply'[Holder].status # "ok"
    BY <1>1, <1>2, <1>3, <1>4 DEF Answer
  <1>6. \A c \in Clients : \/ reply'[c] = reply[c] /\ got'[c] = got[c]
                           \/ CompleteOK(reply'[c], got'[c], 0)
    BY <1>5 DEF CompleteOK
  <1> QED BY <1>3, <1>6, SameWorld, CompleteKept

LEMMA ClientCompletes ==
    ASSUME IInv, PageInv, CompleteInv, NEW c \in case.clients,
           \/ \E limit \in case.limits : Ask(c, limit) \/ Follow(c, limit)
           \/ Cancel(c)
    PROVE  CompleteInv'
  <1>1. UNCHANGED <<case, decoded, file, tool, analyses>>
    BY DEF Ask, Follow, Cancel, sessionVars
  <1>2. \A d \in Clients : \/ reply'[d] = reply[d] /\ got'[d] = got[d]
                           \/ reply'[d].status = "none"
    <2>1. ASSUME NEW limit, Ask(c, limit) \/ Follow(c, limit)
          PROVE  /\ \E r : reply' = [reply EXCEPT ![c] = r] /\ r.status = "none"
                 /\ got' = got \/ got' = [got EXCEPT ![c] = <<>>]
      <3>1. /\ [NoReply EXCEPT !.limit = limit].status = "none"
            /\ [NoReply EXCEPT !.limit = limit, !.asked = reply[c].token].status = "none"
        BY DEF NoReply
      <3>2. \/ reply' = [reply EXCEPT ![c] = [NoReply EXCEPT !.limit = limit]]
            \/ reply' = [reply EXCEPT ![c] = [NoReply EXCEPT !.limit = limit, !.asked = reply[c].token]]
        BY <2>1 DEF Ask, Follow
      <3>3. got' = got \/ got' = [got EXCEPT ![c] = <<>>]
        BY <2>1 DEF Ask, Follow
      <3> QED BY <3>1, <3>2, <3>3
    <2>2. CASE Cancel(c)
      BY <2>2 DEF Cancel
    <2>3. DOMAIN reply = Clients /\ DOMAIN got = Clients
      BY DEF PageInv
    <2> QED BY <2>1, <2>2, <2>3
  <1>3. \A d \in Clients : \/ reply'[d] = reply[d] /\ got'[d] = got[d]
                           \/ CompleteOK(reply'[d], got'[d], 0)
    BY <1>2 DEF CompleteOK
  <1> QED BY <1>1, <1>3, SameWorld, CompleteKept

LEMMA LookCompletes == ASSUME IInv, PageInv, CompleteInv, Look PROVE CompleteInv'
  <1>1. queue # <<>> /\ work.stage = "identified" /\ UNCHANGED <<case, decoded, file, tool>>
    BY DEF Look, At
  <1>2. CASE Fail("INVALID_INPUT")
    BY <1>1, <1>2, FailCompletes
  <1>3. CASE UNCHANGED <<analyses, clientVars>>
    BY <1>1, <1>3, SameWorld, CompleteKept DEF clientVars
  <1> DEFINE page == <<Identified, Offset>>
  <1>4. CASE Holds(analyses, page) /\ Answer(Entry(analyses, page).value)
             /\ analyses' = Used(analyses, page)
    <2>1. CacheOK(analyses, MaxAnalyses) /\ MaxAnalyses \in Nat
      BY CachesHold DEF IInv, Shape
    <2>2. ToSet(analyses') \subseteq ToSet(analyses)
      BY <1>4, <2>1, UsedKept
    <2>3. Entry(analyses, page) \in ToSet(analyses) /\ Entry(analyses, page).key = page
      BY <1>4, <2>1, WithoutKept DEF CacheOK
    <2>4. PICK e : e = Entry(analyses, page)
      OBVIOUS
    <2>5. e \in ToSet(analyses) /\ e.key[1] = Identified /\ e.key[2] = Offset
      BY <2>3, <2>4
    <2>6. Identified.seen = work.seen
      BY DEF Identified
    <2>7. KeptPage(World, e) /\ CompleteOK(e.value, e.value.rows, Offset)
      BY <2>5 DEF PageInv, CompleteInv
    <2>8. e.value.seen = work.seen /\ Cut(World, e.value.rows, work.seen, Offset, e.value.token)
          /\ DOMAIN e.value = DOMAIN NoReply
      BY <2>5, <2>6, <2>7 DEF KeptPage
    <2> HIDE DEF page
    <2> QED BY <1>1, <1>4, <2>2, <2>4, <2>7, <2>8, AnswerCompletes
  <1> QED BY <1>2, <1>3, <1>4 DEF Look

LEMMA ReplyCompletes == ASSUME IInv, PageInv, CompleteInv, Reply PROVE CompleteInv'
  <1>1. queue # <<>> /\ work.stage = "verify" /\ work.checked = Count
        /\ UNCHANGED <<case, decoded, file, tool>>
    BY DEF Reply, At, Count
  <1>2. work.read = <<>> \/ work.read = work.seen
    BY <1>1, VerifiedOrCached
  <1>3. PICK token : token = IF Continues THEN Continuation ELSE NoToken
    OBVIOUS
  <1>4. PICK answer :
           /\ answer.rows = PageRows /\ answer.seen = work.seen /\ answer.token = token
           /\ answer.complete => work.table.complete /\ ~ Continues
           /\ DOMAIN answer = DOMAIN NoReply
           /\ Answer(answer)
           /\ analyses' = Stored(analyses, <<Identified, Offset>>, answer, MaxAnalyses)
    BY <1>3 DEF Reply, NoReply
  <1>5. /\ Cut(World, PageRows, work.seen, Offset, token)
        /\ ~ Continues => Offset + Len(PageRows) = Len(World.all[work.seen])
    BY <1>1, <1>2, <1>3, PageCut
  <1>6. CompleteOK(answer, answer.rows, Offset)
    <2> SUFFICES ASSUME answer.complete
                 PROVE  /\ answer.token = NoToken
                        /\ Offset + Len(PageRows) = Len(World.all[work.seen])
                        /\ case.format # "preview" => decoded[work.seen].complete
      BY <1>4 DEF CompleteOK
    <2>1. ~ Continues /\ work.table.complete
      BY <1>4
    <2>2. case.format # "preview" => work.table = decoded[work.seen]
      BY <1>1, VerifiedTable
    <2> QED BY <1>3, <1>4, <1>5, <2>1, <2>2
  <1>7. \A e \in ToSet(analyses') :
            e \in ToSet(analyses) \/ CompleteOK(e.value, e.value.rows, e.key[2])
    <2>1. CacheOK(analyses, MaxAnalyses) /\ MaxAnalyses \in Nat \ {0}
      BY CachesHold DEF IInv, Shape
    <2>2. ToSet(analyses') \subseteq
             ToSet(analyses) \cup {[key |-> <<Identified, Offset>>, value |-> answer]}
      BY <1>4, <2>1, StoredKept
    <2>3. PICK e : e = [key |-> <<Identified, Offset>>, value |-> answer]
      OBVIOUS
    <2>4. e.key[2] = Offset /\ e.value = answer
      BY <2>3
    <2> QED BY <1>6, <2>2, <2>3, <2>4
  <1> QED BY <1>1, <1>4, <1>5, <1>6, <1>7, AnswerCompletes

LEMMA StepCompletes == IInv /\ PageInv /\ CompleteInv /\ [Next]_vars => CompleteInv'
  <1> SUFFICES ASSUME IInv, PageInv, CompleteInv, [Next]_vars PROVE CompleteInv'
    OBVIOUS
  <1>1. ASSUME World' = World, UNCHANGED <<case, decoded, analyses, clientVars>> PROVE CompleteInv'
    BY <1>1, CompleteSame
  <1>2. CASE \E s \in Sources : Edit(s)
    <2>1. World'.all = World.all /\ UNCHANGED <<case, decoded, analyses, clientVars>>
      BY <1>2 DEF World, Versions, VersionsOf, AllRows, DocsAt, DocsOf, Edit, sessionVars
    <2> QED BY <2>1, CompleteSame
  <1>3. CASE UpdateTool
    <2>1. World'.all = World.all /\ UNCHANGED <<case, decoded, analyses, clientVars>>
      BY <1>3 DEF World, Versions, VersionsOf, AllRows, DocsAt, DocsOf, UpdateTool, sessionVars
    <2> QED BY <2>1, CompleteSame
  <1>4. CASE \E c \in case.clients : \/ \E limit \in case.limits : Ask(c, limit) \/ Follow(c, limit)
                                     \/ Cancel(c)
    BY <1>4, ClientCompletes
  <1>5. CASE Acquire \/ Identify \/ ReadSource \/ StartWorker \/ WorkerReads \/ WorkerStep
    <2>1. UNCHANGED <<case, decoded, file, tool, analyses, clientVars>>
      BY <1>5 DEF Acquire, Identify, ReadSource, StartWorker, WorkerReads, WorkerStep, sessionVars
    <2> QED BY <1>1, <2>1, SameWorld
  <1>6. CASE Resolve \/ Convert \/ Decode \/ Page \/ Verify
    <2>1. queue # <<>> /\ UNCHANGED <<case, decoded, file, tool>>
      BY <1>6 DEF Resolve, Convert, Decode, Page, Verify, At, Reading
    <2>2. UNCHANGED <<analyses, clientVars>> \/ \E code : code # "ok" /\ Fail(code)
      BY <1>6 DEF Resolve, Convert, Decode, Page, Verify, sessionVars
    <2> QED BY <1>1, <2>1, <2>2, SameWorld, FailCompletes
  <1>7. CASE LoadWorker
    <2>1. queue # <<>> /\ UNCHANGED <<case, decoded, file, tool>>
      BY <1>7, Running DEF LoadWorker, EndJob
    <2>2. UNCHANGED <<analyses, clientVars>> \/ (Loaded # "ok" /\ Fail(Loaded))
      BY <1>7 DEF LoadWorker, sessionVars
    <2> QED BY <1>1, <2>1, <2>2, SameWorld, FailCompletes
  <1>8. CASE Look \/ Reply
    BY <1>8, LookCompletes, ReplyCompletes
  <1>9. CASE UNCHANGED vars
    <2>1. UNCHANGED <<case, decoded, file, tool, analyses, clientVars>>
      BY <1>9 DEF vars, sessionVars
    <2> QED BY <1>1, <2>1, SameWorld
  <1> QED BY <1>2, <1>3, <1>4, <1>5, <1>6, <1>7, <1>8, <1>9 DEF Next, Serve

(* What CompleteMeansEverything asks of a provider: the rows it calls        *)
(* complete measure the same as the documents they come from                 *)
ProvidersConserve ==
    \A i \in DOMAIN Cases : \A c \in Cases[i] : \A v \in VersionsOf(c) :
        c.format = "preview" \/ ResultOf(c, v).complete
        => Shown(c.format, c.ask, RowsOf(c, v)) = Held(c.format, DocsOf(c, v), c.ask)

(* Paging adds nothing to what a provider must promise: if the rows that it  *)
(* calls complete show all that the documents hold, then the pages of any    *)
(* client whose last one claims to be complete show all of it (the coverage  *)
(* of _analyze), through any edits, evictions, cached pages and projections. *)
THEOREM PagingConserves == ProvidersConserve /\ Spec => []CompleteMeansEverything
  <1>1. Init => CompleteInv
    <2> SUFFICES ASSUME Init PROVE CompleteInv
      OBVIOUS
    <2>1. \A c \in Clients : reply[c] = NoReply
      BY DEF Init
    <2>2. ToSet(analyses) = {} /\ \E i \in DOMAIN Cases : case \in Cases[i]
      BY DEF Init, ToSet
    <2>3. NoReply.status # "ok"
      BY DEF NoReply
    <2> QED BY <2>1, <2>2, <2>3 DEF CompleteInv, CompleteOK
  <1>2. ProvidersConserve /\ PageInv /\ VerdictInv /\ CompleteInv => CompleteMeansEverything
    <2> SUFFICES ASSUME ProvidersConserve, PageInv, VerdictInv, CompleteInv,
                        NEW c \in Clients, reply[c].status = "ok", reply[c].complete
                 PROVE  /\ reply[c].token = NoToken
                        /\ Shown(case.format, case.ask, got[c])
                             = Held(case.format, DocsAt(reply[c].seen), case.ask)
      BY DEF CompleteMeansEverything
    <2>1. PICK v, rows, all, S : v = reply[c].seen /\ rows = got[c] /\ all = World.all[v] /\ S = ToSet(all)
      OBVIOUS
    <2>2. /\ reply[c].token = NoToken /\ 0 + Len(rows) = Len(all)
          /\ case.format # "preview" => decoded[v].complete
      BY <2>1 DEF CompleteInv, CompleteOK
    <2>3. Cut(World, rows, v, 0, reply[c].token)
      BY <2>1 DEF PageInv, Chain
    <2>4. v \in Versions /\ all = AllRows(v) /\ all \in Seq(S)
      <3>1. v \in Versions
        BY <2>3 DEF Cut, Older, World
      <3>2. all = AllRows(v)
        BY <2>1, <3>1 DEF World
      <3> QED BY <2>1, <3>1, <3>2 DEF PageInv
    <2>5. rows \in Seq(S) /\ rows = SubSeq(all, 0 + 1, 0 + Len(rows))
      BY <2>1, <2>3 DEF Cut
    <2>6. rows = all
      <3>1. Len(rows) = Len(all) /\ rows = SubSeq(all, 1, Len(all))
        BY <2>2, <2>4, <2>5
      <3> QED BY <2>4, <3>1
    <2>7. all = RowsOf(case, v) /\ decoded[v] = ResultOf(case, v)
      <3>1. decoded[v] = ResultOf(case, v)
        BY <2>4 DEF VerdictInv
      <3> QED BY <2>4, <3>1 DEF AllRows, RowsOf, DocsAt
    <2>8. Shown(case.format, case.ask, all) = Held(case.format, DocsOf(case, v), case.ask)
      BY <2>2, <2>4, <2>7 DEF ProvidersConserve, CompleteInv, Versions
    <2> QED BY <2>1, <2>2, <2>6, <2>8 DEF DocsAt
  <1>3. Spec => []CompleteInv
    BY <1>1, StepCompletes, PagesInductive, PTL DEF Spec
  <1>4. ProvidersConserve => ProvidersConserve'
    BY DEF ProvidersConserve
  <1> QED BY <1>2, <1>3, <1>4, PagesInductive, VerdictsInductive, PTL DEF Spec
=============================================================================
