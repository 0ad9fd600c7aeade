-------------------------- MODULE RepositoryProofs --------------------------
(***************************************************************************)
(* What Repository guarantees for every set of processes, identifiers,     *)
(* artifacts and manifests.  Each conjunct of the inductive invariant      *)
(* IInv has a lemma that says every step keeps it, with one case for each  *)
(* action; the theorems at the end combine them.                           *)
(***************************************************************************)
EXTENDS Repository, TLAPS

(* The initial state satisfies the inductive invariant. *)
LEMMA InitInv == Init => IInv
<1> SUFFICES ASSUME Init PROVE IInv
  OBVIOUS
<1>1. TypeOK
  <2>1. store \in [Bundle -> Contents]
    BY DEF Init, Contents, Absent
  <2>2. NoRequest \in Requests
    BY DEF NoRequest, Requests
  <2>3. 0 \in 0..LayoutSize
    BY DEF LayoutSize
  <2> QED
    BY <2>1, <2>2, <2>3 DEF Init, TypeOK, Labels, Outcomes
<1>2. StoreInv /\ SweepInv
  BY DEF Init, StoreInv, SweepInv, VisibleBundlesComplete, Live
<1>3. \A p \in Proc : OpenInv(p) /\ PublishInv(p) /\ OutcomeInv(p)
  BY DEF Init, OpenInv, PublishInv, OutcomeInv, Preserving, Opened, Holding, NoRequest
<1> QED
  BY <1>1, <1>2, <1>3 DEF IInv

(* The bundle a publisher is at is one of the store's. *)
LEMMA CurrentIsBundle ==
  ASSUME IInv, NEW p \in Proc, request[p].op = "preserve"
  PROVE  /\ request[p].of \in Evidence
         /\ Current(p) \in Bundle
         /\ item[p] <= Len(Parts[request[p].of]) =>
               Current(p) \in Artifact /\ Current(p) \notin Evidence
         /\ item[p] > Len(Parts[request[p].of]) => Current(p) = request[p].of
<1> DEFINE e == request[p].of
<1>1. e \in Evidence
  BY DEF IInv, OpenInv
<1>2. Parts[e] \in Seq(Artifact) /\ item[p] \in 1..(Len(Parts[e]) + 1)
  BY <1>1, RepositoryConstants DEF IInv, PublishInv
<1>3. item[p] <= Len(Parts[e]) => Parts[e][item[p]] \in Artifact
  BY <1>2
<1> QED
  BY <1>1, <1>2, <1>3, RepositoryConstants DEF Current, Bundle

(* What is at a destination is complete, and so are the artifacts of a
   manifest there. *)
LEMMA VisibleIsComplete ==
  ASSUME IInv, NEW x \in Bundle, store[x] # Absent
  PROVE  /\ store[x] = Complete
         /\ x \in Evidence => \A a \in PartsOf(x) : store[a] = Complete
         /\ Valid(x, store[x])
         /\ metadata
BY DEF IInv, StoreInv, VisibleBundlesComplete, Valid

(* A stage about to be validated or renamed is valid: when it is a manifest,
   the sequence has gone through all of its artifacts. *)
LEMMA StageIsValid ==
  ASSUME IInv, NEW p \in Proc, pc[p] \in {"validate", "rename"}
  PROVE  /\ stage[p] \in Stages
         /\ stage[p].of = Current(p)
         /\ stage[p].has = Complete
         /\ Valid(stage[p].of, stage[p].has)
<1> DEFINE e == request[p].of
<1>1. request[p].op = "preserve"
  BY DEF IInv, OpenInv, Preserving
<1>2. /\ stage[p] \in Stages
      /\ stage[p].of = Current(p)
      /\ stage[p].has = Complete
      /\ item[p] \in 1..(Len(Parts[e]) + 1)
      /\ \A i \in 1..(item[p] - 1) : store[Parts[e][i]] = Complete
  BY <1>1 DEF IInv, TypeOK, PublishInv, Holding
<1>3. ASSUME Current(p) \in Evidence
      PROVE  \A a \in PartsOf(Current(p)) : store[a] = Complete
  <2>1. Current(p) = e /\ item[p] = Len(Parts[e]) + 1 /\ e \in Evidence
    BY <1>1, <1>2, <1>3, CurrentIsBundle
  <2>2. Parts[e] \in Seq(Artifact)
    BY <2>1, RepositoryConstants
  <2>3. PartsOf(e) = { Parts[e][i] : i \in 1..Len(Parts[e]) }
    BY <2>2 DEF PartsOf, Range
  <2> QED
    BY <1>2, <2>1, <2>2, <2>3
<1> QED
  BY <1>2, <1>3 DEF Valid

(* Every step keeps the types. *)
LEMMA TypeStep ==
  ASSUME IInv, NEW p \in Proc, Step(p) \/ Environment(p)
  PROVE  TypeOK'
<1> USE DEF TypeOK, Goto, disk, Labels, Outcomes
<1>a. TypeOK
  BY DEF IInv
<1>b. pc[p] \in Holding => stage[p] \in Stages
  BY <1>a DEF IInv, PublishInv
<1>c. pc[p] \in {"probe", "stage", "unstage"} =>
        request[p].of \in Evidence /\ Current(p) \in Bundle
  BY <1>a, CurrentIsBundle DEF IInv, OpenInv, Preserving
<1>1. CASE ListOwners(p)
  BY <1>1, <1>a DEF ListOwners
<1>2. ASSUME NEW o \in Proc, VisitOwner(p, o) PROVE TypeOK'
  BY <1>2, <1>a DEF VisitOwner
<1>3. CASE EndSweep(p)
  BY <1>3, <1>a DEF EndSweep
<1>4. CASE UnlinkStaged(p)
  BY <1>4, <1>a DEF UnlinkStaged, AbandonSweep
<1>5. CASE RemoveOwner(p)
  BY <1>5, <1>a DEF RemoveOwner, AbandonSweep
<1>6. CASE Plan(p)
  BY <1>6, <1>a DEF Plan, Finish
<1>7. CASE LookForMetadata(p)
  BY <1>7, <1>a DEF LookForMetadata
<1>8. CASE LookForRemains(p)
  BY <1>8, <1>a DEF LookForRemains, Finish
<1>9. CASE LookAgain(p)
  BY <1>9, <1>a DEF LookAgain, Finish
<1>10. CASE MakeDirectory(p)
  BY <1>10, <1>a DEF MakeDirectory, LayoutSize
<1>11. CASE LinkMetadata(p)
  BY <1>11, <1>a DEF LinkMetadata, Finish
<1>12. CASE OpenRepository(p)
  BY <1>12, <1>a DEF OpenRepository, Finish
<1>13. CASE ProbeDestination(p)
  BY <1>13, <1>a, <1>c DEF ProbeDestination, Advance, Finish
<1>14. CASE NewStage(p)
  BY <1>14, <1>a, <1>c DEF NewStage, Stages, Absent, Contents
<1>15. CASE CopyData(p)
  BY <1>15, <1>a, <1>b DEF CopyData, StageContents, Raise, Holding, Stages, Absent, Contents
<1>16. CASE WriteRecord(p)
  BY <1>16, <1>a, <1>b DEF WriteRecord, StageContents, Holding, Stages, Contents
<1>17. CASE ValidateStage(p)
  BY <1>17, <1>a DEF ValidateStage, Raise
<1>18. CASE Rename(p)
  BY <1>18, <1>a, <1>b DEF Rename, Holding, Stages
<1>19. CASE Settle(p)
  BY <1>19, <1>a DEF Settle, Raise
<1>20. CASE Unstage(p)
  BY <1>20, <1>a, <1>c DEF Unstage, Advance, Finish
<1>21. CASE Locate(p)
  BY <1>21, <1>a DEF Locate, Finish
<1>22. CASE Inspect(p)
  BY <1>22, <1>a DEF Inspect, Finish
<1>23. CASE Start(p)
  BY <1>23, <1>a DEF Start
<1>24. CASE Die(p)
  BY <1>24, <1>a DEF Die, NoRequest, Requests
<1>25. ASSUME NEW op \in {"preserve", "read"}, NEW e \in Evidence, Begin(p, op, e)
      PROVE  TypeOK'
  BY <1>25, <1>a DEF Begin, Requests
<1>26. CASE ChangeInput(p)
  BY <1>26, <1>a DEF ChangeInput
<1>27. CASE FailIO(p)
  BY <1>27, <1>a DEF FailIO, Finish, Raise
<1> QED
  BY <1>1, <1>2, <1>3, <1>4, <1>5, <1>6, <1>7, <1>8, <1>9, <1>10, <1>11, <1>12, <1>13, <1>14,
     <1>15, <1>16, <1>17, <1>18, <1>19, <1>20, <1>21, <1>22, <1>23, <1>24, <1>25, <1>26, <1>27
  DEF Step, SweepStep, OpenStep, PublishStep, ReadStep, Environment

(* What a step leaves alone: nothing published changes or goes away. *)
LEMMA StoreGrows ==
  ASSUME IInv, NEW p \in Proc, Step(p) \/ Environment(p)
  PROVE  /\ \A x \in Bundle : store[x] # Absent => store'[x] = store[x]
         /\ acked \subseteq acked'
         /\ metadata => metadata'
<1> DEFINE Grows == /\ \A x \in Bundle : store[x] # Absent => store'[x] = store[x]
                    /\ acked \subseteq acked'
                    /\ metadata => metadata'
<1> USE DEF disk
<1>a. store \in [Bundle -> Contents]
  BY DEF IInv, TypeOK
<1>1. CASE ListOwners(p)
  BY <1>1 DEF ListOwners
<1>2. ASSUME NEW o \in Proc, VisitOwner(p, o) PROVE Grows
  BY <1>2 DEF VisitOwner
<1>3. CASE EndSweep(p)
  BY <1>3 DEF EndSweep
<1>4. CASE UnlinkStaged(p)
  BY <1>4 DEF UnlinkStaged, AbandonSweep
<1>5. CASE RemoveOwner(p)
  BY <1>5 DEF RemoveOwner, AbandonSweep
<1>6. CASE Plan(p)
  BY <1>6 DEF Plan, Finish
<1>7. CASE LookForMetadata(p)
  BY <1>7 DEF LookForMetadata
<1>8. CASE LookForRemains(p)
  BY <1>8 DEF LookForRemains, Finish
<1>9. CASE LookAgain(p)
  BY <1>9 DEF LookAgain, Finish
<1>10. CASE MakeDirectory(p)
  BY <1>10 DEF MakeDirectory, LayoutSize
<1>11. CASE LinkMetadata(p)
  BY <1>11 DEF LinkMetadata, Finish
<1>12. CASE OpenRepository(p)
  BY <1>12 DEF OpenRepository, Finish
<1>13. CASE ProbeDestination(p)
  BY <1>13 DEF ProbeDestination, Advance, Finish
<1>14. CASE NewStage(p)
  BY <1>14 DEF NewStage
<1>15. CASE CopyData(p)
  BY <1>15 DEF CopyData, StageContents, Raise
<1>16. CASE WriteRecord(p)
  BY <1>16 DEF WriteRecord, StageContents
<1>17. CASE ValidateStage(p)
  BY <1>17 DEF ValidateStage, Raise
<1>18. CASE Rename(p)
  BY <1>18, <1>a DEF Rename
<1>19. CASE Settle(p)
  BY <1>19 DEF Settle, Raise
<1>20. CASE Unstage(p)
  BY <1>20 DEF Unstage, Advance, Finish
<1>21. CASE Locate(p)
  BY <1>21 DEF Locate, Finish
<1>22. CASE Inspect(p)
  BY <1>22 DEF Inspect, Finish
<1>23. CASE Start(p)
  BY <1>23 DEF Start
<1>24. CASE Die(p)
  BY <1>24 DEF Die, NoRequest
<1>25. ASSUME NEW op \in {"preserve", "read"}, NEW e \in Evidence, Begin(p, op, e)
      PROVE  Grows
  BY <1>25 DEF Begin
<1>26. CASE ChangeInput(p)
  BY <1>26 DEF ChangeInput
<1>27. CASE FailIO(p)
  BY <1>27 DEF FailIO, Finish, Raise
<1> QED
  BY <1>1, <1>2, <1>3, <1>4, <1>5, <1>6, <1>7, <1>8, <1>9, <1>10, <1>11, <1>12, <1>13, <1>14,
     <1>15, <1>16, <1>17, <1>18, <1>19, <1>20, <1>21, <1>22, <1>23, <1>24, <1>25, <1>26, <1>27
  DEF Step, SweepStep, OpenStep, PublishStep, ReadStep, Environment

(* A process is not affected by the steps of another one, except that the
   dead lose their staging. *)
LEMMA OthersUntouched ==
  ASSUME IInv, NEW p \in Proc, Step(p) \/ Environment(p), NEW q \in Proc, q # p
  PROVE  /\ pc'[q] = pc[q] /\ request'[q] = request[q] /\ item'[q] = item[q]
         /\ intact'[q] = intact[q] /\ outcome'[q] = outcome[q]
         /\ pc[q] # "dead" => stage'[q] = stage[q] /\ (q \in owners => q \in owners')
<1> DEFINE Same == /\ pc'[q] = pc[q] /\ request'[q] = request[q] /\ item'[q] = item[q]
                   /\ intact'[q] = intact[q] /\ outcome'[q] = outcome[q]
                   /\ pc[q] # "dead" => stage'[q] = stage[q] /\ (q \in owners => q \in owners')
<1> USE DEF disk, Goto
<1>a. TypeOK /\ SweepInv
  BY DEF IInv
<1>1. CASE ListOwners(p)
  BY <1>1, <1>a DEF ListOwners, TypeOK
<1>2. ASSUME NEW o \in Proc, VisitOwner(p, o) PROVE Same
  BY <1>2, <1>a DEF VisitOwner, TypeOK
<1>3. CASE EndSweep(p)
  BY <1>3, <1>a DEF EndSweep, TypeOK
<1>4. CASE UnlinkStaged(p)
  BY <1>4, <1>a DEF UnlinkStaged, AbandonSweep, TypeOK, SweepInv, Live
<1>5. CASE RemoveOwner(p)
  BY <1>5, <1>a DEF RemoveOwner, AbandonSweep, TypeOK, SweepInv, Live
<1>6. CASE Plan(p)
  BY <1>6, <1>a DEF Plan, Finish, TypeOK
<1>7. CASE LookForMetadata(p)
  BY <1>7, <1>a DEF LookForMetadata, TypeOK
<1>8. CASE LookForRemains(p)
  BY <1>8, <1>a DEF LookForRemains, Finish, TypeOK
<1>9. CASE LookAgain(p)
  BY <1>9, <1>a DEF LookAgain, Finish, TypeOK
<1>10. CASE MakeDirectory(p)
  BY <1>10, <1>a DEF MakeDirectory, LayoutSize, TypeOK
<1>11. CASE LinkMetadata(p)
  BY <1>11, <1>a DEF LinkMetadata, Finish, TypeOK
<1>12. CASE OpenRepository(p)
  BY <1>12, <1>a DEF OpenRepository, Finish, TypeOK
<1>13. CASE ProbeDestination(p)
  BY <1>13, <1>a DEF ProbeDestination, Advance, Finish, TypeOK
<1>14. CASE NewStage(p)
  BY <1>14, <1>a DEF NewStage, TypeOK
<1>15. CASE CopyData(p)
  BY <1>15, <1>a DEF CopyData, StageContents, Raise, TypeOK
<1>16. CASE WriteRecord(p)
  BY <1>16, <1>a DEF WriteRecord, StageContents, TypeOK
<1>17. CASE ValidateStage(p)
  BY <1>17, <1>a DEF ValidateStage, Raise, TypeOK
<1>18. CASE Rename(p)
  BY <1>18, <1>a DEF Rename, TypeOK
<1>19. CASE Settle(p)
  BY <1>19, <1>a DEF Settle, Raise, TypeOK
<1>20. CASE Unstage(p)
  BY <1>20, <1>a DEF Unstage, Advance, Finish, TypeOK
<1>21. CASE Locate(p)
  BY <1>21, <1>a DEF Locate, Finish, TypeOK
<1>22. CASE Inspect(p)
  BY <1>22, <1>a DEF Inspect, Finish, TypeOK
<1>23. CASE Start(p)
  BY <1>23, <1>a DEF Start, TypeOK
<1>24. CASE Die(p)
  BY <1>24, <1>a DEF Die, NoRequest, TypeOK
<1>25. ASSUME NEW op \in {"preserve", "read"}, NEW e \in Evidence, Begin(p, op, e)
      PROVE  Same
  BY <1>25, <1>a DEF Begin, TypeOK
<1>26. CASE ChangeInput(p)
  BY <1>26, <1>a DEF ChangeInput, TypeOK
<1>27. CASE FailIO(p)
  BY <1>27, <1>a DEF FailIO, Finish, Raise, TypeOK
<1> QED
  BY <1>1, <1>2, <1>3, <1>4, <1>5, <1>6, <1>7, <1>8, <1>9, <1>10, <1>11, <1>12, <1>13, <1>14,
     <1>15, <1>16, <1>17, <1>18, <1>19, <1>20, <1>21, <1>22, <1>23, <1>24, <1>25, <1>26, <1>27
  DEF Step, SweepStep, OpenStep, PublishStep, ReadStep, Environment

(* Only a valid stage reaches a destination, and only what is there is
   acknowledged. *)
LEMMA StoreStep ==
  ASSUME IInv, NEW p \in Proc, Step(p) \/ Environment(p)
  PROVE  StoreInv'
<1> USE DEF StoreInv, VisibleBundlesComplete, Valid, Goto, disk
<1>a. StoreInv
  BY DEF IInv
<1>b. pc[p] \in {"link", "mkdir"} \cup Opened => (metadata \/ pc[p] = "mkdir" \/ dirs = LayoutSize)
  BY DEF IInv, OpenInv
<1>c. dirs \in 0..LayoutSize /\ metadata \in BOOLEAN /\ store \in [Bundle -> Contents]
  BY DEF IInv, TypeOK
<1>d. ASSUME pc[p] \in {"probe", "unstage"}, store[Current(p)] # Absent, Current(p) \in Evidence
      PROVE  store[request[p].of] = Complete /\ metadata
  <2>1. request[p].op = "preserve"
    BY <1>d DEF IInv, OpenInv, Preserving
  <2> QED
    BY <1>d, <2>1, CurrentIsBundle, VisibleIsComplete DEF IInv, PublishInv
<1>1. CASE ListOwners(p)
  BY <1>1, <1>a DEF ListOwners
<1>2. ASSUME NEW o \in Proc, VisitOwner(p, o) PROVE StoreInv'
  BY <1>2, <1>a DEF VisitOwner
<1>3. CASE EndSweep(p)
  BY <1>3, <1>a DEF EndSweep
<1>4. CASE UnlinkStaged(p)
  BY <1>4, <1>a DEF UnlinkStaged, AbandonSweep
<1>5. CASE RemoveOwner(p)
  BY <1>5, <1>a DEF RemoveOwner, AbandonSweep
<1>6. CASE Plan(p)
  BY <1>6, <1>a DEF Plan, Finish
<1>7. CASE LookForMetadata(p)
  BY <1>7, <1>a DEF LookForMetadata
<1>8. CASE LookForRemains(p)
  BY <1>8, <1>a DEF LookForRemains, Finish
<1>9. CASE LookAgain(p)
  BY <1>9, <1>a DEF LookAgain, Finish
<1>10. CASE MakeDirectory(p)
  BY <1>10, <1>a, <1>c DEF MakeDirectory, LayoutSize
<1>11. CASE LinkMetadata(p)
  BY <1>11, <1>a, <1>b DEF LinkMetadata, Finish, Opened
<1>12. CASE OpenRepository(p)
  BY <1>12, <1>a DEF OpenRepository, Finish
<1>13. CASE ProbeDestination(p)
  BY <1>13, <1>a, <1>d DEF ProbeDestination, Advance, Finish
<1>14. CASE NewStage(p)
  BY <1>14, <1>a DEF NewStage
<1>15. CASE CopyData(p)
  BY <1>15, <1>a DEF CopyData, StageContents, Raise
<1>16. CASE WriteRecord(p)
  BY <1>16, <1>a DEF WriteRecord, StageContents
<1>17. CASE ValidateStage(p)
  BY <1>17, <1>a DEF ValidateStage, Raise
<1>18. CASE Rename(p)
  <2>1. stage[p] \in Stages /\ Valid(stage[p].of, stage[p].has) /\ metadata
    BY <1>18, StageIsValid DEF Rename, IInv, OpenInv, Opened
  <2>2. stage[p].of \in Bundle
    BY <2>1 DEF Stages
  <2>3. Complete # Absent
    BY DEF Complete, Absent
  <2>4. \A x \in Bundle : store'[x] = store[x] \/ (x = stage[p].of /\ store'[x] = Complete)
    BY <1>18, <1>c, <2>1, <2>2 DEF Rename
  <2>5. \A x \in Bundle : store[x] # Absent => store'[x] = store[x]
    BY StoreGrows
  <2>6. \A x \in Evidence : PartsOf(x) \subseteq Bundle
    <3> SUFFICES ASSUME NEW x \in Evidence PROVE PartsOf(x) \subseteq Bundle
      OBVIOUS
    <3>1. Parts[x] \in Seq(Artifact)
      BY RepositoryConstants
    <3> QED
      BY <3>1 DEF PartsOf, Range, Bundle
  <2>7. VisibleBundlesComplete'
    <3> SUFFICES ASSUME NEW x \in Bundle, store'[x] # Absent
                 PROVE  /\ store'[x] = Complete
                        /\ x \in Evidence => \A a \in PartsOf(x) : store'[a] = Complete
      OBVIOUS
    <3>1. CASE store[x] # Absent
      BY <1>a, <2>3, <2>5, <2>6, <3>1
    <3>2. CASE store[x] = Absent
      BY <2>1, <2>3, <2>4, <2>5, <2>6, <3>2
    <3> QED
      BY <3>1, <3>2
  <2>8. \A x \in acked : store'[x] = Complete
    BY <1>a, <2>3, <2>5 DEF IInv, TypeOK, Bundle
  <2> QED
    BY <1>18, <1>a, <2>1, <2>7, <2>8 DEF Rename
<1>19. CASE Settle(p)
  BY <1>19, <1>a DEF Settle, Raise
<1>20. CASE Unstage(p)
  <2>1. CASE outcome[p] = "none" /\ Current(p) \in Evidence
    <3>1. store[Current(p)] # Absent
      BY <1>20, <2>1 DEF Unstage, IInv, PublishInv
    <3> QED
      BY <1>20, <1>a, <1>d, <2>1, <3>1 DEF Unstage, Advance, Finish
  <2> QED
    BY <1>20, <1>a, <2>1 DEF Unstage, Advance, Finish
<1>21. CASE Locate(p)
  BY <1>21, <1>a DEF Locate, Finish
<1>22. CASE Inspect(p)
  BY <1>22, <1>a DEF Inspect, Finish
<1>23. CASE Start(p)
  BY <1>23, <1>a DEF Start
<1>24. CASE Die(p)
  BY <1>24, <1>a DEF Die, NoRequest
<1>25. ASSUME NEW op \in {"preserve", "read"}, NEW e \in Evidence, Begin(p, op, e)
      PROVE  StoreInv'
  BY <1>25, <1>a DEF Begin
<1>26. CASE ChangeInput(p)
  BY <1>26, <1>a DEF ChangeInput
<1>27. CASE FailIO(p)
  BY <1>27, <1>a DEF FailIO, Finish, Raise
<1> QED
  BY <1>1, <1>2, <1>3, <1>4, <1>5, <1>6, <1>7, <1>8, <1>9, <1>10, <1>11, <1>12, <1>13, <1>14,
     <1>15, <1>16, <1>17, <1>18, <1>19, <1>20, <1>21, <1>22, <1>23, <1>24, <1>25, <1>26, <1>27
  DEF Step, SweepStep, OpenStep, PublishStep, ReadStep, Environment

(* The swept owners are dead, and stay dead. *)
LEMMA SweepInvStep ==
  ASSUME IInv, NEW p \in Proc, Step(p) \/ Environment(p)
  PROVE  SweepInv'
<1> USE DEF SweepInv, Goto, disk, Live
<1>a. SweepInv /\ TypeOK
  BY DEF IInv
<1>1. CASE ListOwners(p)
  BY <1>1, <1>a DEF ListOwners, TypeOK
<1>2. ASSUME NEW o \in Proc, VisitOwner(p, o) PROVE SweepInv'
  BY <1>2, <1>a DEF VisitOwner, OwnerDead, TypeOK, Labels
<1>3. CASE EndSweep(p)
  BY <1>3, <1>a DEF EndSweep, TypeOK
<1>4. CASE UnlinkStaged(p)
  BY <1>4, <1>a DEF UnlinkStaged, AbandonSweep, TypeOK
<1>5. CASE RemoveOwner(p)
  BY <1>5, <1>a DEF RemoveOwner, AbandonSweep, TypeOK
<1>6. CASE Plan(p)
  BY <1>6, <1>a DEF Plan, Finish, TypeOK
<1>7. CASE LookForMetadata(p)
  BY <1>7, <1>a DEF LookForMetadata, TypeOK
<1>8. CASE LookForRemains(p)
  BY <1>8, <1>a DEF LookForRemains, Finish, TypeOK
<1>9. CASE LookAgain(p)
  BY <1>9, <1>a DEF LookAgain, Finish, TypeOK
<1>10. CASE MakeDirectory(p)
  BY <1>10, <1>a DEF MakeDirectory, LayoutSize, TypeOK
<1>11. CASE LinkMetadata(p)
  BY <1>11, <1>a DEF LinkMetadata, Finish, TypeOK
<1>12. CASE OpenRepository(p)
  BY <1>12, <1>a DEF OpenRepository, Finish, TypeOK
<1>13. CASE ProbeDestination(p)
  BY <1>13, <1>a DEF ProbeDestination, Advance, Finish, TypeOK
<1>14. CASE NewStage(p)
  BY <1>14, <1>a DEF NewStage, TypeOK
<1>15. CASE CopyData(p)
  BY <1>15, <1>a DEF CopyData, StageContents, Raise, TypeOK
<1>16. CASE WriteRecord(p)
  BY <1>16, <1>a DEF WriteRecord, StageContents, TypeOK
<1>17. CASE ValidateStage(p)
  BY <1>17, <1>a DEF ValidateStage, Raise, TypeOK
<1>18. CASE Rename(p)
  BY <1>18, <1>a DEF Rename, TypeOK
<1>19. CASE Settle(p)
  BY <1>19, <1>a DEF Settle, Raise, TypeOK
<1>20. CASE Unstage(p)
  BY <1>20, <1>a DEF Unstage, Advance, Finish, TypeOK
<1>21. CASE Locate(p)
  BY <1>21, <1>a DEF Locate, Finish, TypeOK
<1>22. CASE Inspect(p)
  BY <1>22, <1>a DEF Inspect, Finish, TypeOK
<1>23. CASE Start(p)
  BY <1>23, <1>a DEF Start, TypeOK
<1>24. CASE Die(p)
  BY <1>24, <1>a DEF Die, NoRequest, TypeOK
<1>25. ASSUME NEW op \in {"preserve", "read"}, NEW e \in Evidence, Begin(p, op, e)
      PROVE  SweepInv'
  BY <1>25, <1>a DEF Begin, TypeOK
<1>26. CASE ChangeInput(p)
  BY <1>26, <1>a DEF ChangeInput, TypeOK
<1>27. CASE FailIO(p)
  BY <1>27, <1>a DEF FailIO, Finish, Raise, TypeOK
<1> QED
  BY <1>1, <1>2, <1>3, <1>4, <1>5, <1>6, <1>7, <1>8, <1>9, <1>10, <1>11, <1>12, <1>13, <1>14,
     <1>15, <1>16, <1>17, <1>18, <1>19, <1>20, <1>21, <1>22, <1>23, <1>24, <1>25, <1>26, <1>27
  DEF Step, SweepStep, OpenStep, PublishStep, ReadStep, Environment

(* A process past the opening of the repository found it initialized. *)
LEMMA OpenInvStep ==
  ASSUME IInv, NEW p \in Proc, Step(p) \/ Environment(p), NEW q \in Proc
  PROVE  OpenInv(q)'
<1> USE DEF OpenInv, Goto, disk, Preserving, Opened
<1>a. TypeOK /\ StoreInv /\ OpenInv(p) /\ OpenInv(q)
  BY DEF IInv
<1>1. CASE ListOwners(p)
  BY <1>1, <1>a DEF ListOwners, TypeOK
<1>2. ASSUME NEW o \in Proc, VisitOwner(p, o) PROVE OpenInv(q)'
  BY <1>2, <1>a DEF VisitOwner, TypeOK
<1>3. CASE EndSweep(p)
  BY <1>3, <1>a DEF EndSweep, TypeOK
<1>4. CASE UnlinkStaged(p)
  BY <1>4, <1>a DEF UnlinkStaged, AbandonSweep, TypeOK
<1>5. CASE RemoveOwner(p)
  BY <1>5, <1>a DEF RemoveOwner, AbandonSweep, TypeOK
<1>6. CASE Plan(p)
  BY <1>6, <1>a DEF Plan, Finish, TypeOK
<1>7. CASE LookForMetadata(p)
  BY <1>7, <1>a DEF LookForMetadata, TypeOK
<1>8. CASE LookForRemains(p)
  BY <1>8, <1>a DEF LookForRemains, Finish, TypeOK, MetadataMissingIsCorruption, StoreInv
<1>9. CASE LookAgain(p)
  BY <1>9, <1>a DEF LookAgain, Finish, TypeOK
<1>10. CASE MakeDirectory(p)
  BY <1>10, <1>a DEF MakeDirectory, LayoutSize, TypeOK
<1>11. CASE LinkMetadata(p)
  BY <1>11, <1>a DEF LinkMetadata, Finish, TypeOK
<1>12. CASE OpenRepository(p)
  BY <1>12, <1>a DEF OpenRepository, Finish, TypeOK, Requests, LayoutValid
<1>13. CASE ProbeDestination(p)
  BY <1>13, <1>a DEF ProbeDestination, Advance, Finish, TypeOK
<1>14. CASE NewStage(p)
  BY <1>14, <1>a DEF NewStage, TypeOK
<1>15. CASE CopyData(p)
  BY <1>15, <1>a DEF CopyData, StageContents, Raise, TypeOK
<1>16. CASE WriteRecord(p)
  BY <1>16, <1>a DEF WriteRecord, StageContents, TypeOK
<1>17. CASE ValidateStage(p)
  BY <1>17, <1>a DEF ValidateStage, Raise, TypeOK
<1>18. CASE Rename(p)
  BY <1>18, <1>a DEF Rename, TypeOK
<1>19. CASE Settle(p)
  BY <1>19, <1>a DEF Settle, Raise, TypeOK
<1>20. CASE Unstage(p)
  BY <1>20, <1>a DEF Unstage, Advance, Finish, TypeOK
<1>21. CASE Locate(p)
  BY <1>21, <1>a DEF Locate, Finish, TypeOK
<1>22. CASE Inspect(p)
  BY <1>22, <1>a DEF Inspect, Finish, TypeOK
<1>23. CASE Start(p)
  BY <1>23, <1>a DEF Start, TypeOK
<1>24. CASE Die(p)
  BY <1>24, <1>a DEF Die, NoRequest, TypeOK
<1>25. ASSUME NEW op \in {"preserve", "read"}, NEW e \in Evidence, Begin(p, op, e)
      PROVE  OpenInv(q)'
  BY <1>25, <1>a DEF Begin, TypeOK
<1>26. CASE ChangeInput(p)
  BY <1>26, <1>a DEF ChangeInput, TypeOK
<1>27. CASE FailIO(p)
  BY <1>27, <1>a DEF FailIO, Finish, Raise, TypeOK
<1> QED
  BY <1>1, <1>2, <1>3, <1>4, <1>5, <1>6, <1>7, <1>8, <1>9, <1>10, <1>11, <1>12, <1>13, <1>14,
     <1>15, <1>16, <1>17, <1>18, <1>19, <1>20, <1>21, <1>22, <1>23, <1>24, <1>25, <1>26, <1>27
  DEF Step, SweepStep, OpenStep, PublishStep, ReadStep, Environment

(* Moving on from a bundle that is in place. *)
LEMMA AdvanceKeeps ==
  ASSUME IInv, NEW p \in Proc, pc[p] \in {"probe", "unstage"},
         store[Current(p)] # Absent, Advance(p),
         store' = store, request' = request, stage'[p] = None
  PROVE  PublishInv(p)'
<1> DEFINE e == request[p].of
<1>1. request[p].op = "preserve"
  BY DEF IInv, OpenInv, Preserving
<1>2. /\ item[p] \in 1..(Len(Parts[e]) + 1)
      /\ \A i \in 1..(item[p] - 1) : store[Parts[e][i]] = Complete
      /\ Parts[e] \in Seq(Artifact)
      /\ item \in [Proc -> Nat] /\ pc \in [Proc -> Labels]
  BY <1>1, CurrentIsBundle, RepositoryConstants DEF IInv, PublishInv, TypeOK
<1>3. store[Current(p)] = Complete
  BY <1>1, CurrentIsBundle, VisibleIsComplete
<1>4. CASE Current(p) \in Evidence
  BY <1>1, <1>2, <1>4 DEF Advance, Finish, Goto, PublishInv, Holding
<1>5. CASE Current(p) \notin Evidence
  <2>1. item[p] <= Len(Parts[e]) /\ Current(p) = Parts[e][item[p]]
    BY <1>1, <1>2, <1>5, CurrentIsBundle DEF Current
  <2>2. item'[p] = item[p] + 1 /\ pc'[p] = "probe"
    BY <1>2, <1>5 DEF Advance, Goto
  <2>3. \A i \in 1..item[p] : store[Parts[e][i]] = Complete
    BY <1>2, <1>3, <2>1
  <2> QED
    BY <1>1, <1>2, <2>1, <2>2, <2>3 DEF PublishInv, Holding
<1> QED
  BY <1>4, <1>5

(* The steps of a publisher keep its own part of the invariant. *)
LEMMA PublishInvOwn ==
  ASSUME IInv, NEW p \in Proc, Step(p) \/ Environment(p)
  PROVE  PublishInv(p)'
<1> USE DEF PublishInv, Goto, disk, Holding, Live
<1>a. TypeOK /\ PublishInv(p) /\ SweepInv
  BY DEF IInv
<1>b. \A x \in Bundle : store[x] # Absent => store'[x] = store[x]
  BY StoreGrows
<1>1. CASE ListOwners(p)
  BY <1>1, <1>a DEF ListOwners, TypeOK, Current
<1>2. ASSUME NEW o \in Proc, VisitOwner(p, o) PROVE PublishInv(p)'
  BY <1>2, <1>a DEF VisitOwner, TypeOK, Current
<1>3. CASE EndSweep(p)
  BY <1>3, <1>a DEF EndSweep, TypeOK, Current
<1>4. CASE UnlinkStaged(p)
  BY <1>4, <1>a DEF UnlinkStaged, AbandonSweep, TypeOK, SweepInv, Live
<1>5. CASE RemoveOwner(p)
  BY <1>5, <1>a DEF RemoveOwner, AbandonSweep, TypeOK, SweepInv, Live
<1>6. CASE Plan(p)
  BY <1>6, <1>a DEF Plan, Finish, TypeOK, Current
<1>7. CASE LookForMetadata(p)
  BY <1>7, <1>a DEF LookForMetadata, TypeOK, Current
<1>8. CASE LookForRemains(p)
  BY <1>8, <1>a DEF LookForRemains, Finish, TypeOK, Current
<1>9. CASE LookAgain(p)
  BY <1>9, <1>a DEF LookAgain, Finish, TypeOK, Current
<1>10. CASE MakeDirectory(p)
  BY <1>10, <1>a DEF MakeDirectory, LayoutSize, TypeOK, Current
<1>11. CASE LinkMetadata(p)
  BY <1>11, <1>a DEF LinkMetadata, Finish, TypeOK, Current
<1>12. CASE OpenRepository(p)
  BY <1>12, <1>a DEF OpenRepository, Finish, TypeOK, Current
<1>13. CASE ProbeDestination(p)
  <2>1. CASE store[Current(p)] # Absent /\ Advance(p)
    BY <1>13, <1>a, <2>1, AdvanceKeeps DEF ProbeDestination
  <2>2. CASE UNCHANGED item /\ (Goto(p, "stage") \/ Goto(p, "idle"))
    BY <1>13, <1>a, <2>2 DEF ProbeDestination, Goto, Finish, TypeOK, Current
  <2> QED
    BY <1>13, <2>1, <2>2 DEF ProbeDestination, Finish
<1>14. CASE NewStage(p)
  <2>1. Current(p) \in Bundle /\ Current(p)' = Current(p)
    BY <1>14, CurrentIsBundle DEF NewStage, IInv, OpenInv, Preserving, Current
  <2>2. [of |-> Current(p), has |-> Absent] \in Stages
    BY <2>1 DEF Stages, Contents, Absent
  <2> QED
    BY <1>14, <1>a, <2>1, <2>2, NoneIsNoValue DEF NewStage, TypeOK
<1>15. CASE CopyData(p)
  <2>1. stage[p] \in Stages /\ p \in owners /\ stage[p].of = Current(p)
    BY <1>15, <1>a DEF TypeOK, CopyData
  <2>2. Current(p)' = Current(p)
    BY <1>15 DEF CopyData, Current
  <2>3. /\ stage'[p].of = stage[p].of
        /\ stage'[p].has.data = "good" \/ pc'[p] = "unstage"
        /\ stage'[p] \in Stages
    BY <1>15, <1>a, <2>1 DEF CopyData, StageContents, Raise, Absent, Stages, Contents, TypeOK
  <2>4. pc'[p] = "record" \/ (pc'[p] = "unstage" /\ outcome'[p] # "none")
    BY <1>15, <1>a DEF CopyData, Raise, TypeOK
  <2> QED
    BY <1>15, <1>a, <2>1, <2>2, <2>3, <2>4, NoneIsNoValue DEF CopyData
<1>16. CASE WriteRecord(p)
  <2>1. stage[p] \in Stages /\ p \in owners /\ stage[p].of = Current(p)
    BY <1>16, <1>a DEF TypeOK, WriteRecord
  <2>2. Current(p)' = Current(p)
    BY <1>16 DEF WriteRecord, Current
  <2>3. /\ stage'[p].of = stage[p].of
        /\ stage'[p].has = Complete
        /\ stage'[p] \in Stages
    BY <1>16, <1>a, <2>1 DEF WriteRecord, StageContents, Complete, Stages, Contents, TypeOK
  <2> QED
    BY <1>16, <1>a, <2>1, <2>2, <2>3, NoneIsNoValue DEF WriteRecord, TypeOK
<1>17. CASE ValidateStage(p)
  BY <1>17, <1>a DEF ValidateStage, Raise, TypeOK, Current
<1>18. CASE Rename(p)
  <2>1. /\ stage[p] \in Stages /\ stage[p].of = Current(p)
        /\ stage[p].has = Complete /\ Complete # Absent
    BY <1>18, StageIsValid DEF Rename, Complete, Absent
  <2>2. request[p].op = "preserve" /\ Current(p)' = Current(p)
    BY <1>18 DEF Rename, Current, IInv, OpenInv, Preserving
  <2>3. Current(p) \in Bundle /\ Parts[request[p].of] \in Seq(Artifact)
    BY <2>2, CurrentIsBundle, RepositoryConstants
  <2>4. store'[Current(p)] # Absent
    BY <1>18, <1>a, <2>1, <2>3 DEF Rename, TypeOK
  <2>5. \A i \in 1..(item[p] - 1) : store'[Parts[request[p].of][i]] = Complete
    <3> SUFFICES ASSUME NEW i \in 1..(item[p] - 1)
                 PROVE  store'[Parts[request[p].of][i]] = Complete
      OBVIOUS
    <3>1. i \in 1..Len(Parts[request[p].of])
      BY <1>a, <2>2, <2>3
    <3>2. Parts[request[p].of][i] \in Bundle
      BY <2>3, <3>1 DEF Bundle
    <3> QED
      BY <1>a, <1>b, <2>1, <2>2, <3>2
  <2> QED
    BY <1>18, <1>a, <2>2, <2>4, <2>5 DEF Rename, TypeOK
<1>19. CASE Settle(p)
  BY <1>19, <1>a DEF Settle, Raise, TypeOK, Current
<1>20. CASE Unstage(p)
  <2>1. stage'[p] = None
    BY <1>20, <1>a DEF Unstage, TypeOK
  <2>2. CASE outcome[p] = "none"
    BY <1>20, <1>a, <2>1, <2>2, AdvanceKeeps DEF Unstage
  <2>3. CASE outcome[p] # "none"
    BY <1>20, <1>a, <2>1, <2>3 DEF Unstage, TypeOK
  <2> QED
    BY <2>2, <2>3
<1>21. CASE Locate(p)
  BY <1>21, <1>a DEF Locate, Finish, TypeOK, Current
<1>22. CASE Inspect(p)
  BY <1>22, <1>a DEF Inspect, Finish, TypeOK, Current
<1>23. CASE Start(p)
  BY <1>23, <1>a DEF Start, TypeOK, Current
<1>24. CASE Die(p)
  BY <1>24, <1>a DEF Die, NoRequest, TypeOK, Current
<1>25. ASSUME NEW op \in {"preserve", "read"}, NEW e \in Evidence, Begin(p, op, e)
      PROVE  PublishInv(p)'
  BY <1>25, <1>a DEF Begin, TypeOK, Current
<1>26. CASE ChangeInput(p)
  BY <1>26, <1>a DEF ChangeInput, TypeOK, Current
<1>27. CASE FailIO(p)
  BY <1>27, <1>a DEF FailIO, Finish, Raise, TypeOK, Current
<1> QED
  BY <1>1, <1>2, <1>3, <1>4, <1>5, <1>6, <1>7, <1>8, <1>9, <1>10, <1>11, <1>12, <1>13, <1>14,
     <1>15, <1>16, <1>17, <1>18, <1>19, <1>20, <1>21, <1>22, <1>23, <1>24, <1>25, <1>26, <1>27
  DEF Step, SweepStep, OpenStep, PublishStep, ReadStep, Environment

(* The publishing part of the invariant, for every process. *)
LEMMA PublishInvStep ==
  ASSUME IInv, NEW p \in Proc, Step(p) \/ Environment(p), NEW q \in Proc
  PROVE  PublishInv(q)'
<1>1. CASE q = p
  BY <1>1, PublishInvOwn
<1>2. CASE q # p
  <2> DEFINE e == request[q].of
  <2>1. /\ pc'[q] = pc[q] /\ request'[q] = request[q] /\ item'[q] = item[q]
        /\ outcome'[q] = outcome[q]
        /\ pc[q] # "dead" => stage'[q] = stage[q] /\ (q \in owners => q \in owners')
        /\ \A x \in Bundle : store[x] # Absent => store'[x] = store[x]
    BY <1>2, OthersUntouched, StoreGrows
  <2>2. TypeOK /\ PublishInv(q) /\ OpenInv(q) /\ Complete # Absent
    BY DEF IInv, Complete, Absent
  <2>3. Current(q)' = Current(q)
    BY <2>1 DEF Current
  <2>4. request[q].op = "preserve" =>
          /\ Parts[e] \in Seq(Artifact)
          /\ Current(q) \in Bundle
    BY CurrentIsBundle, RepositoryConstants
  <2>5. request[q].op = "preserve" =>
          \A i \in 1..(item[q] - 1) : Parts[e][i] \in Bundle
    BY <2>2, <2>4 DEF PublishInv, Bundle
  <2>6. request[q].op = "read" => request[q].of \in Bundle
    BY <2>2 DEF OpenInv, Bundle
  <2> QED
    BY <2>1, <2>2, <2>3, <2>4, <2>5, <2>6
    DEF PublishInv, OpenInv, Holding, Preserving
<1> QED
  BY <1>1, <1>2

(* No step ends an operation with an outcome it has no reason for. *)
LEMMA OutcomeInvOwn ==
  ASSUME IInv, NEW p \in Proc, Step(p) \/ Environment(p)
  PROVE  OutcomeInv(p)'
<1> USE DEF OutcomeInv, Goto, disk
<1>a. TypeOK /\ OutcomeInv(p) /\ OpenInv(p) /\ PublishInv(p) /\ StoreInv
  BY DEF IInv
<1>b. Complete # Absent
  BY DEF Complete, Absent
<1>1. CASE ListOwners(p)
  BY <1>1, <1>a DEF ListOwners, TypeOK
<1>2. ASSUME NEW o \in Proc, VisitOwner(p, o) PROVE OutcomeInv(p)'
  BY <1>2, <1>a DEF VisitOwner, TypeOK
<1>3. CASE EndSweep(p)
  BY <1>3, <1>a DEF EndSweep, TypeOK
<1>4. CASE UnlinkStaged(p)
  BY <1>4, <1>a DEF UnlinkStaged, AbandonSweep, TypeOK
<1>5. CASE RemoveOwner(p)
  BY <1>5, <1>a DEF RemoveOwner, AbandonSweep, TypeOK
<1>6. CASE Plan(p)
  BY <1>6, <1>a DEF Plan, Finish, TypeOK
<1>7. CASE LookForMetadata(p)
  BY <1>7, <1>a DEF LookForMetadata, TypeOK
<1>8. CASE LookForRemains(p)
  <2>1. CASE request[p].op = "read" /\ request[p].known
    <3>1. request[p].of \in acked /\ request[p].of \in Bundle
      BY <1>a, <2>1 DEF TypeOK, Bundle
    <3>2. metadata /\ dirs = LayoutSize
      BY <1>a, <1>b, <3>1 DEF StoreInv, TypeOK
    <3> QED
      BY <1>8, <1>a, <3>2
      DEF LookForRemains, MetadataMissingIsCorruption, Finish, TypeOK, LayoutSize
  <2> QED
    BY <1>8, <1>a, <2>1 DEF LookForRemains, Finish, TypeOK
<1>9. CASE LookAgain(p)
  BY <1>9, <1>a DEF LookAgain, Finish, OpenInv, Opened, TypeOK
<1>10. CASE MakeDirectory(p)
  BY <1>10, <1>a DEF MakeDirectory, LayoutSize, TypeOK
<1>11. CASE LinkMetadata(p)
  BY <1>11, <1>a DEF LinkMetadata, Finish, TypeOK
<1>12. CASE OpenRepository(p)
  BY <1>12, <1>a DEF OpenRepository, Finish, OpenInv, Opened, StoreInv, LayoutValid, TypeOK
<1>13. CASE ProbeDestination(p)
  <2>1. request[p].op = "preserve" /\ Current(p) \in Bundle
    BY <1>13, <1>a, CurrentIsBundle DEF ProbeDestination, OpenInv, Preserving
  <2>2. store[Current(p)] # Absent => Valid(Current(p), store[Current(p)])
    BY <2>1, VisibleIsComplete
  <2> QED
    BY <1>13, <1>a, <2>1, <2>2 DEF ProbeDestination, Advance, Finish, TypeOK
<1>14. CASE NewStage(p)
  BY <1>14, <1>a DEF NewStage, TypeOK
<1>15. CASE CopyData(p)
  BY <1>15, <1>a DEF CopyData, StageContents, Raise, TypeOK
<1>16. CASE WriteRecord(p)
  BY <1>16, <1>a DEF WriteRecord, StageContents, TypeOK
<1>17. CASE ValidateStage(p)
  BY <1>17, <1>a, StageIsValid DEF ValidateStage
<1>18. CASE Rename(p)
  BY <1>18, <1>a DEF Rename, TypeOK
<1>19. CASE Settle(p)
  <2>1. request[p].op = "preserve" /\ Current(p) \in Bundle
    BY <1>19, <1>a, CurrentIsBundle DEF Settle, OpenInv, Preserving
  <2>2. Valid(Current(p), store[Current(p)])
    BY <1>19, <1>a, <2>1, VisibleIsComplete DEF Settle, PublishInv
  <2> QED
    BY <1>19, <1>a, <2>2 DEF Settle
<1>20. CASE Unstage(p)
  BY <1>20, <1>a DEF Unstage, Advance, Finish, TypeOK
<1>21. CASE Locate(p)
  BY <1>21, <1>a, <1>b DEF Locate, Finish, StoreInv, TypeOK
<1>22. CASE Inspect(p)
  <2>1. request[p].op = "read" /\ request[p].of \in Bundle
    BY <1>22, <1>a DEF Inspect, OpenInv, Bundle
  <2>2. Valid(request[p].of, store[request[p].of])
    BY <1>22, <1>a, <2>1, VisibleIsComplete DEF Inspect, PublishInv
  <2> QED
    BY <1>22, <1>a, <2>1, <2>2 DEF Inspect, Finish, TypeOK
<1>23. CASE Start(p)
  BY <1>23, <1>a DEF Start, TypeOK
<1>24. CASE Die(p)
  BY <1>24, <1>a DEF Die, NoRequest, TypeOK
<1>25. ASSUME NEW op \in {"preserve", "read"}, NEW e \in Evidence, Begin(p, op, e)
      PROVE  OutcomeInv(p)'
  BY <1>25, <1>a DEF Begin, TypeOK
<1>26. CASE ChangeInput(p)
  BY <1>26, <1>a DEF ChangeInput, TypeOK
<1>27. CASE FailIO(p)
  BY <1>27, <1>a DEF FailIO, Finish, Raise, TypeOK
<1> QED
  BY <1>1, <1>2, <1>3, <1>4, <1>5, <1>6, <1>7, <1>8, <1>9, <1>10, <1>11, <1>12, <1>13, <1>14,
     <1>15, <1>16, <1>17, <1>18, <1>19, <1>20, <1>21, <1>22, <1>23, <1>24, <1>25, <1>26, <1>27
  DEF Step, SweepStep, OpenStep, PublishStep, ReadStep, Environment

(* The outcomes, for every process. *)
LEMMA OutcomeInvStep ==
  ASSUME IInv, NEW p \in Proc, Step(p) \/ Environment(p), NEW q \in Proc
  PROVE  OutcomeInv(q)'
<1>1. CASE q = p
  BY <1>1, OutcomeInvOwn
<1>2. CASE q # p
  <2>1. /\ request'[q] = request[q] /\ intact'[q] = intact[q]
        /\ outcome'[q] = outcome[q] /\ acked \subseteq acked'
    BY <1>2, OthersUntouched, StoreGrows
  <2> QED
    BY <2>1 DEF IInv, OutcomeInv
<1> QED
  BY <1>1, <1>2

(***************************************************************************)
(* The theorems.                                                           *)
(***************************************************************************)

(* The inductive invariant holds in every reachable state. *)
THEOREM Invariance == Spec => []IInv
<1>1. IInv /\ [Next]_vars => IInv'
  <2> SUFFICES ASSUME IInv, [Next]_vars PROVE IInv'
    OBVIOUS
  <2>1. ASSUME NEW p \in Proc, Step(p) \/ Environment(p) PROVE IInv'
    BY <2>1, TypeStep, StoreStep, SweepInvStep, OpenInvStep, PublishInvStep, OutcomeInvStep
    DEF IInv
  <2>2. CASE UNCHANGED vars
    BY <2>2 DEF vars, IInv, TypeOK, StoreInv, SweepInv, OpenInv, PublishInv, OutcomeInv,
                VisibleBundlesComplete, Valid, Live, Current
  <2> QED
    BY <2>1, <2>2 DEF Next
<1> QED
  BY InitInv, <1>1, PTL DEF Spec

(* The variables keep their types. *)
THEOREM TypeCorrect == Spec => []TypeOK
<1>1. IInv => TypeOK
  BY DEF IInv
<1> QED
  BY <1>1, Invariance, PTL

(* Readers see no bundle or a complete one, with all of its artifacts. *)
THEOREM VisibleComplete == Spec => []VisibleBundlesComplete
<1>1. IInv => VisibleBundlesComplete
  BY DEF IInv, StoreInv
<1> QED
  BY <1>1, Invariance, PTL

(* An operation on a store nobody tampers with never reports corruption. *)
THEOREM NeverFalselyCorrupt == Spec => []NoFalseCorruption
<1>1. IInv => NoFalseCorruption
  BY DEF IInv, OutcomeInv, NoFalseCorruption
<1> QED
  BY <1>1, Invariance, PTL

(* A read that begins after a preservation was reported finds it. *)
THEOREM AcknowledgedFound == Spec => []AcknowledgedIsFound
<1>1. IInv => AcknowledgedIsFound
  BY DEF IInv, OutcomeInv, AcknowledgedIsFound
<1> QED
  BY <1>1, Invariance, PTL

(* No sweep takes the stage of a publisher at work. *)
THEOREM LiveStageKept == Spec => []WorkInProgressKept
<1>1. IInv => WorkInProgressKept
  BY DEF IInv, PublishInv, Holding, WorkInProgressKept
<1> QED
  BY <1>1, Invariance, PTL

(* A process that is not publishing holds no stage. *)
THEOREM StageNotLeaked == Spec => []StageReleased
<1>1. IInv => StageReleased
  BY DEF IInv, PublishInv, Holding, StageReleased
<1> QED
  BY <1>1, Invariance, PTL

(* An input is reported as changed only when it was. *)
THEOREM FailureExplained == Spec => []FailureHasCause
<1>1. IInv => FailureHasCause
  BY DEF IInv, OutcomeInv, FailureHasCause
<1> QED
  BY <1>1, Invariance, PTL

(* The processes, their stages and their deaths implement the abstract store. *)
THEOREM Refinement == Spec => ImplementsStore
<1>1. Init => Abstract!Init
  BY DEF Init, Abstract!Init, Bundle
<1>2. IInv /\ [Next]_vars => [Abstract!Next]_<<{ a \in Artifact : store[a] # Absent },
                                               { e \in Evidence : store[e] # Absent }>>
  <2> DEFINE arts == { a \in Artifact : store[a] # Absent }
             evs  == { e \in Evidence : store[e] # Absent }
  <2> SUFFICES ASSUME IInv, [Next]_vars
               PROVE  Abstract!Next \/ (arts' = arts /\ evs' = evs)
    BY Zenon
  <2>1. CASE store' = store
    BY <2>1
  <2>2. ASSUME NEW p \in Proc, Rename(p), store' # store
        PROVE  Abstract!Next
    <3> DEFINE x == stage[p].of
    <3>1. /\ stage[p] \in Stages /\ Valid(x, stage[p].has) /\ x \in Bundle
          /\ store[x] = Absent /\ store' = [store EXCEPT ![x] = Complete]
          /\ store \in [Bundle -> Contents] /\ Complete # Absent
      BY <2>2, StageIsValid DEF Rename, Stages, Complete, Absent, IInv, TypeOK
    <3>2. CASE x \in Artifact
      <4>1. arts' = arts \cup {x} /\ evs' = evs
        BY <3>1, <3>2, RepositoryConstants DEF Bundle
      <4> QED
        BY <3>2, <4>1 DEF Abstract!Next, Abstract!PublishArtifact
    <3>3. CASE x \in Evidence
      <4>1. arts' = arts /\ evs' = evs \cup {x}
        BY <3>1, <3>3, RepositoryConstants DEF Bundle
      <4>2. PartsOf(x) \subseteq arts
        <5>1. Parts[x] \in Seq(Artifact)
          BY <3>3, RepositoryConstants
        <5>2. PartsOf(x) \subseteq Artifact
          BY <5>1 DEF PartsOf, Range
        <5> QED
          BY <3>1, <3>3, <5>2 DEF Valid
      <4>3. Abstract!PartsOf(x) = PartsOf(x)
        BY DEF Abstract!PartsOf, PartsOf, Abstract!Range, Range
      <4> QED
        BY <3>3, <4>1, <4>2, <4>3 DEF Abstract!Next, Abstract!PublishEvidence
    <3> QED
      BY <3>1, <3>2, <3>3 DEF Bundle
  <2>3. \/ store' = store
        \/ \E p \in Proc : Rename(p) /\ store' # store
    BY ZenonT(60) DEF Next, vars, disk, Step, Environment, SweepStep, OpenStep, PublishStep,
           ReadStep, ListOwners, VisitOwner, EndSweep, UnlinkStaged, RemoveOwner, Plan,
           LookForMetadata, LookForRemains, LookAgain, MakeDirectory, LinkMetadata,
           OpenRepository, ProbeDestination, NewStage, CopyData, WriteRecord,
           ValidateStage, Settle, Unstage, Locate, Inspect, Start, Die, Begin,
           ChangeInput, FailIO
  <2> QED
    BY <2>1, <2>2, <2>3
<1> QED
  BY <1>1, <1>2, Invariance, PTL DEF Spec, ImplementsStore, Abstract!Spec

=============================================================================
