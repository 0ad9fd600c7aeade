-------------------------- MODULE ClientSetupProofs --------------------------
(***************************************************************************)
(* What runs of setup and update keep, for any number of runs, clients and  *)
(* edits.                                                                   *)
(***************************************************************************)
EXTENDS ClientSetup, TLAPS

Early == {"ready", "read", "chosen", "prepare", "check", "previewed"}
Written(r) == { plans[r][i].client : i \in { j \in Changed(r) : j <= at[r] } }
AllPrepared(r) == \A i \in Changed(r) : Launcher(r, plans[r][i]) \in prepared[r]

(* What a run has done at each of its stages *)
Story(r) ==
    /\ stage[r] \in Early => wrote[r] = {}
    /\ stage[r] \in {"publish", "replace"} => wrote[r] = Written(r)
    /\ stage[r] = "chosen" => at[r] = 0
    /\ stage[r] = "replace" => Next1(r) \in Changed(r)
    /\ stage[r] = "prepare" => \A i \in Changed(r) :
           i <= at[r] => Launcher(r, plans[r][i]) \in prepared[r]
    /\ stage[r] \in {"check", "publish", "replace"} \/ wrote[r] # {} => AllPrepared(r)
    /\ stage[r] = "ok" => wrote[r] = { plans[r][i].client : i \in Changed(r) }
    /\ stage[r] = "failed" /\ r \notin told => wrote[r] = {}

(* Between its last look and the rename a run knows what it replaces, unless *)
(* it was overtaken                                                          *)
Looked(r) ==
    stage[r] = "replace" /\ r \notin overtaken => file[Plan(r).client] = Plan(r).original

IInv == TypeOK /\ DOMAIN prepared = Runs /\ \A r \in Runs : Story(r) /\ Looked(r)

LEMMA ChangedAreLater ==
    ASSUME TypeOK, NEW r \in Runs
    PROVE  /\ Len(plans[r]) \in Nat /\ at[r] \in Nat
           /\ Changed(r) \subseteq 1 .. Len(plans[r])
           /\ \A i \in 1 .. Len(plans[r]) : i > 0
  <1>1. plans[r] \in Seq([client : Clients, original : Documents]) /\ at[r] \in Nat
    BY DEF TypeOK
  <1> QED BY <1>1 DEF Changed

(* What is asked of a run decides what it plans and verifies *)
LEMMA SamePlans ==
    ASSUME NEW r, task'[r] = task[r], target'[r] = target[r], plans'[r] = plans[r]
    PROVE  /\ Changed(r)' = Changed(r)
           /\ \A plan : Launcher(r, plan)' = Launcher(r, plan)
  <1>1. \A original : Content(r, original)' = Content(r, original)
    BY DEF Content, SetupEntry, UpdateEntry
  <1>2. \A plan : AlreadyCurrent(r, plan)' = AlreadyCurrent(r, plan)
    BY <1>1 DEF AlreadyCurrent
  <1> QED BY <1>1, <1>2 DEF Changed, Launcher

(* The other runs stay where they are *)
Others(r) ==
    \A q \in Runs \ {r} :
        /\ stage'[q] = stage[q] /\ task'[q] = task[q] /\ target'[q] = target[q]
        /\ plans'[q] = plans[q] /\ at'[q] = at[q] /\ prepared'[q] = prepared[q]
        /\ (q \in told' <=> q \in told) /\ wrote'[q] = wrote[q]

LEMMA OtherStories ==
    ASSUME IInv, NEW r, Others(r), NEW q \in Runs \ {r}
    PROVE  Story(q)'
  <1>1. /\ Changed(q)' = Changed(q)
        /\ \A plan : Launcher(q, plan)' = Launcher(q, plan)
    BY SamePlans DEF Others
  <1>2. Written(q)' = Written(q)
    BY <1>1 DEF Written, Others
  <1>3. AllPrepared(q)' = AllPrepared(q)
    BY <1>1 DEF AllPrepared, Others
  <1>4. Story(q) /\ stage'[q] = stage[q] /\ wrote'[q] = wrote[q] /\ at'[q] = at[q]
        /\ plans'[q] = plans[q] /\ prepared'[q] = prepared[q] /\ (q \in told' <=> q \in told)
    BY DEF IInv, Others
  <1> QED BY <1>1, <1>2, <1>3, <1>4 DEF Story, Next1

Stages == Ended \cup
    {"ready", "read", "chosen", "prepare", "check", "publish", "replace"}

Types ==
    /\ file \in [Clients -> Documents]
    /\ stage \in [Runs -> Stages]
    /\ task \in [Runs -> Tasks]
    /\ plans \in [Runs -> Seq([client : Clients, original : Documents])]
    /\ target \in [Runs -> Versions]
    /\ at \in [Runs -> Nat]
    /\ wrote \in [Runs -> SUBSET Clients] /\ overtaken \cup told \subseteq Runs
    /\ DOMAIN prepared = Runs

LEMMA TypedParts == IInv <=> Types /\ \A r \in Runs : InPlans(r) /\ Story(r) /\ Looked(r)
  BY DEF IInv, TypeOK, Types, Stages

LEMMA OthersInPlans ==
    ASSUME IInv, NEW r, Others(r), NEW q \in Runs \ {r}
    PROVE  InPlans(q)'
  <1>1. InPlans(q) /\ stage'[q] = stage[q] /\ at'[q] = at[q] /\ plans'[q] = plans[q]
    BY TypedParts DEF Others
  <1> QED BY <1>1 DEF InPlans, Has

(* A run goes to another stage, and to another plan *)
LEMMA Moving ==
    ASSUME Types, NEW r \in Runs,
           UNCHANGED stage \/ \E next \in Stages : Goes(r, next),
           UNCHANGED at \/ Advances(r) \/ at' = [at EXCEPT ![r] = 0]
    PROVE  stage' \in [Runs -> Stages] /\ at' \in [Runs -> Nat]
  <1>1. stage' \in [Runs -> Stages]
    BY DEF Types, Goes
  <1>2. at \in [Runs -> Nat]
    BY DEF Types
  <1>3. CASE Advances(r)
    <2>1. at[r] + 1 \in Nat
      BY <1>2
    <2> QED BY <1>1, <1>2, <1>3, <2>1 DEF Advances
  <1> QED BY <1>1, <1>2, <1>3

(* A step of one run that touches no configuration *)
LEMMA LocalStep ==
    ASSUME IInv, NEW r \in Runs, Others(r), UNCHANGED file,
           overtaken' \ {r} = overtaken \ {r},
           Types', InPlans(r)', Story(r)', Looked(r)'
    PROVE  IInv'
  <1>1. \A q \in Runs : Story(q)'
    BY OtherStories
  <1>2. ASSUME NEW q \in Runs PROVE Looked(q)'
    <2>1. CASE q = r
      BY <2>1
    <2>2. CASE q # r
      BY <2>2 DEF IInv, Looked, Others, Plan, Next1
    <2> QED BY <2>1, <2>2
  <1>3. \A q \in Runs : InPlans(q)'
    BY OthersInPlans
  <1>4. IInv' <=> Types' /\ \A q \in Runs : InPlans(q)' /\ Story(q)' /\ Looked(q)'
    BY DEF IInv, TypeOK, Types, Stages
  <1> QED BY <1>1, <1>2, <1>3, <1>4

(* A step of one run that changes neither its plans nor a configuration *)
LEMMA AskedStep ==
    ASSUME IInv, NEW r \in Runs, UNCHANGED <<file, asked, wrote>>,
           UNCHANGED stage \/ \E next \in Stages : Goes(r, next),
           UNCHANGED at \/ Advances(r) \/ at' = [at EXCEPT ![r] = 0],
           told' = told \/ told' = told \cup {r},
           DOMAIN prepared' = Runs, \A q \in Runs \ {r} : prepared'[q] = prepared[q],
           overtaken' = overtaken \/ overtaken' = overtaken \ {r},
           InPlans(r)', Story(r)', Looked(r)'
    PROVE  IInv'
  <1>1. Types
    BY TypedParts
  <1>2. stage' \in [Runs -> Stages] /\ at' \in [Runs -> Nat]
    BY <1>1, Moving
  <1>3. Types'
    BY <1>1, <1>2 DEF Types, asked
  <1>4. \A q \in Runs \ {r} : stage'[q] = stage[q] /\ at'[q] = at[q]
    BY <1>1 DEF Types, Goes, Advances
  <1>5. Others(r)
    BY <1>4 DEF Others, asked
  <1> QED BY <1>3, <1>5, LocalStep

(* A run that ends without having changed anything, or says that it has *)
LEMMA FailedStep ==
    ASSUME IInv, NEW r \in Runs, NEW tells, UNCHANGED <<file, asked, wrote, at, prepared>>,
           Fails(r, tells), tells \/ wrote[r] = {},
           overtaken' = overtaken \/ overtaken' = overtaken \ {r}
    PROVE  IInv'
  <1>1. Types /\ Story(r)
    BY TypedParts
  <1>2. Goes(r, "failed") /\ stage'[r] = "failed"
    BY <1>1 DEF Fails, Goes, Types
  <1>3. AllPrepared(r)' <=> AllPrepared(r)
    BY SamePlans DEF AllPrepared, asked
  <1>4. Story(r)'
    BY <1>1, <1>2, <1>3 DEF Story, Early, Fails
  <1>5. InPlans(r)' /\ Looked(r)'
    BY <1>2 DEF InPlans, Looked
  <1>6. told' = told \/ told' = told \cup {r}
    BY DEF Fails
  <1>7. DOMAIN prepared' = Runs /\ "failed" \in Stages
    BY <1>1 DEF Types, Stages, Ended
  <1> QED BY <1>2, <1>4, <1>5, <1>6, <1>7, AskedStep

-----------------------------------------------------------------------------
LEMMA InitOK == Init => IInv
  <1> SUFFICES ASSUME Init PROVE IInv
    OBVIOUS
  <1>1. TypeOK /\ DOMAIN prepared = Runs
    BY SetupConstants DEF Init, TypeOK, Ended, InPlans
  <1>2. ASSUME NEW r \in Runs PROVE Story(r) /\ Looked(r)
    BY DEF Init, Story, Looked, Early
  <1> QED BY <1>1, <1>2 DEF IInv

LEMMA StartOK == ASSUME IInv, NEW r \in Runs, Start(r) PROVE IInv'
  <1>1. Types /\ InPlans(r) /\ Story(r)
    BY TypedParts
  <1>2. Types' /\ stage'[r] = "read" /\ stage[r] = "ready" /\ Others(r)
    BY <1>1 DEF Start, Goes, Types, Stages, asked, Others
  <1>3. InPlans(r)' /\ Story(r)' /\ Looked(r)'
    BY <1>1, <1>2 DEF Story, Start, Early, InPlans, Looked
  <1> QED BY <1>2, <1>3, LocalStep DEF Start

LEMMA ReadOK == ASSUME IInv, NEW r \in Runs, Read(r) PROVE IInv'
  <1> DEFINE client == task[r].clients[Next1(r)]
             plan == [client |-> client, original |-> file[client]]
  <1>1. Types /\ Story(r)
    BY TypedParts
  <1>2. /\ task[r] \in [kind : {"setup", "update"}, clients : Seq(Clients),
                       version : Versions, extras : SUBSET Extras, preview : BOOLEAN]
        /\ plans[r] \in Seq([client : Clients, original : Documents])
    BY <1>1, SetupConstants DEF Types
  <1>3. client \in Clients
    <2>1. task[r].clients \in Seq(Clients) /\ Next1(r) \in DOMAIN task[r].clients
      BY <1>2 DEF Read
    <2> QED BY <2>1
  <1>4. plan \in [client : Clients, original : Documents]
    BY <1>1, <1>3 DEF Types
  <1>5. plans' \in { plans, [plans EXCEPT ![r] = Append(@, plan)] }
    BY DEF Read
  <1>6. /\ told' = told /\ (UNCHANGED stage \/ Goes(r, "failed"))
        /\ UNCHANGED at \/ Advances(r)
    BY DEF Read, Fails
  <1>7. stage[r] = "read" /\ UNCHANGED <<file, task, target, prepared, wrote, overtaken>>
    BY DEF Read
  <1>8. stage'[r] \in {"read", "failed"}
    BY <1>1, <1>6, <1>7 DEF Types, Goes
  <1> HIDE DEF plan
  <1>9. Others(r)
    BY <1>1, <1>5, <1>6, <1>7 DEF Types, Others, Goes, Advances
  <1>10. Types'
    <2>1. Append(plans[r], plan) \in Seq([client : Clients, original : Documents])
      BY <1>2, <1>4
    <2>2. plans' \in [Runs -> Seq([client : Clients, original : Documents])]
      BY <1>1, <1>5, <2>1 DEF Types
    <2>3. stage' \in [Runs -> Stages] /\ at' \in [Runs -> Nat]
      BY <1>1, <1>6, Moving DEF Stages, Ended
    <2> QED BY <1>1, <1>6, <1>7, <2>2, <2>3 DEF Types
  <1>11. InPlans(r)' /\ Story(r)' /\ Looked(r)'
    BY <1>1, <1>7, <1>8 DEF InPlans, Story, Early, Looked
  <1> QED BY <1>7, <1>8, <1>9, <1>10, <1>11, LocalStep

LEMMA ChooseOK == ASSUME IInv, NEW r \in Runs, Choose(r) PROVE IInv'
  <1>1. Types /\ Story(r) /\ wrote[r] = {}
    BY TypedParts DEF Story, Early, Choose
  <1>2. CASE Fails(r, FALSE) /\ UNCHANGED <<target, at>>
    <2>1. UNCHANGED <<file, asked, wrote, at, prepared, overtaken>>
      BY <1>2 DEF Choose, asked
    <2> QED BY <1>1, <1>2, <2>1, FailedStep
  <1>3. CASE /\ UNCHANGED told /\ Restarts(r, "chosen")
             /\ target' = [target EXCEPT ![r] =
                   IF task[r].kind = "setup" THEN Own
                   ELSE IF task[r].version # 0 THEN task[r].version ELSE Latest]
    <2>1. task[r].version \in Versions
      BY <1>1, SetupConstants DEF Types
    <2>2. target' \in [Runs -> Versions]
      BY <1>1, <1>3, <2>1, SetupConstants DEF Types
    <2>3. Goes(r, "chosen") /\ at' = [at EXCEPT ![r] = 0]
      BY <1>3 DEF Restarts
    <2>4. stage'[r] = "chosen" /\ at'[r] = 0
      BY <1>1, <2>3 DEF Goes, Types
    <2>5. stage' \in [Runs -> Stages] /\ at' \in [Runs -> Nat]
      BY <1>1, <2>3, Moving DEF Stages
    <2>6. Types'
      BY <1>1, <1>3, <2>2, <2>5 DEF Types, Choose
    <2>7. Others(r)
      BY <1>1, <1>3, <2>3 DEF Types, Others, Goes, Choose
    <2>8. plans'[r] = plans[r] /\ Len(plans[r]) \in Nat /\ wrote'[r] = {}
      BY <1>1 DEF Types, Choose
    <2>9. InPlans(r)' /\ Story(r)' /\ Looked(r)'
      BY <2>4, <2>8 DEF InPlans, Story, Early, Looked
    <2> QED BY <2>6, <2>7, <2>9, LocalStep DEF Choose
  <1> QED BY <1>2, <1>3 DEF Choose

LEMMA ConfirmOK == ASSUME IInv, NEW r \in Runs, Confirm(r) PROVE IInv'
  <1>1. Types /\ Story(r) /\ InPlans(r) /\ wrote[r] = {} /\ stage[r] = "chosen"
    BY TypedParts DEF Story, Early, Confirm
  <1>2. UNCHANGED <<file, asked, wrote, at, prepared, overtaken>>
    BY DEF Confirm
  <1>3. CASE Fails(r, FALSE)
    BY <1>1, <1>2, <1>3, FailedStep
  <1>4. ASSUME NEW next \in {"previewed", "ok"}, Goes(r, next), UNCHANGED told,
               next = "ok" => Changed(r) = {}
        PROVE  IInv'
    <2>1. stage'[r] = next /\ next \in Stages
      BY <1>1, <1>4 DEF Goes, Types, Stages, Ended
    <2>2. Changed(r)' = Changed(r)
      BY <1>2, SamePlans DEF asked
    <2>3. wrote'[r] = {} /\ at'[r] = at[r] /\ plans'[r] = plans[r]
      BY <1>1, <1>2 DEF asked
    <2>4. Story(r)' /\ InPlans(r)' /\ Looked(r)'
      BY <1>1, <1>4, <2>1, <2>2, <2>3 DEF Story, Early, InPlans, Looked
    <2> QED BY <1>1, <1>2, <1>4, <2>1, <2>4, AskedStep DEF Types
  <1>5. CASE Goes(r, "prepare") /\ UNCHANGED told
    <2>1. stage'[r] = "prepare"
      BY <1>1, <1>5 DEF Goes, Types
    <2>2. wrote'[r] = {} /\ at'[r] = at[r] /\ plans'[r] = plans[r]
      BY <1>1, <1>2 DEF asked
    <2>3. InPlans(r)' /\ Looked(r)'
      BY <1>1, <2>1, <2>2 DEF InPlans, Looked
    <2>4. at[r] = 0
      BY <1>1 DEF Story
    <2>5. Changed(r)' = Changed(r) /\ \A i \in Changed(r) : ~ (i <= at[r])
      BY <1>2, <2>4, SamePlans, ChangedAreLater DEF asked, IInv
    <2>6. Story(r)'
      BY <2>1, <2>2, <2>5 DEF Story, Early
    <2> QED BY <1>1, <1>2, <1>5, <2>3, <2>6, AskedStep DEF Stages, Types
  <1> QED BY <1>3, <1>4, <1>5 DEF Confirm

LEMMA PrepareOK == ASSUME IInv, NEW r \in Runs, Prepare(r) PROVE IInv'
  <1>1. Types /\ Story(r) /\ InPlans(r) /\ wrote[r] = {} /\ stage[r] = "prepare"
    BY TypedParts DEF Story, Early, Prepare
  <1>2. UNCHANGED <<file, asked, wrote, overtaken>>
    BY DEF Prepare
  <1>3. CASE Fails(r, FALSE) /\ UNCHANGED <<prepared, at>>
    BY <1>1, <1>2, <1>3, FailedStep
  <1>4. CASE /\ Advances(r) /\ UNCHANGED <<stage, told>>
             /\ prepared' = IF /\ task[r].kind = "setup" \/ Next1(r) \in Changed(r)
                               /\ Launcher(r, Plan(r)) \notin prepared[r]
                            THEN [prepared EXCEPT ![r] = @ \cup {Launcher(r, Plan(r))}]
                            ELSE prepared
    <2> DEFINE ours == prepared'[r]
    <2>1. /\ DOMAIN prepared' = Runs /\ \A q \in Runs \ {r} : prepared'[q] = prepared[q]
          /\ prepared[r] \subseteq ours
          /\ Next1(r) \in Changed(r) => Launcher(r, Plan(r)) \in ours
      BY <1>1, <1>4 DEF Types
    <2>2. at'[r] = at[r] + 1 /\ plans'[r] = plans[r] /\ stage'[r] = "prepare" /\ wrote'[r] = {}
      BY <1>1, <1>2, <1>4 DEF Types, Advances, asked
    <2>3. /\ Changed(r)' = Changed(r)
          /\ \A plan : Launcher(r, plan)' = Launcher(r, plan)
      BY <1>2, SamePlans DEF asked
    <2>4. ASSUME NEW i \in Changed(r), i <= at[r] + 1
          PROVE  Launcher(r, plans[r][i]) \in ours
      <3>1. i <= at[r] \/ i = Next1(r)
        BY <2>4, ChangedAreLater DEF IInv, Next1
      <3> QED BY <1>1, <2>1, <3>1 DEF Story, Plan
    <2>5. Story(r)'
      BY <2>2, <2>3, <2>4 DEF Story, Early
    <2>6. InPlans(r)' /\ Looked(r)'
      BY <2>2, ChangedAreLater DEF InPlans, Looked, Prepare, Has, IInv
    <2> QED BY <1>2, <1>4, <2>1, <2>5, <2>6, AskedStep
  <1> QED BY <1>3, <1>4 DEF Prepare

LEMMA PreparedOK == ASSUME IInv, NEW r \in Runs, Prepared(r) PROVE IInv'
  <1>1. Types /\ Story(r) /\ InPlans(r) /\ wrote[r] = {} /\ stage[r] = "prepare"
    BY TypedParts DEF Story, Early, Prepared
  <1>2. UNCHANGED <<file, asked, wrote, overtaken, told, prepared>>
        /\ Goes(r, "check") /\ at' = [at EXCEPT ![r] = 0]
    BY DEF Prepared, Restarts
  <1>3. stage'[r] = "check" /\ at'[r] = 0 /\ plans'[r] = plans[r] /\ wrote'[r] = {}
    BY <1>1, <1>2 DEF Types, Goes, asked
  <1>4. AllPrepared(r)
    BY <1>1, ChangedAreLater DEF IInv, Story, AllPrepared, Prepared, Has
  <1>5. AllPrepared(r)'
    BY <1>2, <1>4, SamePlans DEF AllPrepared, asked
  <1>6. Story(r)' /\ InPlans(r)' /\ Looked(r)'
    BY <1>3, <1>5, ChangedAreLater DEF Story, Early, InPlans, Looked, IInv
  <1> QED BY <1>1, <1>2, <1>6, AskedStep DEF Types, Stages

LEMMA CheckOK == ASSUME IInv, NEW r \in Runs, Check(r) PROVE IInv'
  <1>1. Types /\ Story(r) /\ InPlans(r) /\ wrote[r] = {} /\ stage[r] = "check" /\ AllPrepared(r)
    BY TypedParts DEF Story, Early, Check
  <1>2. UNCHANGED <<file, asked, wrote, overtaken, prepared>>
    BY DEF Check
  <1>3. CASE Fails(r, FALSE) /\ UNCHANGED at
    BY <1>1, <1>2, <1>3, FailedStep
  <1>4. CASE Advances(r) /\ UNCHANGED <<stage, told>>
    <2>1. at'[r] = at[r] + 1 /\ plans'[r] = plans[r] /\ stage'[r] = "check" /\ wrote'[r] = {}
      BY <1>1, <1>2, <1>4 DEF Types, Advances, asked
    <2>2. AllPrepared(r)'
      BY <1>1, <1>2, SamePlans DEF AllPrepared, asked
    <2>3. Story(r)' /\ InPlans(r)' /\ Looked(r)'
      BY <2>1, <2>2, ChangedAreLater DEF Story, Early, InPlans, Looked, Check, Has, IInv
    <2> QED BY <1>1, <1>2, <1>4, <2>3, AskedStep DEF Types
  <1> QED BY <1>3, <1>4 DEF Check

LEMMA CheckedOK == ASSUME IInv, NEW r \in Runs, Checked(r) PROVE IInv'
  <1>1. Types /\ Story(r) /\ InPlans(r) /\ wrote[r] = {} /\ stage[r] = "check" /\ AllPrepared(r)
    BY TypedParts DEF Story, Early, Checked
  <1>2. UNCHANGED <<file, asked, wrote, overtaken, told, prepared>>
        /\ Goes(r, "publish") /\ at' = [at EXCEPT ![r] = 0]
    BY DEF Checked, Restarts
  <1>3. stage'[r] = "publish" /\ at'[r] = 0 /\ plans'[r] = plans[r] /\ wrote'[r] = {}
    BY <1>1, <1>2 DEF Types, Goes, asked
  <1>4. AllPrepared(r)' /\ Changed(r)' = Changed(r)
    BY <1>1, <1>2, SamePlans DEF AllPrepared, asked
  <1>5. Written(r)' = {}
    BY <1>3, <1>4, ChangedAreLater DEF Written, IInv
  <1>6. Story(r)' /\ InPlans(r)' /\ Looked(r)'
    BY <1>3, <1>4, <1>5, ChangedAreLater DEF Story, Early, InPlans, Looked, IInv
  <1> QED BY <1>1, <1>2, <1>6, AskedStep DEF Types, Stages

LEMMA RecheckOK == ASSUME IInv, NEW r \in Runs, Recheck(r) PROVE IInv'
  <1>1. Types /\ Story(r) /\ InPlans(r) /\ stage[r] = "publish" /\ AllPrepared(r)
        /\ wrote[r] = Written(r)
    BY TypedParts DEF Story, Recheck
  <1>2. UNCHANGED <<file, asked, wrote, prepared>> /\ overtaken' = overtaken \ {r}
    BY DEF Recheck
  <1>3. CASE Fails(r, SomeUpdated(r)) /\ UNCHANGED at
    <2>1. SomeUpdated(r) \/ wrote[r] = {}
      BY <1>1 DEF SomeUpdated, Written
    <2> QED BY <1>2, <1>3, <2>1, FailedStep
  <1>4. /\ AllPrepared(r)' /\ Changed(r)' = Changed(r)
        /\ plans'[r] = plans[r] /\ wrote'[r] = wrote[r]
    BY <1>1, <1>2, SamePlans DEF AllPrepared, asked
  <1>5. CASE Next1(r) \notin Changed(r) /\ Advances(r) /\ UNCHANGED <<stage, told>>
    <2>1. at'[r] = at[r] + 1 /\ stage'[r] = "publish"
      BY <1>1, <1>5 DEF Types, Advances
    <2>2. { i \in Changed(r) : i <= at[r] + 1 } = { i \in Changed(r) : i <= at[r] }
      BY <1>5, ChangedAreLater DEF Next1, IInv
    <2>3. Written(r)' = Written(r)
      BY <1>4, <2>1, <2>2 DEF Written
    <2>4. Story(r)' /\ InPlans(r)' /\ Looked(r)'
      BY <1>1, <1>4, <2>1, <2>3, ChangedAreLater DEF Story, Early, InPlans, Looked, Recheck, Has, IInv
    <2> QED BY <1>1, <1>2, <1>5, <2>4, AskedStep DEF Types
  <1>6. CASE /\ file[Plan(r).client] = Plan(r).original /\ Next1(r) \in Changed(r)
             /\ Goes(r, "replace") /\ UNCHANGED <<at, told>>
    <2>1. at'[r] = at[r] /\ stage'[r] = "replace"
      BY <1>1, <1>6 DEF Types, Goes
    <2>2. Written(r)' = Written(r) /\ Next1(r)' = Next1(r)
      BY <1>4, <2>1 DEF Written, Next1
    <2>3. Story(r)'
      BY <1>1, <1>4, <1>6, <2>1, <2>2 DEF Story, Early
    <2>4. InPlans(r)' /\ Looked(r)'
      BY <1>1, <1>2, <1>4, <1>6, <2>1 DEF InPlans, Looked, Recheck, Has, Plan, Next1
    <2> QED BY <1>1, <1>2, <1>6, <2>3, <2>4, AskedStep DEF Types, Stages
  <1> QED BY <1>3, <1>5, <1>6 DEF Recheck

LEMMA FinishOK == ASSUME IInv, NEW r \in Runs, Finish(r) PROVE IInv'
  <1>1. Types /\ Story(r) /\ InPlans(r) /\ stage[r] = "publish" /\ AllPrepared(r)
        /\ wrote[r] = Written(r)
    BY TypedParts DEF Story, Finish
  <1>2. UNCHANGED <<file, asked, wrote, prepared, overtaken, at, told>> /\ Goes(r, "ok")
    BY DEF Finish
  <1>3. /\ AllPrepared(r)' /\ Changed(r)' = Changed(r)
        /\ plans'[r] = plans[r] /\ wrote'[r] = wrote[r] /\ at'[r] = at[r]
        /\ stage'[r] = "ok"
    BY <1>1, <1>2, SamePlans DEF AllPrepared, asked, Goes, Types
  <1>4. { i \in Changed(r) : i <= at[r] } = Changed(r)
    BY ChangedAreLater DEF Finish, Has, IInv
  <1>5. wrote[r] = { plans[r][i].client : i \in Changed(r) }
    BY <1>1, <1>4 DEF Written
  <1>6. Story(r)' /\ InPlans(r)' /\ Looked(r)'
    BY <1>1, <1>3, <1>5 DEF Story, Early, InPlans, Looked
  <1> QED BY <1>1, <1>2, <1>6, AskedStep DEF Types, Stages, Ended

LEMMA KillOK == ASSUME IInv, NEW r \in Runs, Kill(r) PROVE IInv'
  <1>1. Types /\ Story(r)
    BY TypedParts
  <1>2. UNCHANGED <<file, asked, wrote, prepared, overtaken, at, told>> /\ Goes(r, "killed")
    BY DEF Kill
  <1>3. /\ AllPrepared(r)' <=> AllPrepared(r)
        /\ wrote'[r] = wrote[r] /\ stage'[r] = "killed"
    BY <1>1, <1>2, SamePlans DEF AllPrepared, asked, Goes, Types
  <1>4. Story(r)' /\ InPlans(r)' /\ Looked(r)'
    BY <1>1, <1>3 DEF Story, Early, InPlans, Looked
  <1> QED BY <1>1, <1>2, <1>4, AskedStep DEF Types, Stages, Ended

(* What a run writes is a configuration that keeps what it does not set *)
LEMMA ContentKeeps ==
    ASSUME TypeOK, NEW r \in Runs, NEW original \in Documents
    PROVE  LET new == Content(r, original) IN
           /\ new \in Documents
           /\ new.note = original.note /\ new.entry.env = original.entry.env
           /\ task[r].kind = "update" =>
                 /\ new.entry.extras = original.entry.extras
                 /\ task[r].version = 0 => new.entry.version >= original.entry.version
  <1>1. target[r] \in Versions /\ task[r].extras \in SUBSET Extras
    BY SetupConstants DEF TypeOK
  <1>2. original.note \in Notes /\ original.entry.version \in Nat /\ target[r] \in Nat
    BY <1>1, SetupConstants DEF Documents
  <1> DEFINE Entries == [launcher : {"none", "uvx", "other"}, version : Versions,
                         extras : SUBSET Extras, env : Environments]
  <1>3. original.entry \in Entries
    BY DEF Documents
  <1>4. SetupEntry(r, original) \in Entries /\ SetupEntry(r, original).env = original.entry.env
    BY <1>1, <1>3 DEF SetupEntry
  <1>5. /\ UpdateEntry(r, original) \in Entries
        /\ UpdateEntry(r, original).env = original.entry.env
        /\ UpdateEntry(r, original).extras = original.entry.extras
        /\ task[r].version = 0 => UpdateEntry(r, original).version >= original.entry.version
    BY <1>1, <1>2, <1>3 DEF UpdateEntry
  <1> HIDE DEF Entries
  <1>6. Content(r, original).entry \in Entries
    BY <1>4, <1>5 DEF Content
  <1>7. Content(r, original) \in Documents
    BY <1>2, <1>6 DEF Content, Documents, Entries
  <1> QED BY <1>4, <1>5, <1>7 DEF Content

(* When a configuration changes, whoever is about to replace it is overtaken *)
LEMMA OvertakenLook ==
    ASSUME IInv, NEW client \in Clients, NEW new, file' = [file EXCEPT ![client] = new],
           NEW q \in Runs, stage'[q] = stage[q], plans'[q] = plans[q], at'[q] = at[q],
           overtaken \subseteq overtaken', q \in AboutTo(client) => q \in overtaken'
    PROVE  Looked(q)'
  <1> SUFFICES ASSUME stage[q] = "replace", q \notin overtaken'
               PROVE  file'[Plan(q).client] = Plan(q).original
    BY DEF Looked, Plan, Next1
  <1>1. Looked(q) /\ Types
    BY TypedParts
  <1>2. Plan(q).client # client
    BY DEF AboutTo
  <1>3. file'[Plan(q).client] = file[Plan(q).client]
    BY <1>2
  <1> QED BY <1>1, <1>3 DEF Looked

LEMMA PlansAreTyped ==
    ASSUME TypeOK, NEW r \in Runs, Has(r)
    PROVE  Plan(r).client \in Clients /\ Plan(r).original \in Documents
  <1> DEFINE Plans == [client : Clients, original : Documents]
  <1>1. plans[r] \in Seq(Plans) /\ at[r] \in Nat
    BY DEF TypeOK
  <1>2. Plan(r) \in Plans
    <2> HIDE DEF Plans
    <2>1. Next1(r) \in 1 .. Len(plans[r])
      BY <1>1 DEF Has, Next1
    <2> QED BY <1>1, <2>1 DEF Plan
  <1> QED BY <1>2

LEMMA ReplaceOK == ASSUME IInv, NEW r \in Runs, Replace(r) PROVE IInv'
  <1>1. Types /\ Story(r) /\ InPlans(r) /\ stage[r] = "replace" /\ AllPrepared(r)
        /\ wrote[r] = Written(r) /\ Next1(r) \in Changed(r) /\ Has(r)
    BY TypedParts DEF Story, InPlans, Replace
  <1>2. UNCHANGED <<asked, prepared>>
    BY DEF Replace
  <1>3. CASE Fails(r, TRUE) /\ UNCHANGED <<file, wrote, overtaken, at>>
    BY <1>2, <1>3, FailedStep
  <1> DEFINE client == Plan(r).client
             new == Content(r, Plan(r).original)
  <1>4. CASE /\ file' = [file EXCEPT ![client] = new]
             /\ wrote' = [wrote EXCEPT ![r] = @ \cup {client}]
             /\ overtaken' = overtaken \cup (AboutTo(client) \ {r})
             /\ \/ Goes(r, "publish") /\ Advances(r) /\ UNCHANGED told
                \/ Fails(r, TRUE) /\ UNCHANGED at
    <2>1. client \in Clients /\ new \in Documents
      BY <1>1, PlansAreTyped, ContentKeeps DEF IInv
    <2>2. UNCHANGED at \/ Advances(r)
      BY <1>4
    <2>3. \E next \in {"publish", "failed"} : Goes(r, next)
      BY <1>4 DEF Fails
    <2>4. stage' \in [Runs -> Stages] /\ at' \in [Runs -> Nat]
      BY <1>1, <2>2, <2>3, Moving DEF Stages, Ended
    <2>5. told' = told \/ told' = told \cup {r}
      BY <1>4 DEF Fails
    <2>6. Types'
      <3>1. wrote' \in [Runs -> SUBSET Clients]
        BY <1>1, <1>4, <2>1 DEF Types
      <3>2. file' \in [Clients -> Documents]
        BY <1>1, <1>4, <2>1 DEF Types
      <3>3. overtaken' \cup told' \subseteq Runs
        BY <1>1, <1>4, <2>5 DEF Types, AboutTo
      <3> QED BY <1>1, <1>2, <2>4, <3>1, <3>2, <3>3 DEF Types, asked
    <2>7. \A q \in Runs \ {r} : stage'[q] = stage[q] /\ at'[q] = at[q] /\ wrote'[q] = wrote[q]
      BY <1>1, <1>4, <2>2, <2>3 DEF Types, Goes, Advances
    <2>8. Others(r)
      BY <1>2, <2>5, <2>7 DEF Others, asked
    <2>9. \A q \in Runs \ {r} : Looked(q)'
      <3> HIDE DEF client, new
      <3>1. ASSUME NEW q \in Runs \ {r} PROVE Looked(q)'
        <4>1. overtaken \subseteq overtaken' /\ (q \in AboutTo(client) => q \in overtaken')
          BY <1>4
        <4>2. stage'[q] = stage[q] /\ plans'[q] = plans[q] /\ at'[q] = at[q]
          BY <2>8 DEF Others
        <4> QED BY <1>4, <2>1, <4>1, <4>2, OvertakenLook
      <3> QED BY <3>1
    <2>10. stage'[r] \in {"publish", "failed"}
      BY <1>1, <2>3 DEF Types, Goes
    <2>11. Looked(r)'
      BY <2>10 DEF Looked
    <2>12. AllPrepared(r)' /\ Changed(r)' = Changed(r) /\ plans'[r] = plans[r]
      BY <1>1, <1>2, SamePlans DEF AllPrepared, asked
    <2>13. wrote'[r] = wrote[r] \cup {client}
      BY <1>1, <1>4 DEF Types
    <2>14. CASE Goes(r, "publish") /\ Advances(r)
      <3>1. stage'[r] = "publish" /\ at'[r] = at[r] + 1
        BY <1>1, <2>14 DEF Types, Goes, Advances
      <3>2. { i \in Changed(r) : i <= at[r] + 1 }
              = { i \in Changed(r) : i <= at[r] } \cup {Next1(r)}
        BY <1>1, ChangedAreLater DEF Next1, IInv
      <3>3. Written(r)' = Written(r) \cup {client}
        BY <2>12, <3>1, <3>2 DEF Written, Plan
      <3>4. Story(r)'
        BY <1>1, <2>12, <2>13, <3>1, <3>3 DEF Story, Early
      <3>5. InPlans(r)'
        BY <1>1, <2>12, <3>1, ChangedAreLater DEF InPlans, Has, IInv
      <3> QED BY <2>6, <2>8, <2>9, <2>11, <3>4, <3>5, OtherStories, OthersInPlans
            DEF IInv, TypeOK, Types, Stages
    <2>15. CASE Fails(r, TRUE)
      <3>1. stage'[r] = "failed" /\ r \in told'
        BY <1>1, <2>15 DEF Types, Goes, Fails
      <3>2. Story(r)' /\ InPlans(r)'
        BY <2>12, <3>1 DEF Story, Early, InPlans
      <3> QED BY <2>6, <2>8, <2>9, <2>11, <3>2, OtherStories, OthersInPlans
            DEF IInv, TypeOK, Types, Stages
    <2> QED BY <1>4, <2>14, <2>15
  <1> QED BY <1>3, <1>4 DEF Replace

LEMMA EditOK == ASSUME IInv, NEW client \in Clients, Edit(client) PROVE IInv'
  <1>1. Types
    BY TypedParts
  <1>2. PICK new \in Edits(file[client]) : file' = [file EXCEPT ![client] = new]
    BY DEF Edit
  <1>3. new \in Documents
    BY <1>1, SetupConstants DEF Types
  <1>4. UNCHANGED <<stage, asked, at, prepared, told, wrote>>
        /\ overtaken' = overtaken \cup AboutTo(client)
    BY DEF Edit
  <1>5. Types'
    <2>1. file' \in [Clients -> Documents]
      BY <1>1, <1>2, <1>3 DEF Types
    <2> QED BY <1>1, <1>4, <2>1 DEF Types, AboutTo, asked
  <1>6. ASSUME NEW q \in Runs PROVE Looked(q)'
    BY <1>2, <1>4, OvertakenLook DEF asked
  <1>7. ASSUME NEW q \in Runs PROVE Story(q)' /\ InPlans(q)'
    <2> DEFINE nobody == CHOOSE x : x \notin Runs
    <2>1. nobody \notin Runs /\ Others(nobody)
      BY <1>4, NoSetContainsEverything DEF Others, asked
    <2> QED BY <2>1, OtherStories, OthersInPlans
  <1> QED BY <1>5, <1>6, <1>7 DEF IInv, TypeOK, Types, Stages

LEMMA StepOK == IInv /\ [Next]_vars => IInv'
  <1> SUFFICES ASSUME IInv, [Next]_vars PROVE IInv'
    OBVIOUS
  <1>1. ASSUME NEW r \in Runs,
               \/ Start(r) \/ Read(r) \/ Choose(r) \/ Confirm(r) \/ Prepare(r) \/ Prepared(r)
               \/ Check(r) \/ Checked(r) \/ Recheck(r) \/ Replace(r) \/ Finish(r) \/ Kill(r)
        PROVE  IInv'
    BY <1>1, StartOK, ReadOK, ChooseOK, ConfirmOK, PrepareOK, PreparedOK, CheckOK, CheckedOK,
       RecheckOK, ReplaceOK, FinishOK, KillOK
  <1>2. CASE \E client \in Clients : Edit(client)
    BY <1>2, EditOK
  <1>3. CASE UNCHANGED vars
    <2> DEFINE nobody == CHOOSE x : x \notin Runs
    <2>1. nobody \notin Runs /\ Others(nobody)
      BY <1>3, NoSetContainsEverything DEF Others, vars, asked
    <2>2. ASSUME NEW q \in Runs PROVE Story(q)' /\ InPlans(q)'
      BY <2>1, OtherStories, OthersInPlans
    <2>3. ASSUME NEW q \in Runs PROVE Looked(q)'
      <3>1. Looked(q)
        BY TypedParts
      <3>2. UNCHANGED <<file, stage, plans, at, overtaken>>
        BY <1>3 DEF vars, asked
      <3> QED BY <3>1, <3>2 DEF Looked, Plan, Next1
    <2>4. Types'
      <3>1. Types
        BY TypedParts
      <3> QED BY <1>3, <3>1 DEF Types, vars, asked
    <2> QED BY <2>2, <2>3, <2>4 DEF IInv, TypeOK, Types, Stages
  <1> QED BY <1>1, <1>2, <1>3 DEF Next

LEMMA Inductive == Spec => []IInv
  BY InitOK, StepOK, PTL DEF Spec

(* However many runs, clients and edits there are, the state of every run    *)
(* keeps its shape and no run looks beyond its plans.                        *)
THEOREM RunsKeepTheirShape == Spec => []TypeOK
  <1>1. IInv => TypeOK
    BY DEF IInv
  <1> QED BY <1>1, Inductive, PTL

(* No run publishes a launcher without having verified its requirement under *)
(* the settings of the very entry it is published in (prepare_providers,     *)
(* prepare_updated_releases, verify_releases): a verification for another    *)
(* client counts only when requirement and settings are both the same.       *)
THEOREM LaunchersArePrepared == Spec => []PublishedArePrepared
  <1>1. IInv => PublishedArePrepared
    BY DEF IInv, Story, AllPrepared, PublishedArePrepared
  <1> QED BY <1>1, Inductive, PTL

(* Success, failure and the warning that goes with a failure are true of the *)
(* files, at whatever client a run fails (apply_client_setup).               *)
THEOREM RunsTellTheTruth == Spec => []OutcomesTellTheTruth
  <1>1. IInv => OutcomesTellTheTruth
    BY DEF IInv, Story, Early, OutcomesTellTheTruth
  <1> QED BY <1>1, Inductive, PTL

(* A configuration is replaced by one that keeps what others wrote into it,  *)
(* unless they wrote after the run looked at it last.                        *)
THEOREM OthersAreKept == Spec => KeepsWhatOthersWrote
  <1> DEFINE Keeps ==
        \A r \in Runs : \A client \in wrote'[r] \ wrote[r] :
          r \notin overtaken =>
              LET old == file[client]  new == file'[client] IN
              /\ new.note = old.note /\ new.entry.env = old.entry.env
              /\ task[r].kind = "update" =>
                    /\ new.entry.extras = old.entry.extras
                    /\ task[r].version = 0 => new.entry.version >= old.entry.version
  <1>1. ASSUME IInv, [Next]_vars PROVE [Keeps]_vars
    <2>1. CASE \E q \in Runs : Replace(q)
      <3>1. PICK q \in Runs : Replace(q)
        BY <2>1
      <3>2. Types /\ Looked(q) /\ Has(q) /\ stage[q] = "replace" /\ TypeOK
        <4>1. stage[q] = "replace"
          BY <3>1 DEF Replace
        <4>2. Types /\ Looked(q) /\ InPlans(q)
          BY <1>1, TypedParts
        <4> QED BY <1>1, <4>1, <4>2 DEF InPlans, IInv
      <3> DEFINE ours == Plan(q).client
      <3>3. ASSUME NEW r \in Runs, NEW client \in wrote'[r] \ wrote[r]
            PROVE  /\ r = q /\ client = ours
                   /\ file' = [file EXCEPT ![ours] = Content(q, Plan(q).original)]
        <4>1. \/ UNCHANGED wrote
              \/ /\ wrote' = [wrote EXCEPT ![q] = @ \cup {ours}]
                 /\ file' = [file EXCEPT ![ours] = Content(q, Plan(q).original)]
          BY <3>1 DEF Replace
        <4>2. wrote \in [Runs -> SUBSET Clients]
          BY <3>2 DEF Types
        <4> QED BY <3>3, <4>1, <4>2
      <3>4. ours \in Clients /\ Plan(q).original \in Documents
        BY <3>2, PlansAreTyped
      <3>5. ASSUME NEW r \in Runs, NEW client \in wrote'[r] \ wrote[r], r \notin overtaken
            PROVE  /\ r = q /\ file[client] = Plan(q).original
                   /\ file'[client] = Content(q, Plan(q).original)
        BY <3>2, <3>3, <3>4, <3>5 DEF Looked, Types
      <3> QED BY <3>2, <3>4, <3>5, ContentKeeps
    <2>2. CASE UNCHANGED wrote
      BY <2>2
    <2> QED BY <1>1, <2>1, <2>2 DEF Next, vars, Start, Read, Choose, Confirm, Prepare, Prepared,
               Check, Checked, Recheck, Finish, Kill, Edit
  <1> QED BY <1>1, Inductive, PTL DEF Spec, KeepsWhatOthersWrote
=============================================================================
