----------------------------- MODULE ClientSetup -----------------------------
(***************************************************************************)
(* "flameox setup" and "flameox update" (cli.py, setup.py, updates.py,      *)
(* installation.py): a run reads the configurations of its clients, makes a *)
(* plan for each, verifies every launcher it is about to publish, and       *)
(* replaces the configurations one by one, while users edit them and other  *)
(* runs replace them.                                                       *)
(***************************************************************************)
EXTENDS Naturals, Sequences

CONSTANTS
    Clients,      \* SetupClient
    Runs,         \* processes that set up or update
    Notes,        \* what the rest of a configuration may say
    Versions,     \* releases; 0 is none
    Extras,       \* the optional parts of a release
    Environments, \* what a launcher's entry sets: "none", "invalid" or other values
    Tasks,        \* what a run may be asked
    Originals,    \* the configurations a client may have at first
    Edits(_),     \* what a user may make of a configuration
    Own,          \* the release that runs
    Latest,       \* the release the index names
    MaxEdits      \* bound: edits by users

(* A configuration: other settings, and the launcher under "flameox"; one   *)
(* that is a link, or cannot be parsed, is "broken"                         *)
Documents ==
    [kind : {"absent", "broken", "document"}, note : Notes,
     entry : [launcher : {"none", "uvx", "other"}, version : Versions,
              extras : SUBSET Extras, env : Environments]]

ASSUME SetupConstants ==
    /\ Versions \subseteq Nat /\ {0, Own, Latest} \subseteq Versions
    /\ Tasks \subseteq [kind : {"setup", "update"}, clients : Seq(Clients),
                       version : Versions, extras : SUBSET Extras, preview : BOOLEAN]
    /\ Originals \subseteq Documents
    /\ \A text \in Documents : Edits(text) \subseteq Documents

VARIABLES
    file,      \* the configuration of each client
    edits,     \* edits made by users so far
    stage,     \* where each run is
    task,      \* what each run was asked
    plans,     \* the clients of each run with the configuration it read
    target,    \* the release each run publishes
    at,        \* clients a run has dealt with in its stage
    prepared,  \* the launchers and environments each run has verified
    told,      \* runs that said, when they failed, that clients may have been changed
    wrote,     \* the clients whose configuration each run has replaced
    overtaken  \* runs whose next client was changed since they last looked at it

vars == <<file, edits, stage, task, plans, target, at, prepared, told, wrote, overtaken>>
asked == <<task, plans, target>>

Ended == {"ok", "previewed", "failed", "killed"}

Init ==
    /\ file \in [Clients -> Originals]
    /\ edits = 0
    /\ stage = [r \in Runs |-> "ready"]
    /\ task \in [Runs -> Tasks]
    /\ plans = [r \in Runs |-> <<>>]
    /\ target = [r \in Runs |-> 0]
    /\ at = [r \in Runs |-> 0]
    /\ prepared = [r \in Runs |-> {}]
    /\ told = {}
    /\ wrote = [r \in Runs |-> {}]
    /\ overtaken = {}

-----------------------------------------------------------------------------
(* The plan for a client: what the configuration that was read becomes *)

(* A setup merges its launcher into the entry that is there *)
SetupEntry(r, original) ==
    [original.entry EXCEPT !.launcher = "uvx", !.version = target[r], !.extras = task[r].extras]

(* An update replaces the pin, with the extras it has; it keeps a newer one *)
(* unless it was asked for a release                                        *)
UpdateEntry(r, original) ==
    LET keeps == task[r].version = 0 /\ original.entry.version > target[r]
    IN IF keeps THEN original.entry ELSE [original.entry EXCEPT !.version = target[r]]

(* The rest of the configuration is kept as it is *)
Content(r, original) ==
    [kind |-> "document", note |-> original.note,
     entry |-> IF task[r].kind = "setup" THEN SetupEntry(r, original)
               ELSE UpdateEntry(r, original)]

AlreadyCurrent(r, plan) == Content(r, plan.original) = plan.original
Changed(r) == { i \in DOMAIN plans[r] : ~ AlreadyCurrent(r, plans[r][i]) }
(* What a verification is keyed by: the requirement and the environment     *)
(* settings in its client's entry                                           *)
Launcher(r, plan) ==
    LET entry == Content(r, plan.original).entry
    IN [version |-> entry.version, extras |-> entry.extras, env |-> entry.env]

Next1(r) == at[r] + 1
Has(r) == at[r] < Len(plans[r])
Plan(r) == plans[r][Next1(r)]
Goes(r, next) == stage' = [stage EXCEPT ![r] = next]
(* Mutant: the next stage does not begin with the first plan *)
Continues(r, next) == Goes(r, next) /\ UNCHANGED at
Restarts(r, next) == Goes(r, next) /\ at' = [at EXCEPT ![r] = 0]
Advances(r) == at' = [at EXCEPT ![r] = @ + 1]
Fails(r, tells) == Goes(r, "failed") /\ told' = IF tells THEN told \cup {r} ELSE told

-----------------------------------------------------------------------------
Start(r) ==
    /\ stage[r] = "ready"
    /\ Goes(r, "read")
    /\ UNCHANGED <<file, edits, asked, at, prepared, told, wrote, overtaken>>

(* One client is read; an update passes over those without a launcher, and  *)
(* refuses a launcher or an environment that it does not recognise          *)
Read(r) ==
    LET client == task[r].clients[Next1(r)]
        found == file[client]
        unrecognised == /\ task[r].kind = "update"
                        /\ \/ found.entry.launcher = "other"
                           \/ found.entry.env = "invalid"
    IN
    /\ stage[r] = "read" /\ Next1(r) \in DOMAIN task[r].clients
    /\ IF found.kind = "broken" \/ unrecognised
       THEN Fails(r, FALSE) /\ UNCHANGED <<plans, at>>
       ELSE /\ plans' = IF task[r].kind = "update" /\ found.entry.launcher = "none" THEN plans
                        ELSE [plans EXCEPT ![r] = Append(@, [client |-> client, original |-> found])]
            /\ Advances(r)
            /\ UNCHANGED <<stage, told>>
    /\ UNCHANGED <<file, edits, task, target, prepared, wrote, overtaken>>

(* All are read: a setup publishes the release that runs, an update the one *)
(* it was asked for or the latest, which the index may fail to name         *)
Choose(r) ==
    /\ stage[r] = "read" /\ Next1(r) \notin DOMAIN task[r].clients
    /\ \/ /\ plans[r] # <<>> /\ UNCHANGED told
          /\ target' = [target EXCEPT ![r] =
                 IF task[r].kind = "setup" THEN Own
                 ELSE IF task[r].version # 0 THEN task[r].version ELSE Latest]
          /\ Restarts(r, "chosen")
       \/ /\ plans[r] = <<>> \/ (task[r].kind = "update" /\ task[r].version = 0)
          /\ Fails(r, FALSE)
          /\ UNCHANGED <<target, at>>
    /\ UNCHANGED <<file, edits, task, plans, prepared, wrote, overtaken>>

(* A preview ends here, as do a user who declines and an update that has    *)
(* nothing to change                                                        *)
Confirm(r) ==
    /\ stage[r] = "chosen"
    /\ \/ /\ ~ task[r].preview
          /\ task[r].kind = "setup" \/ Changed(r) # {}
          /\ IF \E i \in DOMAIN plans[r] : plans[r][i].original.entry.env = "invalid"
             THEN Fails(r, FALSE)
             ELSE Goes(r, "prepare") /\ UNCHANGED told
       \/ /\ task[r].preview \/ task[r].kind = "setup"
          /\ Goes(r, "previewed") /\ UNCHANGED told
       \/ /\ ~ task[r].preview /\ task[r].kind = "update" /\ Changed(r) = {}
          /\ Goes(r, "ok") /\ UNCHANGED told
    /\ UNCHANGED <<file, edits, asked, at, prepared, wrote, overtaken>>

(* Mutant: a requirement is verified once, whatever the environment *)
PrepareRequirement(r) ==
    /\ stage[r] = "prepare" /\ Has(r)
    /\ prepared' = IF \E p \in prepared[r] : p.version = Launcher(r, Plan(r)).version
                   THEN prepared
                   ELSE [prepared EXCEPT ![r] = @ \cup {Launcher(r, Plan(r))}]
    /\ Advances(r)
    /\ UNCHANGED <<file, edits, asked, stage, told, wrote, overtaken>>

(* A requirement is verified with the settings of its client, unless the    *)
(* two were verified together before; an update verifies those that it      *)
(* changes.  A verification may fail, and the deadline of all of them may   *)
(* pass.  Which settings reach the installer is not told apart here.        *)
Prepare(r) ==
    LET needed == /\ task[r].kind = "setup" \/ Next1(r) \in Changed(r)
                  /\ Launcher(r, Plan(r)) \notin prepared[r]
    IN
    /\ stage[r] = "prepare" /\ Has(r)
    /\ \/ /\ prepared' = IF needed THEN [prepared EXCEPT ![r] = @ \cup {Launcher(r, Plan(r))}]
                         ELSE prepared
          /\ Advances(r)
          /\ UNCHANGED <<stage, told>>
       \/ /\ needed /\ Fails(r, FALSE)
          /\ UNCHANGED <<prepared, at>>
    /\ UNCHANGED <<file, edits, asked, wrote, overtaken>>

Prepared(r) ==
    /\ stage[r] = "prepare" /\ ~ Has(r)
    /\ Restarts(r, "check")
    /\ UNCHANGED <<file, edits, asked, prepared, told, wrote, overtaken>>

(* Every configuration is compared with what was read before the first one  *)
(* is replaced; it may be changed or unreadable                             *)
Check(r) ==
    /\ stage[r] = "check" /\ Has(r)
    /\ \/ file[Plan(r).client] = Plan(r).original /\ Advances(r) /\ UNCHANGED <<stage, told>>
       \/ Fails(r, FALSE) /\ UNCHANGED at
    /\ UNCHANGED <<file, edits, asked, prepared, wrote, overtaken>>

Checked(r) ==
    /\ stage[r] = "check" /\ ~ Has(r)
    /\ Restarts(r, "publish")
    /\ UNCHANGED <<file, edits, asked, prepared, told, wrote, overtaken>>

(* Mutant: the client just before does not count *)
UpdatedEarlier(r) == \E i \in Changed(r) : i < at[r]
(* Some client before this one was changed by the run *)
SomeUpdated(r) == \E i \in Changed(r) : i <= at[r]

(* Mutant: a configuration is not compared again before it is replaced *)
RecheckNothing(r) ==
    /\ stage[r] = "publish" /\ Has(r)
    /\ IF Next1(r) \notin Changed(r) THEN Advances(r) /\ UNCHANGED stage
       ELSE Goes(r, "replace") /\ UNCHANGED at
    /\ UNCHANGED <<file, edits, asked, prepared, told, wrote, overtaken>>

(* Each is compared again before it is replaced: a failure now says whether *)
(* clients before it were changed                                           *)
Recheck(r) ==
    /\ stage[r] = "publish" /\ Has(r)
    /\ \/ /\ file[Plan(r).client] = Plan(r).original
          /\ IF Next1(r) \notin Changed(r) THEN Advances(r) /\ UNCHANGED stage
             ELSE Goes(r, "replace") /\ UNCHANGED at
          /\ UNCHANGED told
       \/ Fails(r, SomeUpdated(r)) /\ UNCHANGED at
    /\ overtaken' = overtaken \ {r}
    /\ UNCHANGED <<file, edits, asked, prepared, wrote>>

(* The runs that looked at this client last and are about to replace it *)
AboutTo(client) == { r \in Runs : stage[r] = "replace" /\ Plan(r).client = client }

(* The new text is written aside and renamed; the write may fail before the *)
(* rename, and the synchronisation of the directory after it                *)
Replace(r) ==
    LET client == Plan(r).client IN
    /\ stage[r] = "replace"
    /\ \/ /\ file' = [file EXCEPT ![client] = Content(r, Plan(r).original)]
          /\ wrote' = [wrote EXCEPT ![r] = @ \cup {client}]
          /\ overtaken' = overtaken \cup (AboutTo(client) \ {r})
          /\ \/ Goes(r, "publish") /\ Advances(r) /\ UNCHANGED told
             \/ Fails(r, TRUE) /\ UNCHANGED at
       \/ Fails(r, TRUE) /\ UNCHANGED <<file, wrote, overtaken, at>>
    /\ UNCHANGED <<edits, asked, prepared>>

Finish(r) ==
    /\ stage[r] = "publish" /\ ~ Has(r)
    /\ Goes(r, "ok")
    /\ UNCHANGED <<file, edits, asked, at, prepared, told, wrote, overtaken>>

Kill(r) ==
    /\ stage[r] \notin Ended \cup {"ready"}
    /\ Goes(r, "killed")
    /\ UNCHANGED <<file, edits, asked, at, prepared, told, wrote, overtaken>>

Edit(client) ==
    /\ edits < MaxEdits
    /\ edits' = edits + 1
    /\ \E new \in Edits(file[client]) : file' = [file EXCEPT ![client] = new]
    /\ overtaken' = overtaken \cup AboutTo(client)
    /\ UNCHANGED <<stage, asked, at, prepared, told, wrote>>

Next ==
    \/ \E r \in Runs :
           \/ Start(r) \/ Read(r) \/ Choose(r) \/ Confirm(r) \/ Prepare(r) \/ Prepared(r)
           \/ Check(r) \/ Checked(r) \/ Recheck(r) \/ Replace(r) \/ Finish(r) \/ Kill(r)
    \/ \E client \in Clients : Edit(client)

Spec == Init /\ [][Next]_vars

-----------------------------------------------------------------------------
(* Runs and configurations have the shape their classes declare, and a run  *)
(* never looks beyond the plans that it made                                *)
InPlans(r) ==
    /\ stage[r] \notin {"read", "failed", "killed"} => at[r] <= Len(plans[r])
    /\ stage[r] = "replace" => Has(r)

TypeOK ==
    /\ file \in [Clients -> Documents]
    /\ stage \in [Runs -> Ended \cup
           {"ready", "read", "chosen", "prepare", "check", "publish", "replace"}]
    /\ task \in [Runs -> Tasks]
    /\ plans \in [Runs -> Seq([client : Clients, original : Documents])]
    /\ target \in [Runs -> Versions]
    /\ at \in [Runs -> Nat]
    /\ wrote \in [Runs -> SUBSET Clients] /\ overtaken \cup told \subseteq Runs
    /\ \A r \in Runs : InPlans(r)

(* A run that replaces a configuration keeps the settings, the environment  *)
(* and, in an update, the extras of the very text that it replaces, and     *)
(* lowers no release that it was not asked to, however long it prepared and *)
(* whoever wrote meanwhile, unless that happened between its last look at   *)
(* the file and the rename.                                                 *)
KeepsWhatOthersWrote ==
    [][\A r \in Runs : \A client \in wrote'[r] \ wrote[r] :
          r \notin overtaken =>
              LET old == file[client]  new == file'[client] IN
              /\ new.note = old.note /\ new.entry.env = old.entry.env
              /\ task[r].kind = "update" =>
                    /\ new.entry.extras = old.entry.extras
                    /\ task[r].version = 0 => new.entry.version >= old.entry.version]_vars

(* A launcher is published only after the run that publishes it verified    *)
(* that very requirement under the settings its own client is configured    *)
(* with, even when another client shares the requirement or the settings.   *)
(* (Verification forwards the installer's part of the settings only.)       *)
PublishedArePrepared ==
    \A r \in Runs : \A i \in Changed(r) :
        plans[r][i].client \in wrote[r] => Launcher(r, plans[r][i]) \in prepared[r]

(* What a run says of its end agrees with the files: success means that     *)
(* every client it planned to change is changed, a failure that changed a   *)
(* client says so, and a preview or a refused plan changed none.            *)
OutcomesTellTheTruth ==
    \A r \in Runs :
        /\ stage[r] = "ok" => wrote[r] = { plans[r][i].client : i \in Changed(r) }
        /\ stage[r] = "failed" /\ r \notin told => wrote[r] = {}
        /\ stage[r] = "previewed" => wrote[r] = {}
=============================================================================
