------------------------------ MODULE Migration ------------------------------
(***************************************************************************)
(* The checkpointed migration of src/migration.go: StartMigration,         *)
(* submitMigration and ResumeMigration against MigrationCluster, the       *)
(* checkpoint store they write, crashes of the process that runs them, and *)
(* the operator who reconciles an ambiguous checkpoint as the docs tell.   *)
(*                                                                         *)
(* pc names the next step of the call under way; "idle" is between calls,  *)
(* when the caller holds the state the last call returned.                 *)
(***************************************************************************)
EXTENDS MigrationCluster

CONSTANTS
  DurableSave,  \* a checkpoint callback that returned nil is durable, as
                \* MigrationOptions.Checkpoint demands (CheckpointFile: not on Windows)
  MaxFaults     \* bound: calls cut short by an error or a crash

ASSUME MigrationAssumption == DurableSave \in BOOLEAN /\ MaxFaults \in Nat

VARIABLES
  pc,
  resuming,   \* the call is ResumeMigration rather than StartMigration
  state,      \* the MigrationState in memory
  store,      \* the MigrationState a load of the checkpoint finds, or NoCheckpoint
  durable,    \* the one it finds after the machine has crashed
  gaveUp,     \* the operator has abandoned the target
  faults

storeVars  == <<store, durable>>
clientVars == <<resuming, gaveUp, faults>>
vars == <<clusterVars, pc, state, storeVars, clientVars>>

\* MigrationState: what differs from the plan, which is constant.
Planned == [phase |-> "planned", mapping |-> "plan", task |-> 0, documents |-> 0]
NoCheckpoint == [phase |-> "none", mapping |-> "plan", task |-> 0, documents |-> 0]

Phases == {"none", "planned", "creating", "created", "submitting", "copying",
           "switching", "complete"}

Init ==
  /\ ClusterInit
  /\ pc = "idle" /\ resuming = FALSE
  /\ state = Planned /\ store = NoCheckpoint /\ durable = NoCheckpoint
  /\ gaveUp = FALSE /\ faults = 0

Goto(next) == pc' = next

\* A step that only asks the cluster something and goes on.
Reads(here, ok, next) ==
  /\ pc = here /\ ok
  /\ Goto(next)
  /\ UNCHANGED <<clusterVars, state, storeVars, clientVars>>

Saving == {"saveCreating", "saveCreated", "saveSubmitting", "saveCopying",
           "saveSwitching", "saveComplete"}

\* The callback persisted s, if it could: the file replaced, then made durable.
Persisted(s, acknowledged) ==
  \/ /\ acknowledged
     /\ store' = s
     /\ durable' \in (IF DurableSave THEN {s} ELSE {durable, s})
  \/ /\ ~acknowledged
     /\ \/ UNCHANGED storeVars
        \/ store' = s /\ durable' \in {durable, s}

\* checkpoint(state, o) with the state's phase just set to phase.  The callback
\* may fail before or after it has replaced the checkpoint.
Saves(here, phase, next) ==
  /\ pc = here
  /\ state' = [state EXCEPT !.phase = phase]
  /\ \/ /\ Persisted(state', TRUE)
        /\ Goto(next)
        /\ UNCHANGED faults
     \/ /\ faults < MaxFaults /\ faults' = faults + 1
        /\ Persisted(state', FALSE)
        /\ Goto("idle")
  /\ UNCHANGED <<clusterVars, resuming, gaveUp>>

\* A changing request is issued, and answered well.
Requests(here, kind, next) ==
  /\ pc = here
  /\ Issue(kind)
  /\ Goto(next)
  /\ UNCHANGED <<indexVars, copyVars, aliasVars, interference, state, storeVars, clientVars>>

Succeeds(here, next) ==
  /\ pc = here /\ reply = Ok
  /\ Received
  /\ Goto(next)
  /\ UNCHANGED <<indexVars, copyVars, aliasVars, interference, state, storeVars, clientVars>>
-----------------------------------------------------------------------------
(* StartMigration.                                                         *)

\* A new run starts from the plan: at first, when a run failed before its first
\* checkpoint, and when the operator finds no target behind "creating".
Start ==
  /\ pc = "idle"
  /\ \/ state.phase = "planned"
     \/ state.phase = "creating" /\ targetMapping = "none"
  /\ state' = Planned
  /\ resuming' = FALSE
  /\ Goto("resolve")
  /\ UNCHANGED <<clusterVars, storeVars, gaveUp, faults>>

ResolveAlias       == Reads("resolve", alias = "source", "planMapping")
CheckPlanMapping   == Reads("planMapping", sourceMapping = "planned", "refresh")

\* Mutant: the source is not refreshed.
LeavesSourceStale(here, next) ==
  /\ pc = here
  /\ Goto(next)
  /\ UNCHANGED <<clusterVars, state, storeVars, clientVars>>

RefreshSource(here, next) ==
  /\ pc = here
  /\ sourceVisible' = Docs
  /\ Goto(next)
  /\ UNCHANGED <<sourceMapping, targetMapping, copyVars, aliasVars, networkVars, interference,
                 state, storeVars, clientVars>>

RefreshBeforeCopy == RefreshSource("refresh", "saveCreating")
SaveCreating      == Saves("saveCreating", "creating", "create")
CreateTarget      == Requests("create", "create", "awaitCreate")
TargetCreated     == Succeeds("awaitCreate", "readTarget")

\* The mapping recorded is the one the server normalized.
ReadTargetMapping ==
  /\ pc = "readTarget" /\ targetMapping # "none"
  /\ state' = [state EXCEPT !.mapping = targetMapping]
  /\ Goto("saveCreated")
  /\ UNCHANGED <<clusterVars, storeVars, clientVars>>

\* Mutant: the request is sent without saving the intent.
SavesCreatedOnly == Saves("saveCreated", "created", "reindex")

SaveCreated == Saves("saveCreated", "created", "saveSubmitting")
-----------------------------------------------------------------------------
(* submitMigration: the intent is saved before the request is sent.        *)

SaveSubmitting == Saves("saveSubmitting", "submitting", "reindex")
SubmitReindex  == Requests("reindex", "reindex", "awaitReindex")

TaskID    == reply[2]

TaskAccepted ==
  /\ pc = "awaitReindex" /\ Len(reply) = 2
  /\ state' = [state EXCEPT !.task = TaskID]
  /\ Received
  /\ Goto("saveCopying")
  /\ UNCHANGED <<indexVars, copyVars, aliasVars, interference, storeVars, clientVars>>

\* StartMigration returns here, ResumeMigration goes on.
SaveCopying == Saves("saveCopying", "copying", IF resuming THEN "wait" ELSE "idle")
-----------------------------------------------------------------------------
(* ResumeMigration.  In "creating" and "submitting" it returns             *)
(* MigrationPendingError, in "complete" the state, and changes nothing.    *)

\* Mutant: an ambiguous submission is submitted again.
PicksSubmitting ==
  [created |-> "saveSubmitting", submitting |-> "saveSubmitting", copying |-> "wait",
   switching |-> "checkSource"]

\* Mutant: a copy in progress is submitted anew.
PicksCopying ==
  [created |-> "saveSubmitting", copying |-> "saveSubmitting", switching |-> "checkSource"]

\* Where each phase that goes on picks the work up.
PicksUp ==
  [created |-> "saveSubmitting", copying |-> "wait", switching |-> "checkSource"]

Resume ==
  /\ pc = "idle" /\ state.phase \in DOMAIN PicksUp
  /\ Goto(PicksUp[state.phase])
  /\ resuming' = TRUE
  /\ UNCHANGED <<clusterVars, state, storeVars, gaveUp, faults>>

\* WaitTask; then the response must report every document created.
TaskSucceeded ==
  /\ pc = "wait" /\ state.task # 0
  /\ tasks[state.task].state = "done"
  /\ state' = [state EXCEPT !.documents = tasks[state.task].total]
  /\ Goto("checkSource")
  /\ UNCHANGED <<clusterVars, storeVars, clientVars>>

CheckSource == Reads("checkSource", sourceMapping = "planned", "checkTarget")
CheckTarget == Reads("checkTarget", targetMapping = state.mapping, "refreshSource")

RefreshSourceBeforeCount == RefreshSource("refreshSource", "refreshTarget")

RefreshTarget ==
  /\ pc = "refreshTarget"
  /\ targetVisible' = targetDocs
  /\ Goto("countSource")
  /\ UNCHANGED <<indexVars, targetDocs, tasks, aliasVars, networkVars, interference,
                 state, storeVars, clientVars>>

CountSource ==
  Reads("countSource", Cardinality(sourceVisible) = state.documents, "countTarget")
CountTarget ==
  Reads("countTarget", Cardinality(targetVisible) = state.documents, "resolveAgain")

\* Mutant: an alias already switched is always a conflict.
ResolvesSourceOnly == Reads("resolveAgain", alias = "source", "saveSwitching")

\* An alias already on the target is this migration's own doing only in phase
\* "switching".
ResolveAgain ==
  Reads("resolveAgain",
        alias = "source" \/ (alias = "target" /\ state.phase = "switching"),
        IF alias = "target" THEN "saveComplete" ELSE "saveSwitching")

SaveSwitching == Saves("saveSwitching", "switching", "switch")
SwitchAlias   == Requests("switch", "switch", "awaitSwitch")
AliasSwitched == Succeeds("awaitSwitch", "saveComplete")
SaveComplete  == Saves("saveComplete", "complete", "idle")
-----------------------------------------------------------------------------
(* What ends a call early, and who picks up the pieces.                    *)

\* Any request can fail in transit, and the context can end while the client
\* waits: the call returns the state it has.
CallFails ==
  /\ pc \notin {"idle", "stopped"} \union Saving /\ faults < MaxFaults
  /\ faults' = faults + 1
  /\ Abandon
  /\ Goto("idle")
  /\ UNCHANGED <<indexVars, copyVars, aliasVars, interference, state, storeVars, resuming,
                 gaveUp>>

\* A check that does not hold, a refused request, a task that did not succeed.
CallRefused ==
  /\ \/ pc \in {"resolve", "resolveAgain"} /\ alias # "source"
        /\ ~(pc = "resolveAgain" /\ alias = "target" /\ state.phase = "switching")
     \/ pc \in {"planMapping", "checkSource"} /\ sourceMapping # "planned"
     \/ pc = "checkTarget" /\ targetMapping # state.mapping
     \/ pc \in {"awaitCreate", "awaitSwitch"} /\ reply = Refused
     \/ pc = "wait" /\ tasks[state.task].state \in {"conflict", "failed", "gone"}
     \/ pc = "countSource" /\ Cardinality(sourceVisible) # state.documents
     \/ pc = "countTarget" /\ Cardinality(targetVisible) # state.documents
  /\ Received
  /\ Goto("idle")
  /\ UNCHANGED <<indexVars, copyVars, aliasVars, interference, state, storeVars, clientVars>>

\* The process dies, or its machine does, and its successor loads the checkpoint.
Crash ==
  /\ pc # "stopped" /\ faults < MaxFaults
  /\ faults' = faults + 1
  /\ Abandon
  /\ store' \in {store, durable}
  /\ state' = IF store' = NoCheckpoint THEN Planned ELSE store'
  /\ Goto("idle")
  /\ UNCHANGED <<indexVars, copyVars, aliasVars, interference, durable, resuming, gaveUp>>

\* The operator corrects an ambiguous checkpoint ("Recovery decisions" of
\* docs/migrations.md): a target found behind "creating" is adopted if its
\* mapping is the plan's, a task found behind "submitting" is recorded.
Reconcile ==
  /\ pc = "idle"
  /\ \/ /\ state.phase = "creating" /\ targetMapping = "normalized"
        /\ state' = [state EXCEPT !.phase = "created", !.mapping = "normalized"]
     \/ /\ state.phase = "submitting" /\ tasks # <<>>
        /\ state' = [state EXCEPT !.phase = "copying", !.task = Len(tasks)]
  /\ store' = state' /\ durable' = state'
  /\ UNCHANGED <<clusterVars, pc, clientVars>>

\* Or the operator keeps both indexes and plans anew with another target.
TaskLost ==
  tasks # <<>> /\ \A t \in DOMAIN tasks : tasks[t].state \in {"conflict", "failed", "gone"}

GiveUp ==
  /\ pc = "idle" /\ ~gaveUp
  /\ \/ state.phase = "submitting" /\ tasks = <<>>
     \/ state.phase = "creating" /\ targetMapping = "foreign"
     \/ state.phase = "copying" /\ TaskLost
     \/ sourceMapping # "planned" \/ alias = "other"
  /\ gaveUp' = TRUE
  /\ Goto("stopped")
  /\ UNCHANGED <<clusterVars, state, storeVars, resuming, faults>>

Client ==
  \/ Start \/ ResolveAlias \/ CheckPlanMapping \/ RefreshBeforeCopy
  \/ SaveCreating \/ CreateTarget \/ TargetCreated \/ ReadTargetMapping \/ SaveCreated
  \/ SaveSubmitting \/ SubmitReindex \/ TaskAccepted \/ SaveCopying
  \/ Resume \/ TaskSucceeded \/ CheckSource \/ CheckTarget
  \/ RefreshSourceBeforeCount \/ RefreshTarget \/ CountSource \/ CountTarget
  \/ ResolveAgain \/ SaveSwitching \/ SwitchAlias \/ AliasSwitched \/ SaveComplete
  \/ CallRefused

ClusterStep == Cluster /\ UNCHANGED <<pc, state, storeVars, clientVars>>

Next == Client \/ ClusterStep \/ CallFails \/ Crash \/ Reconcile \/ GiveUp

Spec == Init /\ [][Next]_vars

\* The process runs, the server answers, the task copies, and the operator
\* acts; nothing is assumed of faults.  GiveUp may be offered and withdrawn as
\* calls are repeated, so it needs strong fairness.
Fairness ==
  /\ WF_vars(Client) /\ WF_vars(ServerHandles /\ UNCHANGED <<pc, state, storeVars, clientVars>>)
  /\ WF_vars((\E t \in DOMAIN tasks : TaskCopies(t) \/ TaskFinishes(t))
             /\ UNCHANGED <<pc, state, storeVars, clientVars>>)
  /\ WF_vars(Reconcile) /\ SF_vars(GiveUp)

FairSpec == Spec /\ Fairness
-----------------------------------------------------------------------------
MigrationStates ==
  [phase : Phases, mapping : {"plan", "normalized", "foreign"},
   task : Nat, documents : Nat]

\* Types; a recorded task is one the server knows or knew.
TypeOK ==
  /\ ClusterTypeOK
  /\ pc \in Saving \union
       {"idle", "stopped", "resolve", "planMapping", "refresh", "create", "awaitCreate",
        "readTarget", "reindex", "awaitReindex", "wait", "checkSource", "checkTarget",
        "refreshSource", "refreshTarget", "countSource", "countTarget", "resolveAgain",
        "switch", "awaitSwitch"}
  /\ resuming \in BOOLEAN /\ gaveUp \in BOOLEAN
  /\ {state, store, durable} \subseteq MigrationStates
  /\ {state.task, store.task, durable.task} \subseteq {0} \union DOMAIN tasks
  /\ faults \in 0..MaxFaults

\* A request of this kind has been sent and may still take effect.
Outstanding(kind) == awaiting = kind \/ kind \in late

\* The checkpoint is ahead of every side effect: whatever moment the process
\* dies at, the phase it finds on restart admits what may have been done.  This
\* is what "before and after each side effect" in StartMigration's comment is for.
WriteAhead ==
  \A saved \in {store, durable} :
    /\ Outstanding("create") \/ targetMapping = "normalized" => saved.phase # "none"
    /\ Outstanding("reindex") \/ tasks # <<>> =>
         saved.phase \in {"submitting", "copying", "switching", "complete"}
    /\ Outstanding("switch") \/ switches > 0 => saved.phase \in {"switching", "complete"}

\* However often calls fail, requests are delayed and the process crashes, the
\* reindex is submitted at most once: a second task would collide with the first.
SubmittedOnce ==
  Len(tasks) + (IF awaiting = "reindex" THEN 1 ELSE 0)
             + (IF "reindex" \in late THEN 1 ELSE 0) <= 1

Rank(phase) ==
  CASE phase = "none"       -> 0 [] phase = "planned"   -> 1
    [] phase = "creating"   -> 2 [] phase = "created"   -> 3
    [] phase = "submitting" -> 4 [] phase = "copying"   -> 5
    [] phase = "switching"  -> 6 [] phase = "complete"  -> 7

\* Neither a resume from an older checkpoint nor a repeated start overwrites
\* what is durable with an earlier phase, or forgets the task.
CheckpointNeverRegresses ==
  [][/\ Rank(durable'.phase) >= Rank(durable.phase)
     /\ durable.task # 0 => durable'.task = durable.task]_vars

\* The migration keeps the promise of AliasMigration.
Contract == INSTANCE AliasMigration WITH
  copied   <- targetDocs,
  switched <- switches > 0,
  complete <- "complete" \in {state.phase, store.phase, durable.phase}

SafeMigration == Contract!Spec

\* Without competing administrators, resuming and reconciling lead to the
\* complete phase, or to an operator who had to give the target up.
Completes == <>(state.phase = "complete" \/ gaveUp)
=============================================================================
