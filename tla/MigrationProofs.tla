--------------------------- MODULE MigrationProofs ---------------------------
(***************************************************************************)
(* Proofs about Migration and, last, ApplyMigration, for any documents and *)
(* any number of faults and of steps by other administrators.              *)
(*                                                                         *)
(* Three inductive invariants on top of the types, one for each promise.   *)
(* Ordered: what is on disk never is ahead of what the process holds.      *)
(* Copied: the switch is only ever on its way when the target is complete. *)
(* Ahead: no effect is on its way or done before the checkpoint admits it, *)
(* which is the one that needs a checkpoint callback that is durable when  *)
(* it returns nil.                                                         *)
(***************************************************************************)
EXTENDS Migration, FiniteSetTheorems, SequenceTheorems, TLAPS

USE DEF indexVars, copyVars, aliasVars, networkVars, clusterVars, storeVars, clientVars

\* The phase of the state in memory, at each step of a call.
PhaseAtStep ==
  /\ pc \in {"resolve", "planMapping", "refresh", "saveCreating"} => state.phase = "planned"
  /\ pc \in {"create", "awaitCreate", "readTarget", "saveCreated"} => state.phase = "creating"
  /\ pc = "saveSubmitting" => state.phase = "created"
  /\ pc \in {"reindex", "awaitReindex", "saveCopying"} => state.phase = "submitting"
  /\ pc = "wait" => state.phase = "copying"
  /\ pc \in {"checkSource", "checkTarget", "refreshSource", "refreshTarget", "countSource",
             "countTarget", "resolveAgain", "saveSwitching"} =>
       state.phase \in {"copying", "switching"}
  /\ pc \in {"switch", "awaitSwitch", "saveComplete"} => state.phase = "switching"

\* The step that waits for the answer to each request.
AwaitedAtStep ==
  /\ awaiting = "create" => pc = "awaitCreate"
  /\ awaiting = "reindex" => pc = "awaitReindex"
  /\ awaiting = "switch" => pc = "awaitSwitch"

Base == TypeOK /\ PhaseAtStep /\ AwaitedAtStep
-----------------------------------------------------------------------------
\* A new run is planned from the start over a checkpoint that says "creating".
Behind(saved, s) ==
  \/ Rank(saved.phase) <= Rank(s.phase)
  \/ saved.phase = "creating" /\ s.phase = "planned"

\* The phases a task is not known in.
NoTaskYet == {"none", "planned", "creating", "created", "submitting"}

\* What a crash finds is behind what is in the file, which is behind what the
\* process holds; and a task, once recorded, is in all that is ahead.
Ordered ==
  /\ \A saved \in {store, durable} :
       saved.phase # "planned" /\ (saved.phase = "none" => saved = NoCheckpoint)
  /\ state.phase # "none"
  /\ Rank(durable.phase) <= Rank(store.phase) /\ Behind(store, state)
  /\ store.task # 0 => state.task = store.task
  /\ durable.task # 0 => store.task = durable.task
  /\ store.phase \in NoTaskYet => store.task = 0
  /\ durable.phase \in NoTaskYet => durable.task = 0
  /\ state.phase \in NoTaskYet /\ pc # "saveCopying" => state.task = 0

\* The counts are compared with a source all of which is visible, so that the
\* target is complete before a switch is asked for; and the alias is on the
\* target, or the migration complete, only after a switch of its own.
Copied ==
  /\ pc \in {"refreshTarget", "countSource"} => sourceVisible = Docs
  /\ pc = "countTarget" => state.documents = Cardinality(Docs)
  /\ pc \in {"resolveAgain", "saveSwitching", "switch"} \/ Outstanding("switch") =>
       targetDocs = Docs
  /\ alias = "target" => switches > 0
  /\ pc = "awaitSwitch" /\ reply = Ok => switches > 0
  /\ pc = "saveComplete" => switches > 0
  /\ "complete" \in {state.phase, store.phase, durable.phase} => switches > 0

\* A reindex has been submitted, or a switch, whatever became of it.
Submitted == Outstanding("reindex") \/ tasks # <<>>
Switching == Outstanding("switch") \/ switches > 0

\* The state in memory, too, admits what may have been done; and before each
\* request the checkpoint does.
Ahead ==
  /\ WriteAhead
  /\ Submitted => state.phase \in {"submitting", "copying", "switching", "complete"}
  /\ Switching => state.phase \in {"switching", "complete"}
  /\ \A saved \in {store, durable} :
       /\ pc = "create" => saved.phase # "none"
       /\ pc = "reindex" =>
            ~Submitted /\ saved.phase \in {"submitting", "copying", "switching", "complete"}
       /\ pc = "switch" => saved.phase \in {"switching", "complete"}
  /\ SubmittedOnce
-----------------------------------------------------------------------------
(* Types.                                                                  *)

\* What can be counted.
LEMMA Counts ==
  ASSUME NEW S \in SUBSET Docs
  PROVE  IsFiniteSet(S) /\ Cardinality(S) \in Nat
<1>1. IsFiniteSet(S)
  BY ClusterAssumption, FS_Subset
<1> QED
  BY <1>1, FS_CardinalityType

\* The server handles one request, that of the client waiting or a late one.
LEMMA Served ==
  ASSUME ServerHandles
  PROVE  \E kind, r :
           /\ r \in Replies /\ Handle(kind, r) /\ UNCHANGED interference
           /\ \/ /\ kind = awaiting /\ awaiting # "none"
                 /\ awaiting' = "none" /\ reply' = r /\ UNCHANGED late
              \/ /\ kind \in late /\ late' = late \ {kind}
                 /\ UNCHANGED <<awaiting, reply>>
  BY DEF ServerHandles

Task == [todo : SUBSET Docs, total : Nat,
         state : {"running", "done", "conflict", "failed", "gone"}]

\* Types of the server, as it handles a request.
LEMMA ServerTypes ==
  ASSUME ClusterTypeOK, ServerHandles
  PROVE  ClusterTypeOK' /\ Len(tasks') \in Nat /\ Len(tasks') >= Len(tasks)
<1> USE DEF ClusterTypeOK, Kinds, NoReply, Ok, Refused
<1>1. PICK kind, r :
        /\ r \in Replies /\ Handle(kind, r) /\ UNCHANGED interference
        /\ \/ /\ kind = awaiting /\ awaiting # "none"
              /\ awaiting' = "none" /\ reply' = r /\ UNCHANGED late
           \/ /\ kind \in late /\ late' = late \ {kind}
              /\ UNCHANGED <<awaiting, reply>>
  BY Served
<1>2. awaiting' \in Kinds \union {"none"} /\ late' \subseteq Kinds
  BY <1>1
<1>3. CASE kind = "create" /\ HandleCreate(r)
  <2>1. UNCHANGED <<sourceMapping, sourceVisible, copyVars, aliasVars>>
        /\ targetMapping' \in {"normalized", targetMapping} /\ r \in {Ok, Refused}
    BY <1>3 DEF HandleCreate
  <2>2. reply' \in {NoReply, Ok, Refused} \union {<<"task", t>> : t \in DOMAIN tasks'}
    BY <1>1, <2>1
  <2> QED
    BY <1>1, <1>2, <2>1, <2>2
<1>4. CASE kind = "switch" /\ HandleSwitch(r)
  <2>1. UNCHANGED <<indexVars, copyVars>> /\ r \in {Ok, Refused}
        /\ alias' \in {"target", alias} /\ switches' \in {switches, switches + 1}
    BY <1>4 DEF HandleSwitch
  <2>2. reply' \in {NoReply, Ok, Refused} \union {<<"task", t>> : t \in DOMAIN tasks'}
    BY <1>1, <2>1
  <2> QED
    BY <1>1, <1>2, <2>1, <2>2
<1>5. CASE kind = "reindex" /\ HandleReindex(r)
  <2> DEFINE task == [todo |-> sourceVisible, total |-> Cardinality(sourceVisible),
                      state |-> "running"]
  <2>1. UNCHANGED <<indexVars, targetDocs, targetVisible, aliasVars>>
        /\ tasks' = Append(tasks, task) /\ r = <<"task", Len(tasks) + 1>>
    BY <1>5 DEF HandleReindex
  <2>2. task \in Task
    BY Counts DEF Task
  <2>3. tasks \in Seq(Task)
    BY DEF Task
  <2>4. tasks' \in Seq(Task) /\ DOMAIN tasks' = 1..(Len(tasks) + 1)
        /\ Len(tasks') = Len(tasks) + 1 /\ DOMAIN tasks \subseteq DOMAIN tasks'
    BY <2>1, <2>2, <2>3
  <2>5. reply' \in {NoReply, Ok, Refused} \union {<<"task", t>> : t \in DOMAIN tasks'}
    <3>1. Len(tasks) + 1 \in DOMAIN tasks'
      BY <2>4
    <3> QED
      BY <1>1, <2>1, <2>4, <3>1
  <2> QED
    BY <1>1, <1>2, <2>1, <2>4, <2>5 DEF Task
<1> QED
  BY <1>1, <1>3, <1>4, <1>5 DEF Handle

\* Types of the cluster, whatever it does.
LEMMA ClusterTypes ==
  ASSUME ClusterTypeOK, Cluster
  PROVE  ClusterTypeOK' /\ Len(tasks') \in Nat /\ Len(tasks') >= Len(tasks)
<1> USE DEF ClusterTypeOK
<1>1. CASE ServerHandles
  BY <1>1, ServerTypes
<1>2. CASE BackgroundRefresh
  BY <1>2 DEF BackgroundRefresh
<1>3. CASE Interferes
  BY <1>3, ClusterAssumption DEF Interferes
<1>4. ASSUME NEW t \in DOMAIN tasks, TaskCopies(t) \/ TaskFinishes(t) \/ TaskBreaks(t)
      PROVE  ClusterTypeOK' /\ Len(tasks') \in Nat /\ Len(tasks') >= Len(tasks)
  <2>1. tasks \in Seq(Task) /\ tasks[t] \in Task
    <3>1. tasks \in Seq(Task)
      BY DEF Task
    <3> QED
      BY <3>1
  <2>2. \A d : [tasks[t] EXCEPT !.todo = @ \ {d}] \in Task
    BY <2>1 DEF Task
  <2>3. \A s \in {"done", "conflict", "failed", "gone"} :
          [tasks[t] EXCEPT !.state = s] \in Task
    BY <2>1 DEF Task
  <2>4. \A new \in Task : [tasks EXCEPT ![t] = new] \in Seq(Task)
          /\ Len([tasks EXCEPT ![t] = new]) = Len(tasks)
    BY <2>1
  <2>5. \E new \in Task : tasks' = [tasks EXCEPT ![t] = new]
    BY <1>4, <2>1, <2>2, <2>3 DEF TaskCopies, TaskFinishes, TaskBreaks
  <2>6. tasks' \in Seq(Task) /\ Len(tasks') = Len(tasks) /\ DOMAIN tasks' = DOMAIN tasks
    BY <2>4, <2>5
  <2>7. \A d \in tasks[t].todo : d \in Docs
    BY <2>1 DEF Task
  <2>8. targetDocs' \subseteq Docs /\ targetVisible' \subseteq targetDocs'
    BY <1>4, <2>7 DEF TaskCopies, TaskFinishes, TaskBreaks
  <2>9. UNCHANGED <<indexVars, aliasVars, networkVars, interference>>
    BY <1>4 DEF TaskCopies, TaskFinishes, TaskBreaks
  <2> QED
    BY <2>6, <2>8, <2>9 DEF Task
<1> QED
  BY <1>1, <1>2, <1>3, <1>4 DEF Cluster

\* All that the client changes of the cluster by itself: a request is issued,
\* answered or given up, an index is refreshed.
ClientEffect ==
  /\ UNCHANGED <<alias, switches, sourceMapping, targetMapping, targetDocs, tasks,
                 interference>>
  /\ sourceVisible' \in {sourceVisible, Docs}
  /\ targetVisible' \in {targetVisible, targetDocs}
  /\ awaiting' \in Kinds \union {awaiting, "none"} /\ reply' \in {reply, NoReply}
  /\ late' \subseteq late \union ({awaiting} \ {"none"})

\* A step is the cluster's or the client's.
LEMMA ClientEffects ==
  ASSUME [Next]_vars
  PROVE  ClusterStep \/ ClientEffect
<1> USE DEF ClientEffect, Kinds
<1>1. CASE \/ Start \/ ResolveAlias \/ CheckPlanMapping \/ CheckSource \/ CheckTarget
           \/ CountSource \/ CountTarget \/ ResolveAgain \/ ReadTargetMapping
           \/ Resume \/ TaskSucceeded
  BY <1>1 DEF Start, ResolveAlias, CheckPlanMapping, CheckSource, CheckTarget, CountSource,
     CountTarget, ResolveAgain, ReadTargetMapping, Resume, TaskSucceeded, Reads
<1>2. CASE \/ SaveCreating \/ SaveCreated \/ SaveSubmitting \/ SaveCopying
           \/ SaveSwitching \/ SaveComplete
  BY <1>2 DEF SaveCreating, SaveCreated, SaveSubmitting, SaveCopying, SaveSwitching,
     SaveComplete, Saves
<1>3. CASE CreateTarget \/ SubmitReindex \/ SwitchAlias
  BY <1>3 DEF CreateTarget, SubmitReindex, SwitchAlias, Requests, Issue
<1>4. CASE TargetCreated \/ AliasSwitched \/ TaskAccepted \/ CallRefused
  BY <1>4 DEF TargetCreated, AliasSwitched, TaskAccepted, CallRefused, Succeeds, Received
<1>5. CASE RefreshBeforeCopy \/ RefreshSourceBeforeCount \/ RefreshTarget
  BY <1>5 DEF RefreshBeforeCopy, RefreshSourceBeforeCount, RefreshTarget, RefreshSource
<1>6. CASE CallFails \/ Crash
  BY <1>6 DEF CallFails, Crash, Abandon
<1>7. CASE Reconcile \/ GiveUp \/ UNCHANGED vars
  BY <1>7 DEF Reconcile, GiveUp, vars
<1> QED
  BY <1>1, <1>2, <1>3, <1>4, <1>5, <1>6, <1>7 DEF Next, Client

\* Types of the cluster in every step; no task is forgotten.
LEMMA ClusterStepTypes ==
  ASSUME TypeOK, [Next]_vars
  PROVE  ClusterTypeOK' /\ DOMAIN tasks \subseteq DOMAIN tasks'
<1> USE DEF TypeOK
<1>1. CASE ClusterStep
  <2>1. ClusterTypeOK' /\ Len(tasks') \in Nat /\ Len(tasks') >= Len(tasks)
    BY <1>1, ClusterTypes DEF ClusterStep
  <2>2. DOMAIN tasks = 1..Len(tasks) /\ DOMAIN tasks' = 1..Len(tasks')
        /\ Len(tasks) \in Nat
    BY <2>1 DEF ClusterTypeOK
  <2> QED
    BY <2>1, <2>2
<1>2. CASE ClientEffect
  BY <1>2 DEF ClusterTypeOK, ClientEffect, Kinds
<1> QED
  BY <1>1, <1>2, ClientEffects

\* The steps of StartMigration, submitMigration and ResumeMigration.
Steps ==
  Saving \union
    {"idle", "stopped", "resolve", "planMapping", "refresh", "create", "awaitCreate",
     "readTarget", "reindex", "awaitReindex", "wait", "checkSource", "checkTarget",
     "refreshSource", "refreshTarget", "countSource", "countTarget", "resolveAgain",
     "switch", "awaitSwitch"}

\* Types of the running call.
LEMMA ControlTypes ==
  ASSUME TypeOK, [Next]_vars
  PROVE  pc' \in Steps /\ resuming' \in BOOLEAN /\ gaveUp' \in BOOLEAN /\ faults' \in 0..MaxFaults
<1> USE MigrationAssumption DEF TypeOK, Steps, Saving, Goto
<1>1. CASE \/ Start \/ ResolveAlias \/ CheckPlanMapping \/ CheckSource \/ CheckTarget
           \/ CountSource \/ CountTarget \/ ResolveAgain \/ ReadTargetMapping
           \/ TaskSucceeded
  BY <1>1 DEF Start, ResolveAlias, CheckPlanMapping, CheckSource, CheckTarget, CountSource,
     CountTarget, ResolveAgain, ReadTargetMapping, TaskSucceeded, Reads
<1>2. CASE \/ SaveCreating \/ SaveCreated \/ SaveSubmitting \/ SaveCopying
           \/ SaveSwitching \/ SaveComplete
  <2>1. pc' \in Steps
    BY <1>2 DEF SaveCreating, SaveCreated, SaveSubmitting, SaveCopying, SaveSwitching,
       SaveComplete, Saves
  <2>2. /\ UNCHANGED <<resuming, gaveUp>>
        /\ faults' = faults \/ (faults < MaxFaults /\ faults' = faults + 1)
    BY <1>2 DEF SaveCreating, SaveCreated, SaveSubmitting, SaveCopying, SaveSwitching,
       SaveComplete, Saves
  <2>3. faults' \in 0..MaxFaults
    BY <2>2
  <2> QED
    BY <2>1, <2>2, <2>3
<1>3. CASE CreateTarget \/ SubmitReindex \/ SwitchAlias
  BY <1>3 DEF CreateTarget, SubmitReindex, SwitchAlias, Requests
<1>4. CASE TargetCreated \/ AliasSwitched \/ TaskAccepted \/ CallRefused
  BY <1>4 DEF TargetCreated, AliasSwitched, TaskAccepted, CallRefused, Succeeds
<1>5. CASE RefreshBeforeCopy \/ RefreshSourceBeforeCount \/ RefreshTarget
  BY <1>5 DEF RefreshBeforeCopy, RefreshSourceBeforeCount, RefreshTarget, RefreshSource
<1>6. CASE CallFails \/ Crash \/ GiveUp
  <2>1. pc' \in Steps
    BY <1>6 DEF CallFails, Crash, GiveUp
  <2>2. resuming' \in BOOLEAN /\ gaveUp' \in BOOLEAN
    BY <1>6 DEF CallFails, Crash, GiveUp
  <2>3. faults' \in 0..MaxFaults
    BY <1>6 DEF CallFails, Crash, GiveUp
  <2> QED
    BY <2>1, <2>2, <2>3
<1>7. CASE Resume
  BY <1>7 DEF Resume, PicksUp
<1>8. CASE Reconcile \/ ClusterStep \/ UNCHANGED vars
  BY <1>8 DEF Reconcile, ClusterStep, vars
<1> QED
  BY <1>1, <1>2, <1>3, <1>4, <1>5, <1>6, <1>7, <1>8 DEF Next, Client

\* What a save does, whether its callback fails or not.
LEMMA SaveEffect ==
  ASSUME NEW here, NEW phase, NEW next, Saves(here, phase, next)
  PROVE  /\ pc = here /\ state' = [state EXCEPT !.phase = phase]
         /\ \/ store' = store /\ durable' = durable
            \/ store' = state' /\ durable' \in {durable, state'}
         /\ pc' = "idle" \/ (pc' = next /\ store' = state' /\ (DurableSave => durable' = state'))
         /\ UNCHANGED clusterVars
<1>1. CASE Persisted(state', TRUE) /\ Goto(next)
  BY <1>1 DEF Saves, Persisted, Goto
<1>2. CASE Persisted(state', FALSE) /\ Goto("idle")
  BY <1>2 DEF Saves, Persisted, Goto
<1> QED
  BY <1>1, <1>2 DEF Saves

\* The phases saved, and the steps that save them.
LEMMA SavesOf ==
  /\ SaveCreating = Saves("saveCreating", "creating", "create")
  /\ SaveCreated = Saves("saveCreated", "created", "saveSubmitting")
  /\ SaveSubmitting = Saves("saveSubmitting", "submitting", "reindex")
  /\ SaveCopying = Saves("saveCopying", "copying", IF resuming THEN "wait" ELSE "idle")
  /\ SaveSwitching = Saves("saveSwitching", "switching", "switch")
  /\ SaveComplete = Saves("saveComplete", "complete", "idle")
  BY DEF SaveCreating, SaveCreated, SaveSubmitting, SaveCopying, SaveSwitching, SaveComplete

\* The states that fit the tasks there are.
Fits(s) == s \in MigrationStates /\ s.task \in {0} \union DOMAIN tasks

\* Types of the state, in memory and in the store.
LEMMA StateTypes ==
  ASSUME TypeOK, [Next]_vars
  PROVE  (Fits(state) /\ Fits(store) /\ Fits(durable))'
<1> USE DEF Fits, MigrationStates, Phases
<1>1. Fits(state) /\ Fits(store) /\ Fits(durable) /\ DOMAIN tasks \subseteq DOMAIN tasks'
  BY ClusterStepTypes DEF TypeOK
<1>2. ASSUME NEW here, NEW phase \in Phases, NEW next, Saves(here, phase, next)
      PROVE  (Fits(state) /\ Fits(store) /\ Fits(durable))'
  <2>1. Fits(state)'
    BY <1>1, <1>2, SaveEffect
  <2> QED
    BY <1>1, <1>2, <2>1, SaveEffect
<1>3. CASE \/ SaveCreating \/ SaveCreated \/ SaveSubmitting \/ SaveCopying
           \/ SaveSwitching \/ SaveComplete
  BY <1>2, <1>3
  DEF SaveCreating, SaveCreated, SaveSubmitting, SaveCopying, SaveSwitching, SaveComplete
<1>4. CASE Start
  BY <1>1, <1>4 DEF Start, Planned
<1>5. CASE ReadTargetMapping
  <2>1. targetMapping \in {"normalized", "foreign"}
    BY <1>5 DEF ReadTargetMapping, TypeOK, ClusterTypeOK
  <2> QED
    BY <1>1, <1>5, <2>1 DEF ReadTargetMapping
<1>6. CASE TaskAccepted
  <2>1. reply[2] \in DOMAIN tasks
    <3>1. /\ Len(reply) = 2
          /\ reply \in {NoReply, Ok, Refused} \union {<<"task", t>> : t \in DOMAIN tasks}
      BY <1>6 DEF TaskAccepted, TypeOK, ClusterTypeOK
    <3>2. Len(NoReply) = 0 /\ Len(Ok) = 1 /\ Len(Refused) = 1
      BY DEF NoReply, Ok, Refused
    <3>3. PICK t \in DOMAIN tasks : reply = <<"task", t>>
      BY <3>1, <3>2
    <3> QED
      BY <3>3
  <2>2. reply[2] \in Nat
    BY <2>1 DEF TypeOK, ClusterTypeOK
  <2>3. state' = [state EXCEPT !.task = reply[2]] /\ UNCHANGED storeVars
    BY <1>6 DEF TaskAccepted, TaskID
  <2> QED
    BY <1>1, <2>1, <2>2, <2>3
<1>7. CASE TaskSucceeded
  <2>1. state.task \in DOMAIN tasks
    BY <1>1, <1>7 DEF TaskSucceeded
  <2>2. tasks[state.task].total \in Nat
    <3>1. tasks \in Seq(Task)
      BY DEF TypeOK, ClusterTypeOK, Task
    <3>2. tasks[state.task] \in Task
      BY <2>1, <3>1
    <3> QED
      BY <3>2 DEF Task
  <2>3. state' = [state EXCEPT !.documents = tasks[state.task].total] /\ UNCHANGED storeVars
    BY <1>7 DEF TaskSucceeded
  <2> QED
    BY <1>1, <2>2, <2>3
<1>8. CASE Crash
  BY <1>1, <1>8 DEF Crash, Planned
<1>9. CASE Reconcile
  <2>1. CASE state' = [state EXCEPT !.phase = "created", !.mapping = "normalized"]
    BY <1>1, <1>9, <2>1 DEF Reconcile
  <2>2. CASE tasks # <<>> /\ state' = [state EXCEPT !.phase = "copying", !.task = Len(tasks)]
    <3>1. Len(tasks) \in DOMAIN tasks /\ Len(tasks) \in Nat
      BY <2>2 DEF TypeOK, ClusterTypeOK
    <3> QED
      BY <1>1, <1>9, <2>2, <3>1 DEF Reconcile
  <2> QED
    BY <1>9, <2>1, <2>2 DEF Reconcile
<1>10. CASE UNCHANGED <<state, storeVars>>
  BY <1>1, <1>10
<1> QED
  BY <1>3, <1>4, <1>5, <1>6, <1>7, <1>8, <1>9, <1>10
  DEF Next, Client, ResolveAlias, CheckPlanMapping, CheckSource, CheckTarget, CountSource,
      CountTarget, ResolveAgain, Reads, Resume, CreateTarget, SubmitReindex, SwitchAlias,
      Requests, TargetCreated, AliasSwitched, Succeeds, CallRefused, RefreshBeforeCopy,
      RefreshSourceBeforeCount, RefreshTarget, RefreshSource, CallFails, GiveUp,
      ClusterStep, vars

\* Every step keeps the types.
LEMMA TypeStep ==
  ASSUME TypeOK, [Next]_vars
  PROVE  TypeOK'
<1>1. ClusterTypeOK'
  BY ClusterStepTypes
<1>2. pc' \in Steps /\ resuming' \in BOOLEAN /\ gaveUp' \in BOOLEAN /\ faults' \in 0..MaxFaults
  BY ControlTypes
<1>3. (Fits(state) /\ Fits(store) /\ Fits(durable))'
  BY StateTypes
<1> QED
  BY <1>1, <1>2, <1>3 DEF TypeOK, Steps, Fits
-----------------------------------------------------------------------------
(* Where the phases and the requests belong.                               *)

\* Every step keeps the phase in memory that of the call's next step.
LEMMA PhaseStep ==
  ASSUME Base, [Next]_vars
  PROVE  PhaseAtStep'
<1> USE DEF Base, PhaseAtStep, Goto, Planned
<1>1. state \in MigrationStates
  BY DEF TypeOK
<1>2. ASSUME pc' \in {"idle", "stopped"} PROVE PhaseAtStep'
  BY <1>2
<1>3. CASE SaveCreating \/ SaveCreated \/ SaveSubmitting \/ SaveSwitching
  <2>1. ASSUME NEW here, NEW phase, NEW next, Saves(here, phase, next)
        PROVE  pc' = "idle" \/ (pc' = next /\ state'.phase = phase)
    BY <1>1, <2>1, SaveEffect DEF MigrationStates
  <2>2. \/ pc' = "idle"
        \/ pc' = "create" /\ state'.phase = "creating"
        \/ pc' = "saveSubmitting" /\ state'.phase = "created"
        \/ pc' = "reindex" /\ state'.phase = "submitting"
        \/ pc' = "switch" /\ state'.phase = "switching"
    BY <1>3, <2>1 DEF SaveCreating, SaveCreated, SaveSubmitting, SaveSwitching
  <2> QED
    BY <2>2
<1>4. CASE SaveCopying \/ SaveComplete
  <2>1. ASSUME NEW here, NEW phase, NEW next, Saves(here, phase, next)
        PROVE  pc' = "idle" \/ (pc' = next /\ state'.phase = phase)
    BY <1>1, <2>1, SaveEffect DEF MigrationStates
  <2>2. pc' = "idle" \/ (pc' = "wait" /\ state'.phase = "copying")
    <3>1. CASE SaveCopying
      BY <2>1, <3>1 DEF SaveCopying
    <3>2. CASE SaveComplete
      BY <2>1, <3>2 DEF SaveComplete
    <3> QED
      BY <1>4, <3>1, <3>2
  <2> QED
    BY <2>2
<1>5. CASE Start
  BY <1>5 DEF Start
<1>6. CASE \/ ResolveAlias \/ CheckPlanMapping \/ CheckSource \/ CheckTarget
           \/ CountSource \/ CountTarget
  BY <1>6 DEF ResolveAlias, CheckPlanMapping, CheckSource, CheckTarget, CountSource,
     CountTarget, Reads
<1>7. CASE ResolveAgain
  BY <1>7 DEF ResolveAgain, Reads
<1>8. CASE RefreshBeforeCopy \/ RefreshSourceBeforeCount \/ RefreshTarget
  BY <1>8 DEF RefreshBeforeCopy, RefreshSourceBeforeCount, RefreshTarget, RefreshSource
<1>9. CASE \/ CreateTarget \/ SubmitReindex \/ SwitchAlias \/ TargetCreated \/ AliasSwitched
  BY <1>9 DEF CreateTarget, SubmitReindex, SwitchAlias, Requests, TargetCreated,
     AliasSwitched, Succeeds
<1>10. CASE ReadTargetMapping
  BY <1>1, <1>10 DEF ReadTargetMapping, MigrationStates
<1>11. CASE TaskAccepted
  BY <1>1, <1>11 DEF TaskAccepted, MigrationStates
<1>12. CASE TaskSucceeded
  BY <1>1, <1>12 DEF TaskSucceeded, MigrationStates
<1>13. CASE Resume
  BY <1>13 DEF Resume, PicksUp
<1>14. CASE CallRefused \/ CallFails \/ Crash \/ Reconcile \/ GiveUp
  <2>1. pc' \in {"idle", "stopped"}
    BY <1>14 DEF CallRefused, CallFails, Crash, Reconcile, GiveUp
  <2> QED
    BY <1>2, <2>1
<1>15. CASE ClusterStep \/ UNCHANGED vars
  BY <1>15 DEF ClusterStep, vars
<1> QED
  BY <1>3, <1>4, <1>5, <1>6, <1>7, <1>8, <1>9, <1>10, <1>11, <1>12, <1>13, <1>14, <1>15
  DEF Next, Client

\* Every step keeps the request awaited that of the call's next step.
LEMMA AwaitedStep ==
  ASSUME Base, [Next]_vars
  PROVE  AwaitedAtStep'
<1> USE DEF Base, AwaitedAtStep, Goto
<1>1. ASSUME awaiting' = "none" PROVE AwaitedAtStep'
  BY <1>1
<1>2. CASE ClusterStep
  <2>1. awaiting' \in {awaiting, "none"} /\ pc' = pc
    BY <1>2 DEF ClusterStep, Cluster, ServerHandles, BackgroundRefresh, Interferes,
       TaskCopies, TaskFinishes, TaskBreaks
  <2> QED
    BY <1>1, <2>1
<1>3. CASE CreateTarget \/ SubmitReindex \/ SwitchAlias
  BY <1>3 DEF CreateTarget, SubmitReindex, SwitchAlias, Requests, Issue
<1>4. CASE TargetCreated \/ AliasSwitched \/ TaskAccepted \/ CallRefused \/ CallFails \/ Crash
  BY <1>1, <1>4 DEF TargetCreated, AliasSwitched, TaskAccepted, Succeeds, CallRefused,
     CallFails, Crash, Received, Abandon
<1>5. ASSUME UNCHANGED awaiting, pc \notin {"awaitCreate", "awaitReindex", "awaitSwitch"}
      PROVE  AwaitedAtStep'
  <2>1. awaiting \notin {"create", "reindex", "switch"}
    BY <1>5
  <2> QED
    BY <1>5, <2>1
<1>6. CASE \/ SaveCreating \/ SaveCreated \/ SaveSubmitting \/ SaveCopying
           \/ SaveSwitching \/ SaveComplete
  BY <1>5, <1>6 DEF SaveCreating, SaveCreated, SaveSubmitting, SaveCopying, SaveSwitching,
     SaveComplete, Saves
<1>7. CASE \/ Start \/ ResolveAlias \/ CheckPlanMapping \/ CheckSource \/ CheckTarget
           \/ CountSource \/ CountTarget \/ ResolveAgain \/ ReadTargetMapping
           \/ Resume \/ TaskSucceeded \/ Reconcile \/ GiveUp
  BY <1>5, <1>7 DEF Start, ResolveAlias, CheckPlanMapping, CheckSource, CheckTarget,
     CountSource, CountTarget, ResolveAgain, Reads, ReadTargetMapping, Resume,
     TaskSucceeded, Reconcile, GiveUp
<1>8. CASE RefreshBeforeCopy \/ RefreshSourceBeforeCount \/ RefreshTarget
  BY <1>5, <1>8 DEF RefreshBeforeCopy, RefreshSourceBeforeCount, RefreshTarget, RefreshSource
<1>9. CASE UNCHANGED vars
  BY <1>9 DEF vars
<1> QED
  BY <1>2, <1>3, <1>4, <1>6, <1>7, <1>8, <1>9 DEF Next, Client

\* The base of the invariants holds before the first call.
LEMMA InitBase == Init => Base
<1> SUFFICES ASSUME Init PROVE Base
  OBVIOUS
<1> USE DEF Init, ClusterInit
<1>1. ClusterTypeOK
  <2>1. tasks \in Seq(Task)
    OBVIOUS
  <2>2. interference \in 0..MaxInterference
    BY ClusterAssumption
  <2> QED
    BY <2>1, <2>2 DEF ClusterTypeOK, Task, NoReply, Kinds
<1>2. {state, store, durable} \subseteq MigrationStates
  BY DEF MigrationStates, Phases, Planned, NoCheckpoint
<1>3. {state.task, store.task, durable.task} \subseteq {0} \union DOMAIN tasks
  BY DEF Planned, NoCheckpoint
<1>4. faults \in 0..MaxFaults
  BY MigrationAssumption
<1>5. resuming \in BOOLEAN /\ gaveUp \in BOOLEAN
  OBVIOUS
<1>6. TypeOK
  BY <1>1, <1>2, <1>3, <1>4, <1>5 DEF TypeOK
<1>7. PhaseAtStep /\ AwaitedAtStep
  BY DEF PhaseAtStep, AwaitedAtStep
<1> QED
  BY <1>6, <1>7 DEF Base

\* Every step keeps the base of the invariants.
LEMMA BaseStep ==
  ASSUME Base, [Next]_vars
  PROVE  Base'
  BY TypeStep, PhaseStep, AwaitedStep DEF Base
-----------------------------------------------------------------------------
(* The checkpoint never regresses.                                         *)

\* What is durable is neither overwritten with an earlier phase nor forgets
\* its task.
NoRegress ==
  /\ Rank(durable'.phase) >= Rank(durable.phase)
  /\ durable.task # 0 => durable'.task = durable.task

\* The parts of the states that Ordered and NoRegress look at.
LEMMA StateParts ==
  ASSUME Base
  PROVE  /\ {state, store, durable} \subseteq MigrationStates
         /\ \A s \in {state, store, durable} :
              s.phase \in Phases /\ Rank(s.phase) \in Nat /\ s.task \in Nat
         /\ \A phase \in Phases :
              /\ [state EXCEPT !.phase = phase].phase = phase
              /\ [state EXCEPT !.phase = phase].task = state.task
<1>1. {state, store, durable} \subseteq MigrationStates
  BY DEF Base, TypeOK
<1>2. \A phase \in Phases : Rank(phase) \in Nat
  BY DEF Phases, Rank
<1> QED
  BY <1>1, <1>2 DEF MigrationStates

\* A save of a phase no earlier than that of the state.
LEMMA SaveOrdered ==
  ASSUME Base, Ordered,
         NEW here, NEW phase \in Phases \ {"none", "planned"}, NEW next,
         Saves(here, phase, next), next # "saveCopying",
         Rank(state.phase) <= Rank(phase),
         phase \in NoTaskYet => state.phase \in NoTaskYet /\ here # "saveCopying"
  PROVE  Ordered' /\ NoRegress
<1>1. /\ pc = here /\ pc' # "saveCopying"
      /\ state'.phase = phase /\ state'.task = state.task
      /\ \/ store' = store /\ durable' = durable
         \/ store' = state' /\ durable' \in {durable, state'}
  <2>1. /\ pc = here /\ state' = [state EXCEPT !.phase = phase]
        /\ \/ store' = store /\ durable' = durable
           \/ store' = state' /\ durable' \in {durable, state'}
        /\ pc' = "idle" \/ pc' = next
    BY SaveEffect
  <2>2. /\ [state EXCEPT !.phase = phase].phase = phase
        /\ [state EXCEPT !.phase = phase].task = state.task
    BY StateParts
  <2> QED
    BY <2>1, <2>2
<1>2. /\ Rank(phase) \in Nat /\ Rank("creating") \in Nat
      /\ \A s \in {state, store, durable} : Rank(s.phase) \in Nat /\ s.task \in Nat
  BY StateParts DEF Rank, Phases
<1>3. Rank(store.phase) <= Rank(phase)
  <2>1. CASE Rank(store.phase) <= Rank(state.phase)
    BY <1>2, <2>1
  <2>2. CASE store.phase = "creating" /\ state.phase = "planned"
    BY <2>2 DEF Rank, Phases
  <2> QED
    BY <2>1, <2>2 DEF Ordered, Behind
<1>4. Rank(durable.phase) <= Rank(phase)
  BY <1>2, <1>3 DEF Ordered
<1>5. phase \in NoTaskYet => state.task = 0
  BY <1>1 DEF Ordered
<1>6. phase # "none" /\ phase # "planned"
  OBVIOUS
<1>7. CASE store' = store /\ durable' = durable
  BY <1>1, <1>2, <1>3, <1>5, <1>6, <1>7 DEF Ordered, Behind, NoRegress
<1>8. CASE store' = state' /\ durable' = durable
  BY <1>1, <1>2, <1>4, <1>5, <1>6, <1>8 DEF Ordered, Behind, NoRegress
<1>9. CASE store' = state' /\ durable' = state'
  BY <1>1, <1>2, <1>4, <1>5, <1>6, <1>9 DEF Ordered, Behind, NoRegress
<1> QED
  BY <1>1, <1>7, <1>8, <1>9

\* Every step keeps disk, store and memory in order.
LEMMA OrderedStep ==
  ASSUME Base, Ordered, [Next]_vars
  PROVE  Ordered' /\ NoRegress
<1>1. /\ \A s \in {state, store, durable} :
           s.phase \in Phases /\ Rank(s.phase) \in Nat /\ s.task \in Nat
      /\ state \in MigrationStates
  BY StateParts
<1>2. CASE \/ SaveCreating \/ SaveCreated \/ SaveSubmitting \/ SaveCopying
           \/ SaveSwitching \/ SaveComplete
  <2> USE DEF Base, PhaseAtStep, Rank, Phases, NoTaskYet
  <2>1. CASE SaveCreating
    <3>1. Saves("saveCreating", "creating", "create") /\ pc = "saveCreating"
      BY <2>1 DEF SaveCreating, Saves
    <3> QED
      BY <3>1, SaveOrdered
  <2>2. CASE SaveCreated
    <3>1. Saves("saveCreated", "created", "saveSubmitting") /\ pc = "saveCreated"
      BY <2>2 DEF SaveCreated, Saves
    <3> QED
      BY <3>1, SaveOrdered
  <2>3. CASE SaveSubmitting
    <3>1. Saves("saveSubmitting", "submitting", "reindex") /\ pc = "saveSubmitting"
      BY <2>3 DEF SaveSubmitting, Saves
    <3> QED
      BY <3>1, SaveOrdered
  <2>4. CASE SaveCopying
    <3>1. PICK next \in {"wait", "idle"} :
            Saves("saveCopying", "copying", next) /\ pc = "saveCopying"
      BY <2>4 DEF SaveCopying, Saves
    <3> QED
      BY <3>1, SaveOrdered
  <2>5. CASE SaveSwitching
    <3>1. Saves("saveSwitching", "switching", "switch") /\ pc = "saveSwitching"
      BY <2>5 DEF SaveSwitching, Saves
    <3> QED
      BY <3>1, SaveOrdered
  <2>6. CASE SaveComplete
    <3>1. Saves("saveComplete", "complete", "idle") /\ pc = "saveComplete"
      BY <2>6 DEF SaveComplete, Saves
    <3> QED
      BY <3>1, SaveOrdered
  <2> QED
    BY <1>2, <2>1, <2>2, <2>3, <2>4, <2>5, <2>6
\* A new start leaves the checkpoint of an earlier one where it was.
<1>3. CASE Start
  <2>1. state'.phase = "planned" /\ state'.task = 0 /\ UNCHANGED storeVars
    BY <1>3 DEF Start, Planned
  <2>2. state.phase \in {"planned", "creating"} /\ pc = "idle" /\ pc' = "resolve"
    BY <1>3 DEF Start, Goto
  <2>3. state.task = 0
    BY <2>2 DEF Ordered, NoTaskYet
  <2>4. store.phase \in {"none", "creating"}
    BY <1>1, <2>2 DEF Ordered, Behind, Rank, Phases
  <2>5. Behind(store', state')
    BY <2>1, <2>4 DEF Behind, Rank
  <2> QED
    BY <1>1, <2>1, <2>2, <2>3, <2>5 DEF Ordered, NoRegress
<1>4. CASE ReadTargetMapping \/ TaskSucceeded
  <2>1. state'.phase = state.phase /\ state'.task = state.task /\ UNCHANGED storeVars
        /\ pc # "saveCopying"
    BY <1>1, <1>4 DEF ReadTargetMapping, TaskSucceeded, MigrationStates
  <2> QED
    BY <1>1, <2>1 DEF Ordered, Behind, NoRegress
<1>5. CASE TaskAccepted
  <2>1. state'.phase = state.phase /\ UNCHANGED storeVars
        /\ pc = "awaitReindex" /\ pc' = "saveCopying"
    BY <1>1, <1>5 DEF TaskAccepted, Goto, MigrationStates
  <2>2. store.task = 0 /\ durable.task = 0
    BY <1>1, <2>1 DEF Base, PhaseAtStep, Ordered, NoTaskYet
  <2> QED
    BY <1>1, <2>1, <2>2 DEF Ordered, Behind, NoRegress
<1>6. CASE Crash
  <2>1. /\ store' \in {store, durable} /\ durable' = durable
        /\ state' = (IF store' = NoCheckpoint THEN Planned ELSE store')
    BY <1>6 DEF Crash
  <2>2. /\ store'.phase # "planned" /\ Rank(durable.phase) <= Rank(store'.phase)
        /\ durable.task # 0 => store'.task = durable.task
        /\ store'.phase \in NoTaskYet => store'.task = 0
    BY <1>1, <2>1 DEF Ordered
  <2>3. /\ state'.phase # "none" /\ Behind(store', state') /\ state'.task = store'.task
        /\ state'.phase \in NoTaskYet => state'.task = 0
    <3>1. store' \in MigrationStates
      BY <2>1, StateParts
    <3>2. CASE store' = NoCheckpoint
      BY <2>1, <3>2 DEF NoCheckpoint, Planned, Behind, Rank
    <3>3. CASE store' # NoCheckpoint
      <4>1. state' = store' /\ store'.phase # "none" /\ Rank(store'.phase) \in Nat
        BY <1>1, <2>1, <3>3 DEF Ordered
      <4> QED
        BY <2>2, <4>1 DEF Behind
    <3> QED
      BY <3>2, <3>3
  <2> QED
    BY <1>1, <2>1, <2>2, <2>3 DEF Ordered, NoRegress
<1>7. CASE Reconcile
  <2>1. /\ pc = "idle" /\ pc' = pc /\ store' = state' /\ durable' = state'
        /\ \/ /\ state.phase = "creating" /\ state'.phase = "created"
              /\ state'.task = state.task
           \/ state.phase = "submitting" /\ state'.phase = "copying"
    BY <1>1, <1>7 DEF Reconcile, MigrationStates
  <2>2. state.task = 0 /\ store.phase \in NoTaskYet /\ durable.phase \in NoTaskYet
    <3>1. state.phase \in {"creating", "submitting"}
      BY <2>1
    <3>2. Rank(state.phase) <= 4
      BY <3>1 DEF Rank
    <3>3. Rank(store.phase) <= 4 /\ Rank(durable.phase) <= 4
      BY <1>1, <3>1, <3>2 DEF Ordered, Behind
    <3>4. \A phase \in Phases : Rank(phase) <= 4 => phase \in NoTaskYet
      BY DEF Rank, Phases, NoTaskYet
    <3> QED
      BY <1>1, <2>1, <3>1, <3>3, <3>4 DEF Ordered, NoTaskYet
  <2>3. Rank(durable.phase) <= Rank(state'.phase) /\ Rank(state'.phase) \in Nat
    <3>1. CASE state.phase = "creating"
      <4>1. Rank(state.phase) = 2 /\ Rank(state'.phase) = 3
        BY <2>1, <3>1 DEF Rank
      <4> QED
        BY <1>1, <3>1, <4>1 DEF Ordered, Behind
    <3>2. CASE state.phase = "submitting"
      <4>1. Rank(state.phase) = 4 /\ Rank(state'.phase) = 5
        BY <2>1, <3>2 DEF Rank
      <4> QED
        BY <1>1, <3>2, <4>1 DEF Ordered, Behind
    <3> QED
      BY <2>1, <3>1, <3>2
  <2>4. durable.task = 0
    BY <2>2 DEF Ordered
  <2>5. state'.phase \in NoTaskYet => state'.task = 0
    BY <2>1, <2>2 DEF NoTaskYet
  <2>6. state'.phase \notin {"none", "planned"}
    BY <2>1
  <2> QED
    BY <2>1, <2>3, <2>4, <2>5, <2>6 DEF Ordered, Behind, NoRegress
<1>8. ASSUME UNCHANGED <<state, storeVars>>, pc' = pc \/ pc # "saveCopying"
      PROVE  Ordered' /\ NoRegress
  BY <1>1, <1>8 DEF Ordered, Behind, NoRegress
<1> QED
  BY <1>2, <1>3, <1>4, <1>5, <1>6, <1>7, <1>8
  DEF Next, Client, ResolveAlias, CheckPlanMapping, CheckSource, CheckTarget, CountSource,
      CountTarget, ResolveAgain, Reads, Resume, CreateTarget, SubmitReindex, SwitchAlias,
      Requests, TargetCreated, AliasSwitched, Succeeds, CallRefused, RefreshBeforeCopy,
      RefreshSourceBeforeCount, RefreshTarget, RefreshSource, CallFails, GiveUp, Saving,
      ClusterStep, vars
-----------------------------------------------------------------------------
(* The alias moves only to a target that is complete.                      *)

\* Others move the alias; a document reaches the target.
Moved ==
  \/ alias # "other" /\ alias' = "other"
  \/ alias = "other" /\ alias' = "source"
OneMore == \E d \in Docs \ targetDocs : targetDocs' = targetDocs \union {d}

\* What the cluster does, whoever its client is.
LEMMA Moves ==
  ASSUME ClusterTypeOK, Cluster
  PROVE  /\ targetDocs \subseteq targetDocs' /\ sourceVisible' \in {sourceVisible, Docs}
         /\ \/ /\ Outstanding("switch") /\ alias = "source" /\ alias' = "target"
               /\ switches' = switches + 1 /\ UNCHANGED targetDocs
            \/ /\ UNCHANGED switches
               /\ \/ UNCHANGED <<alias, targetDocs>>
                  \/ Moved /\ UNCHANGED targetDocs
                  \/ OneMore /\ UNCHANGED alias
         /\ awaiting' \in {awaiting, "none"} /\ late' \subseteq late
         /\ reply' = Ok => reply = Ok \/ awaiting = "create" \/ switches' = switches + 1
<1>1. CASE ServerHandles
  <2>1. PICK kind, r :
          /\ r \in Replies /\ Handle(kind, r) /\ UNCHANGED interference
          /\ \/ /\ kind = awaiting /\ awaiting # "none"
                /\ awaiting' = "none" /\ reply' = r /\ UNCHANGED late
             \/ /\ kind \in late /\ late' = late \ {kind}
                /\ UNCHANGED <<awaiting, reply>>
    BY <1>1, Served
  <2>2. UNCHANGED <<targetDocs, sourceVisible>>
    BY <2>1 DEF Handle, HandleCreate, HandleReindex, HandleSwitch
  <2>3. \/ UNCHANGED <<alias, switches>>
        \/ /\ kind = "switch" /\ alias = "source" /\ alias' = "target"
           /\ switches' = switches + 1
    BY <2>1 DEF Handle, HandleCreate, HandleReindex, HandleSwitch
  <2>4. kind = "switch" => Outstanding("switch")
    BY <2>1 DEF Outstanding
  <2>5. ASSUME reply' = Ok, reply # Ok, awaiting # "create"
        PROVE  switches' = switches + 1
    <3>1. kind = awaiting /\ reply' = r
      BY <2>1, <2>5
    <3>2. kind = "switch"
      BY <2>1, <2>5, <3>1 DEF Handle, HandleReindex, Ok
    <3> QED
      BY <2>1, <2>5, <3>1, <3>2 DEF Handle, HandleSwitch, Ok, Refused
  <2>6. awaiting' \in {awaiting, "none"} /\ late' \subseteq late
    BY <2>1
  <2> QED
    BY <2>2, <2>3, <2>4, <2>5, <2>6
<1>2. CASE BackgroundRefresh
  BY <1>2 DEF BackgroundRefresh
<1>3. CASE Interferes
  <2>1. UNCHANGED <<copyVars, networkVars, switches, sourceVisible>>
    BY <1>3 DEF Interferes
  <2>2. UNCHANGED alias \/ Moved
    BY <1>3 DEF Interferes, Moved
  <2> QED
    BY <2>1, <2>2
<1>4. ASSUME NEW t \in DOMAIN tasks, TaskCopies(t)
      PROVE  /\ UNCHANGED <<indexVars, aliasVars, networkVars>>
             /\ UNCHANGED targetDocs \/ OneMore
             /\ targetDocs \subseteq targetDocs'
  <2>1. tasks[t].todo \subseteq Docs
    <3>1. tasks \in Seq(Task)
      BY DEF ClusterTypeOK, Task
    <3>2. tasks[t] \in Task
      BY <3>1
    <3> QED
      BY <3>2 DEF Task
  <2>2. UNCHANGED <<indexVars, aliasVars, networkVars>>
    BY <1>4 DEF TaskCopies
  <2>3. PICK d \in tasks[t].todo :
          \/ d \notin targetDocs /\ targetDocs' = targetDocs \union {d}
          \/ UNCHANGED targetDocs
    BY <1>4 DEF TaskCopies
  <2> QED
    BY <2>1, <2>2, <2>3 DEF OneMore
<1>5. ASSUME NEW t \in DOMAIN tasks, TaskFinishes(t) \/ TaskBreaks(t)
      PROVE  UNCHANGED <<indexVars, aliasVars, networkVars, targetDocs>>
  BY <1>5 DEF TaskFinishes, TaskBreaks
<1> QED
  BY <1>1, <1>2, <1>3, <1>4, <1>5 DEF Cluster

\* And as AliasMigration sees it, while a checkpointed migration runs.
LEMMA ClusterMoves ==
  ASSUME Base, ClusterStep
  PROVE  /\ targetDocs \subseteq targetDocs' /\ sourceVisible' \in {sourceVisible, Docs}
         /\ \/ /\ Outstanding("switch") /\ alias = "source" /\ alias' = "target"
               /\ switches' = switches + 1 /\ UNCHANGED targetDocs
            \/ /\ UNCHANGED switches
               /\ \/ UNCHANGED <<alias, targetDocs>>
                  \/ Contract!Interfere /\ UNCHANGED targetDocs
                  \/ Contract!Copy /\ UNCHANGED alias
         /\ pc = "awaitSwitch" /\ reply' = Ok => reply = Ok \/ switches' = switches + 1
<1>1. Cluster /\ UNCHANGED <<pc, state, store, durable>>
  BY DEF ClusterStep
<1>2. ClusterTypeOK /\ (pc = "awaitSwitch" => awaiting # "create")
  BY DEF Base, TypeOK, AwaitedAtStep
<1>3. Moved /\ UNCHANGED <<targetDocs, switches>> => Contract!Interfere
  BY <1>1 DEF Moved, Contract!Interfere
<1>4. OneMore /\ UNCHANGED <<alias, switches>> => Contract!Copy
  BY <1>1 DEF OneMore, Contract!Copy
<1> QED
  BY <1>1, <1>2, <1>3, <1>4, Moves

\* A request is on its way only from the step that sends it.
LEMMA Issued ==
  ASSUME [Next]_vars, NEW kind \in Kinds, Outstanding(kind)'
  PROVE  Outstanding(kind) \/ pc = kind
<1> USE DEF Outstanding, Kinds
<1>1. CASE ClusterStep
  <2>1. awaiting' \in {awaiting, "none"} /\ late' \subseteq late
    BY <1>1 DEF ClusterStep, Cluster, ServerHandles, BackgroundRefresh, Interferes,
       TaskCopies, TaskFinishes, TaskBreaks
  <2> QED
    BY <2>1
<1>2. CASE CreateTarget \/ SubmitReindex \/ SwitchAlias
  BY <1>2 DEF CreateTarget, SubmitReindex, SwitchAlias, Requests, Issue
<1>3. CASE TargetCreated \/ AliasSwitched \/ TaskAccepted \/ CallRefused \/ CallFails \/ Crash
  BY <1>3 DEF TargetCreated, AliasSwitched, TaskAccepted, Succeeds, CallRefused,
     CallFails, Crash, Received, Abandon
<1>4. CASE \/ SaveCreating \/ SaveCreated \/ SaveSubmitting \/ SaveCopying
           \/ SaveSwitching \/ SaveComplete
  BY <1>4 DEF SaveCreating, SaveCreated, SaveSubmitting, SaveCopying, SaveSwitching,
     SaveComplete, Saves
<1>5. CASE \/ Start \/ ResolveAlias \/ CheckPlanMapping \/ CheckSource \/ CheckTarget
           \/ CountSource \/ CountTarget \/ ResolveAgain \/ ReadTargetMapping
           \/ Resume \/ TaskSucceeded \/ Reconcile \/ GiveUp
  BY <1>5 DEF Start, ResolveAlias, CheckPlanMapping, CheckSource, CheckTarget,
     CountSource, CountTarget, ResolveAgain, Reads, ReadTargetMapping, Resume,
     TaskSucceeded, Reconcile, GiveUp
<1>6. CASE RefreshBeforeCopy \/ RefreshSourceBeforeCount \/ RefreshTarget
  BY <1>6 DEF RefreshBeforeCopy, RefreshSourceBeforeCount, RefreshTarget, RefreshSource
<1>7. CASE UNCHANGED vars
  BY <1>7 DEF vars
<1> QED
  BY <1>1, <1>2, <1>3, <1>4, <1>5, <1>6, <1>7 DEF Next, Client

\* The phase "complete" only comes from the save of it.
LEMMA Completing ==
  ASSUME Base, [Next]_vars,
         "complete" \in {state'.phase, store'.phase, durable'.phase}
  PROVE  "complete" \in {state.phase, store.phase, durable.phase} \/ SaveComplete
<1>1. {state, store, durable} \subseteq MigrationStates
  BY StateParts
<1>2. ASSUME NEW here, NEW phase \in Phases \ {"complete"}, NEW next, Saves(here, phase, next)
      PROVE  "complete" \in {store.phase, durable.phase}
  <2>1. state'.phase = phase
    BY <1>1, <1>2, SaveEffect DEF MigrationStates
  <2> QED
    BY <1>2, <2>1, SaveEffect
<1>3. CASE \/ SaveCreating \/ SaveCreated \/ SaveSubmitting \/ SaveCopying \/ SaveSwitching
  <2> USE DEF Phases
  <2> QED
    BY <1>2, <1>3 DEF SaveCreating, SaveCreated, SaveSubmitting, SaveCopying, SaveSwitching
<1>4. CASE Start
  BY <1>4 DEF Start, Planned
<1>5. CASE ReadTargetMapping \/ TaskSucceeded \/ TaskAccepted
  BY <1>1, <1>5 DEF ReadTargetMapping, TaskSucceeded, TaskAccepted, MigrationStates
<1>6. CASE Crash
  BY <1>6 DEF Crash, Planned
<1>7. CASE Reconcile
  <2>1. state'.phase \in {"created", "copying"} /\ store' = state' /\ durable' = state'
    BY <1>1, <1>7 DEF Reconcile, MigrationStates
  <2> QED
    BY <2>1
<1>8. CASE UNCHANGED <<state, storeVars>>
  BY <1>8
<1> QED
  BY <1>3, <1>4, <1>5, <1>6, <1>7, <1>8
  DEF Next, Client, ResolveAlias, CheckPlanMapping, CheckSource, CheckTarget, CountSource,
      CountTarget, ResolveAgain, Reads, Resume, CreateTarget, SubmitReindex, SwitchAlias,
      Requests, TargetCreated, AliasSwitched, Succeeds, CallRefused, RefreshBeforeCopy,
      RefreshSourceBeforeCount, RefreshTarget, RefreshSource, CallFails, GiveUp,
      ClusterStep, vars

\* Equal counts of documents, of which one set holds the other, are equal sets.
LEMMA CountedAll ==
  ASSUME NEW S \in SUBSET Docs, Cardinality(S) = Cardinality(Docs)
  PROVE  S = Docs
  BY ClusterAssumption, FS_Subset

\* The step before each step of the call that the proofs look at.
LEMMA CameFrom ==
  ASSUME [Next]_vars
  PROVE  /\ pc' = pc => pc = "idle" \/ ClusterStep \/ UNCHANGED vars
         /\ pc' # pc =>
              /\ pc' = "create" => SaveCreating
              /\ pc' = "reindex" => SaveSubmitting
              /\ pc' = "refreshTarget" => RefreshSourceBeforeCount
              /\ pc' = "countSource" => RefreshTarget
              /\ pc' = "countTarget" => CountSource
              /\ pc' = "resolveAgain" => CountTarget
              /\ pc' = "saveSwitching" => ResolveAgain
              /\ pc' = "switch" => SaveSwitching
              /\ pc' = "awaitSwitch" => SwitchAlias
              /\ pc' = "saveComplete" => ResolveAgain \/ AliasSwitched
<1> USE DEF Goto
<1>1. ASSUME NEW here, NEW phase, NEW next, Saves(here, phase, next)
      PROVE  pc = here /\ (pc' = next \/ pc' = "idle")
  BY <1>1, SaveEffect
<1>2. CASE SaveCreating \/ SaveSubmitting \/ SaveSwitching
  BY <1>1, <1>2 DEF SaveCreating, SaveSubmitting, SaveSwitching
<1>3. CASE SaveCreated \/ SaveCopying \/ SaveComplete
  <2>1. CASE SaveCreated
    BY <1>1, <2>1 DEF SaveCreated
  <2>2. CASE SaveCopying
    BY <1>1, <2>2 DEF SaveCopying
  <2>3. CASE SaveComplete
    BY <1>1, <2>3 DEF SaveComplete
  <2> QED
    BY <1>3, <2>1, <2>2, <2>3
<1>4. CASE \/ Start \/ ResolveAlias \/ CheckPlanMapping \/ CheckSource \/ CheckTarget
           \/ ReadTargetMapping \/ TaskSucceeded
  BY <1>4 DEF Start, ResolveAlias, CheckPlanMapping, CheckSource, CheckTarget, Reads,
     ReadTargetMapping, TaskSucceeded
<1>5. CASE CountSource \/ CountTarget \/ ResolveAgain
  BY <1>5 DEF CountSource, CountTarget, ResolveAgain, Reads
<1>6. CASE CreateTarget \/ SubmitReindex \/ SwitchAlias
  BY <1>6 DEF CreateTarget, SubmitReindex, SwitchAlias, Requests
<1>7. CASE TargetCreated \/ AliasSwitched \/ TaskAccepted
  BY <1>7 DEF TargetCreated, AliasSwitched, TaskAccepted, Succeeds
<1>8. CASE RefreshBeforeCopy \/ RefreshSourceBeforeCount \/ RefreshTarget
  BY <1>8 DEF RefreshBeforeCopy, RefreshSourceBeforeCount, RefreshTarget, RefreshSource
<1>9. CASE Resume
  BY <1>9 DEF Resume, PicksUp
<1>10. CASE CallRefused \/ CallFails \/ Crash \/ Reconcile \/ GiveUp
  BY <1>10 DEF CallRefused, CallFails, Crash, Reconcile, GiveUp
<1>11. CASE ClusterStep \/ UNCHANGED vars
  BY <1>11 DEF ClusterStep, vars
<1> QED
  BY <1>2, <1>3, <1>4, <1>5, <1>6, <1>7, <1>8, <1>9, <1>10, <1>11 DEF Next, Client

\* Every step keeps the switch waiting for a complete copy.
LEMMA CopiedStep ==
  ASSUME Base, Copied, [Next]_vars
  PROVE  Copied'
<1>1. /\ targetDocs \subseteq Docs /\ targetDocs' \subseteq Docs
      /\ targetVisible \subseteq targetDocs /\ switches \in Nat
  BY BaseStep DEF Base, TypeOK, ClusterTypeOK
<1>2. Outstanding("switch")' => Outstanding("switch") \/ pc = "switch"
  BY Issued DEF Kinds
<1>3. "complete" \in {state'.phase, store'.phase, durable'.phase} => switches > 0
  BY Completing DEF Copied, SaveComplete, Saves
<1>4. CASE ClusterStep
  <2>1. UNCHANGED <<pc, state, store, durable>>
    BY <1>4 DEF ClusterStep
  <2>2. /\ targetDocs = Docs => targetDocs' = Docs
        /\ sourceVisible = Docs => sourceVisible' = Docs
        /\ switches > 0 => switches' > 0
        /\ alias' = "target" => alias = "target" \/ switches' > 0
        /\ pc = "awaitSwitch" /\ reply' = Ok => reply = Ok \/ switches' > 0
    <3>1. \/ switches' = switches + 1
          \/ switches' = switches /\ (alias' = "target" => alias = "target")
      BY <1>4, ClusterMoves DEF Contract!Interfere
    <3>2. targetDocs \subseteq targetDocs' /\ sourceVisible' \in {sourceVisible, Docs}
      BY <1>4, ClusterMoves
    <3>3. pc = "awaitSwitch" /\ reply' = Ok => reply = Ok \/ switches' = switches + 1
      BY <1>4, ClusterMoves
    <3> QED
      BY <1>1, <3>1, <3>2, <3>3
  <2> QED
    BY <1>2, <1>3, <2>1, <2>2 DEF Copied
<1>5. CASE ClientEffect
  <2>1. UNCHANGED <<targetDocs, alias, switches>> /\ sourceVisible' \in {sourceVisible, Docs}
        /\ reply' \in {reply, NoReply}
    BY <1>5 DEF ClientEffect
  <2>2. pc' \in {"refreshTarget", "countSource"} => sourceVisible' = Docs
    BY <2>1, CameFrom
    DEF Copied, vars, ClusterStep, RefreshSourceBeforeCount, RefreshSource, RefreshTarget
  <2>3. pc' = "countTarget" => state'.documents = Cardinality(Docs)
    BY <2>1, CameFrom DEF Copied, vars, ClusterStep, CountSource, Reads
  <2>4. pc' \in {"resolveAgain", "saveSwitching", "switch"} => targetDocs = Docs
    <3>1. CountTarget => targetDocs = Docs
      <4>1. SUFFICES ASSUME CountTarget PROVE targetDocs = Docs
        OBVIOUS
      <4>2. Cardinality(targetVisible) = Cardinality(Docs)
        BY <4>1 DEF CountTarget, Reads, Copied
      <4>3. targetVisible = Docs
        <5>1. targetVisible \in SUBSET Docs
          BY <1>1
        <5> QED
          BY <4>2, <5>1, CountedAll
      <4> QED
        BY <1>1, <4>3
    <3>2. (ResolveAgain /\ pc = "resolveAgain") \/ (SaveSwitching /\ pc = "saveSwitching") =>
            targetDocs = Docs
      BY DEF Copied
    <3> QED
      BY <3>1, <3>2, CameFrom
      DEF Copied, vars, ClusterStep, ResolveAgain, Reads, SaveSwitching, Saves
  <2>5. pc' = "awaitSwitch" /\ reply' = Ok => switches > 0
    BY <2>1, CameFrom DEF Copied, vars, ClusterStep, SwitchAlias, Requests, Issue, Ok, NoReply
  <2>6. pc' = "saveComplete" => switches > 0
    <3>1. ResolveAgain /\ pc' = "saveComplete" => alias = "target"
      BY DEF ResolveAgain, Reads, Goto
    <3>2. AliasSwitched => pc = "awaitSwitch" /\ reply = Ok
      BY DEF AliasSwitched, Succeeds
    <3> QED
      BY <3>1, <3>2, CameFrom DEF Copied, vars, ClusterStep
  <2> QED
    BY <1>2, <1>3, <2>1, <2>2, <2>3, <2>4, <2>5, <2>6 DEF Copied
<1> QED
  BY <1>4, <1>5, ClientEffects

\* Every step is a step of AliasMigration, or none of its business.
LEMMA ContractStep ==
  ASSUME Base, Copied, [Next]_vars
  PROVE  [Contract!Next]_(Contract!vars)
<1> DEFINE completed == "complete" \in {state.phase, store.phase, durable.phase}
<1>1. switches \in Nat
  BY DEF Base, TypeOK, ClusterTypeOK
<1>2. CASE ClusterStep
  <2>1. UNCHANGED completed
    BY <1>2 DEF ClusterStep
  <2>2. CASE /\ Outstanding("switch") /\ alias = "source" /\ alias' = "target"
             /\ switches' = switches + 1 /\ UNCHANGED targetDocs
    <3>1. targetDocs = Docs
      BY <2>2 DEF Copied
    <3>2. (switches' > 0) = TRUE
      BY <1>1, <2>2
    <3>3. Contract!Switch
      BY <2>1, <2>2, <3>1, <3>2 DEF Contract!Switch
    <3> QED
      BY <3>3 DEF Contract!Next
  <2>3. CASE /\ UNCHANGED switches
             /\ \/ UNCHANGED <<alias, targetDocs>>
                \/ Contract!Interfere /\ UNCHANGED targetDocs
                \/ Contract!Copy /\ UNCHANGED alias
    BY <2>1, <2>3 DEF Contract!Next, Contract!vars
  <2> QED
    BY <1>2, <2>2, <2>3, ClusterMoves
<1>3. CASE ClientEffect
  <2>1. UNCHANGED <<targetDocs, alias, switches>>
    BY <1>3 DEF ClientEffect
  <2>2. completed \in BOOLEAN /\ completed' \in BOOLEAN
    OBVIOUS
  <2>3. CASE UNCHANGED completed
    BY <2>1, <2>3 DEF Contract!vars
  <2>4. CASE completed' = ~completed
    <3>1. switches > 0
      <4>1. completed \/ completed'
        BY <2>2, <2>4
      <4>2. CASE completed
        BY <4>2 DEF Copied
      <4>3. CASE completed'
        BY <4>3, Completing DEF Copied, SaveComplete, Saves
      <4> QED
        BY <4>1, <4>2, <4>3
    <3>2. Contract!Complete
      BY <2>1, <2>4, <3>1 DEF Contract!Complete
    <3> QED
      BY <3>2 DEF Contract!Next
  <2> QED
    BY <2>2, <2>3, <2>4
<1> QED
  BY <1>2, <1>3, ClientEffects
-----------------------------------------------------------------------------
(* The checkpoint is ahead of every effect.                                *)

\* The target has been asked for, or created by the migration.
Creating == Outstanding("create") \/ targetMapping = "normalized"

\* An effect begins at the step that asks for it.
LEMMA Effects ==
  ASSUME Base, [Next]_vars
  PROVE  /\ Creating' => Creating \/ pc = "create"
         /\ Submitted' => Submitted \/ pc = "reindex"
         /\ Switching' => Switching \/ pc = "switch"
<1>1. \A kind \in Kinds : Outstanding(kind)' => Outstanding(kind) \/ pc = kind
  BY Issued
<1>2. CASE ClientEffect
  BY <1>1, <1>2 DEF ClientEffect, Creating, Submitted, Switching, Kinds
<1>3. CASE ClusterStep
  <2>1. CASE ServerHandles
    <3>1. PICK kind, r :
            /\ r \in Replies /\ Handle(kind, r) /\ UNCHANGED interference
            /\ \/ /\ kind = awaiting /\ awaiting # "none"
                  /\ awaiting' = "none" /\ reply' = r /\ UNCHANGED late
               \/ /\ kind \in late /\ late' = late \ {kind}
                  /\ UNCHANGED <<awaiting, reply>>
      BY <2>1, Served
    <3>2. Outstanding(kind)
      BY <3>1 DEF Outstanding
    <3>3. /\ targetMapping' = targetMapping \/ kind = "create"
          /\ tasks' = tasks \/ kind = "reindex"
          /\ switches' = switches \/ kind = "switch"
      BY <3>1 DEF Handle, HandleCreate, HandleReindex, HandleSwitch
    <3> QED
      BY <1>1, <3>2, <3>3 DEF Creating, Submitted, Switching, Kinds
  <2>2. CASE ~ServerHandles
    <3>1. UNCHANGED switches /\ (targetMapping' = "normalized" => targetMapping = "normalized")
      BY <1>3, <2>2 DEF ClusterStep, Cluster, BackgroundRefresh, Interferes, TaskCopies,
         TaskFinishes, TaskBreaks
    <3>2. tasks' # <<>> => tasks # <<>>
      BY <1>3, <2>2 DEF ClusterStep, Cluster, BackgroundRefresh, Interferes, TaskCopies,
         TaskFinishes, TaskBreaks
    <3> QED
      BY <1>1, <3>1, <3>2 DEF Creating, Submitted, Switching, Kinds
  <2> QED
    BY <2>1, <2>2
<1> QED
  BY <1>2, <1>3, ClientEffects

\* Only the step that submits the reindex makes it awaited.
LEMMA AwaitedAgain ==
  ASSUME [Next]_vars, pc # "reindex", awaiting' = "reindex"
  PROVE  ClusterStep \/ UNCHANGED <<awaiting, late>>
<1>1. CASE CreateTarget \/ SubmitReindex \/ SwitchAlias
  BY <1>1 DEF CreateTarget, SubmitReindex, SwitchAlias, Requests, Issue
<1>2. CASE TargetCreated \/ AliasSwitched \/ TaskAccepted \/ CallRefused \/ CallFails \/ Crash
  BY <1>2 DEF TargetCreated, AliasSwitched, TaskAccepted, Succeeds, CallRefused,
     CallFails, Crash, Received, Abandon
<1>3. CASE \/ SaveCreating \/ SaveCreated \/ SaveSubmitting \/ SaveCopying
           \/ SaveSwitching \/ SaveComplete
  BY <1>3 DEF SaveCreating, SaveCreated, SaveSubmitting, SaveCopying, SaveSwitching,
     SaveComplete, Saves
<1>4. CASE \/ Start \/ ResolveAlias \/ CheckPlanMapping \/ CheckSource \/ CheckTarget
           \/ CountSource \/ CountTarget \/ ResolveAgain \/ ReadTargetMapping
           \/ Resume \/ TaskSucceeded \/ Reconcile \/ GiveUp
  BY <1>4 DEF Start, ResolveAlias, CheckPlanMapping, CheckSource, CheckTarget,
     CountSource, CountTarget, ResolveAgain, Reads, ReadTargetMapping, Resume,
     TaskSucceeded, Reconcile, GiveUp
<1>5. CASE RefreshBeforeCopy \/ RefreshSourceBeforeCount \/ RefreshTarget
  BY <1>5 DEF RefreshBeforeCopy, RefreshSourceBeforeCount, RefreshTarget, RefreshSource
<1>6. CASE UNCHANGED vars
  BY <1>6 DEF vars
<1> QED
  BY <1>1, <1>2, <1>3, <1>4, <1>5, <1>6 DEF Next, Client

\* Three counts that sum to at most one.
LEMMA AtMostOne ==
  ASSUME NEW n \in Nat, NEW a \in BOOLEAN, NEW b \in BOOLEAN
  PROVE  n + (IF a THEN 1 ELSE 0) + (IF b THEN 1 ELSE 0) <= 1
           <=> (n = 0 /\ ~(a /\ b)) \/ (n = 1 /\ ~a /\ ~b)
<1>1. CASE a /\ b
  BY <1>1
<1>2. CASE a /\ ~b
  BY <1>2
<1>3. CASE ~a /\ b
  BY <1>3
<1>4. CASE ~a /\ ~b
  BY <1>4
<1> QED
  BY <1>1, <1>2, <1>3, <1>4

\* A request that was given up may still arrive, but no second one is sent.
LEMMA SubmissionsStep ==
  ASSUME Base, SubmittedOnce, pc = "reindex" => ~Submitted, [Next]_vars
  PROVE  SubmittedOnce'
<1> DEFINE Once == \/ Len(tasks) = 0 /\ ~(awaiting = "reindex" /\ "reindex" \in late)
                   \/ Len(tasks) = 1 /\ awaiting # "reindex" /\ "reindex" \notin late
<1>1. Len(tasks) \in Nat /\ tasks \in Seq(Task) /\ Len(tasks') \in Nat
  <2>1. ClusterTypeOK /\ ClusterTypeOK'
    BY BaseStep DEF Base, TypeOK
  <2> QED
    BY <2>1 DEF ClusterTypeOK, Task
<1>2. Once
  <2>1. (awaiting = "reindex") \in BOOLEAN /\ ("reindex" \in late) \in BOOLEAN
    OBVIOUS
  <2> QED
    BY <1>1, <2>1, AtMostOne DEF SubmittedOnce
<1>3. SUFFICES Once'
  <2>1. (awaiting' = "reindex") \in BOOLEAN /\ ("reindex" \in late') \in BOOLEAN
    OBVIOUS
  <2> QED
    BY <1>1, <2>1, AtMostOne DEF SubmittedOnce
<1>4. CASE ClusterStep
  <2>1. CASE ServerHandles
    <3>1. PICK kind, r :
            /\ r \in Replies /\ Handle(kind, r) /\ UNCHANGED interference
            /\ \/ /\ kind = awaiting /\ awaiting # "none"
                  /\ awaiting' = "none" /\ reply' = r /\ UNCHANGED late
               \/ /\ kind \in late /\ late' = late \ {kind}
                  /\ UNCHANGED <<awaiting, reply>>
      BY <2>1, Served
    <3>2. \/ tasks' = tasks
          \/ kind = "reindex" /\ Len(tasks') = Len(tasks) + 1
      BY <1>1, <3>1 DEF Handle, HandleCreate, HandleReindex, HandleSwitch
    <3>3. CASE kind = "reindex" /\ Len(tasks') = Len(tasks) + 1
      <4>1. \/ awaiting = "reindex" /\ awaiting' # "reindex" /\ late' = late
            \/ awaiting' = awaiting /\ "reindex" \in late /\ "reindex" \notin late'
        BY <3>1, <3>3
      <4> QED
        BY <1>1, <1>2, <3>3, <4>1
    <3>4. CASE tasks' = tasks
      <4>1. /\ awaiting' = "reindex" => awaiting = "reindex"
            /\ "reindex" \in late' => "reindex" \in late
        BY <3>1
      <4> QED
        BY <1>2, <3>4, <4>1
    <3> QED
      BY <3>2, <3>3, <3>4
  <2>2. CASE ~ServerHandles
    <3>1. UNCHANGED <<awaiting, late>>
      BY <1>4, <2>2 DEF ClusterStep, Cluster, BackgroundRefresh, Interferes, TaskCopies,
         TaskFinishes, TaskBreaks
    <3>2. Len(tasks') = Len(tasks)
      BY <1>1, <1>4, <2>2 DEF ClusterStep, Cluster, BackgroundRefresh, Interferes, TaskCopies,
         TaskFinishes, TaskBreaks
    <3> QED
      BY <1>2, <3>1, <3>2
  <2> QED
    BY <2>1, <2>2
<1>5. CASE ~ClusterStep
  <2>1. UNCHANGED tasks /\ late' \subseteq late \union ({awaiting} \ {"none"})
    BY <1>5, ClientEffects DEF ClientEffect
  <2>2. CASE pc = "reindex"
    <3>1. tasks = <<>> /\ awaiting # "reindex" /\ "reindex" \notin late
      BY <2>2 DEF Submitted, Outstanding
    <3>2. "reindex" \notin late' /\ Len(tasks') = 0
      BY <2>1, <3>1
    <3> QED
      BY <3>2
  <2>3. CASE pc # "reindex"
    <3>1. awaiting' = "reindex" => awaiting = "reindex" /\ UNCHANGED late
      BY <1>5, <2>3, AwaitedAgain
    <3>2. CASE awaiting' = "reindex"
      BY <1>2, <2>1, <3>1, <3>2
    <3>3. CASE awaiting' # "reindex"
      <4>1. "reindex" \in late' => "reindex" \in late \/ awaiting = "reindex"
        BY <2>1
      <4> QED
        BY <1>2, <2>1, <3>3, <4>1
    <3> QED
      BY <3>2, <3>3
  <2> QED
    BY <2>2, <2>3
<1> QED
  BY <1>4, <1>5

\* The phases a save or the operator steps to.
Forward ==
  {<<"planned", "creating">>, <<"creating", "created">>, <<"created", "submitting">>,
   <<"submitting", "copying">>, <<"copying", "switching">>, <<"switching", "switching">>,
   <<"switching", "complete">>}

\* How the states change: not in phase; a call starts anew; a save; a crash.
LEMMA PhaseMoves ==
  ASSUME Base, [Next]_vars
  PROVE  \/ state'.phase = state.phase /\ UNCHANGED storeVars
         \/ /\ pc = "idle" /\ state.phase \in {"planned", "creating"}
            /\ pc' = "resolve" /\ state'.phase = "planned" /\ UNCHANGED storeVars
         \/ /\ pc \in Saving \union {"idle"} /\ <<state.phase, state'.phase>> \in Forward
            /\ store' \in {store, state'} /\ durable' \in {durable, state'}
         \/ /\ pc' = "idle" /\ store' \in {store, durable} /\ durable' = durable
            /\ state'.phase = store'.phase \/ (store'.phase = "none" /\ state'.phase = "planned")
<1> USE DEF Goto
<1>1. state \in MigrationStates /\ store \in MigrationStates /\ durable \in MigrationStates
  BY StateParts
<1>2. ASSUME NEW here, NEW phase \in Phases, NEW next, Saves(here, phase, next)
      PROVE  /\ pc = here /\ state'.phase = phase
             /\ store' \in {store, state'} /\ durable' \in {durable, state'}
  BY <1>1, <1>2, SaveEffect DEF MigrationStates
<1>3. CASE \/ SaveCreating \/ SaveCreated \/ SaveSubmitting \/ SaveCopying
           \/ SaveSwitching \/ SaveComplete
  <2>1. /\ store' \in {store, state'} /\ durable' \in {durable, state'}
        /\ \/ pc = "saveCreating" /\ state'.phase = "creating"
           \/ pc = "saveCreated" /\ state'.phase = "created"
           \/ pc = "saveSubmitting" /\ state'.phase = "submitting"
           \/ pc = "saveCopying" /\ state'.phase = "copying"
           \/ pc = "saveSwitching" /\ state'.phase = "switching"
           \/ pc = "saveComplete" /\ state'.phase = "complete"
    <3> USE DEF Phases
    <3> QED
      BY <1>2, <1>3 DEF SaveCreating, SaveCreated, SaveSubmitting, SaveCopying, SaveSwitching,
         SaveComplete
  <2>2. <<state.phase, state'.phase>> \in Forward
    BY <2>1 DEF Base, PhaseAtStep, Forward
  <2>3. pc \in Saving
    BY <2>1 DEF Saving
  <2> QED
    BY <2>1, <2>2, <2>3
<1>4. CASE Start
  BY <1>4 DEF Start, Planned
<1>5. CASE ReadTargetMapping \/ TaskSucceeded \/ TaskAccepted
  BY <1>1, <1>5 DEF ReadTargetMapping, TaskSucceeded, TaskAccepted, MigrationStates
<1>6. CASE Crash
  <2>1. /\ pc' = "idle" /\ store' \in {store, durable} /\ durable' = durable
        /\ state' = (IF store' = NoCheckpoint THEN Planned ELSE store')
    BY <1>6 DEF Crash
  <2>2. NoCheckpoint.phase = "none" /\ Planned.phase = "planned"
    BY DEF NoCheckpoint, Planned
  <2> QED
    BY <2>1, <2>2
<1>7. CASE Reconcile
  <2>1. /\ pc = "idle" /\ store' = state' /\ durable' = state'
        /\ \/ state.phase = "creating" /\ state'.phase = "created"
           \/ state.phase = "submitting" /\ state'.phase = "copying"
    BY <1>1, <1>7 DEF Reconcile, MigrationStates
  <2> QED
    BY <2>1 DEF Forward
<1>8. CASE UNCHANGED <<state, storeVars>>
  BY <1>8
<1> QED
  BY <1>3, <1>4, <1>5, <1>6, <1>7, <1>8
  DEF Next, Client, ResolveAlias, CheckPlanMapping, CheckSource, CheckTarget, CountSource,
      CountTarget, ResolveAgain, Reads, Resume, CreateTarget, SubmitReindex, SwitchAlias,
      Requests, TargetCreated, AliasSwitched, Succeeds, CallRefused, RefreshBeforeCopy,
      RefreshSourceBeforeCount, RefreshTarget, RefreshSource, CallFails, GiveUp,
      ClusterStep, vars

\* The phases that admit a submission, and a switch.
Admits(phase) == phase \in {"submitting", "copying", "switching", "complete"}
AdmitsSwitch(phase) == phase \in {"switching", "complete"}

\* With a durable save, the request follows the checkpoint that announces it.
LEMMA RequestsAnnounced ==
  ASSUME DurableSave, Base, Ahead, [Next]_vars
  PROVE  \A saved \in {store', durable'} :
           /\ pc' = "create" => saved.phase # "none"
           /\ pc' = "reindex" => ~Submitted' /\ Admits(saved.phase)
           /\ pc' = "switch" => AdmitsSwitch(saved.phase)
<1> USE DEF Admits, AdmitsSwitch
<1>1. CASE pc' # pc
  <2>1. ASSUME NEW here, NEW phase \in Phases, NEW next, Saves(here, phase, next),
               pc' = next, next # "idle"
        PROVE  store'.phase = phase /\ durable'.phase = phase /\ pc = here
    <3>1. state \in MigrationStates
      BY StateParts
    <3>2. store' = [state EXCEPT !.phase = phase] /\ durable' = store' /\ pc = here
      BY <2>1, SaveEffect
    <3> QED
      BY <3>1, <3>2 DEF MigrationStates
  <2>2. pc' = "create" => store'.phase = "creating" /\ durable'.phase = "creating"
    BY <1>1, <2>1, CameFrom DEF SaveCreating, Phases
  <2>3. pc' = "reindex" =>
          store'.phase = "submitting" /\ durable'.phase = "submitting" /\ pc = "saveSubmitting"
    BY <1>1, <2>1, CameFrom DEF SaveSubmitting, Phases
  <2>4. pc' = "switch" => store'.phase = "switching" /\ durable'.phase = "switching"
    BY <1>1, <2>1, CameFrom DEF SaveSwitching, Phases
  <2>5. pc' = "reindex" => ~Submitted'
    <3>1. SUFFICES ASSUME pc' = "reindex", Submitted' PROVE FALSE
      OBVIOUS
    <3>2. state.phase = "created" /\ pc # "reindex"
      BY <2>3, <3>1 DEF Base, PhaseAtStep
    <3>3. Submitted
      BY <3>1, <3>2, Effects
    <3> QED
      BY <3>2, <3>3 DEF Ahead
  <2> QED
    BY <2>2, <2>3, <2>4, <2>5
<1>2. CASE pc' = pc /\ pc # "idle"
  <2>1. ClusterStep \/ UNCHANGED vars
    BY <1>2, CameFrom
  <2>2. UNCHANGED storeVars
    BY <2>1 DEF ClusterStep, vars
  <2>3. pc = "reindex" => ~Submitted'
    <3>1. pc = "reindex" => ~Submitted
      BY DEF Ahead
    <3>2. CASE UNCHANGED vars
      BY <3>1, <3>2 DEF vars, Submitted, Outstanding
    <3>3. CASE ClusterStep
      <4>1. SUFFICES ASSUME pc = "reindex" PROVE ~Submitted'
        OBVIOUS
      <4>2. awaiting # "reindex" /\ "reindex" \notin late /\ tasks = <<>>
        BY <3>1, <4>1 DEF Submitted, Outstanding
      <4>3. awaiting' # "reindex" /\ "reindex" \notin late' /\ tasks' = <<>>
        <5>1. CASE ServerHandles
          <6>1. PICK kind, r :
                  /\ r \in Replies /\ Handle(kind, r) /\ UNCHANGED interference
                  /\ \/ /\ kind = awaiting /\ awaiting # "none"
                        /\ awaiting' = "none" /\ reply' = r /\ UNCHANGED late
                     \/ /\ kind \in late /\ late' = late \ {kind}
                        /\ UNCHANGED <<awaiting, reply>>
            BY <5>1, Served
          <6>2. kind # "reindex"
            BY <4>2, <6>1
          <6> QED
            BY <4>2, <6>1, <6>2 DEF Handle, HandleCreate, HandleSwitch
        <5>2. CASE ~ServerHandles
          BY <3>3, <4>2, <5>2 DEF ClusterStep, Cluster, BackgroundRefresh, Interferes,
             TaskCopies, TaskFinishes, TaskBreaks
        <5> QED
          BY <5>1, <5>2
      <4> QED
        BY <4>3 DEF Submitted, Outstanding
    <3> QED
      BY <2>1, <3>2, <3>3
  <2> QED
    BY <1>2, <2>2, <2>3 DEF Ahead
<1> QED
  BY <1>1, <1>2

\* Every step keeps the checkpoint ahead of the effects.
LEMMA AheadStep ==
  ASSUME DurableSave, Base, Ahead, [Next]_vars
  PROVE  Ahead'
<1> USE DEF Admits, AdmitsSwitch
<1>1. /\ \A saved \in {store', durable'} :
           /\ pc' = "create" => saved.phase # "none"
           /\ pc' = "reindex" => ~Submitted' /\ Admits(saved.phase)
           /\ pc' = "switch" => AdmitsSwitch(saved.phase)
      /\ SubmittedOnce'
  BY RequestsAnnounced, SubmissionsStep DEF Ahead
<1>2. /\ Creating' => Creating \/ pc = "create"
      /\ Submitted' => Submitted \/ pc = "reindex"
      /\ Switching' => Switching \/ pc = "switch"
  BY Effects
<1>3. /\ Creating \/ pc = "create" => store.phase # "none" /\ durable.phase # "none"
      /\ Submitted \/ pc = "reindex" => Admits(store.phase) /\ Admits(durable.phase)
      /\ Switching \/ pc = "switch" => AdmitsSwitch(store.phase) /\ AdmitsSwitch(durable.phase)
  BY DEF Ahead, WriteAhead, Creating, Submitted, Switching
<1>4. /\ Submitted \/ pc = "reindex" => Admits(state.phase)
      /\ Switching \/ pc = "switch" => AdmitsSwitch(state.phase)
  BY DEF Ahead, Base, PhaseAtStep
<1>5. /\ Creating' => store'.phase # "none" /\ durable'.phase # "none"
      /\ Submitted' => Admits(store'.phase) /\ Admits(durable'.phase) /\ Admits(state'.phase)
      /\ Switching' => /\ AdmitsSwitch(store'.phase) /\ AdmitsSwitch(durable'.phase)
                       /\ AdmitsSwitch(state'.phase)
  <2>1. CASE state'.phase = state.phase /\ UNCHANGED storeVars
    BY <1>2, <1>3, <1>4, <2>1
  <2>2. CASE /\ pc = "idle" /\ state.phase \in {"planned", "creating"}
             /\ UNCHANGED storeVars
    BY <1>2, <1>3, <1>4, <2>2
  <2>3. CASE /\ pc \in Saving \union {"idle"} /\ <<state.phase, state'.phase>> \in Forward
             /\ store' \in {store, state'} /\ durable' \in {durable, state'}
    <3>1. pc \notin {"create", "reindex", "switch"}
      BY <2>3 DEF Saving
    <3>2. /\ state'.phase # "none" /\ (Admits(state.phase) => Admits(state'.phase))
          /\ AdmitsSwitch(state.phase) => AdmitsSwitch(state'.phase)
      BY <2>3 DEF Forward
    <3> QED
      BY <1>2, <1>3, <1>4, <2>3, <3>1, <3>2
  <2>4. CASE /\ pc' = "idle" /\ store' \in {store, durable} /\ durable' = durable
             /\ state'.phase = store'.phase \/ (store'.phase = "none" /\ state'.phase = "planned")
    BY <1>2, <1>3, <2>4
  <2> QED
    BY <2>1, <2>2, <2>3, <2>4, PhaseMoves
<1> QED
  BY <1>1, <1>5 DEF Ahead, WriteAhead, Creating, Submitted, Switching
-----------------------------------------------------------------------------
\* Whatever else is true of the invariants, they hold initially.
LEMMA InitInvariants == Init => Ordered /\ Copied /\ Ahead
<1> SUFFICES ASSUME Init PROVE Ordered /\ Copied /\ Ahead
  OBVIOUS
<1> USE DEF Init, ClusterInit, Planned, NoCheckpoint
<1>1. Ordered
  BY DEF Ordered, Behind, Rank, NoTaskYet
<1>2. Copied
  BY DEF Copied, Outstanding
<1>3. Ahead
  BY DEF Ahead, WriteAhead, Outstanding, Submitted, Switching, SubmittedOnce
<1> QED
  BY <1>1, <1>2, <1>3

\* Types, of the checkpointed migration and of the cluster it works on.
THEOREM TypeCorrect == Spec => []TypeOK
<1>1. Init => Base
  BY InitBase
<1>2. Base /\ [Next]_vars => Base'
  BY BaseStep
<1>3. Base => TypeOK
  BY DEF Base
<1> QED
  BY <1>1, <1>2, <1>3, PTL DEF Spec

\* Whatever crashes, restarts and failing saves do, and whether or not a save
\* that was acknowledged survives them, what is durable never goes back to an
\* earlier phase, nor forgets the task it names.
THEOREM CheckpointNeverRegressesAlways == Spec => CheckpointNeverRegresses
<1>1. Init => Base /\ Ordered
  BY InitBase, InitInvariants
<1>2. Base /\ Ordered /\ [Next]_vars => (Base /\ Ordered)'
  BY BaseStep, OrderedStep
<1>3. Base /\ Ordered /\ [Next]_vars =>
        [/\ Rank(durable'.phase) >= Rank(durable.phase)
         /\ durable.task # 0 => durable'.task = durable.task]_vars
  BY OrderedStep DEF NoRegress
<1> QED
  BY <1>1, <1>2, <1>3, PTL DEF Spec, CheckpointNeverRegresses

\* StartMigration and ResumeMigration implement AliasMigration: the alias moves
\* at most to a target that holds every document, and "complete" is only said
\* after it has; with crashes, late requests and competing administrators, and
\* without relying on the checkpoint to be durable.
THEOREM MigrationImplementsContract == Spec => SafeMigration
<1>1. Init => Contract!Init
  BY DEF Init, ClusterInit, Planned, NoCheckpoint, Contract!Init
<1>2. Init => Base /\ Copied
  BY InitBase, InitInvariants
<1>3. Base /\ Copied /\ [Next]_vars => (Base /\ Copied)'
  BY BaseStep, CopiedStep
<1>4. Base /\ Copied /\ [Next]_vars => [Contract!Next]_(Contract!vars)
  BY ContractStep
<1> QED
  BY <1>1, <1>2, <1>3, <1>4, PTL DEF Spec, SafeMigration, Contract!Spec

\* When an acknowledged save is durable, the checkpoint a restart finds admits
\* every effect that has been asked for or has happened.
THEOREM WriteAheadAlways ==
  ASSUME DurableSave
  PROVE  Spec => []WriteAhead
<1>1. Init => Base /\ Ahead
  BY InitBase, InitInvariants
<1>2. Base /\ Ahead /\ [Next]_vars => (Base /\ Ahead)'
  BY BaseStep, AheadStep
<1>3. Ahead => WriteAhead
  BY DEF Ahead
<1> QED
  BY <1>1, <1>2, <1>3, PTL DEF Spec

\* And then the reindex is submitted at most once, however often the process
\* crashes, resumes and is reconciled.
THEOREM SubmittedOnceAlways ==
  ASSUME DurableSave
  PROVE  Spec => []SubmittedOnce
<1>1. Init => Base /\ Ahead
  BY InitBase, InitInvariants
<1>2. Base /\ Ahead /\ [Next]_vars => (Base /\ Ahead)'
  BY BaseStep, AheadStep
<1>3. Ahead => SubmittedOnce
  BY DEF Ahead
<1> QED
  BY <1>1, <1>2, <1>3, PTL DEF Spec
-----------------------------------------------------------------------------
(* ApplyMigration, on the same cluster, keeps the same contract.           *)

VARIABLES created, counts, result
Call == INSTANCE ApplyMigration

CallSteps == <<pc, created, counts, result>>

\* No checkpoint is needed here: a call verifies what it has copied itself, and
\* asks for the switch only then.
Verified ==
  /\ awaiting = "create" => pc = "awaitCreate"
  /\ pc \in {"create", "awaitCreate", "reindex", "awaitReindex", "countSource"} =>
       sourceVisible = Docs
  /\ pc = "countTarget" => counts = <<Cardinality(Docs)>>
  /\ pc = "verify" => /\ counts[1] = Cardinality(Docs)
                      /\ counts[2] = Cardinality(Docs) => targetDocs = Docs
  /\ pc \in {"resolveAgain", "switch"} \/ Outstanding("switch") => targetDocs = Docs
  /\ alias = "target" => switches > 0
  /\ pc = "awaitSwitch" /\ reply = Ok => switches > 0
  /\ result = "moved" => switches > 0 /\ pc = "returned"

\* The cluster is the same, whether a call in one piece or in steps is its client.
LEMMA SameCluster == Call!Cluster => Cluster
<1> USE DEF Call!indexVars, Call!copyVars, Call!aliasVars, Call!networkVars
<1>1. Call!ServerHandles => ServerHandles
  BY Zenon DEF Call!ServerHandles, Call!Replies, Call!Handle, Call!HandleCreate,
     Call!HandleReindex, Call!HandleSwitch, Call!Ok, Call!Refused, ServerHandles, Replies,
     Handle, HandleCreate, HandleReindex, HandleSwitch, Ok, Refused, Call!Cardinality,
     Cardinality
<1>2. Call!BackgroundRefresh => BackgroundRefresh
  BY Zenon DEF Call!BackgroundRefresh, BackgroundRefresh
<1>3. Call!Interferes => Interferes
  BY Zenon DEF Call!Interferes, Interferes
<1>4. ASSUME NEW t
      PROVE  /\ Call!TaskCopies(t) => TaskCopies(t)
             /\ Call!TaskFinishes(t) => TaskFinishes(t)
             /\ Call!TaskBreaks(t) => TaskBreaks(t)
  BY Zenon DEF Call!TaskCopies, TaskCopies, Call!TaskFinishes, TaskFinishes,
     Call!TaskBreaks, TaskBreaks
<1> QED
  BY <1>1, <1>2, <1>3, <1>4, Zenon DEF Cluster, Call!Cluster

\* The call's own steps change nothing of the cluster by themselves.
LEMMA CallEffects ==
  ASSUME [Call!Next]_(Call!vars)
  PROVE  \/ Cluster /\ UNCHANGED CallSteps
         \/ ClientEffect
<1> USE DEF ClientEffect, CallSteps, Kinds, NoReply, Call!NoReply, Call!indexVars,
            Call!copyVars, Call!aliasVars, Call!networkVars, Call!clusterVars,
            Call!clientVars
<1>1. CASE Call!ClusterStep
  BY <1>1, SameCluster DEF Call!ClusterStep
<1>2. CASE Call!ResolveAlias \/ Call!CheckPlanMapping \/ Call!Verify \/ Call!ResolveAgain
  BY <1>2 DEF Call!ResolveAlias, Call!CheckPlanMapping, Call!Verify, Call!ResolveAgain, Call!Reads
<1>3. CASE Call!CreateTarget \/ Call!Reindex \/ Call!SwitchAlias
  BY <1>3 DEF Call!CreateTarget, Call!Reindex, Call!SwitchAlias, Call!Requests, Call!Issue
<1>4. CASE Call!TargetCreated \/ Call!ReindexSucceeded \/ Call!AliasSwitched
  BY <1>4 DEF Call!TargetCreated, Call!ReindexSucceeded, Call!AliasSwitched, Call!Received
<1>5. CASE Call!RefreshSource \/ Call!CountSource \/ Call!CountTarget
  BY <1>5 DEF Call!RefreshSource, Call!CountSource, Call!CountTarget
<1>6. CASE Call!CallFails
  BY <1>6 DEF Call!CallFails, Call!Abandon
<1>7. CASE UNCHANGED Call!vars
  BY <1>7 DEF Call!vars
<1> QED
  BY <1>1, <1>2, <1>3, <1>4, <1>5, <1>6, <1>7 DEF Call!Next

\* Types of the cluster in the steps of ApplyMigration.
LEMMA CallTypes ==
  ASSUME ClusterTypeOK, [Call!Next]_(Call!vars)
  PROVE  ClusterTypeOK'
<1>1. CASE Cluster
  BY <1>1, ClusterTypes
<1>2. CASE ClientEffect
  BY <1>2 DEF ClusterTypeOK, ClientEffect, Kinds
<1> QED
  BY <1>1, <1>2, CallEffects

\* What the cluster does leaves a target that was verified complete.
LEMMA VerifiedByCluster ==
  ASSUME ClusterTypeOK, Verified, Cluster, UNCHANGED CallSteps, ClusterTypeOK'
  PROVE  Verified'
<1>1. UNCHANGED <<pc, counts, result>>
  BY DEF CallSteps
<1>2. /\ targetDocs \subseteq Docs /\ targetDocs' \subseteq Docs /\ switches \in Nat
      /\ targetDocs \subseteq targetDocs' /\ sourceVisible' \in {sourceVisible, Docs}
      /\ awaiting' \in {awaiting, "none"} /\ late' \subseteq late
      /\ reply' = Ok => reply = Ok \/ awaiting = "create" \/ switches' = switches + 1
  BY Moves DEF ClusterTypeOK
<1>3. /\ switches > 0 => switches' > 0
      /\ alias' = "target" => alias = "target" \/ switches' > 0
  <2>1. \/ switches' = switches + 1
        \/ switches' = switches /\ (alias' = "target" => alias = "target")
    BY Moves DEF Moved
  <2> QED
    BY <1>2, <2>1
<1>4. targetDocs = Docs => targetDocs' = Docs
  BY <1>2
<1>5. Outstanding("switch")' => Outstanding("switch")
  BY <1>2 DEF Outstanding
<1>6. pc = "awaitSwitch" /\ reply' = Ok => switches' > 0
  BY <1>2, <1>3 DEF Verified
<1> QED
  BY <1>1, <1>2, <1>3, <1>4, <1>5, <1>6 DEF Verified

\* The call asks for the switch only after it has verified the target.
LEMMA VerifiedByCall ==
  ASSUME ClusterTypeOK, Verified, Call!Next, ClientEffect
  PROVE  Verified'
<1>1. /\ UNCHANGED <<targetDocs, alias, switches>> /\ sourceVisible' \in {sourceVisible, Docs}
      /\ reply' \in {reply, NoReply} /\ late' \subseteq late \union ({awaiting} \ {"none"})
  BY DEF ClientEffect
<1> USE DEF Verified, Outstanding, Call!Goto, Call!clientVars, Call!clusterVars,
            Call!networkVars, Call!indexVars
<1>2. CASE Call!ResolveAlias \/ Call!CheckPlanMapping
  BY <1>1, <1>2 DEF Call!ResolveAlias, Call!CheckPlanMapping, Call!Reads
<1>3. CASE Call!RefreshSource
  BY <1>1, <1>3 DEF Call!RefreshSource
<1>4. CASE Call!CreateTarget \/ Call!Reindex
  BY <1>1, <1>4 DEF Call!CreateTarget, Call!Reindex, Call!Requests, Call!Issue
<1>5. CASE Call!SwitchAlias
  BY <1>1, <1>5 DEF Call!SwitchAlias, Call!Requests, Call!Issue, Call!NoReply, Ok
<1>6. CASE Call!TargetCreated \/ Call!ReindexSucceeded
  BY <1>1, <1>6 DEF Call!TargetCreated, Call!ReindexSucceeded, Call!Received
<1>7. CASE Call!CountSource
  <2>1. counts' = <<Cardinality(sourceVisible)>>
    BY <1>7 DEF Call!CountSource, Call!Cardinality, Cardinality
  <2>2. sourceVisible = Docs
    BY <1>7 DEF Call!CountSource
  <2>3. counts' = <<Cardinality(Docs)>>
    BY <2>1, <2>2, Zenon
  <2> QED
    BY <1>1, <1>7, <2>3 DEF Call!CountSource
<1>8. CASE Call!CountTarget
  <2>1. /\ counts' = Append(<<Cardinality(Docs)>>, Cardinality(targetVisible))
        /\ pc = "countTarget" /\ pc' = "verify" /\ UNCHANGED <<result, awaiting, late>>
    BY <1>8 DEF Call!CountTarget, Call!Cardinality, Cardinality
  <2>2. counts'[1] = Cardinality(Docs) /\ counts'[2] = Cardinality(targetVisible)
    BY <2>1
  <2>3. Cardinality(targetVisible) = Cardinality(Docs) => targetDocs = Docs
    <3>1. targetVisible \in SUBSET Docs /\ targetVisible \subseteq targetDocs
          /\ targetDocs \subseteq Docs
      BY DEF ClusterTypeOK
    <3>2. Cardinality(targetVisible) = Cardinality(Docs) => targetVisible = Docs
      BY <3>1, CountedAll
    <3> QED
      BY <3>1, <3>2
  <2> QED
    BY <1>1, <2>1, <2>2, <2>3
<1>9. CASE Call!Verify
  BY <1>1, <1>9 DEF Call!Verify, Call!Reads
<1>10. CASE Call!ResolveAgain
  BY <1>1, <1>10 DEF Call!ResolveAgain, Call!Reads
<1>11. CASE Call!AliasSwitched
  BY <1>1, <1>11 DEF Call!AliasSwitched, Call!Received, Call!Ok, Ok
<1>12. CASE Call!CallFails
  BY <1>1, <1>12 DEF Call!CallFails, Call!Abandon
<1>13. CASE Call!ClusterStep
  <2>1. ClusterTypeOK'
    BY CallTypes
  <2>2. Cluster /\ UNCHANGED CallSteps
    BY <1>13, SameCluster DEF Call!ClusterStep, CallSteps
  <2> QED
    BY <2>1, <2>2, VerifiedByCluster
<1> QED
  BY <1>2, <1>3, <1>4, <1>5, <1>6, <1>7, <1>8, <1>9, <1>10, <1>11, <1>12, <1>13
  DEF Call!Next

\* Every step of the call is a step of AliasMigration, or none of its business.
LEMMA CallContractStep ==
  ASSUME ClusterTypeOK, Verified, [Call!Next]_(Call!vars)
  PROVE  [Call!Contract!Next]_(Call!Contract!vars)
<1>1. switches \in Nat
  BY DEF ClusterTypeOK
<1>2. CASE Cluster /\ UNCHANGED CallSteps
  <2>1. UNCHANGED result
    BY <1>2 DEF CallSteps
  <2>2. CASE /\ Outstanding("switch") /\ alias = "source" /\ alias' = "target"
             /\ switches' = switches + 1 /\ UNCHANGED targetDocs
    <3>1. targetDocs = Docs
      BY <2>2 DEF Verified
    <3>2. (switches' > 0) = TRUE
      BY <1>1, <2>2
    <3>3. Call!Contract!Switch
      BY <2>1, <2>2, <3>1, <3>2 DEF Call!Contract!Switch
    <3> QED
      BY <3>3 DEF Call!Contract!Next
  <2>3. CASE UNCHANGED <<switches, alias, targetDocs>>
    BY <2>1, <2>3 DEF Call!Contract!vars
  <2>4. CASE Moved /\ UNCHANGED <<switches, targetDocs>>
    <3>1. Call!Contract!Interfere
      BY <2>1, <2>4 DEF Moved, Call!Contract!Interfere
    <3> QED
      BY <3>1 DEF Call!Contract!Next
  <2>5. CASE OneMore /\ UNCHANGED <<switches, alias>>
    <3>1. Call!Contract!Copy
      BY <2>1, <2>5 DEF OneMore, Call!Contract!Copy
    <3> QED
      BY <3>1 DEF Call!Contract!Next
  <2> QED
    BY <1>2, <2>2, <2>3, <2>4, <2>5, Moves
<1>3. CASE ClientEffect
  <2>1. UNCHANGED <<targetDocs, alias, switches>>
    BY <1>3 DEF ClientEffect
  <2>2. CASE UNCHANGED result
    BY <2>1, <2>2 DEF Call!Contract!vars
  <2>3. CASE Call!AliasSwitched
    <3>1. switches > 0 /\ result # "moved" /\ result' = "moved"
      BY <2>3 DEF Verified, Call!AliasSwitched, Call!Ok, Ok
    <3>2. Call!Contract!Complete
      BY <2>1, <3>1 DEF Call!Contract!Complete
    <3> QED
      BY <3>2 DEF Call!Contract!Next
  <2>4. CASE Call!CallFails
    <3>1. result # "moved" /\ result' # "moved"
      BY <2>4 DEF Verified, Call!CallFails
    <3> QED
      BY <2>1, <3>1 DEF Call!Contract!vars
  <2>5. UNCHANGED result \/ Call!AliasSwitched \/ Call!CallFails
    BY DEF Call!Next, Call!vars, Call!clientVars, Call!ResolveAlias, Call!CheckPlanMapping,
       Call!Verify, Call!ResolveAgain, Call!Reads, Call!CreateTarget, Call!Reindex,
       Call!SwitchAlias, Call!Requests, Call!TargetCreated, Call!ReindexSucceeded,
       Call!RefreshSource, Call!CountSource, Call!CountTarget, Call!ClusterStep
  <2> QED
    BY <2>2, <2>3, <2>4, <2>5
<1> QED
  BY <1>2, <1>3, CallEffects

\* ApplyMigration implements AliasMigration, too: with no checkpoint, a failed or
\* abandoned call whose requests still arrive moves the alias to a complete
\* target or not at all, and it reports a move only after one.
THEOREM CallImplementsContract == Call!Spec => Call!SafeMigration
<1>1. Call!Init => Call!Contract!Init
  BY DEF Call!Init, Call!ClusterInit, Call!Contract!Init
<1>2. Call!Init => ClusterTypeOK /\ Verified
  <2> SUFFICES ASSUME Call!Init PROVE ClusterTypeOK /\ Verified
    OBVIOUS
  <2> USE DEF Call!Init, Call!ClusterInit, Call!NoReply
  <2>1. ClusterTypeOK
    BY ClusterAssumption DEF ClusterTypeOK, Kinds, NoReply
  <2>2. Verified
    BY DEF Verified, Outstanding
  <2> QED
    BY <2>1, <2>2
<1>3. ClusterTypeOK /\ Verified /\ [Call!Next]_(Call!vars) => (ClusterTypeOK /\ Verified)'
  <2> SUFFICES ASSUME ClusterTypeOK, Verified, [Call!Next]_(Call!vars)
               PROVE  ClusterTypeOK' /\ Verified'
    OBVIOUS
  <2>1. ClusterTypeOK'
    BY CallTypes
  <2>2. CASE Cluster /\ UNCHANGED CallSteps
    BY <2>1, <2>2, VerifiedByCluster
  <2>3. CASE ClientEffect /\ Call!Next
    BY <2>1, <2>3, VerifiedByCall
  <2>4. CASE UNCHANGED Call!vars
    BY <2>1, <2>4 DEF Verified, Outstanding, Call!vars, Call!clientVars, Call!clusterVars,
       Call!networkVars, Call!indexVars, Call!copyVars, Call!aliasVars
  <2> QED
    BY <2>1, <2>2, <2>3, <2>4, CallEffects
<1>4. ClusterTypeOK /\ Verified /\ [Call!Next]_(Call!vars) =>
        [Call!Contract!Next]_(Call!Contract!vars)
  BY CallContractStep
<1> QED
  BY <1>1, <1>2, <1>3, <1>4, PTL DEF Call!Spec, Call!SafeMigration, Call!Contract!Spec
=============================================================================
