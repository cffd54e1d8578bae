-------------------------- MODULE MigrationCluster --------------------------
(***************************************************************************)
(* The cluster as a migration sees it (src/admin.go: the requests it       *)
(* makes): one alias, the source and the target index, the reindex tasks,  *)
(* and the network between client and server.                              *)
(*                                                                         *)
(* The client waits for at most one changing request.  When it gives up,   *)
(* the request may still arrive later, or never.  Reads are answered in    *)
(* the step that asks; any of them may fail instead.  Writers are paused   *)
(* (MigrationOptions.WritesPaused), so the source's documents are constant.*)
(***************************************************************************)
EXTENDS Integers, Sequences, FiniteSets

CONSTANTS
  Docs,             \* the documents of the source index
  MaxInterference   \* bound: steps of competing administrators

ASSUME ClusterAssumption == IsFiniteSet(Docs) /\ MaxInterference \in Nat

VARIABLES
  alias,          \* the index behind the alias
  switches,       \* history: alias requests of the migration that succeeded
  sourceMapping,  \* "planned", the mapping PlanMigration saw, or "changed"
  sourceVisible,  \* the documents a search of the source finds
  targetMapping,  \* "none" before the index exists; "normalized" or "foreign"
  targetDocs, targetVisible,
  tasks,          \* the reindex tasks, by task ID
  awaiting,       \* the kind of request on its way, its client waiting
  reply,          \* the reply to it
  late,           \* the kinds of request given up by the client, on their way
  interference

indexVars   == <<sourceMapping, sourceVisible, targetMapping>>
copyVars    == <<targetDocs, targetVisible, tasks>>
aliasVars   == <<alias, switches>>
networkVars == <<awaiting, reply, late>>
clusterVars == <<indexVars, copyVars, aliasVars, networkVars, interference>>

Kinds == {"create", "reindex", "switch"}
NoReply == <<>>
Ok      == <<"ok">>
Refused == <<"refused">>

ClusterInit ==
  /\ alias = "source" /\ switches = 0
  /\ sourceMapping = "planned"
  /\ sourceVisible \in SUBSET Docs
  /\ targetMapping = "none" /\ targetDocs = {} /\ targetVisible = {}
  /\ tasks = <<>>
  /\ awaiting = "none" /\ reply = NoReply /\ late = {}
  /\ interference = 0
-----------------------------------------------------------------------------
(* The client's end of a request.                                          *)

Issue(kind) ==
  /\ awaiting' = kind /\ reply' = NoReply
  /\ UNCHANGED late

Received == awaiting' = "none" /\ reply' = NoReply /\ UNCHANGED late

\* The client stops waiting: an error, its context, or its own end.
Abandon ==
  /\ awaiting' = "none" /\ reply' = NoReply
  /\ \/ late' = late \union ({awaiting} \ {"none"})
     \/ UNCHANGED late
-----------------------------------------------------------------------------
(* The server's handling of each kind of request, with the reply it gives. *)

\* Admin.CreateIndex: an index of that name must not exist.  The server
\* normalizes the mapping it is given.
HandleCreate(r) ==
  /\ \/ /\ targetMapping = "none"
        /\ targetMapping' = "normalized" /\ r = Ok
     \/ /\ targetMapping # "none"
        /\ UNCHANGED targetMapping /\ r = Refused
  /\ UNCHANGED <<sourceMapping, sourceVisible, copyVars, aliasVars>>

\* POST /_reindex starts a task over what a search of the source finds now.
HandleReindex(r) ==
  /\ tasks' = Append(tasks, [todo |-> sourceVisible, total |-> Cardinality(sourceVisible),
                             state |-> "running"])
  /\ r = <<"task", Len(tasks) + 1>>
  /\ UNCHANGED <<indexVars, targetDocs, targetVisible, aliasVars>>

\* Mutant: the remove action does not carry must_exist.
SwitchesAnyway(r) ==
  /\ alias' = "target" /\ switches' = switches + 1 /\ r = Ok
  /\ UNCHANGED <<indexVars, copyVars>>

\* Admin.Aliases: remove from the source and add to the target, atomically.
\* The remove action carries must_exist.
HandleSwitch(r) ==
  /\ \/ /\ alias = "source"
        /\ alias' = "target" /\ switches' = switches + 1 /\ r = Ok
     \/ /\ alias # "source"
        /\ UNCHANGED aliasVars /\ r = Refused
  /\ UNCHANGED <<indexVars, copyVars>>

Handle(kind, r) ==
  \/ kind = "create" /\ HandleCreate(r)
  \/ kind = "reindex" /\ HandleReindex(r)
  \/ kind = "switch" /\ HandleSwitch(r)

Replies == {Ok, Refused, <<"task", Len(tasks) + 1>>}

ServerHandles ==
  /\ \E r \in Replies :
       \/ /\ awaiting # "none"
          /\ Handle(awaiting, r)
          /\ awaiting' = "none" /\ reply' = r /\ UNCHANGED late
       \/ \E kind \in late :
          /\ Handle(kind, r)
          /\ late' = late \ {kind} /\ UNCHANGED <<awaiting, reply>>
  /\ UNCHANGED interference
-----------------------------------------------------------------------------
(* The reindex task: op_type create, conflicts abort it, refresh=true.     *)

TaskCopies(t) ==
  /\ tasks[t].state = "running"
  /\ \E d \in tasks[t].todo :
       \/ /\ d \notin targetDocs
          /\ targetDocs' = targetDocs \union {d}
          /\ tasks' = [tasks EXCEPT ![t].todo = @ \ {d}]
       \/ /\ d \in targetDocs
          /\ tasks' = [tasks EXCEPT ![t].state = "conflict"]
          /\ UNCHANGED targetDocs
  /\ UNCHANGED <<indexVars, targetVisible, aliasVars, networkVars, interference>>

TaskFinishes(t) ==
  /\ tasks[t].state = "running" /\ tasks[t].todo = {}
  /\ tasks' = [tasks EXCEPT ![t].state = "done"]
  /\ targetVisible' = targetDocs
  /\ UNCHANGED <<indexVars, targetDocs, aliasVars, networkVars, interference>>

\* It stops with failures, or its node dies and nobody knows it any more.
TaskBreaks(t) ==
  /\ tasks[t].state = "running"
  /\ \E s \in {"failed", "gone"} : tasks' = [tasks EXCEPT ![t].state = s]
  /\ UNCHANGED <<indexVars, targetDocs, targetVisible, aliasVars, networkVars, interference>>

\* Documents become searchable without being asked to, sooner or later.
BackgroundRefresh ==
  /\ \/ sourceVisible' = Docs /\ UNCHANGED targetVisible
     \/ targetVisible' = targetDocs /\ UNCHANGED sourceVisible
  /\ UNCHANGED <<sourceMapping, targetMapping, targetDocs, tasks, aliasVars, networkVars,
                 interference>>
-----------------------------------------------------------------------------
\* A competing administrator moves the alias, changes the source's mapping or
\* takes the target's name.
Interferes ==
  /\ interference < MaxInterference
  /\ interference' = interference + 1
  /\ \/ /\ alias' = IF alias = "other" THEN "source" ELSE "other"
        /\ UNCHANGED <<switches, indexVars>>
     \/ /\ sourceMapping' = "changed"
        /\ UNCHANGED <<aliasVars, sourceVisible, targetMapping>>
     \/ /\ targetMapping = "none"
        /\ targetMapping' = "foreign"
        /\ UNCHANGED <<aliasVars, sourceMapping, sourceVisible>>
  /\ UNCHANGED <<copyVars, networkVars>>

Cluster ==
  \/ ServerHandles \/ BackgroundRefresh \/ Interferes
  \/ \E t \in DOMAIN tasks : TaskCopies(t) \/ TaskFinishes(t) \/ TaskBreaks(t)

ClusterTypeOK ==
  /\ alias \in {"source", "target", "other"} /\ switches \in Nat
  /\ sourceMapping \in {"planned", "changed"} /\ sourceVisible \subseteq Docs
  /\ targetMapping \in {"none", "normalized", "foreign"}
  /\ targetDocs \subseteq Docs /\ targetVisible \subseteq targetDocs
  /\ tasks \in Seq([todo : SUBSET Docs, total : Nat,
                    state : {"running", "done", "conflict", "failed", "gone"}])
  /\ awaiting \in Kinds \union {"none"} /\ late \subseteq Kinds
  /\ reply \in {NoReply, Ok, Refused} \union {<<"task", t>> : t \in DOMAIN tasks}
  /\ interference \in 0..MaxInterference
=============================================================================
