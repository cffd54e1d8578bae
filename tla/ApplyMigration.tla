--------------------------- MODULE ApplyMigration ---------------------------
(***************************************************************************)
(* Admin.ApplyMigration (src/admin.go): the whole migration in one call,   *)
(* with no checkpoint.  It waits for the reindex itself, so the reply to   *)
(* that request is the outcome of the task.  A failure retains both        *)
(* indices; the caller plans again with a new target.                      *)
(***************************************************************************)
EXTENDS MigrationCluster

VARIABLES
  pc,
  created,   \* what the reindex reported as created
  counts,    \* the counts read so far: of the source, of the target
  result     \* "running", "error" or "moved" (MigrationResult.AliasMoved)

clientVars == <<created, counts, result>>
vars == <<clusterVars, pc, clientVars>>

Init ==
  /\ ClusterInit
  /\ pc = "resolve" /\ created = 0 /\ counts = <<>> /\ result = "running"

Goto(next) == pc' = next

Reads(here, ok, next) ==
  /\ pc = here /\ ok
  /\ Goto(next)
  /\ UNCHANGED <<clusterVars, clientVars>>

Requests(here, kind, next) ==
  /\ pc = here
  /\ Issue(kind)
  /\ Goto(next)
  /\ UNCHANGED <<indexVars, copyVars, aliasVars, interference, clientVars>>

ResolveAlias     == Reads("resolve", alias = "source", "mapping")
CheckPlanMapping == Reads("mapping", sourceMapping = "planned", "refresh")

RefreshSource ==
  /\ pc = "refresh"
  /\ sourceVisible' = Docs
  /\ Goto("create")
  /\ UNCHANGED <<sourceMapping, targetMapping, copyVars, aliasVars, networkVars, interference,
                 clientVars>>

CreateTarget == Requests("create", "create", "awaitCreate")

TargetCreated ==
  /\ pc = "awaitCreate" /\ reply = Ok
  /\ Received
  /\ Goto("reindex")
  /\ UNCHANGED <<indexVars, copyVars, aliasVars, interference, clientVars>>

Reindex == Requests("reindex", "reindex", "awaitReindex")

\* timed_out, version_conflicts, failures and created # total all end the call.
ReindexSucceeded ==
  /\ pc = "awaitReindex" /\ Len(reply) = 2
  /\ tasks[reply[2]].state = "done"
  /\ created' = tasks[reply[2]].total
  /\ Received
  /\ Goto("countSource")
  /\ UNCHANGED <<indexVars, copyVars, aliasVars, interference, counts, result>>

CountSource ==
  /\ pc = "countSource"
  /\ counts' = <<Cardinality(sourceVisible)>>
  /\ Goto("countTarget")
  /\ UNCHANGED <<clusterVars, created, result>>

CountTarget ==
  /\ pc = "countTarget"
  /\ counts' = Append(counts, Cardinality(targetVisible))
  /\ Goto("verify")
  /\ UNCHANGED <<clusterVars, created, result>>

Verify ==
  Reads("verify", counts[1] = counts[2] /\ counts[2] = created, "resolveAgain")
ResolveAgain == Reads("resolveAgain", alias = "source", "switch")
SwitchAlias  == Requests("switch", "switch", "awaitSwitch")

AliasSwitched ==
  /\ pc = "awaitSwitch" /\ reply = Ok
  /\ Received
  /\ result' = "moved"
  /\ Goto("returned")
  /\ UNCHANGED <<indexVars, copyVars, aliasVars, interference, created, counts>>

\* A request fails, a check does not hold, the context ends, the process dies.
CallFails ==
  /\ pc # "returned"
  /\ Abandon
  /\ result' = "error"
  /\ Goto("returned")
  /\ UNCHANGED <<indexVars, copyVars, aliasVars, interference, created, counts>>

ClusterStep == Cluster /\ UNCHANGED <<pc, clientVars>>

Next ==
  \/ ResolveAlias \/ CheckPlanMapping \/ RefreshSource \/ CreateTarget \/ TargetCreated
  \/ Reindex \/ ReindexSucceeded \/ CountSource \/ CountTarget \/ Verify
  \/ ResolveAgain \/ SwitchAlias \/ AliasSwitched \/ CallFails \/ ClusterStep

Spec == Init /\ [][Next]_vars
-----------------------------------------------------------------------------
\* The call keeps the promise of AliasMigration: while it runs, and after it
\* has failed with a request of its own still under way, the alias shows all
\* documents or the source.
Contract == INSTANCE AliasMigration WITH
  copied   <- targetDocs,
  switched <- switches > 0,
  complete <- result = "moved"

SafeMigration == Contract!Spec
=============================================================================
