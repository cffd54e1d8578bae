--------------------------- MODULE AliasMigration ---------------------------
(***************************************************************************)
(* What a reindex migration promises to the readers of its alias, whether  *)
(* it runs in one call (ApplyMigration) or through checkpoints             *)
(* (StartMigration, ResumeMigration): the alias moves to the target at     *)
(* most in one step, from the source and no other index, and only when the *)
(* target holds every document; and a migration calls itself complete only *)
(* if it has moved the alias.  Others may move the alias between other     *)
(* indices at any time.                                                    *)
(***************************************************************************)
CONSTANTS Docs   \* the documents of the source index

VARIABLES
  copied,     \* the documents the target holds
  alias,      \* the index behind the alias: "source", "target", "other"
  switched,   \* the migration has moved the alias
  complete    \* the migration has reported completion

vars == <<copied, alias, switched, complete>>

Init ==
  /\ copied = {} /\ alias = "source"
  /\ switched = FALSE /\ complete = FALSE

Copy ==
  /\ \E d \in Docs \ copied : copied' = copied \union {d}
  /\ UNCHANGED <<alias, switched, complete>>

Switch ==
  /\ alias = "source" /\ copied = Docs
  /\ alias' = "target" /\ switched' = TRUE
  /\ UNCHANGED <<copied, complete>>

\* A crash may lose the report again.
Complete ==
  /\ switched
  /\ complete' = ~complete
  /\ UNCHANGED <<copied, alias, switched>>

\* Another administrator.
Interfere ==
  /\ \/ alias # "other" /\ alias' = "other"
     \/ alias = "other" /\ alias' = "source"
  /\ UNCHANGED <<copied, switched, complete>>

Next == Copy \/ Switch \/ Complete \/ Interfere

Spec == Init /\ [][Next]_vars
=============================================================================
