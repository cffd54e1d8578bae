------------------------------- MODULE ByQuery -------------------------------
(***************************************************************************)
(* Updating or deleting by query (src/operations.go): the server takes a   *)
(* snapshot of the documents that match and processes them one by one,     *)
(* while others write to them; it may stop half-way, and nothing is rolled *)
(* back.  The call waits for it, or returns the id of a task that WaitTask *)
(* polls and CancelTask asks to stop.                                      *)
(*                                                                         *)
(* Only a caller that has its id cancels the task.                         *)
(***************************************************************************)
EXTENDS Integers, FiniteSets, Client

CONSTANTS
  Docs,
  MaxWrites,   \* writes of each document by others
  Nil

VARIABLES
  version,     \* the version of each document that exists
  writes,      \* history: writes by others
  task,        \* what the server makes of the request, or Nil
  options,     \* the ByQueryOptions of the call
  calling,     \* where the call is: "idle", "flight", "over" or "lost"
  returned,    \* the error it returned, "none" before
  polled,      \* the server's answer to the current poll, or Nil
  waited       \* the error WaitTask returned, "none" before, "polling" meanwhile

\* What a task over some documents may be.
Tasks(matching) ==
  [snapshot : [matching -> Nat], left : SUBSET matching, done : SUBSET matching,
   conflicts : SUBSET matching, failed : BOOLEAN, timedOut : BOOLEAN, error : BOOLEAN,
   cancelling : BOOLEAN, completed : BOOLEAN]

vars == <<version, writes, task, options, calling, returned, polled, waited>>
server == <<version, writes, task>>
call == <<options, calling, returned>>
wait == <<polled, waited>>

Init ==
  /\ version = [d \in Docs |-> 1] /\ writes = [d \in Docs |-> 0]
  /\ task = Nil
  /\ options \in [op : {"update", "delete"}, query : BOOLEAN, async : BOOLEAN,
                  conflicts : {"", "abort", "proceed", "other"}]
  /\ calling = "idle" /\ returned = "none"
  /\ polled = Nil /\ waited = "none"

-----------------------------------------------------------------------------
\* The server.

\* The request is handled, also after the call has given up.
TaskStarts ==
  /\ calling \in {"flight", "lost"} /\ task = Nil
  /\ \E matching \in SUBSET Docs :
       task' = [snapshot |-> [d \in matching |-> version[d]], left |-> matching, done |-> {},
                conflicts |-> {}, failed |-> FALSE, timedOut |-> FALSE, error |-> FALSE,
                cancelling |-> FALSE, completed |-> FALSE]
  /\ UNCHANGED <<version, writes>> /\ UNCHANGED call /\ UNCHANGED wait

Running == task # Nil /\ ~task.completed

\* The next document is processed unless another writer came before; a
\* conflict stops the task unless conflicts proceed.
TaskSteps ==
  /\ Running
  /\ \E d \in task.left :
       IF version[d] = task.snapshot[d]
       THEN /\ version' = [version EXCEPT ![d] = @ + 1]
            /\ task' = [task EXCEPT !.left = @ \ {d}, !.done = @ \union {d}]
       ELSE /\ task' = [task EXCEPT !.left = @ \ {d}, !.conflicts = @ \union {d},
                                    !.completed = options.conflicts # "proceed"]
            /\ UNCHANGED version
  /\ UNCHANGED writes /\ UNCHANGED call /\ UNCHANGED wait

\* It ends: done, cancelled, timed out, or with failures or an error.
TaskEnds ==
  /\ Running
  /\ \/ task.left = {} /\ task' = [task EXCEPT !.completed = TRUE]
     \/ task.cancelling /\ task' = [task EXCEPT !.completed = TRUE]
     \/ task.left # {} /\ task' = [task EXCEPT !.completed = TRUE, !.failed = TRUE]
     \/ task.left # {} /\ task' = [task EXCEPT !.completed = TRUE, !.timedOut = TRUE]
     \/ task.left # {} /\ task' = [task EXCEPT !.completed = TRUE, !.error = TRUE]
  /\ UNCHANGED <<version, writes>> /\ UNCHANGED call /\ UNCHANGED wait

OtherWrites ==
  /\ \E d \in Docs :
       /\ writes[d] < MaxWrites
       /\ version' = [version EXCEPT ![d] = @ + 1]
       /\ writes' = [writes EXCEPT ![d] = @ + 1]
  /\ UNCHANGED task /\ UNCHANGED call /\ UNCHANGED wait

-----------------------------------------------------------------------------
\* The call.

\* ByQueryOptions.validate, after the query has been found missing.
Validates(o) == o.conflicts \in {"", "abort", "proceed"}
Refuses(o) == ~o.query \/ ~Validates(o)

ByQuery ==
  /\ calling = "idle"
  /\ IF Refuses(options)
     THEN calling' = "over" /\ returned' = "validation"
     ELSE calling' = "flight" /\ UNCHANGED returned
  /\ UNCHANGED options /\ UNCHANGED server /\ UNCHANGED wait

\* What the answer says: counters when it is that of a task that has ended, or
\* a task id; an answer that is neither has nothing.
Counters == [total |-> TRUE, id |-> FALSE, failures |-> task.failed, timedOut |-> task.timedOut,
             conflicts |-> Cardinality(task.conflicts)]
TaskID == [total |-> FALSE, id |-> TRUE, failures |-> FALSE, timedOut |-> FALSE, conflicts |-> 0]
Nothing == [TaskID EXCEPT !.id = FALSE]

\* Mutant: conflicts are taken for documents skipped on purpose.
IgnoresConflicts(o, out) ==
  IF o.async THEN ~out.id ELSE ~out.total \/ out.failures \/ out.timedOut
\* Repository.UpdateByQuery: whether what the server reports is incomplete.
UpdateIncomplete(o, out) ==
  IF o.async THEN ~out.id
  ELSE \/ ~out.total \/ out.failures \/ out.timedOut
       \/ o.conflicts # "proceed" /\ out.conflicts > 0
\* Repository.DeleteByQuery judges in the same way.
DeleteIncomplete(o, out) == UpdateIncomplete(o, out)

Judged(out) ==
  IF options.op = "update" /\ UpdateIncomplete(options, out) THEN "incomplete"
  ELSE IF options.op = "delete" /\ DeleteIncomplete(options, out) THEN "incomplete"
  ELSE "nil"

ByQueryReturns ==
  /\ calling = "flight"
  /\ \/ /\ task # Nil /\ (options.async \/ task.completed)
        /\ \E out \in {IF options.async THEN TaskID ELSE Counters, Nothing},
              body \in {"json", "garbage", "unread"} :
             LET status == IF ~options.async /\ task.error THEN 500 ELSE 200
                 e == Perform(Response(status, body), TRUE)
             IN  returned' = IF e = "nil" THEN Judged(out) ELSE e
        /\ calling' = "over"
     \/ returned' = "transport" /\ calling' = "lost"
  /\ UNCHANGED options /\ UNCHANGED server /\ UNCHANGED wait

-----------------------------------------------------------------------------
\* Admin.Task, WaitTask and CancelTask, by a caller that has the id.
HasID == options.async /\ returned = "nil"

WaitTask ==
  /\ HasID /\ waited \notin {"polling", "nil"}
  /\ waited' = "polling"
  /\ UNCHANGED polled /\ UNCHANGED server /\ UNCHANGED call

\* The server answers a poll with what it knows then.
TaskAnswers ==
  /\ waited = "polling" /\ polled = Nil
  /\ polled' = [completed |-> task.completed, error |-> task.error]
  /\ UNCHANGED waited /\ UNCHANGED server /\ UNCHANGED call

\* One round of WaitTask: it returns when the task has completed, when a poll
\* fails, as when the result is no longer kept, or when the context is over.
WaitReturns ==
  /\ waited = "polling"
  /\ \/ /\ polled # Nil
        /\ waited' = IF ~polled.completed THEN "polling"
                     ELSE IF polled.error THEN "taskError" ELSE "nil"
     \/ waited' \in {"transport", "notFound", "context"}
  /\ polled' = Nil
  /\ UNCHANGED server /\ UNCHANGED call

\* A request to cancel, which the task heeds some time or not at all.
CancelTask ==
  /\ HasID /\ Running
  /\ task' = [task EXCEPT !.cancelling = TRUE]
  /\ UNCHANGED <<version, writes>> /\ UNCHANGED call /\ UNCHANGED wait

Next ==
  \/ TaskStarts \/ TaskSteps \/ TaskEnds \/ OtherWrites
  \/ ByQuery \/ ByQueryReturns \/ WaitTask \/ TaskAnswers \/ WaitReturns \/ CancelTask

Spec == Init /\ [][Next]_vars

-----------------------------------------------------------------------------
\* A call that waited and returned no error has processed every document its
\* query matched, wherever writers or failures came in between, unless it let
\* conflicts proceed, and then it left out only documents another writer has
\* changed; a call that did not wait has an id; and when WaitTask returns no
\* error the task has ended and changes nothing any more, cancelled or not.
SuccessIsComplete ==
  /\ returned = "nil" /\ ~options.async =>
       /\ task.completed
       /\ \A d \in DOMAIN task.snapshot :
            \/ d \in task.done
            \/ options.conflicts = "proceed" /\ writes[d] > 0 /\ version[d] > task.snapshot[d]
  /\ returned = "nil" /\ options.async => task # Nil
  /\ waited = "nil" => task.completed /\ ~task.error
=============================================================================
