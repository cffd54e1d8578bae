---------------------------- MODULE LibraryProofs ----------------------------
(***************************************************************************)
(* Proofs about six parts of Library.  For any documents, indices and      *)
(* number of values: operations by query, starting a program, and the      *)
(* searches derived from each other; for any width of an integer,          *)
(* arithmetic near its limits; for any finite graph, loading references;   *)
(* for any documents, shards and queries, what searches select. A          *)
(* behaviour follows one part, so that each invariant (OpsInv, StartInv,   *)
(* SearchInv, CountInv, GraphInv, QueryInv) only speaks of its own, and    *)
(* the steps of the other parts do not concern it.                         *)
(*                                                                         *)
(* Two parts are about recursive functions.  The section on induction      *)
(* derives, from the order of the numbers alone, a principle of induction  *)
(* over a set of numbers and the equations of a function that is defined   *)
(* by recursion.                                                           *)
(***************************************************************************)
EXTENDS Library, FiniteSetTheorems, SequenceTheorems, WellFoundedInduction,
        TLAPS

-----------------------------------------------------------------------------
(* Operations by query.                                                    *)

\* Types, as far as they are needed.
Written ==
  /\ version \in [Docs -> Nat] /\ writes \in [Docs -> Nat]
  /\ options.async \in BOOLEAN /\ options.op \in {"update", "delete"}
  /\ task # Nil => \E matching \in SUBSET Docs : task \in Bulk!Tasks(matching)

\* Every document of the snapshot is left, done or in conflict; only others
\* have written to what is not done, and to all that is in conflict.
Processed ==
  task # Nil =>
    /\ DOMAIN task.snapshot \subseteq task.left \union task.done \union task.conflicts
    /\ \A d \in task.left :
         \/ version[d] = task.snapshot[d]
         \/ version[d] > task.snapshot[d] /\ writes[d] > 0
    /\ \A d \in task.conflicts : version[d] > task.snapshot[d] /\ writes[d] > 0

\* A task that stopped before its end says why.
Excused(t) ==
  \/ t.left = {}
  \/ t.failed \/ t.timedOut \/ t.error \/ t.cancelling
  \/ t.conflicts # {} /\ options.conflicts # "proceed"
Ended ==
  task # Nil =>
    /\ task.completed => Excused(task)
    /\ task.cancelling => options.async

\* What the call has returned is true of the task.
Called ==
  /\ calling \in {"idle", "flight", "over", "lost"}
  /\ calling = "idle" => task = Nil
  /\ calling \in {"idle", "flight"} => returned = "none"
  /\ returned = "nil" => task # Nil
  /\ returned = "nil" /\ ~options.async =>
       /\ task.completed /\ ~task.failed /\ ~task.timedOut /\ ~task.error
       /\ task.conflicts = {} \/ options.conflicts = "proceed"

\* And what a poll has found stays true.
Polled ==
  /\ waited # "none" => options.async /\ returned = "nil"
  /\ polled # Nil => waited = "polling"
  /\ polled # Nil /\ polled.completed => task.completed /\ (polled.error <=> task.error)
  /\ waited = "nil" => task.completed /\ ~task.error

Ops == Written /\ Processed /\ Ended /\ Called /\ Polled
OpsInv == part = "bulk" => Ops
-----------------------------------------------------------------------------
\* What the type of a task says of its documents.
LEMMA TaskDocuments ==
  ASSUME Written, task # Nil
  PROVE  /\ DOMAIN task.snapshot \subseteq Docs
         /\ task.left \subseteq DOMAIN task.snapshot
         /\ task.conflicts \subseteq DOMAIN task.snapshot
         /\ \A d \in DOMAIN task.snapshot :
              task.snapshot[d] \in Nat /\ version[d] \in Nat /\ writes[d] \in Nat
<1>1. PICK matching \in SUBSET Docs : task \in Bulk!Tasks(matching)
  BY DEF Written
<1>2. /\ task.snapshot \in [matching -> Nat] /\ task.left \subseteq matching
      /\ task.conflicts \subseteq matching
  BY <1>1 DEF Bulk!Tasks
<1> QED
  BY <1>2 DEF Written

\* A step that leaves the documents and the task alone keeps what is known of them.
LEMMA ServerUnchanged ==
  ASSUME Written, Processed, Ended, UNCHANGED <<version, writes, task, options>>
  PROVE  Written' /\ Processed' /\ Ended'
BY DEF Written, Processed, Ended, Excused

\* The invariant holds before a call by query.
LEMMA InitOps == Bulk!Init => Ops
<1> SUFFICES ASSUME Bulk!Init PROVE Ops
  OBVIOUS
<1>1. /\ task = Nil /\ calling = "idle" /\ returned = "none" /\ polled = Nil /\ waited = "none"
      /\ version = [d \in Docs |-> 1] /\ writes = [d \in Docs |-> 0]
      /\ options.async \in BOOLEAN /\ options.op \in {"update", "delete"}
  BY DEF Bulk!Init
<1>2. Written
  BY <1>1 DEF Written
<1>3. Processed /\ Ended
  BY <1>1 DEF Processed, Ended
<1>4. Called /\ Polled
  BY <1>1 DEF Called, Polled
<1> QED
  BY <1>2, <1>3, <1>4 DEF Ops

\* A task starts with all documents of its snapshot left.
LEMMA TaskStartsKeeps ==
  ASSUME Ops, Bulk!TaskStarts
  PROVE  Ops'
<1> USE DEF Ops
<1>1. /\ calling \in {"flight", "lost"} /\ task = Nil
      /\ UNCHANGED <<version, writes, options, calling, returned, polled, waited>>
  BY DEF Bulk!TaskStarts, Bulk!call, Bulk!wait
<1>2. PICK matching \in SUBSET Docs :
        task' = [snapshot |-> [d \in matching |-> version[d]], left |-> matching, done |-> {},
                 conflicts |-> {}, failed |-> FALSE, timedOut |-> FALSE, error |-> FALSE,
                 cancelling |-> FALSE, completed |-> FALSE]
  BY DEF Bulk!TaskStarts
<1>3. task' \in Bulk!Tasks(matching)
  BY <1>2 DEF Bulk!Tasks, Written
<1>4. /\ task'.snapshot = [d \in matching |-> version[d]] /\ task'.left = matching
      /\ task'.conflicts = {} /\ ~task'.cancelling /\ ~task'.completed
  BY <1>2
<1>5. Written'
  BY <1>1, <1>3 DEF Written
<1>6. Processed'
  BY <1>1, <1>4 DEF Processed
<1>7. Ended'
  BY <1>4 DEF Ended
<1>8. returned # "nil"
  BY <1>1 DEF Called
<1>9. Called'
  BY <1>1, <1>8 DEF Called
<1>10. Polled'
  BY <1>1, <1>8 DEF Polled
<1> QED
  BY <1>5, <1>6, <1>7, <1>9, <1>10

\* A running task is not one that has been reported.
LEMMA RunningIsOpen ==
  ASSUME Ops, Bulk!Running
  PROVE  /\ task # Nil /\ ~task.completed /\ calling # "idle"
         /\ returned = "nil" => options.async
         /\ waited # "nil"
         /\ ~(polled # Nil /\ polled.completed)
BY DEF Ops, Called, Polled, Bulk!Running

\* A running task may become another one without anything reported changing.
LEMMA OpenTaskMoves ==
  ASSUME Ops, Bulk!Running, task' # Nil,
         UNCHANGED <<options, calling, returned, polled, waited>>
  PROVE  Called' /\ Polled'
<1>1. Called'
  BY RunningIsOpen DEF Ops, Called
<1>2. Polled'
  BY RunningIsOpen DEF Ops, Polled
<1> QED
  BY <1>1, <1>2

\* A task processes or skips one document.
LEMMA TaskStepsKeeps ==
  ASSUME Ops, Bulk!TaskSteps
  PROVE  Ops'
<1> USE DEF Ops
<1>1. /\ Bulk!Running
      /\ UNCHANGED <<writes, options, calling, returned, polled, waited>>
  BY DEF Bulk!TaskSteps, Bulk!call, Bulk!wait
<1>2. task # Nil /\ ~task.completed
  BY <1>1, RunningIsOpen
<1>3. PICK matching \in SUBSET Docs : task \in Bulk!Tasks(matching)
  BY <1>2 DEF Written
<1>4. PICK d \in task.left :
        IF version[d] = task.snapshot[d]
        THEN /\ version' = [version EXCEPT ![d] = @ + 1]
             /\ task' = [task EXCEPT !.left = @ \ {d}, !.done = @ \union {d}]
        ELSE /\ task' = [task EXCEPT !.left = @ \ {d}, !.conflicts = @ \union {d},
                                     !.completed = options.conflicts # "proceed"]
             /\ UNCHANGED version
  BY DEF Bulk!TaskSteps
<1>5. /\ d \in Docs /\ d \in matching /\ version \in [Docs -> Nat] /\ writes \in [Docs -> Nat]
      /\ task.snapshot \in [matching -> Nat] /\ task.left \subseteq matching
  BY <1>3, <1>4 DEF Written, Bulk!Tasks
<1>6. CASE version[d] = task.snapshot[d]
  <2>1. /\ version' = [version EXCEPT ![d] = @ + 1]
        /\ task' = [task EXCEPT !.left = @ \ {d}, !.done = @ \union {d}]
    BY <1>4, <1>6
  <2>2. task' \in Bulk!Tasks(matching)
    BY <1>3, <1>5, <2>1 DEF Bulk!Tasks
  <2>3. /\ task'.left = task.left \ {d} /\ task'.done = task.done \union {d}
        /\ task'.snapshot = task.snapshot /\ task'.conflicts = task.conflicts
        /\ task'.completed = task.completed /\ task'.cancelling = task.cancelling
    BY <1>3, <2>1 DEF Bulk!Tasks
  <2>4. /\ version' \in [Docs -> Nat]
        /\ \A e \in Docs : version'[e] = IF e = d THEN version[e] + 1 ELSE version[e]
    BY <1>5, <2>1
  <2>5. Written'
    BY <1>1, <2>2, <2>4 DEF Written
  <2>6. Processed'
    BY <1>1, <1>2, <1>5, <2>3, <2>4, TaskDocuments DEF Processed
  <2>7. Ended'
    BY <1>1, <1>2, <2>3 DEF Ended
  <2>8. task' # Nil
    BY <2>2, NilAssumption
  <2> QED
    BY <1>1, <2>5, <2>6, <2>7, <2>8, OpenTaskMoves
<1>7. CASE version[d] # task.snapshot[d]
  <2>1. /\ UNCHANGED version
        /\ task' = [task EXCEPT !.left = @ \ {d}, !.conflicts = @ \union {d},
                                !.completed = options.conflicts # "proceed"]
    BY <1>4, <1>7
  <2>2. task' \in Bulk!Tasks(matching)
    BY <1>3, <1>5, <2>1 DEF Bulk!Tasks
  <2>3. /\ task'.left = task.left \ {d} /\ task'.conflicts = task.conflicts \union {d}
        /\ task'.snapshot = task.snapshot /\ task'.done = task.done
        /\ task'.cancelling = task.cancelling
    BY <1>3, <2>1 DEF Bulk!Tasks
  <2>4. task'.completed <=> options.conflicts # "proceed"
    BY <1>3, <2>1 DEF Bulk!Tasks
  <2>5. Written'
    BY <1>1, <2>1, <2>2 DEF Written
  <2>6. Processed'
    BY <1>1, <1>2, <1>5, <1>7, <2>1, <2>3, TaskDocuments DEF Processed
  <2>7. Ended'
    <3>1. task'.completed => Excused(task)'
      BY <1>1, <2>3, <2>4 DEF Excused
    <3> QED
      BY <1>1, <1>2, <2>3, <3>1 DEF Ended
  <2>8. task' # Nil
    BY <2>2, NilAssumption
  <2> QED
    BY <1>1, <2>5, <2>6, <2>7, <2>8, OpenTaskMoves
<1> QED
  BY <1>6, <1>7
\* A task that ends says why, if documents are left.
LEMMA TaskEndsKeeps ==
  ASSUME Ops, Bulk!TaskEnds
  PROVE  Ops'
<1> USE DEF Ops
<1>1. /\ Bulk!Running
      /\ UNCHANGED <<version, writes, options, calling, returned, polled, waited>>
  BY DEF Bulk!TaskEnds, Bulk!call, Bulk!wait
<1>2. task # Nil /\ ~task.completed
  BY <1>1, RunningIsOpen
<1>3. PICK matching \in SUBSET Docs : task \in Bulk!Tasks(matching)
  BY <1>2 DEF Written
<1>4. /\ task' \in Bulk!Tasks(matching)
      /\ task'.snapshot = task.snapshot /\ task'.left = task.left /\ task'.done = task.done
      /\ task'.conflicts = task.conflicts /\ task'.cancelling = task.cancelling
      /\ task'.left = {} \/ task'.cancelling \/ task'.failed \/ task'.timedOut \/ task'.error
  <2>1. CASE task' = [task EXCEPT !.completed = TRUE] /\ (task.left = {} \/ task.cancelling)
    BY <1>3, <2>1 DEF Bulk!Tasks
  <2>2. CASE task' = [task EXCEPT !.completed = TRUE, !.failed = TRUE]
    BY <1>3, <2>2 DEF Bulk!Tasks
  <2>3. CASE task' = [task EXCEPT !.completed = TRUE, !.timedOut = TRUE]
    BY <1>3, <2>3 DEF Bulk!Tasks
  <2>4. CASE task' = [task EXCEPT !.completed = TRUE, !.error = TRUE]
    BY <1>3, <2>4 DEF Bulk!Tasks
  <2> QED
    BY <2>1, <2>2, <2>3, <2>4 DEF Bulk!TaskEnds
<1>5. Written'
  BY <1>1, <1>4 DEF Written
<1>6. Processed'
  BY <1>1, <1>2, <1>4 DEF Processed
<1>7. Ended'
  BY <1>1, <1>2, <1>4 DEF Ended, Excused
<1>8. task' # Nil
  BY <1>4, NilAssumption
<1> QED
  BY <1>1, <1>5, <1>6, <1>7, <1>8, OpenTaskMoves

\* Another writer raises the version of a document, and its own count.
LEMMA OtherWritesKeeps ==
  ASSUME Ops, Bulk!OtherWrites
  PROVE  Ops'
<1> USE DEF Ops
<1>1. UNCHANGED <<task, options, calling, returned, polled, waited>>
  BY DEF Bulk!OtherWrites, Bulk!call, Bulk!wait
<1>2. PICK d \in Docs :
        /\ version' = [version EXCEPT ![d] = @ + 1]
        /\ writes' = [writes EXCEPT ![d] = @ + 1]
  BY DEF Bulk!OtherWrites
<1>3. version \in [Docs -> Nat] /\ writes \in [Docs -> Nat]
  BY DEF Written
<1>4. /\ version' \in [Docs -> Nat] /\ writes' \in [Docs -> Nat]
      /\ \A e \in Docs : version'[e] = IF e = d THEN version[e] + 1 ELSE version[e]
      /\ \A e \in Docs : writes'[e] = IF e = d THEN writes[e] + 1 ELSE writes[e]
  BY <1>2, <1>3
<1>5. Written'
  BY <1>1, <1>4 DEF Written
<1>6. Processed'
  BY <1>1, <1>4, TaskDocuments DEF Processed
<1>7. Ended' /\ Called' /\ Polled'
  BY <1>1 DEF Ended, Excused, Called, Polled
<1> QED
  BY <1>5, <1>6, <1>7

\* A call waits for its task or takes its id.
LEMMA ByQueryKeeps ==
  ASSUME Ops, Bulk!ByQuery
  PROVE  Ops'
<1> USE DEF Ops
<1>1. /\ calling = "idle" /\ UNCHANGED <<version, writes, task, options, polled, waited>>
      /\ \/ calling' = "over" /\ returned' = "validation"
         \/ calling' = "flight" /\ returned' = returned
  BY DEF Bulk!ByQuery, Bulk!server, Bulk!wait
<1>2. returned # "nil" /\ returned' # "nil" /\ returned = "none"
  BY <1>1 DEF Called
<1>3. Written' /\ Processed' /\ Ended'
  BY <1>1, ServerUnchanged
<1>4. Called'
  BY <1>1, <1>2 DEF Called
<1>5. Polled'
  BY <1>1, <1>2 DEF Polled
<1> QED
  BY <1>3, <1>4, <1>5

\* What an answer judged complete says, by the operation and by how it waits.
LEMMA JudgedComplete ==
  ASSUME Written, task # Nil, ~options.async, options.op \in {"update", "delete"},
         NEW out \in {Bulk!Counters, Bulk!Nothing}, Bulk!Judged(out) = "nil"
  PROVE  /\ ~task.failed /\ ~task.timedOut
         /\ task.conflicts = {} \/ options.conflicts = "proceed"
<1>1. ~Bulk!UpdateIncomplete(options, out)
  BY DEF Bulk!Judged, Bulk!DeleteIncomplete
<1>2. /\ out.total /\ ~out.failures /\ ~out.timedOut
      /\ options.conflicts = "proceed" \/ ~(out.conflicts > 0)
  BY <1>1 DEF Bulk!UpdateIncomplete
<1>3. out = Bulk!Counters
  BY <1>2 DEF Bulk!Nothing, Bulk!TaskID
<1>4. /\ out.failures = task.failed
      /\ out.timedOut = task.timedOut
      /\ out.conflicts = Cardinality(task.conflicts)
  <2>1. out.failures = task.failed
    BY <1>3, Zenon DEF Bulk!Counters
  <2>2. out.timedOut = task.timedOut
    BY <1>3, Zenon DEF Bulk!Counters
  <2>3. out.conflicts = Bulk!Cardinality(task.conflicts)
    BY <1>3, Zenon DEF Bulk!Counters
  <2>4. Bulk!Cardinality(task.conflicts) = Cardinality(task.conflicts)
    BY DEF Bulk!Cardinality, Cardinality
  <2> QED
    BY <2>1, <2>2, <2>3, <2>4
<1>5. IsFiniteSet(task.conflicts)
  BY TaskDocuments, NilAssumption, FS_Subset
<1>6. Cardinality(task.conflicts) \in Nat
      /\ (Cardinality(task.conflicts) = 0 <=> task.conflicts = {})
  BY <1>5, FS_CardinalityType, FS_EmptySet
<1> QED
  BY <1>2, <1>4, <1>6

\* A call that returns success has read a report without faults.
LEMMA ByQueryReturnsKeeps ==
  ASSUME Ops, Bulk!ByQueryReturns
  PROVE  Ops'
<1> USE DEF Ops
<1>1. /\ calling = "flight" /\ UNCHANGED <<version, writes, task, options, polled, waited>>
      /\ calling' \in {"over", "lost"}
  BY DEF Bulk!ByQueryReturns, Bulk!server, Bulk!wait
<1>2. returned = "none"
  BY <1>1 DEF Called
<1>3. Written' /\ Processed' /\ Ended'
  BY <1>1, ServerUnchanged
<1>4. returned' = "nil" =>
        /\ task # Nil
        /\ ~options.async => /\ task.completed /\ ~task.failed /\ ~task.timedOut /\ ~task.error
                             /\ task.conflicts = {} \/ options.conflicts = "proceed"
  <2> SUFFICES ASSUME returned' = "nil"
      PROVE /\ task # Nil
            /\ ~options.async =>
                 /\ task.completed /\ ~task.failed /\ ~task.timedOut /\ ~task.error
                 /\ task.conflicts = {} \/ options.conflicts = "proceed"
    OBVIOUS
  <2>1. task # Nil /\ (options.async \/ task.completed)
    BY DEF Bulk!ByQueryReturns
  <2>2. PICK out \in {IF options.async THEN Bulk!TaskID ELSE Bulk!Counters, Bulk!Nothing},
             body \in {"json", "garbage", "unread"} :
          LET e == Bulk!Perform(Bulk!Response(IF ~options.async /\ task.error THEN 500 ELSE 200,
                                              body), TRUE)
          IN  returned' = IF e = "nil" THEN Bulk!Judged(out) ELSE e
    BY DEF Bulk!ByQueryReturns
  <2>3. ~options.async => ~task.error /\ Bulk!Judged(out) = "nil"
    <3>1. ASSUME ~options.async, task.error PROVE FALSE
      <4>1. LET e == Bulk!Perform(Bulk!Response(500, body), TRUE)
            IN  returned' = IF e = "nil" THEN Bulk!Judged(out) ELSE e
        BY <2>2, <3>1, ZenonT(60)
      <4>2. Bulk!Perform(Bulk!Response(500, body), TRUE) # "nil"
        BY DEF Bulk!Perform, Bulk!Response, Bulk!Class
      <4> QED
        BY <4>1, <4>2
    <3>2. Bulk!Judged(out) = "nil"
      BY <2>2
    <3> QED
      BY <3>1, <3>2
  <2>4. ASSUME ~options.async
        PROVE  ~task.failed /\ ~task.timedOut
               /\ (task.conflicts = {} \/ options.conflicts = "proceed")
    BY <2>1, <2>2, <2>3, <2>4, JudgedComplete DEF Written
  <2> QED
    BY <2>1, <2>3, <2>4
<1>5. Called'
  BY <1>1, <1>4 DEF Called
<1>6. Polled'
  BY <1>1, <1>2 DEF Polled
<1> QED
  BY <1>3, <1>5, <1>6

\* Waiting for a task returns what its report says.
LEMMA WaitingKeeps ==
  ASSUME Ops, Bulk!WaitTask \/ Bulk!TaskAnswers \/ Bulk!WaitReturns
  PROVE  Ops'
<1> USE DEF Ops
<1>1. UNCHANGED <<version, writes, task, options, calling, returned>>
  BY DEF Bulk!WaitTask, Bulk!TaskAnswers, Bulk!WaitReturns, Bulk!server, Bulk!call
<1>2. Written' /\ Processed' /\ Ended' /\ Called'
  BY <1>1, ServerUnchanged DEF Called
<1>3. Polled'
  <2>1. CASE Bulk!WaitTask
    <3>1. /\ options.async /\ returned = "nil" /\ waited' = "polling" /\ polled' = polled
          /\ polled = Nil
      BY <2>1 DEF Bulk!WaitTask, Bulk!HasID, Polled
    <3> QED
      BY <1>1, <3>1 DEF Polled
  <2>2. CASE Bulk!TaskAnswers
    <3>1. /\ polled' = [completed |-> task.completed, error |-> task.error]
          /\ waited = "polling" /\ waited' = waited
      BY <2>2 DEF Bulk!TaskAnswers
    <3>2. polled'.completed = task.completed /\ polled'.error = task.error
      BY <3>1
    <3> QED
      BY <1>1, <3>1, <3>2 DEF Polled
  <2>3. CASE Bulk!WaitReturns
    <3>1. waited = "polling" /\ polled' = Nil
      BY <2>3 DEF Bulk!WaitReturns
    <3>2. waited' = "nil" => polled # Nil /\ polled.completed /\ ~polled.error
      BY <2>3 DEF Bulk!WaitReturns
    <3> QED
      BY <1>1, <3>1, <3>2 DEF Polled
  <2> QED
    BY <2>1, <2>2, <2>3
<1> QED
  BY <1>2, <1>3

\* A task cancelled is one that says so.
LEMMA CancelTaskKeeps ==
  ASSUME Ops, Bulk!CancelTask
  PROVE  Ops'
<1> USE DEF Ops
<1>1. /\ options.async /\ Bulk!Running /\ task' = [task EXCEPT !.cancelling = TRUE]
      /\ UNCHANGED <<version, writes, options, calling, returned, polled, waited>>
  BY DEF Bulk!CancelTask, Bulk!HasID, Bulk!call, Bulk!wait
<1>2. task # Nil /\ ~task.completed
  BY <1>1, RunningIsOpen
<1>3. PICK matching \in SUBSET Docs : task \in Bulk!Tasks(matching)
  BY <1>2 DEF Written
<1>4. task' \in Bulk!Tasks(matching)
  BY <1>1, <1>3 DEF Bulk!Tasks
<1>5. /\ task'.snapshot = task.snapshot /\ task'.left = task.left /\ task'.done = task.done
      /\ task'.conflicts = task.conflicts /\ task'.completed = task.completed
  BY <1>1, <1>3 DEF Bulk!Tasks
<1>6. Written'
  BY <1>1, <1>4 DEF Written
<1>7. Processed'
  BY <1>1, <1>2, <1>5 DEF Processed
<1>8. Ended'
  BY <1>1, <1>2, <1>5 DEF Ended
<1>9. task' # Nil
  BY <1>4, NilAssumption
<1> QED
  BY <1>1, <1>6, <1>7, <1>8, <1>9, OpenTaskMoves

\* The other parts leave every part but their own absent.
LEMMA OpsStep ==
  ASSUME OpsInv, [Next]_<<part, setup, graph, derived, bulk, case>>
  PROVE  OpsInv'
<1>1. CASE part # "bulk"
  BY <1>1 DEF OpsInv, Next
<1>2. CASE UNCHANGED <<part, bulk>>
  BY <1>2, ServerUnchanged DEF OpsInv, Ops, bulk, Called, Polled
<1>3. CASE part = "bulk" /\ part' = part /\ Bulk!Next
  BY <1>3, TaskStartsKeeps, TaskStepsKeeps, TaskEndsKeeps, OtherWritesKeeps, ByQueryKeeps,
     ByQueryReturnsKeeps, WaitingKeeps, CancelTaskKeeps DEF OpsInv, Bulk!Next
<1> QED
  BY <1>1, <1>2, <1>3 DEF Next

\* The invariant holds in every behaviour.
LEMMA OpsInvariance == Spec => []OpsInv
<1>1. Init => OpsInv
  BY InitOps DEF Init, OpsInv
<1> QED
  BY <1>1, OpsStep, PTL DEF Spec

\* A call by query that reports success has left no document of its snapshot
\* out, but for those its caller let go; a task waited for has ended well.
THEOREM SuccessIsCompleteAlways == Spec => []SuccessIsComplete
<1>1. OpsInv => SuccessIsComplete
  <2> SUFFICES ASSUME Ops PROVE Bulk!SuccessIsComplete
    BY DEF OpsInv, SuccessIsComplete
  <2>1. ASSUME returned = "nil", ~options.async
        PROVE  /\ task.completed
               /\ \A d \in DOMAIN task.snapshot :
                    \/ d \in task.done
                    \/ /\ options.conflicts = "proceed"
                       /\ writes[d] > 0 /\ version[d] > task.snapshot[d]
    <3>1. /\ task # Nil /\ task.completed /\ ~task.failed /\ ~task.timedOut /\ ~task.error
          /\ task.conflicts = {} \/ options.conflicts = "proceed"
      BY <2>1 DEF Ops, Called
    <3>2. task.left = {}
      BY <2>1, <3>1 DEF Ops, Ended, Excused
    <3> QED
      BY <3>1, <3>2 DEF Ops, Processed
  <2> QED
    BY <2>1 DEF Bulk!SuccessIsComplete, Ops, Called, Polled
<1> QED
  BY <1>1, OpsInvariance, PTL
-----------------------------------------------------------------------------
(* Starting a program.                                                     *)

Places == {"connect", "ready", "failed", "ensure", "head", "put", "flight", "ensured",
           "unready", "verify", "verified", "unverified"}

Registered ==
  /\ entries \in Seq(Indices) /\ todo \in Seq(Indices) /\ put \in Indices \union {Nil}
  /\ mapping \in [Indices -> Setup!Mappings \union {Nil}]
  /\ at \in Places
  /\ pos \in 1..(Len(todo) + 1)
  /\ at \in {"head", "put", "flight"} => pos <= Len(todo)
  /\ Setup!IsInjective(entries)

\* What the start is done with exists, and what a PUT has been answered about.
Existing ==
  /\ \A i \in 1..(pos - 1) : mapping[todo[i]] # Nil
  /\ at = "flight" =>
       /\ put \in {todo[pos], Nil}
       /\ answer # Nil =>
            /\ mapping[todo[pos]] # Nil
            /\ Setup!AlreadyExists(answer) \/ answer.status # 400
  /\ at = "unready" => faults

Drifts == {Setup!Drift(Setup!Schema, m) : m \in Setup!Mappings}
HasSchema(m) == \A f \in DOMAIN Setup!Schema : m[f] = Setup!Schema[f]

\* The drifts found so far are those of the indices verified so far.
Compared ==
  /\ at \in {"verify", "verified"} =>
       /\ drift \in Seq(Drifts) /\ Len(drift) = pos - 1
       /\ \A i \in 1..(pos - 1) : Setup!Matches(drift[i]) => HasSchema(mapping[todo[i]])
  /\ at = "verified" => pos > Len(todo)
  /\ at \notin {"verify", "verified", "unverified"} => drift = <<>>

Start == Registered /\ Existing /\ Compared
StartInv == part = "setup" => Start
-----------------------------------------------------------------------------
\* A mapping that is extended stays one, with what it had.
LEMMA MappingsExtend ==
  ASSUME NEW m \in Setup!Mappings
  PROVE  /\ DOMAIN Setup!Schema = {"title", "options"}
         /\ {"title", "options"} \subseteq DOMAIN m /\ m # Nil
         /\ Setup!Extended(m) \in Setup!Mappings /\ Setup!Extended(m) # Nil
         /\ Setup!Extended(m)["title"] = m["title"]
         /\ Setup!Extended(m)["options"] = m["options"]
<1>1. /\ DOMAIN Setup!Schema = {"title", "options"}
      /\ DOMAIN Setup!Guessed = {"title", "options"}
  BY DEF Setup!Schema, Setup!Guessed
<1>2. ASSUME NEW n
      PROVE  /\ DOMAIN Setup!Extended(n) = DOMAIN n \union {"extra"}
             /\ \A f \in DOMAIN n : f # "extra" => Setup!Extended(n)[f] = n[f]
             /\ Setup!Extended(n)["extra"] = "text"
  BY DEF Setup!Extended
<1>3. ASSUME NEW n, "extra" \notin DOMAIN n
      PROVE  Setup!Extended(Setup!Extended(n)) = Setup!Extended(n)
  <2>1. DOMAIN Setup!Extended(n) = DOMAIN n \union {"extra"}
    BY <1>2
  <2>2. Setup!Extended(Setup!Extended(n))
          = [f \in DOMAIN n \union {"extra"} |->
               IF f = "extra" THEN "text" ELSE Setup!Extended(n)[f]]
    BY <2>1 DEF Setup!Extended
  <2>3. \A f \in DOMAIN n \union {"extra"} :
          (IF f = "extra" THEN "text" ELSE Setup!Extended(n)[f])
            = (IF f = "extra" THEN "text" ELSE n[f])
    BY <1>2
  <2> QED
    BY <2>2, <2>3 DEF Setup!Extended
<1>4. m # Nil /\ {"title", "options"} \subseteq DOMAIN m
  BY <1>1, <1>2, NilAssumption, ZenonT(60) DEF Setup!Mappings
<1>5. Setup!Extended(m) \in Setup!Mappings
  <2>1. CASE m \in {Setup!Schema, Setup!Guessed}
    BY <2>1 DEF Setup!Mappings
  <2>2. CASE m \in {Setup!Extended(Setup!Schema), Setup!Extended(Setup!Guessed)}
    BY <1>1, <1>3, <2>2 DEF Setup!Mappings
  <2> QED
    BY <2>1, <2>2 DEF Setup!Mappings
<1> QED
  BY <1>1, <1>2, <1>4, <1>5, NilAssumption

\* A mapping without drift has the schema's fields.
LEMMA NoDrift ==
  ASSUME NEW m \in Setup!Mappings, Setup!Matches(Setup!Drift(Setup!Schema, m))
  PROVE  HasSchema(m)
<1> DEFINE d == Setup!Drift(Setup!Schema, m)
<1>1. DOMAIN d = {"missing", "changed", "extra", "options"}
  BY DEF Setup!Drift
<1>2. d["changed"] = {} /\ d["options"] = {}
  BY <1>1, Zenon DEF Setup!Matches
<1>3. m["options"] = Setup!Schema["options"]
  BY <1>2 DEF Setup!Drift
<1>4. m["title"] = Setup!Schema["title"]
  <2>1. "title" \in (DOMAIN Setup!Schema \ {"options"}) \intersect (DOMAIN m \ {"options"})
    BY MappingsExtend
  <2> QED
    BY <1>2, <2>1 DEF Setup!Drift
<1> QED
  BY <1>3, <1>4, MappingsExtend DEF HasSchema

\* The invariant holds of a program that has not started.
LEMMA InitStart == Setup!Init => Start
<1> SUFFICES ASSUME Setup!Init PROVE Start
  OBVIOUS
<1>1. /\ entries = <<>> /\ todo = <<>> /\ put = Nil /\ pos = 1 /\ at = "connect"
      /\ drift = <<>> /\ mapping \in [Indices -> {Nil, Setup!Schema, Setup!Guessed}]
  BY DEF Setup!Init
<1>2. mapping \in [Indices -> Setup!Mappings \union {Nil}]
  BY <1>1 DEF Setup!Mappings
<1>3. Setup!IsInjective(entries)
  BY <1>1 DEF Setup!IsInjective
<1>4. Registered
  BY <1>1, <1>2, <1>3 DEF Registered, Places
<1>5. Existing /\ Compared
  BY <1>1 DEF Existing, Compared
<1> QED
  BY <1>4, <1>5 DEF Start

\* What is registered is registered once; it touches nothing of the start.
LEMMA AddKeeps ==
  ASSUME Start, Setup!Add
  PROVE  Start'
<1> USE DEF Start
<1>1. UNCHANGED <<at, todo, pos, err, answer, drift, faults, mapping, put>>
  BY DEF Setup!Add, Setup!cluster
<1>2. PICK names \in UNION {[1..k -> Indices \union {Nil}] : k \in 1..2} :
        entries' = IF Setup!Accepts(names) THEN entries \o names ELSE entries
  BY DEF Setup!Add
<1>3. PICK k \in 1..2 : names \in [1..k -> Indices \union {Nil}]
  BY <1>2
<1>4. CASE Setup!Accepts(names)
  <2>1. names \in Seq(Indices)
    <3>1. \A i \in 1..k : names[i] \in Indices
      BY <1>3, <1>4 DEF Setup!Accepts
    <3>2. names \in [1..k -> Indices]
      BY <1>3, <3>1
    <3> QED
      BY <3>2
  <2>2. entries' = entries \o names /\ Setup!IsInjective(entries')
    BY <1>2, <1>4 DEF Setup!Accepts
  <2>3. entries' \in Seq(Indices)
    BY <2>1, <2>2, ConcatProperties DEF Registered
  <2> QED
    BY <1>1, <2>2, <2>3 DEF Registered, Existing, Compared
<1>5. CASE entries' = entries
  BY <1>1, <1>5 DEF Registered, Existing, Compared
<1> QED
  BY <1>2, <1>4, <1>5

\* The server and other programs make mappings and extend them, and unmake none.
LEMMA MappingsStay ==
  ASSUME Start, NEW i \in Indices, NEW m \in Setup!Mappings,
         mapping[i] = Nil \/ m = Setup!Extended(mapping[i]),
         mapping' = [mapping EXCEPT ![i] = m],
         UNCHANGED <<entries, todo, at, pos, drift>>
  PROVE  /\ Compared'
         /\ mapping' \in [Indices -> Setup!Mappings \union {Nil}] /\ mapping'[i] # Nil
         /\ \A j \in Indices : mapping[j] # Nil => mapping'[j] # Nil
         /\ \A j \in 1..(pos - 1) : mapping[todo[j]] # Nil /\ todo[j] \in Indices
<1> USE DEF Start
<1>1. /\ mapping \in [Indices -> Setup!Mappings \union {Nil}] /\ todo \in Seq(Indices)
      /\ pos \in 1..(Len(todo) + 1)
  BY DEF Registered
<1>2. \A j \in Indices : mapping'[j] = IF j = i THEN m ELSE mapping[j]
  BY <1>1
<1>3. \A j \in 1..(pos - 1) : todo[j] \in Indices /\ mapping[todo[j]] # Nil
  BY <1>1 DEF Existing
<1>4. m # Nil
  BY NilAssumption
<1>5. ASSUME NEW j \in Indices, mapping[j] # Nil, HasSchema(mapping[j])
      PROVE  HasSchema(mapping'[j])
  <2>1. CASE j = i
    <3>1. mapping[i] \in Setup!Mappings /\ m = Setup!Extended(mapping[i]) /\ mapping'[j] = m
      BY <1>1, <1>2, <1>5, <2>1
    <3> QED
      BY <1>5, <2>1, <3>1, MappingsExtend DEF HasSchema
  <2>2. CASE j # i
    BY <1>2, <1>5, <2>2
  <2> QED
    BY <2>1, <2>2
<1>6. Compared'
  BY <1>3, <1>5 DEF Compared
<1> QED
  BY <1>1, <1>2, <1>3, <1>4, <1>6

\* An index created from a PUT has the mapping of its entry.
LEMMA ServerCreatesKeeps ==
  ASSUME Start, Setup!ServerCreates
  PROVE  Start'
<1> USE DEF Start
<1>1. /\ put # Nil /\ put' = Nil /\ put \in Indices
      /\ UNCHANGED <<at, todo, pos, err, drift, faults, entries, adds>>
  BY DEF Setup!ServerCreates, Setup!registry, Registered
<1>2. CASE mapping[put] = Nil
  <2>1. mapping' = [mapping EXCEPT ![put] = Setup!Schema] /\ answer'.status = 200
    <3>1. PICK body \in {"json", "garbage"}, acknowledged \in BOOLEAN :
            answer' = [status |-> 200, type |-> "", body |-> body,
                       acknowledged |-> acknowledged]
      BY <1>2 DEF Setup!ServerCreates
    <3> QED
      BY <1>2, <3>1 DEF Setup!ServerCreates
  <2>2. Setup!Schema \in Setup!Mappings
    BY DEF Setup!Mappings
  <2>3. /\ Compared'
        /\ mapping' \in [Indices -> Setup!Mappings \union {Nil}] /\ mapping'[put] # Nil
        /\ \A j \in Indices : mapping[j] # Nil => mapping'[j] # Nil
        /\ \A j \in 1..(pos - 1) : mapping[todo[j]] # Nil /\ todo[j] \in Indices
    BY <1>1, <1>2, <2>1, <2>2, MappingsStay
  <2>4. Registered'
    BY <1>1, <2>3 DEF Registered
  <2>5. Existing'
    BY <1>1, <2>1, <2>3 DEF Existing
  <2> QED
    BY <2>3, <2>4, <2>5
<1>3. CASE mapping[put] # Nil
  <2>1. mapping' = mapping /\ answer'.status = 400
        /\ answer'.type = "resource_already_exists_exception"
    BY <1>3 DEF Setup!ServerCreates
  <2>2. Registered' /\ Compared'
    BY <1>1, <2>1 DEF Registered, Compared
  <2>3. Existing'
    BY <1>1, <1>3, <2>1 DEF Existing, Setup!AlreadyExists
  <2> QED
    BY <2>2, <2>3
<1> QED
  BY <1>2, <1>3

\* Others create what is missing and add fields to what is there.
LEMMA InterferesKeeps ==
  ASSUME Start, Setup!Interferes
  PROVE  Start'
<1> USE DEF Start
<1>1. UNCHANGED <<put, at, todo, pos, err, answer, drift, faults, entries, adds>>
  BY DEF Setup!Interferes, Setup!registry
<1>2. PICK i \in Indices :
        \/ /\ mapping[i] = Nil
           /\ \E m \in {Setup!Schema, Setup!Guessed} : mapping' = [mapping EXCEPT ![i] = m]
        \/ /\ mapping[i] # Nil
           /\ mapping' = [mapping EXCEPT ![i] = Setup!Extended(@)]
  BY DEF Setup!Interferes
<1>3. PICK m \in Setup!Mappings :
        /\ mapping[i] = Nil \/ m = Setup!Extended(mapping[i])
        /\ mapping' = [mapping EXCEPT ![i] = m]
  <2>1. CASE mapping[i] = Nil
    BY <1>2, <2>1 DEF Setup!Mappings
  <2>2. CASE mapping[i] # Nil
    <3>1. mapping[i] \in Setup!Mappings
      BY <2>2 DEF Registered
    <3>2. Setup!Extended(mapping[i]) \in Setup!Mappings
      BY <3>1, MappingsExtend
    <3> QED
      BY <1>2, <2>2, <3>2
  <2> QED
    BY <2>1, <2>2
<1>4. /\ Compared'
      /\ mapping' \in [Indices -> Setup!Mappings \union {Nil}]
      /\ \A j \in Indices : mapping[j] # Nil => mapping'[j] # Nil
      /\ \A j \in 1..(pos - 1) : mapping[todo[j]] # Nil /\ todo[j] \in Indices
  BY <1>1, <1>3, MappingsStay
<1>5. Registered'
  BY <1>1, <1>4 DEF Registered
<1>6. Existing'
  <2>1. at = "flight" => todo[pos] \in Indices
    BY DEF Registered
  <2> QED
    BY <1>1, <1>4, <2>1 DEF Existing
<1> QED
  BY <1>4, <1>5, <1>6
\* Connecting, taking a snapshot, and going on to the next index of it.
LEMMA ProceedsKeeps ==
  ASSUME Start, Setup!Connects \/ Setup!EnsureAll \/ Setup!EnsureNext \/ Setup!VerifyAll
  PROVE  Start'
<1> USE DEF Start
<1>1. UNCHANGED <<entries, adds, mapping, put, drift, answer>>
  BY DEF Setup!Connects, Setup!EnsureAll, Setup!EnsureNext, Setup!VerifyAll, Setup!registry,
         Setup!cluster
<1>2. CASE Setup!Connects
  <2>1. at = "connect" /\ at' \in {"ready", "failed"} /\ UNCHANGED <<todo, pos, faults>>
    BY <1>2 DEF Setup!Connects
  <2>2. Registered'
    BY <1>1, <2>1 DEF Registered, Places
  <2> QED
    BY <1>1, <2>1, <2>2 DEF Existing, Compared
<1>3. CASE Setup!EnsureAll
  <2>1. at = "ready" /\ at' = "ensure" /\ todo' = entries /\ pos' = 1 /\ faults' = faults
    BY <1>3 DEF Setup!EnsureAll
  <2>2. Registered'
    BY <1>1, <2>1 DEF Registered, Places
  <2> QED
    BY <1>1, <2>1, <2>2 DEF Existing, Compared
<1>4. CASE Setup!EnsureNext
  <2>1. /\ at = "ensure" /\ UNCHANGED <<todo, pos>>
        /\ \/ pos <= Len(todo) /\ at' = "head"
           \/ at' = "unready" /\ faults'
           \/ at' = "ensured"
    BY <1>4 DEF Setup!EnsureNext, Setup!Fail
  <2>2. Registered'
    BY <1>1, <2>1 DEF Registered, Places
  <2> QED
    BY <1>1, <2>1, <2>2 DEF Existing, Compared
<1>5. CASE Setup!VerifyAll
  <2>1. /\ at = "ensured" /\ at' \in {"verify", "unverified"} /\ todo' = entries /\ pos' = 1
        /\ faults' = faults
    BY <1>5 DEF Setup!VerifyAll, Setup!Fail
  <2>2. Registered'
    BY <1>1, <2>1 DEF Registered, Places
  <2>3. Existing'
    BY <1>1, <2>1 DEF Existing
  <2>4. Compared'
    BY <1>1, <2>1 DEF Compared
  <2> QED
    BY <2>2, <2>3, <2>4
<1> QED
  BY <1>2, <1>3, <1>4, <1>5

\* EnsureIndex is content with an index only if it exists.
LEMMA EnsureReturnsKeeps ==
  ASSUME Start, at \in {"head", "flight"}, mapping[todo[pos]] # Nil, Setup!EnsureReturns,
         UNCHANGED <<entries, mapping, put, todo, drift, answer>>
  PROVE  Start'
<1> USE DEF Start
<1>1. at' = "ensure" /\ pos' = pos + 1 /\ UNCHANGED faults
  BY DEF Setup!EnsureReturns
<1>2. pos \in 1..Len(todo) /\ Len(todo) \in Nat
  BY DEF Registered
<1>3. Registered'
  BY <1>1, <1>2 DEF Registered, Places
<1>4. Existing'
  BY <1>1, <1>2 DEF Existing
<1>5. Compared'
  BY <1>1 DEF Compared
<1> QED
  BY <1>3, <1>4, <1>5

\* A HEAD finds the index, or EnsureAll goes on to create it.
LEMMA HeadIndexKeeps ==
  ASSUME Start, Setup!HeadIndex
  PROVE  Start'
<1> USE DEF Start
<1>1. /\ at = "head"
      /\ UNCHANGED <<entries, adds, mapping, put, todo, drift, answer>>
  BY DEF Setup!HeadIndex, Setup!registry, Setup!cluster
<1>2. PICK reply \in {Setup!Response(IF mapping[todo[pos]] = Nil THEN 404 ELSE 200, "empty"),
                      Setup!Response(503, "empty"), Setup!TransportError} :
        LET e == Setup!Perform(reply, FALSE) IN
        \/ e = "nil" /\ Setup!EnsureReturns
        \/ e = "notFound" /\ at' = "put" /\ UNCHANGED <<pos, err, faults>>
        \/ e \notin {"nil", "notFound"} /\ Setup!Fail("unready", e) /\ faults' = TRUE
             /\ UNCHANGED pos
  BY DEF Setup!HeadIndex
<1>3. CASE Setup!Perform(reply, FALSE) = "nil" /\ Setup!EnsureReturns
  <2>1. reply # Setup!TransportError
    BY <1>3 DEF Setup!TransportError, Setup!Perform
  <2>2. /\ Setup!Perform(Setup!Response(503, "empty"), FALSE) # "nil"
        /\ Setup!Perform(Setup!Response(404, "empty"), FALSE) # "nil"
    BY DEF Setup!Response, Setup!Perform, Setup!Class
  <2>3. ASSUME mapping[todo[pos]] = Nil PROVE FALSE
    <3>1. reply = Setup!Response(404, "empty") \/ reply = Setup!Response(503, "empty")
      BY <2>1, <2>3
    <3>2. CASE reply = Setup!Response(404, "empty")
      BY <1>3, <2>2, <3>2, Zenon
    <3>3. CASE reply = Setup!Response(503, "empty")
      BY <1>3, <2>2, <3>3, Zenon
    <3> QED
      BY <3>1, <3>2, <3>3
  <2> QED
    BY <1>1, <1>3, <2>3, EnsureReturnsKeeps
<1>4. CASE at' = "put" /\ UNCHANGED <<pos, faults>>
  <2>1. Registered'
    BY <1>1, <1>4 DEF Registered, Places
  <2> QED
    BY <1>1, <1>4, <2>1 DEF Existing, Compared
<1>5. CASE at' = "unready" /\ faults' = TRUE /\ pos' = pos
  <2>1. Registered'
    BY <1>1, <1>5 DEF Registered, Places
  <2> QED
    BY <1>1, <1>5, <2>1 DEF Existing, Compared
<1> QED
  BY <1>2, <1>3, <1>4, <1>5 DEF Setup!Fail

\* A PUT on its way carries the mapping of its entry.
LEMMA PutIndexKeeps ==
  ASSUME Start, Setup!PutIndex
  PROVE  Start'
<1> USE DEF Start
<1>1. /\ at = "put" /\ at' = "flight" /\ put' = todo[pos] /\ answer' = Nil
      /\ UNCHANGED <<entries, adds, mapping, todo, pos, drift, faults>>
  BY DEF Setup!PutIndex, Setup!registry
<1>2. todo[pos] \in Indices
  BY <1>1 DEF Registered
<1>3. Registered'
  BY <1>1, <1>2 DEF Registered, Places
<1> QED
  BY <1>1, <1>3 DEF Existing, Compared

\* A PUT is answered, lost, or says that the index exists.
LEMMA PutReturnsKeeps ==
  ASSUME Start, Setup!PutReturns
  PROVE  Start'
<1> USE DEF Start
<1>1. /\ at = "flight"
      /\ UNCHANGED <<entries, adds, mapping, put, todo, drift, answer>>
  BY DEF Setup!PutReturns, Setup!registry, Setup!cluster
<1>2. CASE answer # Nil /\ Setup!EnsureReturns
  <2>1. mapping[todo[pos]] # Nil
    BY <1>1, <1>2 DEF Existing
  <2> QED
    BY <1>1, <1>2, <2>1, EnsureReturnsKeeps
<1>3. CASE /\ answer # Nil /\ ~Setup!AlreadyExists(answer)
           /\ at' = "unready" /\ pos' = pos /\ faults' = (faults \/ answer.status # 400)
  <2>1. faults'
    BY <1>1, <1>3 DEF Existing
  <2>2. Registered'
    BY <1>1, <1>3 DEF Registered, Places
  <2> QED
    BY <1>1, <1>3, <2>1, <2>2 DEF Existing, Compared
<1>4. CASE at' = "unready" /\ pos' = pos /\ faults' = TRUE
  <2>1. Registered'
    BY <1>1, <1>4 DEF Registered, Places
  <2> QED
    BY <1>1, <1>4, <2>1 DEF Existing, Compared
<1> QED
  BY <1>2, <1>3, <1>4 DEF Setup!PutReturns, Setup!Fail

\* An index that was compared fits from then on.
LEMMA VerifyIndexKeeps ==
  ASSUME Start, Setup!VerifyIndex
  PROVE  Start'
<1> USE DEF Start
<1>1. /\ at = "verify"
      /\ UNCHANGED <<entries, adds, mapping, put, todo, answer, faults>>
  BY DEF Setup!VerifyIndex, Setup!registry, Setup!cluster
<1>2. CASE /\ pos <= Len(todo) /\ mapping[todo[pos]] # Nil
           /\ drift' = Append(drift, Setup!Drift(Setup!Schema, mapping[todo[pos]]))
           /\ pos' = pos + 1 /\ at' = at
  <2> DEFINE m == mapping[todo[pos]]
             d == Setup!Drift(Setup!Schema, m)
  <2>1. pos \in 1..Len(todo) /\ Len(todo) \in Nat /\ todo[pos] \in Indices
    BY <1>2 DEF Registered
  <2>2. m \in Setup!Mappings /\ d \in Drifts
    BY <1>2, <2>1 DEF Registered, Drifts
  <2>3. drift \in Seq(Drifts) /\ Len(drift) = pos - 1
    BY <1>1 DEF Compared
  <2>4. Setup!Matches(d) => HasSchema(m)
    BY <2>2, NoDrift
  <2> HIDE DEF d
  <2>5. /\ drift' = Append(drift, d) /\ drift' \in Seq(Drifts) /\ Len(drift') = pos
        /\ \A i \in 1..(pos - 1) : drift'[i] = drift[i]
        /\ drift'[pos] = d
    BY <1>2, <2>1, <2>2, <2>3 DEF d
  <2>6. Registered'
    BY <1>1, <1>2, <2>1 DEF Registered, Places
  <2>7. Existing'
    BY <1>1, <1>2, <2>1 DEF Existing
  <2>8. \A i \in 1..(pos' - 1) : i \in 1..(pos - 1) \/ i = pos
    BY <1>2, <2>1
  <2>9. \A i \in 1..(pos' - 1) : Setup!Matches(drift'[i]) => HasSchema(mapping'[todo'[i]])
    BY <1>1, <2>4, <2>5, <2>8 DEF Compared
  <2>10. Compared'
    BY <1>1, <1>2, <2>1, <2>5, <2>9 DEF Compared
  <2> QED
    BY <2>6, <2>7, <2>10
<1>3. CASE at' = "unverified" /\ UNCHANGED <<pos, drift>>
  <2>1. Registered'
    BY <1>1, <1>3 DEF Registered, Places
  <2> QED
    BY <1>1, <1>3, <2>1 DEF Existing, Compared
<1>4. CASE pos > Len(todo) /\ at' = "verified" /\ UNCHANGED <<pos, drift>>
  <2>1. Registered'
    BY <1>1, <1>4 DEF Registered, Places
  <2> QED
    BY <1>1, <1>4, <2>1 DEF Existing, Compared
<1> QED
  BY <1>2, <1>3, <1>4 DEF Setup!VerifyIndex, Setup!Fail

\* Every step of any part keeps the invariant.
LEMMA StartStep ==
  ASSUME StartInv, [Next]_<<part, setup, graph, derived, bulk, case>>
  PROVE  StartInv'
<1>1. CASE part # "setup"
  BY <1>1 DEF StartInv, Next
<1>2. CASE UNCHANGED <<part, setup>>
  BY <1>2 DEF StartInv, Start, Registered, Existing, Compared, setup
<1>3. CASE part = "setup" /\ part' = part /\ Setup!Next
  BY <1>3, AddKeeps, ProceedsKeeps, HeadIndexKeeps, PutIndexKeeps, PutReturnsKeeps,
     ServerCreatesKeeps, InterferesKeeps, VerifyIndexKeeps DEF StartInv, Setup!Next
<1> QED
  BY <1>1, <1>2, <1>3 DEF Next

\* EnsureAll and VerifyAll leave a program ready, whatever is registered,
\* created or written meanwhile.
THEOREM StartedIsReadyAlways == Spec => []StartedIsReady
<1>1. Init => StartInv
  BY InitStart DEF Init, StartInv
<1>2. StartInv => StartedIsReady
  <2> SUFFICES ASSUME Start PROVE Setup!StartedIsReady
    BY DEF StartInv, StartedIsReady
  <2>1. ASSUME at = "verified", \A i \in DOMAIN drift : Setup!Matches(drift[i])
        PROVE  \A i \in DOMAIN todo, f \in DOMAIN Setup!Schema :
                 mapping[todo[i]][f] = Setup!Schema[f]
    <3>1. /\ drift \in Seq(Drifts) /\ Len(drift) = pos - 1 /\ pos > Len(todo)
          /\ \A i \in 1..(pos - 1) : Setup!Matches(drift[i]) => HasSchema(mapping[todo[i]])
      BY <2>1 DEF Start, Compared
    <3>2. \A i \in DOMAIN todo : i \in DOMAIN drift /\ i \in 1..(pos - 1)
      BY <3>1 DEF Start, Registered
    <3> QED
      BY <2>1, <3>1, <3>2 DEF HasSchema
  <2> QED
    BY <2>1 DEF Setup!StartedIsReady, Start, Registered, Existing
<1> QED
  BY <1>1, <1>2, StartStep, PTL DEF Spec
-----------------------------------------------------------------------------
(* Deriving searches.                                                      *)

IsSeq(s) == s \in Seq({s[i] : i \in DOMAIN s})
Queries == {"q", "r", "x", "y", Free}
Values == [clauses : [Derived!Clauses -> [array : Nat, len : Nat]], fields : Nat, params : Nat,
           err : BOOLEAN]

\* A value refers to arrays other than its caller's, and to maps, that exist.
Refers(value, as, ms) ==
  /\ \A c \in Derived!Clauses :
       /\ value.clauses[c].array \in 2..Len(as)
       /\ value.clauses[c].len \in 0..Len(as[value.clauses[c].array])
  /\ value.fields \in 1..Len(ms) /\ value.params \in 1..Len(ms)

\* What it means, read from the heap.
Cells(clauses, as) ==
  [c \in Derived!Clauses |-> SubSeq(as[clauses[c].array], 1, clauses[c].len)]
Read(value, as, ms) ==
  [clauses |-> Cells(value.clauses, as),
   fields |-> ms[value.fields], params |-> ms[value.params], err |-> value.err]

Heap ==
  /\ arrays \in Seq(Seq(Queries)) /\ Len(arrays) >= 2 /\ Len(arrays[1]) = 1
  /\ IsSeq(maps)

Searches ==
  /\ values \in Seq(Values) /\ IsSeq(meaning) /\ Len(meaning) = Len(values)
  /\ \A v \in 1..Len(values) : /\ Refers(values[v], arrays, maps)
                               /\ meaning[v] = Read(values[v], arrays, maps)

SearchInv == part = "search" => Heap /\ Searches
-----------------------------------------------------------------------------
\* A sequence is longer by one when something is appended to it.
LEMMA Appended ==
  ASSUME NEW s, IsSeq(s), NEW x
  PROVE  /\ IsSeq(Append(s, x)) /\ Len(s) \in Nat /\ Len(Append(s, x)) = Len(s) + 1
         /\ \A i \in 1..Len(s) : Append(s, x)[i] = s[i]
         /\ Append(s, x)[Len(s) + 1] = x
<1> DEFINE S == {s[i] : i \in DOMAIN s} \union {x}
           t == Append(s, x)
<1>1. s \in Seq(S) /\ x \in S
  <2>1. s \in Seq({s[i] : i \in DOMAIN s})
    BY DEF IsSeq
  <2>2. \A i \in 1..Len(s) : s[i] \in S
    BY <2>1
  <2> QED
    BY <2>1, <2>2
<1> HIDE DEF S
<1>2. /\ t \in Seq(S) /\ Len(s) \in Nat /\ Len(t) = Len(s) + 1
      /\ \A i \in 1..Len(s) : t[i] = s[i]
      /\ t[Len(s) + 1] = x
  BY <1>1
<1> HIDE DEF t
<1>3. IsSeq(t)
  <2>1. \A i \in 1..Len(t) : t[i] \in {t[j] : j \in DOMAIN t}
    BY <1>2
  <2> QED
    BY <1>2, <2>1, SMTT(30) DEF IsSeq
<1> QED
  BY <1>2, <1>3 DEF t

\* The heap only grows, but for the caller's own array.
Grows ==
  /\ Len(arrays) \in Nat /\ Len(arrays') \in Nat /\ Len(arrays') >= Len(arrays)
  /\ \A i \in 2..Len(arrays) : arrays'[i] = arrays[i]
  /\ Len(maps) \in Nat /\ Len(maps') \in Nat /\ Len(maps') >= Len(maps)
  /\ \A i \in 1..Len(maps) : maps'[i] = maps[i]

\* What a value means is not changed by that.
LEMMA ReadStays ==
  ASSUME Grows, NEW value, Refers(value, arrays, maps)
  PROVE  Refers(value, arrays', maps') /\ Read(value, arrays', maps') = Read(value, arrays, maps)
<1>1. \A c \in Derived!Clauses :
        /\ value.clauses[c].array \in 2..Len(arrays)
        /\ arrays'[value.clauses[c].array] = arrays[value.clauses[c].array]
  BY DEF Grows, Refers
<1>2. /\ value.fields \in 1..Len(maps) /\ value.params \in 1..Len(maps)
      /\ maps'[value.fields] = maps[value.fields] /\ maps'[value.params] = maps[value.params]
  BY DEF Grows, Refers
<1>3. Refers(value, arrays', maps')
  <2>1. value.fields \in 1..Len(maps') /\ value.params \in 1..Len(maps')
    BY <1>2 DEF Grows
  <2>2. ASSUME NEW c \in Derived!Clauses
        PROVE  /\ value.clauses[c].array \in 2..Len(arrays')
               /\ value.clauses[c].len \in 0..Len(arrays'[value.clauses[c].array])
    <3>1. value.clauses[c].len \in 0..Len(arrays[value.clauses[c].array])
      BY DEF Refers
    <3>2. value.clauses[c].array \in 2..Len(arrays')
      BY <1>1 DEF Grows
    <3> QED
      BY <1>1, <3>1, <3>2
  <2> QED
    BY <2>1, <2>2 DEF Refers
<1>4. Cells(value.clauses, arrays') = Cells(value.clauses, arrays)
  BY <1>1 DEF Cells
<1> QED
  BY <1>2, <1>3, <1>4 DEF Read

\* A value is a record.
LEMMA ValueRecords ==
  ASSUME Searches, NEW v \in 1..Len(values)
  PROVE  \E clauses \in [Derived!Clauses -> [array : Nat, len : Nat]], f \in Nat, p \in Nat,
            e \in BOOLEAN :
           values[v] = [clauses |-> clauses, fields |-> f, params |-> p, err |-> e]
<1>1. values[v] \in Values
  BY DEF Searches
<1> QED
  BY <1>1, Zenon DEF Values

\* A value derived onto a heap that only grows leaves the others alone.
LEMMA DeriveKeeps ==
  ASSUME Searches, Grows, NEW value \in Values, NEW means,
         values' = Append(values, value), meaning' = Append(meaning, means),
         Refers(value, arrays', maps'), means = Read(value, arrays', maps')
  PROVE  Searches'
<1>1. /\ values' \in Seq(Values) /\ Len(values') = Len(values) + 1 /\ Len(values) \in Nat
      /\ \A v \in 1..Len(values) : values'[v] = values[v]
      /\ values'[Len(values) + 1] = value
  BY DEF Searches
<1>2. /\ IsSeq(meaning') /\ Len(meaning') = Len(meaning) + 1
      /\ \A v \in 1..Len(meaning) : meaning'[v] = meaning[v]
      /\ meaning'[Len(meaning) + 1] = means
  BY Appended DEF Searches
<1>3. ASSUME NEW v \in 1..Len(values')
      PROVE  /\ Refers(values'[v], arrays', maps')
             /\ meaning'[v] = Read(values'[v], arrays', maps')
  <2>1. CASE v \in 1..Len(values)
    <3>1. Refers(values[v], arrays, maps) /\ meaning[v] = Read(values[v], arrays, maps)
      BY <2>1 DEF Searches
    <3>2. /\ Refers(values[v], arrays', maps')
          /\ Read(values[v], arrays', maps') = Read(values[v], arrays, maps)
      BY <3>1, ReadStays
    <3>3. values'[v] = values[v] /\ meaning'[v] = meaning[v]
      BY <1>1, <1>2, <2>1 DEF Searches
    <3> QED
      BY <3>1, <3>2, <3>3
  <2>2. CASE v = Len(values) + 1
    BY <1>1, <1>2, <2>2 DEF Searches
  <2>3. v \in 1..Len(values) \/ v = Len(values) + 1
    BY <1>1
  <2> QED
    BY <2>1, <2>2, <2>3
<1> QED
  BY <1>1, <1>2, <1>3 DEF Searches

\* At first no value has been derived.
LEMMA InitSearches == Derived!Init => Heap /\ Searches
<1> SUFFICES ASSUME Derived!Init PROVE Heap /\ Searches
  OBVIOUS
<1>1. arrays = << <<"q">>, <<>> >> /\ maps = <<>> /\ values = <<>> /\ meaning = <<>>
  BY DEF Derived!Init
<1>2. <<"q">> \in Seq(Queries) /\ <<>> \in Seq(Queries)
  BY DEF Queries
<1>3. IsSeq(<<>>)
  BY DEF IsSeq
<1>4. arrays \in Seq(Seq(Queries)) /\ Len(arrays) = 2 /\ Len(arrays[1]) = 1
  BY <1>1, <1>2
<1> QED
  BY <1>1, <1>3, <1>4 DEF Heap, Searches

\* A value that differs from another one in its options, its parameters or its
\* error, and what it means.
DerivesFields(v, m) ==
  /\ arrays' = arrays /\ maps' = Append(maps, m)
  /\ values' = Append(values, [values[v] EXCEPT !.fields = Len(maps) + 1])
  /\ meaning' = Append(meaning, [meaning[v] EXCEPT !.fields = m])
DerivesParams(v, m) ==
  /\ arrays' = arrays /\ maps' = Append(maps, m)
  /\ values' = Append(values, [values[v] EXCEPT !.params = Len(maps) + 1])
  /\ meaning' = Append(meaning, [meaning[v] EXCEPT !.params = m])
DerivesError(v, refused) ==
  /\ arrays' = arrays /\ maps' = maps
  /\ values' = Append(values, [values[v] EXCEPT !.err = refused])
  /\ meaning' = Append(meaning, [meaning[v] EXCEPT !.err = refused])

\* A map of its own for the options of a search derived from another ...
LEMMA FieldsKeep ==
  ASSUME Heap, Searches, NEW v \in 1..Len(values), NEW m,
         DerivesFields(v, m)
  PROVE  Heap' /\ Searches'
<1>1. /\ IsSeq(maps') /\ Len(maps) \in Nat /\ Len(maps') = Len(maps) + 1
      /\ \A i \in 1..Len(maps) : maps'[i] = maps[i]
      /\ maps'[Len(maps) + 1] = m /\ arrays' = arrays
  BY Appended DEF Heap, DerivesFields
<1>2. Heap' /\ Grows
  BY <1>1 DEF Heap, Grows
<1>3. PICK clauses \in [Derived!Clauses -> [array : Nat, len : Nat]], f \in Nat, p \in Nat,
           e \in BOOLEAN :
        values[v] = [clauses |-> clauses, fields |-> f, params |-> p, err |-> e]
  BY ValueRecords
<1> DEFINE value == [clauses |-> clauses, fields |-> Len(maps) + 1, params |-> p, err |-> e]
           means == [clauses |-> Cells(clauses, arrays'), fields |-> m,
                     params |-> maps'[p], err |-> e]
<1>4. values' = Append(values, value)
  BY <1>3 DEF DerivesFields
<1>5. /\ Refers(values[v], arrays, maps) /\ meaning[v] = Read(values[v], arrays, maps)
      /\ Refers(values[v], arrays', maps')
      /\ Read(values[v], arrays', maps') = Read(values[v], arrays, maps)
  BY <1>2, ReadStays DEF Searches
<1>6. meaning' = Append(meaning, means)
  <2>1. meaning[v] = [clauses |-> Cells(clauses, arrays'), fields |-> maps'[f],
                      params |-> maps'[p], err |-> e]
    BY <1>3, <1>5 DEF Read
  <2>2. meaning' = Append(meaning, [meaning[v] EXCEPT !.fields = m])
    BY DEF DerivesFields
  <2> QED
    BY <2>1, <2>2, SMTT(30)
<1>7. value \in Values
  BY <1>1 DEF Values
<1>8. Refers(value, arrays', maps')
  BY <1>1, <1>3, <1>5 DEF Refers
<1>9. means = Read(value, arrays', maps')
  BY <1>1 DEF Read
<1> HIDE DEF value, means
<1> QED
  BY <1>2, <1>4, <1>6, <1>7, <1>8, <1>9, DeriveKeeps

\* ... or for its parameters.
LEMMA ParamsKeep ==
  ASSUME Heap, Searches, NEW v \in 1..Len(values), NEW m,
         DerivesParams(v, m)
  PROVE  Heap' /\ Searches'
<1>1. /\ IsSeq(maps') /\ Len(maps) \in Nat /\ Len(maps') = Len(maps) + 1
      /\ \A i \in 1..Len(maps) : maps'[i] = maps[i]
      /\ maps'[Len(maps) + 1] = m /\ arrays' = arrays
  BY Appended DEF Heap, DerivesParams
<1>2. Heap' /\ Grows
  BY <1>1 DEF Heap, Grows
<1>3. PICK clauses \in [Derived!Clauses -> [array : Nat, len : Nat]], f \in Nat, p \in Nat,
           e \in BOOLEAN :
        values[v] = [clauses |-> clauses, fields |-> f, params |-> p, err |-> e]
  BY ValueRecords
<1> DEFINE value == [clauses |-> clauses, fields |-> f, params |-> Len(maps) + 1, err |-> e]
           means == [clauses |-> Cells(clauses, arrays'), fields |-> maps'[f],
                     params |-> m, err |-> e]
<1>4. values' = Append(values, value)
  BY <1>3 DEF DerivesParams
<1>5. /\ Refers(values[v], arrays, maps) /\ meaning[v] = Read(values[v], arrays, maps)
      /\ Refers(values[v], arrays', maps')
      /\ Read(values[v], arrays', maps') = Read(values[v], arrays, maps)
  BY <1>2, ReadStays DEF Searches
<1>6. meaning' = Append(meaning, means)
  <2>1. meaning[v] = [clauses |-> Cells(clauses, arrays'), fields |-> maps'[f],
                      params |-> maps'[p], err |-> e]
    BY <1>3, <1>5 DEF Read
  <2>2. meaning' = Append(meaning, [meaning[v] EXCEPT !.params = m])
    BY DEF DerivesParams
  <2> QED
    BY <2>1, <2>2
<1>7. value \in Values
  BY <1>1 DEF Values
<1>8. Refers(value, arrays', maps')
  BY <1>1, <1>3, <1>5 DEF Refers
<1>9. means = Read(value, arrays', maps')
  BY <1>1 DEF Read
<1> HIDE DEF value, means
<1> QED
  BY <1>2, <1>4, <1>6, <1>7, <1>8, <1>9, DeriveKeeps

\* A value with an error, its own or its parent's.
LEMMA ErrorKeeps ==
  ASSUME Heap, Searches, NEW v \in 1..Len(values), NEW x \in BOOLEAN, DerivesError(v, x)
  PROVE  Heap' /\ Searches'
<1>1. arrays' = arrays /\ maps' = maps
  BY DEF DerivesError
<1>2. Heap' /\ Grows
  BY <1>1 DEF Heap, Grows, IsSeq
<1>3. PICK clauses \in [Derived!Clauses -> [array : Nat, len : Nat]], f \in Nat, p \in Nat,
           e \in BOOLEAN :
        values[v] = [clauses |-> clauses, fields |-> f, params |-> p, err |-> e]
  BY ValueRecords
<1> DEFINE value == [clauses |-> clauses, fields |-> f, params |-> p, err |-> x]
           means == [clauses |-> Cells(clauses, arrays), fields |-> maps[f],
                     params |-> maps[p], err |-> x]
<1>4. values' = Append(values, value)
  BY <1>3 DEF DerivesError
<1>5. Refers(values[v], arrays, maps) /\ meaning[v] = Read(values[v], arrays, maps)
  BY DEF Searches
<1>6. meaning' = Append(meaning, means)
  <2>1. meaning[v] = [clauses |-> Cells(clauses, arrays), fields |-> maps[f],
                      params |-> maps[p], err |-> e]
    BY <1>3, <1>5 DEF Read
  <2>2. meaning' = Append(meaning, [meaning[v] EXCEPT !.err = x])
    BY DEF DerivesError
  <2> QED
    BY <2>1, <2>2
<1>7. value \in Values
  BY DEF Values
<1>8. Refers(value, arrays', maps')
  BY <1>1, <1>3, <1>5 DEF Refers
<1>9. means = Read(value, arrays', maps')
  BY <1>1 DEF Read
<1> HIDE DEF value, means
<1> QED
  BY <1>2, <1>4, <1>6, <1>7, <1>8, <1>9, DeriveKeeps

\* A copy of a value means what the value means.
LEMMA SameKeeps ==
  ASSUME Heap, Searches, NEW v \in 1..Len(values), arrays' = arrays, maps' = maps,
         values' = Append(values, values[v]), meaning' = Append(meaning, meaning[v])
  PROVE  Heap' /\ Searches'
<1>1. Heap' /\ Grows
  BY DEF Heap, Grows, IsSeq
<1>2. /\ values[v] \in Values /\ Refers(values[v], arrays, maps)
      /\ meaning[v] = Read(values[v], arrays, maps)
  BY DEF Searches
<1> QED
  BY <1>1, <1>2, DeriveKeeps

\* Search.With and all that sets an option, a parameter or an error.
LEMMA OptionsKeep ==
  ASSUME Heap, Searches, NEW v \in 1..Len(values),
         \/ Derived!With(v) \/ Derived!Refuse(v) \/ Derived!Param(v)
         \/ Derived!Aggregate(v) \/ Derived!HybridRRF(v)
  PROVE  Heap' /\ Searches'
<1>1. /\ meaning[v].fields = maps[values[v].fields]
      /\ meaning[v].params = maps[values[v].params]
  <2>1. meaning[v] = Read(values[v], arrays, maps)
    BY DEF Searches
  <2> QED
    BY <2>1 DEF Read
<1>2. CASE \E m : DerivesFields(v, m)
  BY <1>2, FieldsKeep
<1>3. CASE \E m : DerivesParams(v, m)
  BY <1>3, ParamsKeep
<1>4. CASE DerivesError(v, TRUE)
  BY <1>4, ErrorKeeps
<1>5. CASE /\ arrays' = arrays /\ maps' = maps
           /\ values' = Append(values, values[v]) /\ meaning' = Append(meaning, meaning[v])
  BY <1>5, SameKeeps
<1>6. CASE Derived!With(v) /\ ~values[v].err
  <2>1. PICK key, x :
          /\ arrays' = arrays
          /\ maps' = Append(maps, Derived!Set(maps[values[v].fields], key, x))
          /\ values' = Append(values, [values[v] EXCEPT !.fields = Len(maps) + 1])
          /\ meaning' = Append(meaning,
               [meaning[v] EXCEPT !.fields = Derived!Set(meaning[v].fields, key, x)])
    BY <1>6, Zenon DEF Derived!With, Derived!Cloned, Derived!Derive, Derived!NewMap
  <2>2. DerivesFields(v, Derived!Set(maps[values[v].fields], key, x))
    BY <1>1, <2>1, Zenon DEF DerivesFields
  <2> QED
    BY <1>2, <2>2
<1>7. CASE Derived!Param(v) /\ ~values[v].err
  <2>1. PICK x \in 1..2 :
          /\ arrays' = arrays
          /\ maps' = Append(maps, Derived!Set(maps[values[v].params], "routing", x))
          /\ values' = Append(values, [values[v] EXCEPT !.params = Len(maps) + 1])
          /\ meaning' = Append(meaning,
               [meaning[v] EXCEPT !.params = Derived!Set(meaning[v].params, "routing", x)])
    BY <1>7, Zenon DEF Derived!Param, Derived!Cloned, Derived!Derive, Derived!NewMap
  <2>2. DerivesParams(v, Derived!Set(maps[values[v].params], "routing", x))
    BY <1>1, <2>1, Zenon DEF DerivesParams
  <2> QED
    BY <1>3, <2>2
<1>8. CASE Derived!Aggregate(v)
  <2>1. PICK name \in Derived!Names :
          /\ arrays' = arrays
          /\ maps' = Append(maps, Derived!Aggregated(maps[values[v].fields], name))
          /\ values' = Append(values, [values[v] EXCEPT !.fields = Len(maps) + 1])
          /\ meaning' = Append(meaning,
               [meaning[v] EXCEPT !.fields = Derived!Aggregated(meaning[v].fields, name)])
    BY <1>8, Zenon DEF Derived!Aggregate, Derived!Cloned, Derived!Derive, Derived!NewMap
  <2>2. DerivesFields(v, Derived!Aggregated(maps[values[v].fields], name))
    BY <1>1, <2>1, Zenon DEF DerivesFields
  <2> QED
    BY <1>2, <2>2
<1>9. CASE Derived!HybridRRF(v)
  <2> DEFINE Combined(fields) ==
        Derived!Set(Derived!Without(fields, {"query", "knn"}), "retriever", 1)
  <2>1. /\ arrays' = arrays
        /\ maps' = Append(maps, Combined(maps[values[v].fields]))
        /\ values' = Append(values, [values[v] EXCEPT !.fields = Len(maps) + 1])
        /\ meaning' = Append(meaning,
             [meaning[v] EXCEPT !.fields = Combined(meaning[v].fields)])
    BY <1>9, Zenon DEF Derived!HybridRRF, Derived!Cloned, Derived!Derive, Derived!NewMap
  <2>2. DerivesFields(v, Combined(maps[values[v].fields]))
    BY <1>1, <2>1, Zenon DEF DerivesFields
  <2> QED
    BY <1>2, <2>2
<1>10. CASE Derived!Refuse(v)
  BY <1>4, <1>10, Zenon DEF Derived!Refuse, Derived!Derive, DerivesError
<1>11. CASE (Derived!With(v) \/ Derived!Param(v)) /\ values[v].err
  <2>1. /\ arrays' = arrays /\ maps' = maps
        /\ values' = Append(values, values[v]) /\ meaning' = Append(meaning, meaning[v])
    BY <1>11, Zenon DEF Derived!With, Derived!Param, Derived!Derive
  <2> QED
    BY <1>5, <2>1
<1> QED
  BY <1>6, <1>7, <1>8, <1>9, <1>10, <1>11, Zenon

\* The beginning of an array that was made by appending to it.
LEMMA Prefixes ==
  ASSUME NEW t \in Seq(Queries), NEW q \in Queries
  PROVE  /\ t \o <<q>> \in Seq(Queries) /\ Len(t \o <<q>>) = Len(t) + 1
         /\ SubSeq(t \o <<q>>, 1, Len(t)) = t
         /\ t \o <<q, Free>> \in Seq(Queries) /\ Len(t \o <<q, Free>>) = Len(t) + 2
         /\ SubSeq(t \o <<q, Free>>, 1, Len(t) + 1) = Append(t, q)
<1>1. /\ <<q>> \in Seq(Queries) /\ <<q, Free>> \in Seq(Queries)
      /\ Len(<<q>>) = 1 /\ Len(<<q, Free>>) = 2 /\ Len(t) \in Nat
  BY DEF Queries
<1> DEFINE s == t \o <<q>>
           u == t \o <<q, Free>>
<1>2. /\ s \in Seq(Queries) /\ Len(s) = Len(t) + 1
      /\ \A i \in 1..Len(t) : s[i] = t[i]
  BY <1>1, ConcatProperties
<1>3. /\ u \in Seq(Queries) /\ Len(u) = Len(t) + 2
      /\ \A i \in 1..Len(t) : u[i] = t[i]
      /\ u[Len(t) + 1] = q
  BY <1>1, ConcatProperties
<1> HIDE DEF s, u
<1>4. SubSeq(s, 1, Len(t)) = t
  <2>1. /\ SubSeq(s, 1, Len(t)) \in Seq(Queries) /\ Len(SubSeq(s, 1, Len(t))) = Len(t)
        /\ \A i \in 1..Len(t) : SubSeq(s, 1, Len(t))[i] = s[i]
    BY <1>1, <1>2, SubSeqProperties
  <2> QED
    BY <1>1, <1>2, <2>1, SeqEqual
<1>5. SubSeq(u, 1, Len(t) + 1) = Append(t, q)
  <2>1. /\ SubSeq(u, 1, Len(t) + 1) \in Seq(Queries)
        /\ Len(SubSeq(u, 1, Len(t) + 1)) = Len(t) + 1
        /\ \A i \in 1..(Len(t) + 1) : SubSeq(u, 1, Len(t) + 1)[i] = u[i]
    BY <1>1, <1>3, SubSeqProperties
  <2>2. /\ Append(t, q) \in Seq(Queries) /\ Len(Append(t, q)) = Len(t) + 1
        /\ \A i \in 1..(Len(t) + 1) : Append(t, q)[i] = IF i = Len(t) + 1 THEN q ELSE t[i]
    BY <1>1
  <2>3. \A i \in 1..(Len(t) + 1) : i \in 1..Len(t) \/ i = Len(t) + 1
    BY <1>1
  <2> QED
    BY <1>1, <1>3, <2>1, <2>2, <2>3, SeqEqual
<1> QED
  BY <1>2, <1>3, <1>4, <1>5 DEF s, u

\* A new array leaves those there as they are.
LEMMA Allocated ==
  ASSUME Heap, NEW u \in Seq(Queries), arrays' = Append(arrays, u)
  PROVE  /\ arrays' \in Seq(Seq(Queries))
         /\ Len(arrays) \in Nat /\ Len(arrays) >= 2 /\ Len(arrays') = Len(arrays) + 1
         /\ \A i \in 1..Len(arrays) : arrays'[i] = arrays[i]
         /\ arrays'[Len(arrays) + 1] = u
BY AppendProperties DEF Heap

\* The cells of a value's clause, a value (or its meaning) with another clause,
\* and a value derived with one more cell.
Own(v, c) == SubSeq(arrays[values[v].clauses[c].array], 1, values[v].clauses[c].len)
Changed(r, c, x) == [r EXCEPT !.clauses[c] = x]
Replaced(clauses, c, x) == [clauses EXCEPT ![c] = x]
Record(clauses, f, p, e) == [clauses |-> clauses, fields |-> f, params |-> p, err |-> e]
DerivesClause(v, c, q) ==
  /\ arrays' = Append(arrays, Own(v, c) \o <<q, Free>>) /\ maps' = maps
  /\ values' = Append(values, Changed(values[v], c,
                 [array |-> Len(arrays) + 1, len |-> values[v].clauses[c].len + 1]))
  /\ meaning' = Append(meaning, Changed(meaning[v], c, Append(meaning[v].clauses[c], q)))

\* Adding a clause replaces one slice of the value by a longer one.
LEMMA AddsClause ==
  ASSUME NEW v, Derived!AddClause(v)
  PROVE  \E c \in Derived!Clauses, q \in {"x", "y"} : DerivesClause(v, c, q)
BY DEF Derived!AddClause, Derived!AppendToClone, Derived!Derive, Derived!Slice, Derived!Cells,
       DerivesClause, Own, Changed

\* A value with one clause list replaced, field by field.
LEMMA ChangedRecord ==
  ASSUME NEW r, NEW clauses, NEW f, NEW p, NEW e, NEW c, NEW x, r = Record(clauses, f, p, e)
  PROVE  Changed(r, c, x) = Record(Replaced(clauses, c, x), f, p, e)
BY DEF Changed, Replaced, Record

\* The heap after a clause has been added to an array of its own ...
LEMMA ClauseGrows ==
  ASSUME Heap, Searches, NEW v \in 1..Len(values), NEW c \in Derived!Clauses,
         NEW q \in {"x", "y"}, DerivesClause(v, c, q)
  PROVE  /\ Heap' /\ Grows /\ maps' = maps
         /\ Len(arrays) \in Nat /\ Len(arrays) >= 2 /\ Len(arrays') = Len(arrays) + 1
         /\ Own(v, c) \in Seq(Queries) /\ Len(Own(v, c)) = values[v].clauses[c].len
         /\ Len(arrays'[Len(arrays) + 1]) = Len(Own(v, c)) + 2
         /\ SubSeq(arrays'[Len(arrays) + 1], 1, Len(Own(v, c)) + 1) = Append(Own(v, c), q)
<1>1. Own(v, c) \in Seq(Queries) /\ Len(Own(v, c)) = values[v].clauses[c].len
  <2>1. Refers(values[v], arrays, maps)
    BY DEF Searches
  <2>2. /\ values[v].clauses[c].array \in 2..Len(arrays) /\ Len(arrays) \in Nat
        /\ values[v].clauses[c].len \in 0..Len(arrays[values[v].clauses[c].array])
    BY <2>1 DEF Refers, Heap
  <2>3. arrays[values[v].clauses[c].array] \in Seq(Queries)
    BY <2>2, SMTT(30) DEF Heap
  <2> QED
    BY <2>2, <2>3, SubSeqProperties, SMTT(30) DEF Own
<1> DEFINE s == Own(v, c)
           u == s \o <<q, Free>>
<1>2. u \in Seq(Queries) /\ Len(u) = Len(s) + 2 /\ SubSeq(u, 1, Len(s) + 1) = Append(s, q)
  BY <1>1, Prefixes DEF Queries
<1>3. arrays' = Append(arrays, u) /\ maps' = maps
  BY DEF DerivesClause
<1> HIDE DEF u, s
<1>4. /\ arrays' \in Seq(Seq(Queries))
      /\ Len(arrays) \in Nat /\ Len(arrays) >= 2 /\ Len(arrays') = Len(arrays) + 1
      /\ \A i \in 1..Len(arrays) : arrays'[i] = arrays[i]
      /\ arrays'[Len(arrays) + 1] = u
  BY <1>2, <1>3, Allocated
<1>5. Len(arrays[1]) = 1 /\ IsSeq(maps) /\ Len(maps) \in Nat
  BY DEF Heap, IsSeq
<1>6. IsSeq(maps')
  BY <1>3, <1>5
<1>7. Heap'
  <2>1. 1 \in 1..Len(arrays) /\ Len(arrays') >= 2
    BY <1>4
  <2>2. arrays'[1] = arrays[1]
    BY <1>4, <2>1, Zenon
  <2> QED
    BY <1>4, <1>5, <1>6, <2>1, <2>2, Zenon DEF Heap
<1>8. Grows
  BY <1>3, <1>4, <1>5 DEF Grows
<1> QED
  BY <1>1, <1>2, <1>3, <1>4, <1>7, <1>8 DEF s

\* ... and the value.
LEMMA ClauseKeeps ==
  ASSUME Heap, Searches, NEW v \in 1..Len(values), NEW c \in Derived!Clauses,
         NEW q \in {"x", "y"}, DerivesClause(v, c, q)
  PROVE  Heap' /\ Searches'
<1>1. PICK clauses \in [Derived!Clauses -> [array : Nat, len : Nat]], f \in Nat, p \in Nat,
           e \in BOOLEAN :
        values[v] = [clauses |-> clauses, fields |-> f, params |-> p, err |-> e]
  BY ValueRecords
<1> DEFINE s == Own(v, c)
           slice == [array |-> Len(arrays) + 1, len |-> clauses[c].len + 1]
           added == [clauses EXCEPT ![c] = slice]
           value == [clauses |-> added, fields |-> f, params |-> p, err |-> e]
           cells == Cells(clauses, arrays')
           means == [clauses |-> [cells EXCEPT ![c] = Append(@, q)],
                     fields |-> maps'[f], params |-> maps'[p], err |-> e]
<1>2. /\ Heap' /\ Grows /\ maps' = maps
      /\ Len(arrays) \in Nat /\ Len(arrays) >= 2 /\ Len(arrays') = Len(arrays) + 1
      /\ s \in Seq(Queries) /\ Len(s) = clauses[c].len
      /\ Len(arrays'[Len(arrays) + 1]) = Len(s) + 2
      /\ SubSeq(arrays'[Len(arrays) + 1], 1, Len(s) + 1) = Append(s, q)
  BY <1>1, ClauseGrows, SMTT(30)
<1>3. /\ Refers(values[v], arrays, maps) /\ meaning[v] = Read(values[v], arrays, maps)
      /\ Refers(values[v], arrays', maps')
      /\ Read(values[v], arrays', maps') = Read(values[v], arrays, maps)
  BY <1>2, ReadStays DEF Searches
<1>4. values' = Append(values, value)
  <2>1. values' = Append(values, Changed(values[v], c,
                    [array |-> Len(arrays) + 1, len |-> values[v].clauses[c].len + 1]))
    BY DEF DerivesClause
  <2>2. values[v].clauses[c].len = clauses[c].len
    BY <1>1
  <2>3. values[v] = Record(clauses, f, p, e)
    BY <1>1, Zenon DEF Record
  <2>4. Changed(values[v], c, slice) = Record(Replaced(clauses, c, slice), f, p, e)
    <3> HIDE DEF slice
    <3> QED
      BY <2>3, ChangedRecord
  <2>5. Changed(values[v], c, slice) = value
    BY <2>4, Zenon DEF Record, Replaced
  <2> QED
    BY <2>1, <2>2, <2>5, Zenon
<1>5. meaning[v] = [clauses |-> cells, fields |-> maps'[f], params |-> maps'[p], err |-> e]
  BY <1>1, <1>3 DEF Read
<1>6. meaning' = Append(meaning, means)
  <2> HIDE DEF cells
  <2>1. meaning' = Append(meaning, Changed(meaning[v], c, Append(meaning[v].clauses[c], q)))
    BY DEF DerivesClause
  <2>2. meaning[v].clauses = cells
    BY <1>5
  <2> DEFINE x == Append(cells[c], q)
             g == maps'[f]
             h == maps'[p]
  <2>3. meaning[v] = Record(cells, g, h, e)
    BY <1>5, Zenon DEF Record
  <2>4. Changed(meaning[v], c, x) = Record(Replaced(cells, c, x), g, h, e)
    <3> HIDE DEF x, g, h, cells
    <3> QED
      BY <2>3, ChangedRecord
  <2>5. Changed(meaning[v], c, x) = means
    BY <2>4, Zenon DEF Record, Replaced
  <2> QED
    BY <2>1, <2>2, <2>5, Zenon
<1>7. cells[c] = s
  <2>1. Cells(clauses, arrays) = Cells(clauses, arrays')
    BY <1>1, <1>3 DEF Read
  <2>2. Cells(clauses, arrays)[c] = s
    BY <1>1 DEF Cells, Own
  <2> QED
    BY <2>1, <2>2
<1> HIDE DEF s
<1>8. /\ slice \in [array : Nat, len : Nat]
      /\ slice.array = Len(arrays) + 1 /\ slice.len = Len(s) + 1
  BY <1>2
<1> HIDE DEF slice
<1>9. /\ added \in [Derived!Clauses -> [array : Nat, len : Nat]]
      /\ added[c] = slice /\ \A k \in Derived!Clauses : k # c => added[k] = clauses[k]
  BY <1>8
<1> HIDE DEF added
<1>10. value \in Values
  BY <1>9 DEF Values
<1>11. Refers(value, arrays', maps')
  <2>1. f \in 1..Len(maps') /\ p \in 1..Len(maps')
    BY <1>1, <1>3 DEF Refers
  <2>2. ASSUME NEW k \in Derived!Clauses
        PROVE  /\ added[k].array \in 2..Len(arrays')
               /\ added[k].len \in 0..Len(arrays'[added[k].array])
    <3>1. CASE k = c
      <4>1. added[k].array = Len(arrays) + 1 /\ added[k].len = Len(s) + 1
        BY <1>8, <1>9, <3>1
      <4>2. /\ Len(arrays) + 1 \in 2..Len(arrays')
            /\ Len(s) + 1 \in 0..Len(arrays'[Len(arrays) + 1])
        <5>1. /\ Len(arrays) \in Nat /\ Len(arrays) >= 2 /\ Len(arrays') = Len(arrays) + 1
              /\ Len(arrays'[Len(arrays) + 1]) = Len(s) + 2
          BY <1>2, Zenon
        <5>2. Len(s) \in Nat
          BY <1>2
        <5>3. Len(arrays) + 1 \in 2..Len(arrays')
          BY <5>1
        <5>4. \A n \in Nat : n + 1 \in 0..(n + 2)
          OBVIOUS
        <5> QED
          BY <5>1, <5>2, <5>3, <5>4, Zenon
      <4> QED
        BY <4>1, <4>2, Zenon
    <3>2. CASE k # c
      <4>1. /\ clauses[k].array \in 2..Len(arrays')
            /\ clauses[k].len \in 0..Len(arrays'[clauses[k].array])
        BY <1>1, <1>3 DEF Refers
      <4> QED
        BY <1>9, <3>2, <4>1
    <3> QED
      BY <3>1, <3>2
  <2> QED
    BY <2>1, <2>2 DEF Refers
<1>12. [cells EXCEPT ![c] = Append(@, q)] = Cells(added, arrays')
  <2>1. ASSUME NEW k \in Derived!Clauses
        PROVE  SubSeq(arrays'[added[k].array], 1, added[k].len)
                 = IF k = c THEN Append(cells[c], q) ELSE cells[k]
    <3>1. CASE k = c
      <4>1. added[k].array = Len(arrays) + 1 /\ added[k].len = Len(s) + 1
        BY <1>8, <1>9, <3>1
      <4> QED
        BY <1>2, <1>7, <3>1, <4>1
    <3>2. CASE k # c
      <4>1. added[k] = clauses[k]
        BY <1>9, <3>2
      <4>2. cells[k] = SubSeq(arrays'[clauses[k].array], 1, clauses[k].len)
        BY DEF Cells
      <4> QED
        BY <3>2, <4>1, <4>2
    <3> QED
      BY <3>1, <3>2
  <2>2. cells = [k \in Derived!Clauses |-> cells[k]]
    BY DEF Cells
  <2> HIDE DEF cells
  <2> QED
    BY <2>1, <2>2 DEF Cells
<1>13. means = Read(value, arrays', maps')
  <2> HIDE DEF cells
  <2> QED
    BY <1>12 DEF Read
<1> HIDE DEF value, means
<1> QED
  BY <1>2, <1>4, <1>6, <1>10, <1>11, <1>13, DeriveKeeps

\* Find takes its caller's queries over into an array of its own.
LEMMA FindKeeps ==
  ASSUME Heap, Searches, Derived!Find
  PROVE  Heap' /\ Searches'
<1>1. PICK n \in 0..1 :
        /\ arrays' = Append(arrays, SubSeq(arrays[1], 1, n) \o <<Free>>)
        /\ Derived!Derive([clauses |-> [c \in Derived!Clauses |->
                             IF c = "must" THEN Derived!Slice(Len(arrays) + 1, n)
                             ELSE Derived!NoCells],
                           fields |-> Derived!NewMap, params |-> Derived!NewMap + 1,
                           err |-> FALSE],
                          [clauses |-> [c \in Derived!Clauses |->
                             IF c = "must" THEN SubSeq(arrays[1], 1, n) ELSE <<>>],
                           fields |-> Derived!Defaults, params |-> <<>>, err |-> FALSE])
  BY DEF Derived!Find
<1>2. maps' = maps \o <<Derived!Defaults, <<>> >>
  BY DEF Derived!Find
<1> DEFINE s == SubSeq(arrays[1], 1, n)
           clauses == [c \in Derived!Clauses |->
                         IF c = "must" THEN Derived!Slice(Len(arrays) + 1, n)
                         ELSE Derived!NoCells]
           value == [clauses |-> clauses, fields |-> Len(maps) + 1, params |-> Len(maps) + 2,
                     err |-> FALSE]
           means == [clauses |-> [c \in Derived!Clauses |-> IF c = "must" THEN s ELSE <<>>],
                     fields |-> Derived!Defaults, params |-> <<>>, err |-> FALSE]
<1>3. /\ IsSeq(maps') /\ Len(maps) \in Nat /\ Len(maps') = Len(maps) + 2
      /\ \A i \in 1..Len(maps) : maps'[i] = maps[i]
      /\ maps'[Len(maps) + 1] = Derived!Defaults /\ maps'[Len(maps) + 2] = <<>>
  <2>1. Len(maps) \in Nat /\ maps' = Append(Append(maps, Derived!Defaults), <<>>)
    <3> DEFINE S == {maps[i] : i \in DOMAIN maps} \union {Derived!Defaults, <<>>}
    <3>1. maps \in Seq(S)
      <4>1. maps \in Seq({maps[i] : i \in DOMAIN maps})
        BY DEF Heap, IsSeq
      <4>2. \A i \in 1..Len(maps) : maps[i] \in S
        BY <4>1
      <4> QED
        BY <4>1, <4>2
    <3>2. Derived!Defaults \in S /\ <<>> \in S
      OBVIOUS
    <3> HIDE DEF S
    <3> DEFINE d == Derived!Defaults
    <3> HIDE DEF d
    <3>3. d \in S
      BY <3>2 DEF d
    <3>4. maps \o <<d, <<>> >> = Append(Append(maps, d), <<>>) /\ Len(maps) \in Nat
      BY <3>1, <3>2, <3>3
    <3> QED
      BY <1>2, <3>4 DEF d
  <2> DEFINE t == Append(maps, Derived!Defaults)
  <2>2. /\ IsSeq(t) /\ Len(t) = Len(maps) + 1
        /\ \A i \in 1..Len(maps) : t[i] = maps[i]
        /\ t[Len(maps) + 1] = Derived!Defaults
    BY Appended DEF Heap
  <2>3. maps' = Append(t, <<>>)
    BY <2>1
  <2> HIDE DEF t
  <2>4. /\ IsSeq(maps') /\ Len(maps') = Len(t) + 1
        /\ \A i \in 1..Len(t) : maps'[i] = t[i]
        /\ maps'[Len(t) + 1] = <<>>
    BY <2>2, <2>3, Appended
  <2>5. \A i \in 1..(Len(maps) + 1) : maps'[i] = t[i]
    BY <2>1, <2>2, <2>4
  <2>6. /\ \A i \in 1..Len(maps) : i \in 1..(Len(maps) + 1)
        /\ Len(maps) + 1 \in 1..(Len(maps) + 1) /\ Len(maps) + 1 + 1 = Len(maps) + 2
    BY <2>1
  <2> QED
    BY <2>1, <2>2, <2>4, <2>5, <2>6
<1>4. s \in Seq(Queries) /\ Len(s) = n
  <2>1. arrays[1] \in Seq(Queries) /\ Len(arrays[1]) = 1
    BY DEF Heap
  <2> QED
    BY <2>1, SubSeqProperties
<1>5. /\ s \o <<Free>> \in Seq(Queries) /\ Len(s \o <<Free>>) = n + 1
      /\ SubSeq(s \o <<Free>>, 1, n) = s
  BY <1>4, Prefixes DEF Queries
<1>6. /\ arrays' \in Seq(Seq(Queries)) /\ Len(arrays') = Len(arrays) + 1
      /\ \A i \in 1..Len(arrays) : arrays'[i] = arrays[i]
      /\ arrays'[Len(arrays) + 1] = s \o <<Free>> /\ Len(arrays) \in Nat /\ Len(arrays) >= 2
  <2> HIDE DEF s
  <2> QED
    BY <1>1, <1>5 DEF Heap, s
<1>7. Heap' /\ Grows
  <2>1. Len(arrays[1]) = 1
    BY DEF Heap
  <2>2. Heap'
    <3>1. arrays'[1] = arrays[1] /\ Len(arrays') >= 2
      BY <1>6
    <3> QED
      BY <1>3, <1>6, <2>1, <3>1, Zenon DEF Heap
  <2>3. Grows
    BY <1>3, <1>6 DEF Grows
  <2> QED
    BY <2>2, <2>3
<1>8. values' = Append(values, value) /\ meaning' = Append(meaning, means)
  BY <1>1, <1>3 DEF Derived!Derive, Derived!NewMap
<1>9. /\ clauses["must"] = [array |-> Len(arrays) + 1, len |-> n]
      /\ \A c \in Derived!Clauses : c # "must" => clauses[c] = [array |-> 2, len |-> 0]
      /\ clauses \in [Derived!Clauses -> [array : Nat, len : Nat]]
  BY <1>6 DEF Derived!Slice, Derived!NoCells, Derived!Clauses
<1> HIDE DEF clauses, s
<1>10. value \in Values
  BY <1>3, <1>9 DEF Values
<1>11. Refers(value, arrays', maps')
  <2>1. value.fields \in 1..Len(maps') /\ value.params \in 1..Len(maps')
    BY <1>3
  <2>2. ASSUME NEW c \in Derived!Clauses
        PROVE  /\ clauses[c].array \in 2..Len(arrays')
               /\ clauses[c].len \in 0..Len(arrays'[clauses[c].array])
    <3>1. CASE c = "must"
      BY <1>5, <1>6, <1>9, <3>1, SMTT(30)
    <3>2. CASE c # "must"
      <4>1. Len(arrays'[2]) \in Nat
        BY <1>6
      <4> QED
        BY <1>6, <1>9, <3>2, <4>1
    <3> QED
      BY <3>1, <3>2
  <2> QED
    BY <2>1, <2>2 DEF Refers
<1>12. [c \in Derived!Clauses |-> IF c = "must" THEN s ELSE <<>>] = Cells(clauses, arrays')
  <2>1. ASSUME NEW c \in Derived!Clauses
        PROVE  SubSeq(arrays'[clauses[c].array], 1, clauses[c].len)
                 = IF c = "must" THEN s ELSE <<>>
    <3>1. CASE c = "must"
      BY <1>5, <1>6, <1>9, <3>1, SMTT(30)
    <3>2. CASE c # "must"
      <4>1. SubSeq(arrays'[2], 1, 0) = <<>>
        BY SubSeqEmpty
      <4> QED
        BY <1>9, <3>2, <4>1
    <3> QED
      BY <3>1, <3>2
  <2> QED
    BY <2>1 DEF Cells
<1>13. means = Read(value, arrays', maps')
  BY <1>3, <1>12 DEF Read
<1> HIDE DEF value, means
<1> QED
  BY <1>7, <1>8, <1>10, <1>11, <1>13, DeriveKeeps

\* The caller writes only to its own array.
LEMMA CallerWritesKeeps ==
  ASSUME Heap, Searches, Derived!CallerWrites
  PROVE  Heap' /\ Searches'
<1>1. PICK q \in {"q", "r"} : arrays' = [arrays EXCEPT ![1] = <<q>>]
  BY DEF Derived!CallerWrites
<1>2. maps' = maps /\ values' = values /\ meaning' = meaning
  BY DEF Derived!CallerWrites
<1>3. <<q>> \in Seq(Queries) /\ Len(<<q>>) = 1
  BY DEF Queries
<1>4. /\ arrays' \in Seq(Seq(Queries)) /\ Len(arrays') = Len(arrays) /\ Len(arrays) \in Nat
      /\ arrays'[1] = <<q>> /\ \A i \in 2..Len(arrays) : arrays'[i] = arrays[i]
  BY <1>1, <1>3 DEF Heap
<1>5. Heap' /\ Grows
  BY <1>2, <1>3, <1>4 DEF Heap, Grows, IsSeq
<1>6. ASSUME NEW v \in 1..Len(values)
      PROVE  Refers(values[v], arrays', maps') /\ meaning[v] = Read(values[v], arrays', maps')
  BY <1>5, ReadStays DEF Searches
<1> QED
  BY <1>2, <1>5, <1>6 DEF Searches, IsSeq

\* Every step of any part keeps the invariant.
LEMMA SearchStep ==
  ASSUME SearchInv, [Next]_<<part, setup, graph, derived, bulk, case>>
  PROVE  SearchInv'
<1>1. CASE part # "search"
  BY <1>1 DEF SearchInv, Next
<1>2. CASE UNCHANGED <<part, derived>>
  BY <1>2 DEF SearchInv, Heap, Searches, IsSeq, derived
<1>3. CASE part = "search" /\ part' = part /\ Derived!Next
  <2>1. Heap /\ Searches /\ DOMAIN values = 1..Len(values)
    BY <1>3 DEF SearchInv, Searches
  <2> QED
    BY <1>3, <2>1, FindKeeps, CallerWritesKeeps, AddsClause, ClauseKeeps, OptionsKeep
    DEF SearchInv, Derived!Next
<1> QED
  BY <1>1, <1>2, <1>3 DEF Next

\* What is derived from a search, done with it or done with its caller's slices
\* does not change what the search means.
THEOREM BuildersIndependentAlways == Spec => []BuildersIndependent
<1>1. Init => SearchInv
  BY InitSearches DEF Init, SearchInv
<1>2. SearchInv => BuildersIndependent
  <2> SUFFICES ASSUME Searches, NEW v \in DOMAIN values
      PROVE  /\ \A c \in Derived!Clauses :
                  Derived!Cells(values[v].clauses[c]) = meaning[v].clauses[c]
             /\ maps[values[v].fields] = meaning[v].fields
             /\ maps[values[v].params] = meaning[v].params
             /\ values[v].err = meaning[v].err
    BY DEF SearchInv, BuildersIndependent, Derived!BuildersIndependent
  <2>1. meaning[v] = Read(values[v], arrays, maps)
    BY DEF Searches
  <2>2. /\ meaning[v].clauses = Cells(values[v].clauses, arrays)
        /\ meaning[v].fields = maps[values[v].fields]
        /\ meaning[v].params = maps[values[v].params]
    BY <2>1 DEF Read
  <2>3. values[v].err = meaning[v].err
    BY <2>1 DEF Read
  <2> QED
    BY <2>2, <2>3 DEF Cells, Derived!Cells
<1> QED
  BY <1>1, <1>2, SearchStep, PTL DEF Spec

-----------------------------------------------------------------------------
(* Induction and recursion on numbers.                                     *)

\* A set of numbers that has 0, and with each number the next, has all.
LEMMA Induction ==
  ASSUME NEW T, 0 \in T, \A n \in Nat : n \in T => n + 1 \in T
  PROVE  Nat \subseteq T
<1> SUFFICES ASSUME Nat \ T # {} PROVE FALSE
  OBVIOUS
<1>1. PICK m \in Nat \ T : \A n \in Nat \ T : <<n, m>> \notin OpToRel(<, Nat)
  <2>1. Nat \ T \subseteq Nat
    OBVIOUS
  <2> QED
    BY <2>1, WFMin, NatLessThanWellFounded
<1>2. \A n \in Nat \ T : ~(n < m)
  BY <1>1 DEF OpToRel
<1>3. m # 0
  OBVIOUS
<1>4. m - 1 \in Nat
  BY <1>3
<1>5. m - 1 \in T
  BY <1>2, <1>4
<1> QED
  BY <1>4, <1>5

\* What follows a value and a rule for the next one, up to a number.
Follows(f, n, S, b, G) ==
  /\ f \in [0..n -> S] /\ f[0] = b
  /\ \A i \in 0..(n - 1) : f[i + 1] = G[<<i, f[i]>>]

\* ... and without end.
Continues(f, S, b, G) ==
  f \in [Nat -> S] /\ f[0] = b /\ \A n \in Nat : f[n + 1] = G[<<n, f[n]>>]

\* A first value and a rule for the next one make a function on the numbers.
LEMMA Recursion ==
  ASSUME NEW S, NEW b \in S, NEW G \in [Nat \X S -> S]
  PROVE  \E f : Continues(f, S, b, G)
<1> DEFINE To(f, n) == Follows(f, n, S, b, G)
           Reached == {n \in Nat : \E f : To(f, n)}
           Agreed == {i \in Nat : \A m, n \in Nat : \A f, g :
                        To(f, m) /\ To(g, n) /\ i <= m /\ i <= n => f[i] = g[i]}
           f == [n \in Nat |-> (CHOOSE g : To(g, n))[n]]
<1>1. Nat \subseteq Reached
  <2>1. 0 \in Reached
    <3>1. To([i \in 0..0 |-> b], 0)
      BY DEF Follows
    <3> QED
      BY <3>1
  <2>2. ASSUME NEW n \in Nat, n \in Reached PROVE n + 1 \in Reached
    <3>1. PICK g : To(g, n)
      BY <2>2
    <3> DEFINE h == [i \in 0..(n + 1) |-> IF i = n + 1 THEN G[<<n, g[n]>>] ELSE g[i]]
    <3>2. g \in [0..n -> S] /\ g[0] = b /\ \A i \in 0..(n - 1) : g[i + 1] = G[<<i, g[i]>>]
      BY <3>1 DEF Follows
    <3>3. G[<<n, g[n]>>] \in S
      BY <3>2
    <3>4. h \in [0..(n + 1) -> S]
      BY <3>2, <3>3
    <3>5. h[0] = b
      BY <3>2
    <3>6. ASSUME NEW i \in 0..(n + 1 - 1) PROVE h[i + 1] = G[<<i, h[i]>>]
      <4>1. CASE i = n
        <5>1. h[n + 1] = G[<<n, g[n]>>] /\ h[n] = g[n]
          OBVIOUS
        <5> QED
          BY <4>1, <5>1
      <4>2. CASE i # n
        <5>1. i \in 0..(n - 1) /\ h[i + 1] = g[i + 1] /\ h[i] = g[i]
          BY <4>2
        <5> QED
          BY <3>2, <5>1
      <4> QED
        BY <4>1, <4>2
    <3> HIDE DEF h
    <3>7. To(h, n + 1)
      BY <3>4, <3>5, <3>6 DEF Follows
    <3> QED
      BY <3>7
  <2> QED
    BY <2>1, <2>2, Induction
<1>2. Nat \subseteq Agreed
  <2>1. 0 \in Agreed
    BY DEF Follows
  <2>2. ASSUME NEW i \in Nat, i \in Agreed PROVE i + 1 \in Agreed
    <3> SUFFICES ASSUME NEW m \in Nat, NEW n \in Nat, NEW g, NEW h, To(g, m), To(h, n),
                        i + 1 <= m, i + 1 <= n
                 PROVE  g[i + 1] = h[i + 1]
      OBVIOUS
    <3>1. g[i] = h[i]
      BY <2>2
    <3>2. i \in 0..(m - 1) /\ i \in 0..(n - 1)
      OBVIOUS
    <3> QED
      BY <3>1, <3>2 DEF Follows
  <2> QED
    BY <2>1, <2>2, Induction
<1>3. ASSUME NEW n \in Nat PROVE To(CHOOSE g : To(g, n), n)
  BY <1>1
<1>4. ASSUME NEW n \in Nat, NEW g, To(g, n) PROVE f[n] = g[n]
  <2>1. To(CHOOSE h : To(h, n), n)
    BY <1>3
  <2> QED
    BY <1>2, <1>4, <2>1
<1>5. f \in [Nat -> S]
  <2>1. ASSUME NEW n \in Nat PROVE f[n] \in S
    <3>1. To(CHOOSE g : To(g, n), n)
      BY <1>3
    <3>2. n \in 0..n
      OBVIOUS
    <3> QED
      BY <3>1, <3>2 DEF Follows
  <2> QED
    BY <2>1
<1>6. f[0] = b
  <2>1. To(CHOOSE h : To(h, 0), 0)
    BY <1>3
  <2> QED
    BY <2>1 DEF Follows
<1>7. ASSUME NEW n \in Nat PROVE f[n + 1] = G[<<n, f[n]>>]
  <2>1. PICK g : To(g, n + 1)
    BY <1>1
  <2>2. f[n + 1] = g[n + 1]
    BY <1>4, <2>1
  <2>3. To(CHOOSE h : To(h, n), n)
    BY <1>3
  <2>4. f[n] = g[n]
    BY <1>2, <2>1, <2>3
  <2>5. g[n + 1] = G[<<n, g[n]>>]
    BY <2>1 DEF Follows
  <2> QED
    BY <2>2, <2>4, <2>5
<1> QED
  BY <1>5, <1>6, <1>7 DEF Continues

-----------------------------------------------------------------------------
(* Numbers.                                                                *)

\* The case of an arithmetic part stays the one given.
GivenCase ==
  given \in [kind : {"page"}, page : Count!Ints, size : Count!Ints,
             total : {0, 7, Count!MaxInt}]
       \union [kind : {"delay"}, initial : {-1} \union 0..Count!MaxInt,
               maximum : {-1} \union 0..Count!MaxInt, retries : {-1, W, 21}]
       \union [kind : {"timeout"}, duration : Count!Ints]
CountInv == part = "numbers" => GivenCase /\ Count!NumbersStayInRange
-----------------------------------------------------------------------------
\* Powers.
LEMMA Powers ==
  /\ Count!Pow2[0] = 1
  /\ \A n \in Nat : Count!Pow2[n] \in Nat \ {0} /\ Count!Pow2[n + 1] = 2 * Count!Pow2[n]
<1> DEFINE G == [p \in Nat \X Nat |-> 2 * p[2]]
<1>1. PICK f : Continues(f, Nat, 1, G)
  <2>1. G \in [Nat \X Nat -> Nat]
    OBVIOUS
  <2> HIDE DEF G
  <2> QED
    BY <2>1, Recursion
<1>2. f = [n \in Nat |-> IF n = 0 THEN 1 ELSE 2 * f[n - 1]]
  <2>1. ASSUME NEW n \in Nat, n # 0 PROVE f[n] = 2 * f[n - 1]
    <3>1. n - 1 \in Nat /\ n - 1 + 1 = n
      BY <2>1
    <3> QED
      BY <1>1, <3>1 DEF Continues
  <2> QED
    BY <1>1, <2>1 DEF Continues
<1>3. Count!Pow2 = [n \in Nat |-> IF n = 0 THEN 1 ELSE 2 * Count!Pow2[n - 1]]
  BY <1>2 DEF Count!Pow2
<1>4. Count!Pow2[0] = 1
  BY <1>3
<1>5. ASSUME NEW n \in Nat PROVE Count!Pow2[n + 1] = 2 * Count!Pow2[n]
  BY <1>3
<1> DEFINE T == {n \in Nat : Count!Pow2[n] \in Nat \ {0}}
<1>6. Nat \subseteq T
  <2>1. ASSUME NEW n \in Nat, n \in T PROVE n + 1 \in T
    BY <1>5, <2>1
  <2>2. 0 \in T
    BY <1>4
  <2> HIDE DEF T
  <2> QED
    BY <2>1, <2>2, Induction
<1> QED
  BY <1>4, <1>5, <1>6

\* Division and remainder.
LEMMA Division ==
  ASSUME NEW a \in Nat, NEW n \in Nat \ {0}
  PROVE  /\ a \div n \in Nat /\ a % n \in 0..(n - 1)
         /\ a = n * (a \div n) + (a % n)
         /\ a < n => a % n = a
OBVIOUS

\* What is at most a quotient, multiplied, is at most what was divided.
LEMMA Products ==
  ASSUME NEW a \in Nat, NEW n \in Nat \ {0}, NEW p \in Nat \ {0}, p <= a \div n
  PROVE  /\ p * n \in Nat /\ p * n <= a
         /\ (p - 1) * n \in Nat /\ (p - 1) * n = p * n - n
<1> DEFINE q == a \div n
<1>1. q \in Nat /\ a >= n * q
  BY Division
<1> HIDE DEF q
<1>2. p <= q
  BY DEF q
<1>3. PICK k \in Nat : q = p + k
  <2>1. q - p \in Nat /\ q = p + (q - p)
    BY <1>1, <1>2
  <2> QED
    BY <2>1
<1>4. n * q = p * n + k * n /\ k * n \in Nat
  BY <1>3
<1>5. p * n \in Nat /\ (p - 1) * n = p * n - n
  OBVIOUS
<1>6. p * n <= a
  BY <1>1, <1>4, <1>5
<1>7. (p - 1) * n \in Nat
  <2>1. p - 1 \in Nat
    OBVIOUS
  <2> QED
    BY <2>1
<1> QED
  BY <1>5, <1>6, <1>7

\* The largest integer, and how many there are.
LEMMA Words ==
  /\ Count!MaxInt \in Nat \ {0}
  /\ Count!Pow2[W] = 2 * (Count!MaxInt + 1)
  /\ Count!Ints = (-Count!MaxInt - 1)..Count!MaxInt
<1>1. W \in Nat \ {0, 1}
  BY LibraryAssumption
<1>2. W - 1 \in Nat /\ W - 2 \in Nat /\ W - 1 + 1 = W /\ W - 2 + 1 = W - 1
  BY <1>1
<1>3. Count!Pow2[W] = 2 * Count!Pow2[W - 1] /\ Count!Pow2[W - 1] = 2 * Count!Pow2[W - 2]
  BY <1>2, Powers
<1>4. Count!Pow2[W - 1] \in Nat \ {0} /\ Count!Pow2[W - 2] \in Nat \ {0}
  BY <1>2, Powers
<1> QED
  BY <1>3, <1>4 DEF Count!MaxInt, Count!Ints

\* An integer in range does not wrap.
LEMMA InRange ==
  ASSUME NEW x \in Int, -Count!MaxInt - 1 <= x, x <= Count!MaxInt
  PROVE  Count!Wrap(x) = x
<1>1. x + Count!MaxInt + 1 \in Nat /\ 2 * (Count!MaxInt + 1) \in Nat \ {0}
  BY Words
<1>2. x + Count!MaxInt + 1 < 2 * (Count!MaxInt + 1)
  BY Words
<1>3. (x + Count!MaxInt + 1) % (2 * (Count!MaxInt + 1)) = x + Count!MaxInt + 1
  BY <1>1, <1>2, Division
<1> QED
  BY <1>3, Words DEF Count!Wrap

\* The least and the greatest of two.
LEMMA Extremes ==
  ASSUME NEW x \in Int, NEW y \in Int
  PROVE  /\ Count!Min({x, y}) = IF x <= y THEN x ELSE y
         /\ Count!Max({x, y}) = IF x <= y THEN y ELSE x
<1>1. CASE x <= y
  BY <1>1 DEF Count!Min, Count!Max
<1>2. CASE ~(x <= y)
  BY <1>2 DEF Count!Min, Count!Max
<1> QED
  BY <1>1, <1>2

\* A page begins after those before it, and what follows it is left.
LEMMA PageKeeps ==
  ASSUME GivenCase, Count!Page
  PROVE  Count!NumbersStayInRange'
<1> DEFINE M == Count!MaxInt
           page == given.page
           size == given.size
           total == given.total
           start == (page - 1) * size
           from == Count!Wrap(Count!Wrap(page - 1) * size)
           next == Count!Wrap(from + Count!Len(from, size, total)) < total
<1>1. given.kind = "page" /\ UNCHANGED given
  BY DEF Count!Page
<1>2. page \in Count!Ints /\ size \in Count!Ints /\ total \in {0, 7, M}
  BY <1>1 DEF GivenCase
<1>3. M \in Nat \ {0} /\ page \in Int /\ size \in Int /\ total \in Nat /\ page <= M /\ size <= M
  BY <1>2, Words
<1>4. result' = IF Count!PageRefuses(page, size) \/ from < 0 THEN [err |-> "validation"]
                ELSE [err |-> "nil", from |-> from, hasNext |-> next]
  BY DEF Count!Page
<1>5. CASE Count!PageRefuses(page, size) \/ from < 0
  <2>1. result'.err = "validation"
    BY <1>4, <1>5
  <2> QED
    BY <2>1 DEF Count!NumbersStayInRange
<1>6. CASE ~(Count!PageRefuses(page, size) \/ from < 0)
  <2>1. result'.from = from /\ result'.hasNext = next
    BY <1>4, <1>6
  <2>2. page \in Nat \ {0} /\ size \in Nat \ {0} /\ page <= M \div size
    <3>1. page >= 1 /\ size >= 1
      BY <1>3, <1>6 DEF Count!PageRefuses
    <3>2. M \div size \in Nat
      <4>1. M \in Nat /\ size \in Nat \ {0}
        BY <1>3, <3>1
      <4> HIDE DEF M, size
      <4> QED
        BY <4>1, Division
    <3> QED
      BY <1>3, <1>6, <3>1, <3>2 DEF Count!PageRefuses
  <2>3. /\ page * size \in Nat /\ page * size <= M
        /\ start \in Nat /\ start = page * size - size
    BY <1>3, <2>2, Products
  <2> HIDE DEF M, start, page, size, total
  <2>4. Count!Wrap(page - 1) = page - 1
    BY <1>3, <2>2, InRange DEF M
  <2>5. Count!Wrap(start) = start
    BY <1>3, <2>2, <2>3, InRange DEF M
  <2>6. from = start
    BY <2>4, <2>5 DEF start
  <2> HIDE DEF from
  <2>7. next = (page * size < total)
    <3>1. CASE total - start <= 0
      <4>1. Count!Min({size, total - start}) = total - start
        BY <1>3, <2>2, <2>3, <3>1, Extremes
      <4>2. Count!Len(start, size, total) = 0
        <5>1. Count!Max({0, total - start}) = 0
          BY <1>3, <2>3, <3>1, Extremes
        <5> QED
          BY <4>1, <5>1 DEF Count!Len
      <4> QED
        BY <1>3, <2>2, <2>3, <2>5, <2>6, <3>1, <4>2
    <3>2. CASE total - start > 0
      <4> DEFINE len == IF size <= total - start THEN size ELSE total - start
      <4>1. Count!Min({size, total - start}) = len
        BY <1>3, <2>2, <2>3, <3>2, Extremes
      <4>2. len \in Nat \ {0}
        BY <1>3, <2>2, <2>3, <3>2
      <4>3. Count!Len(start, size, total) = len
        <5> HIDE DEF len
        <5>1. Count!Max({0, len}) = len
          BY <4>2, Extremes
        <5> QED
          BY <4>1, <5>1 DEF Count!Len
      <4>4. start + len \in Nat /\ start + len <= M
        BY <1>2, <1>3, <2>2, <2>3, <3>2 DEF total, M
      <4>5. Count!Wrap(start + len) = start + len
        BY <1>3, <4>4, InRange DEF M
      <4>6. (start + len < total) = (page * size < total)
        BY <1>3, <2>2, <2>3, <3>2
      <4> QED
        BY <2>6, <4>3, <4>5, <4>6
    <3> QED
      BY <1>3, <2>3, <3>1, <3>2
  <2> QED
    BY <1>1, <2>1, <2>6, <2>7 DEF Count!NumbersStayInRange, start, page, size, total
<1> QED
  BY <1>5, <1>6

\* Doubling stops at the limit before it could exceed it.
LEMMA Doubling ==
  ASSUME NEW d \in Nat, NEW limit \in Nat, d <= limit, limit <= Count!MaxInt
  PROVE  Count!Doubled(d, limit) = IF 2 * d <= limit THEN 2 * d ELSE limit
<1>1. Count!Half(limit) \in Nat /\ limit = 2 * Count!Half(limit) + (limit % 2) /\ limit % 2 \in 0..1
  BY Division DEF Count!Half
<1>2. CASE 2 * d <= limit
  <2>1. ~(d > Count!Half(limit))
    BY <1>1, <1>2
  <2>2. Count!Wrap(d * 2) = d * 2
    BY <1>2, Words, InRange
  <2> QED
    BY <1>2, <2>1, <2>2 DEF Count!Doubled
<1>3. CASE ~(2 * d <= limit)
  <2>1. d > Count!Half(limit)
    BY <1>1, <1>3
  <2> QED
    BY <1>3, <2>1 DEF Count!Doubled
<1> QED
  BY <1>2, <1>3

\* The delay doubles with each attempt up to its limit.
LEMMA Doublings ==
  ASSUME NEW initial, NEW maximum, NEW attempt \in Nat,
         Count!Or(initial, DefaultInitial) \in Nat,
         Count!Or(maximum, DefaultMaximum) \in Nat,
         Count!Or(maximum, DefaultMaximum) <= Count!MaxInt
  PROVE  Count!Backoff(initial, maximum, attempt) =
           Count!Min({Count!Or(initial, DefaultInitial) * Count!Pow2[attempt],
                      Count!Or(maximum, DefaultMaximum)})
<1> DEFINE first == Count!Or(initial, DefaultInitial)
           limit == Count!Or(maximum, DefaultMaximum)
           exact(n) == Count!Min({first * Count!Pow2[n], limit})
           d == [n \in 0..attempt |-> exact(n)]
           Is(f) == f = [n \in 0..attempt |-> IF n = 0 THEN Count!Min({first, limit})
                                              ELSE Count!Doubled(f[n - 1], limit)]
<1>1. first \in Nat /\ limit \in Nat /\ limit <= Count!MaxInt
  OBVIOUS
<1>2. Count!Backoff(initial, maximum, attempt) = (CHOOSE f : Is(f))[attempt]
  BY DEF Count!Backoff
<1> HIDE DEF first, limit
<1>3. ASSUME NEW n \in Nat
      PROVE  /\ exact(n) = IF first * Count!Pow2[n] <= limit THEN first * Count!Pow2[n] ELSE limit
             /\ first * Count!Pow2[n] \in Nat
             /\ exact(n) \in Nat /\ exact(n) <= limit
  <2>1. first * Count!Pow2[n] \in Nat
    BY <1>1, Powers
  <2>2. exact(n) = IF first * Count!Pow2[n] <= limit THEN first * Count!Pow2[n] ELSE limit
    BY <1>1, <2>1, Extremes
  <2> QED
    BY <1>1, <2>1, <2>2
<1>4. exact(0) = Count!Min({first, limit})
  <2>1. first * Count!Pow2[0] = first
    BY <1>1, Powers
  <2> QED
    BY <2>1
<1>5. ASSUME NEW n \in Nat PROVE Count!Doubled(exact(n), limit) = exact(n + 1)
  <2>1. first * Count!Pow2[n + 1] = 2 * (first * Count!Pow2[n])
    BY <1>1, Powers
  <2>2. Count!Doubled(exact(n), limit) = IF 2 * exact(n) <= limit THEN 2 * exact(n) ELSE limit
    BY <1>1, <1>3, Doubling
  <2> DEFINE p == first * Count!Pow2[n]
  <2>3. p \in Nat /\ exact(n) = IF p <= limit THEN p ELSE limit
    BY <1>3
  <2>4. exact(n + 1) = IF 2 * p <= limit THEN 2 * p ELSE limit
    BY <1>3, <2>1
  <2> HIDE DEF p, exact
  <2> QED
    BY <1>1, <2>2, <2>3, <2>4
<1> HIDE DEF exact
<1>6. Is(d)
  <2>1. ASSUME NEW n \in 0..attempt, n # 0 PROVE d[n] = Count!Doubled(d[n - 1], limit)
    <3>1. n - 1 \in 0..attempt /\ n - 1 \in Nat /\ n - 1 + 1 = n
      BY <2>1
    <3> QED
      BY <1>5, <3>1
  <2>2. d[0] = Count!Min({first, limit})
    BY <1>4
  <2> QED
    BY <2>1, <2>2
<1>7. ASSUME NEW f, Is(f) PROVE f[attempt] = exact(attempt)
  <2> DEFINE T == {n \in Nat : n <= attempt => f[n] = exact(n)}
  <2>1. 0 \in T
    BY <1>4, <1>7
  <2>2. ASSUME NEW n \in Nat, n \in T PROVE n + 1 \in T
    <3>1. CASE n + 1 <= attempt
      <4>1. n + 1 \in 0..attempt /\ n + 1 # 0 /\ n + 1 - 1 = n /\ n <= attempt
        BY <3>1
      <4>2. f[n + 1] = Count!Doubled(f[n], limit)
        <5>1. ASSUME NEW i \in 0..attempt, i # 0
              PROVE  f[i] = Count!Doubled(f[i - 1], limit)
          BY <1>7, <5>1
        <5> QED
          BY <4>1, <5>1
      <4> QED
        BY <1>5, <2>2, <4>1, <4>2
    <3> QED
      BY <3>1
  <2> HIDE DEF T
  <2>3. attempt \in T
    BY <2>1, <2>2, Induction
  <2> QED
    BY <2>3 DEF T
<1> HIDE DEF Is
<1>8. Is(CHOOSE f : Is(f))
  BY <1>6
<1> QED
  BY <1>2, <1>7, <1>8 DEF exact, first, limit

\* The random part of a delay leaves it in its upper half.
LEMMA UpperHalf ==
  ASSUME NEW d \in Nat, d <= Count!MaxInt, NEW x \in Count!Jittered(d)
  PROVE  /\ d < 2 => x = d
         /\ d >= 2 => x \in Count!Half(d)..(d - 1)
<1>1. CASE d < 2
  BY <1>1 DEF Count!Jittered
<1>2. CASE d >= 2
  <2>1. Count!Half(d) \in Nat /\ d = 2 * Count!Half(d) + (d % 2) /\ d % 2 \in 0..1
    BY Division DEF Count!Half
  <2>2. PICK r \in 0..(d - Count!Half(d) - 1) : x = Count!Wrap(Count!Half(d) + r)
    BY <1>2 DEF Count!Jittered
  <2>3. Count!Half(d) + r \in Count!Half(d)..(d - 1)
    <3>1. ASSUME NEW h \in Nat, r \in 0..(d - h - 1) PROVE h + r \in h..(d - 1)
      BY <3>1
    <3> QED
      BY <2>1, <2>2, <3>1
  <2>4. Count!Wrap(Count!Half(d) + r) = Count!Half(d) + r
    BY <2>1, <2>3, Words, InRange
  <2> QED
    BY <1>2, <2>2, <2>3, <2>4
<1> QED
  BY <1>1, <1>2

\* A delay lies in the upper half of the doubled delay.
LEMMA DelayKeeps ==
  ASSUME GivenCase, Count!Delay
  PROVE  Count!NumbersStayInRange'
<1> DEFINE initial == given.initial
           maximum == given.maximum
           retries == given.retries
           first == Count!Or(initial, DefaultInitial)
           limit == Count!Or(maximum, DefaultMaximum)
<1>1. given.kind = "delay" /\ UNCHANGED given
  BY DEF Count!Delay
<1>2. /\ initial \in {-1} \union 0..Count!MaxInt /\ maximum \in {-1} \union 0..Count!MaxInt
      /\ retries \in {-1, W, 21}
  BY <1>1 DEF GivenCase
<1>3. CASE Count!PolicyRefuses(initial, maximum, retries)
  <2>1. result'.err = "validation"
    BY <1>3 DEF Count!Delay
  <2> QED
    BY <2>1 DEF Count!NumbersStayInRange
<1>4. CASE ~Count!PolicyRefuses(initial, maximum, retries)
  <2>1. PICK attempt \in 0..(retries - 1) :
          \E d \in Count!Jittered(Count!Backoff(initial, maximum, attempt)) :
            result' = [err |-> "nil", attempt |-> attempt, delay |-> d]
    BY <1>4 DEF Count!Delay
  <2>2. PICK d \in Count!Jittered(Count!Backoff(initial, maximum, attempt)) :
          result' = [err |-> "nil", attempt |-> attempt, delay |-> d]
    BY <2>1
  <2>3. result'.attempt = attempt /\ result'.delay = d
    BY <2>2
  <2>4. /\ initial \in 0..Count!MaxInt /\ maximum \in 0..Count!MaxInt /\ attempt \in Nat
    BY <1>2, <1>4, <2>1, LibraryAssumption, Words DEF Count!PolicyRefuses
  <2>5. first \in Nat /\ limit \in Nat /\ limit <= Count!MaxInt
    BY <2>4, Words, NumbersAssumption DEF Count!Or
  <2> DEFINE exact == Count!Min({first * Count!Pow2[attempt], limit})
  <2>6. Count!Backoff(initial, maximum, attempt) = exact
    BY <2>4, <2>5, Doublings
  <2>7. exact \in Nat /\ exact <= Count!MaxInt
    <3>1. first * Count!Pow2[attempt] \in Nat
      BY <2>4, <2>5, Powers
    <3>2. exact = IF first * Count!Pow2[attempt] <= limit THEN first * Count!Pow2[attempt]
                  ELSE limit
      BY <2>5, <3>1, Extremes
    <3> QED
      BY <2>5, <3>1, <3>2, Words
  <2> HIDE DEF exact
  <2>8. /\ exact < 2 => d = exact
        /\ exact >= 2 => d \in Count!Half(exact)..(exact - 1)
    BY <2>2, <2>6, <2>7, UpperHalf
  <2> QED
    BY <1>1, <2>3, <2>8 DEF Count!NumbersStayInRange, exact
<1> QED
  BY <1>3, <1>4

\* A timeout is rounded up to milliseconds.
LEMMA TimeoutKeeps ==
  ASSUME GivenCase, Count!Timeout
  PROVE  Count!NumbersStayInRange'
<1> DEFINE d == given.duration
           up == d \div Millisecond + IF d % Millisecond # 0 THEN 1 ELSE 0
<1>1. given.kind = "timeout" /\ UNCHANGED given
  BY DEF Count!Timeout
<1>2. d \in Count!Ints
  BY <1>1 DEF GivenCase
<1>3. d \in Int /\ d <= Count!MaxInt /\ Count!MaxInt \in Nat /\ Millisecond \in Nat \ {0}
  BY <1>2, Words, LibraryAssumption
<1>4. CASE d <= 0
  <2>1. result'.err = "validation"
    BY <1>4 DEF Count!Timeout
  <2> QED
    BY <2>1 DEF Count!NumbersStayInRange
<1>5. CASE d > 0
  <2>1. result'.milliseconds = Count!Wrap(up)
    BY <1>3, <1>5 DEF Count!Timeout
  <2> DEFINE q == d \div Millisecond
             r == d % Millisecond
  <2>2. q \in Nat /\ r \in 0..(Millisecond - 1) /\ d = Millisecond * q + r
    <3>1. d \in Nat
      BY <1>3, <1>5
    <3> HIDE DEF d
    <3> QED
      BY <1>3, <3>1, Division
  <2>3. up = q + IF r # 0 THEN 1 ELSE 0
    OBVIOUS
  <2> HIDE DEF d, q, r, up
  <2>4. Millisecond * q \in Nat /\ Millisecond * q >= q
    <3>1. PICK m \in Nat : Millisecond = m + 1
      <4>1. Millisecond - 1 \in Nat /\ Millisecond = Millisecond - 1 + 1
        BY <1>3
      <4> QED
        BY <4>1
    <3>2. Millisecond * q = m * q + q /\ m * q \in Nat
      BY <2>2, <3>1
    <3> QED
      BY <2>2, <3>2
  <2>5. up \in Nat /\ up <= d
    BY <1>3, <2>2, <2>3, <2>4
  <2>6. Count!Wrap(up) = up
    BY <1>3, <2>5, InRange
  <2>7. up * Millisecond >= d /\ (up - 1) * Millisecond < d
    <3>1. CASE r = 0
      <4>1. up = q /\ q * Millisecond = Millisecond * q
            /\ (q - 1) * Millisecond = Millisecond * q - Millisecond
        BY <1>3, <2>2, <2>3, <3>1
      <4> QED
        BY <1>3, <2>2, <2>4, <3>1, <4>1
    <3>2. CASE r # 0
      <4>1. up = q + 1 /\ up - 1 = q /\ q * Millisecond = Millisecond * q
            /\ (q + 1) * Millisecond = Millisecond * q + Millisecond
        BY <1>3, <2>2, <2>3, <3>2
      <4> QED
        BY <1>3, <2>2, <2>4, <3>2, <4>1
    <3> QED
      BY <3>1, <3>2
  <2> QED
    BY <1>1, <2>1, <2>6, <2>7 DEF Count!NumbersStayInRange, d
<1> QED
  BY <1>3, <1>4, <1>5

\* The part of numbers computes them once.
LEMMA CountStep ==
  ASSUME CountInv, Next
  PROVE  CountInv'
<1> SUFFICES ASSUME part = "numbers", part' = "numbers"
             PROVE  (GivenCase /\ Count!NumbersStayInRange)'
  BY DEF Next, CountInv
<1>1. GivenCase /\ Count!Next
  BY DEF CountInv, Next
<1>2. UNCHANGED given
  BY <1>1 DEF Count!Next, Count!Page, Count!Delay, Count!Timeout
<1>3. GivenCase'
  BY <1>1, <1>2 DEF GivenCase
<1>4. Count!NumbersStayInRange'
  BY <1>1, PageKeeps, DelayKeeps, TimeoutKeeps DEF Count!Next
<1> QED
  BY <1>3, <1>4

\* Windows, delays and timeouts stay in range near the limits of int (src/finder.go,
\* src/bulk_retry.go, src/search.go), whatever the width of an int and the defaults.
THEOREM NumbersStayInRangeAlways == Spec => []NumbersStayInRange
<1>1. Init => CountInv
  <2> SUFFICES ASSUME Init, part = "numbers" PROVE GivenCase /\ Count!NumbersStayInRange
    BY DEF CountInv
  <2>1. Count!Init
    BY DEF Init
  <2> QED
    BY <2>1 DEF Count!Init, GivenCase, Count!NumbersStayInRange
<1>2. CountInv /\ [Next]_<<part, setup, graph, derived, bulk, case>> => CountInv'
  <2>1. ASSUME CountInv, UNCHANGED <<part, setup, graph, derived, bulk, case>>
        PROVE  CountInv'
    BY <2>1 DEF CountInv, GivenCase, Count!NumbersStayInRange, case
  <2> QED
    BY <2>1, CountStep
<1>3. CountInv => NumbersStayInRange
  BY DEF CountInv, NumbersStayInRange
<1> QED
  BY <1>1, <1>2, <1>3, PTL DEF Spec

-----------------------------------------------------------------------------
(* Loading references.                                                     *)

\* Types.
Statuses == {"found", "missing", "failed", "invalid"}
Outcomes == Statuses \union {"hook"}
GraphTypes ==
  /\ children \in [Refs -> Seq(Refs)] /\ status \in [Refs -> Statuses]
  /\ roots \in Seq(Refs) /\ maxDepth \in Nat \ {0} /\ maxDocuments \in Nat
  /\ loading \in {"called", "level", "load", "returned"}
  /\ depth \in Nat /\ pending \in Seq(Refs) /\ batch \in Seq(Refs)
  /\ nodes \in Seq(Refs \X Outcomes) /\ truncated \in BOOLEAN

\* Nothing has happened before the call.
Uncalled ==
  loading = "called" =>
    /\ depth = 0 /\ seen = {} /\ pending = <<>> /\ nodes = <<>> /\ ~truncated /\ failed = "none"

\* What MGet has answered, or Preload without roots.
InPlace ==
  /\ DOMAIN nodes = DOMAIN roots
  /\ \A i \in DOMAIN roots :
       \/ nodes[i] = <<roots[i], status[roots[i]]>>
       \/ nodes[i] = <<roots[i], "hook">> /\ status[roots[i]] = "found"
AnsweredInPlace ==
  loading = "returned" /\ ~Graph!Preloaded /\ failed = "nil" => InPlace

\* The references loaded are those of the layers before depth, once each and in
\* their order; the next layer is what is pending and new.
Loaded == [i \in DOMAIN nodes |-> nodes[i][1]]
Ordered ==
  \A i, j \in DOMAIN nodes, k, l \in 0..(depth - 1) :
    Loaded[i] \in Graph!Layer[k] /\ Loaded[j] \in Graph!Layer[l] /\ i < j => k <= l
Once ==
  /\ \A i, j \in DOMAIN nodes : Loaded[i] = Loaded[j] => i = j
  /\ Graph!Range(Loaded) = Graph!Complete
  /\ \A i \in DOMAIN nodes : nodes[i][2] = status[Loaded[i]]
Bounded ==
  /\ depth <= maxDepth /\ Len(nodes) <= maxDocuments
  /\ Graph!Range(pending) \ Graph!Complete = Graph!Layer[depth]
  /\ depth = 0 => pending = roots /\ nodes = <<>>
Layered == loading \in {"level", "load"} \/ Graph!Preloaded => Once /\ Ordered /\ Bounded

\* Between two levels what has been seen is loaded; while a level is loaded its
\* batch is the next layer, without repetition and within the limits.
Between ==
  /\ loading = "level" => seen = Graph!Complete
  /\ loading = "load" =>
       /\ seen = Graph!Complete \union Graph!Layer[depth]
       /\ \A i, j \in DOMAIN batch : batch[i] = batch[j] => i = j
       /\ Graph!Range(batch) = Graph!Layer[depth]
       /\ depth < maxDepth /\ Len(nodes) + Len(batch) <= maxDocuments
  /\ loading \in {"level", "load"} => ~truncated /\ failed = "none"

\* What the result says of the layer that was next.
Outcome ==
  Graph!Preloaded =>
    /\ failed \in {"nil", "context", "request", "limit"}
    /\ failed = "limit" =>
         /\ depth < maxDepth /\ Graph!Layer[depth] # {}
         /\ Len(nodes) + Graph!Cardinality(Graph!Layer[depth]) > maxDocuments
    /\ failed = "nil" /\ ~truncated => Graph!Layer[depth] = {}
    /\ truncated => failed = "nil" /\ depth = maxDepth /\ Graph!Layer[depth] # {}

Loads == GraphTypes /\ Uncalled /\ AnsweredInPlace /\ Layered /\ Between /\ Outcome
GraphInv == part = "graph" => Loads
-----------------------------------------------------------------------------
\* A sequence takes its values in its range.
LEMMA RangeOf ==
  ASSUME NEW S, NEW s \in Seq(S)
  PROVE  /\ Graph!Range(s) = {s[i] : i \in 1..Len(s)} /\ Graph!Range(s) \subseteq S
         /\ s = <<>> <=> Graph!Range(s) = {}
BY DEF Graph!Range

\* A sequence without repetition has as many values as places.
LEMMA Distinctness ==
  ASSUME NEW S, NEW s \in Seq(S), \A i, j \in DOMAIN s : s[i] = s[j] => i = j
  PROVE  Graph!Cardinality(Graph!Range(s)) = Len(s)
<1>1. s \in Bijection(1..Len(s), Graph!Range(s))
  BY DEF Bijection, Injection, Surjection, IsInjective, Graph!Range
<1>2. ExistsBijection(1..Len(s), Graph!Range(s))
  BY <1>1 DEF ExistsBijection
<1>3. Cardinality(Graph!Range(s)) = Len(s)
  BY <1>2, FS_CountingElements
<1> QED
  BY <1>3 DEF Cardinality, Graph!Cardinality

\* What Fresh has after n references.
FreshAt(f, n, refs, met) ==
  /\ f[n] \in Seq(Refs) /\ \A i, j \in DOMAIN f[n] : f[n][i] = f[n][j] => i = j
  /\ Graph!Range(f[n]) = {refs[i] : i \in 1..n} \ met

\* A loop over references keeps those not met before, each once.
LEMMA FreshOnce ==
  ASSUME NEW refs \in Seq(Refs), NEW met
  PROVE  /\ Graph!Fresh(refs, met) \in Seq(Refs)
         /\ \A i, j \in DOMAIN Graph!Fresh(refs, met) :
              Graph!Fresh(refs, met)[i] = Graph!Fresh(refs, met)[j] => i = j
         /\ Graph!Range(Graph!Fresh(refs, met)) = Graph!Range(refs) \ met
<1> DEFINE Add(s, r) == IF r \in met \union Graph!Range(s) THEN s ELSE Append(s, r)
           Is(f) == f = [n \in 0..Len(refs) |->
                           IF n = 0 THEN <<>>
                           ELSE IF refs[n] \in met \union Graph!Range(f[n - 1]) THEN f[n - 1]
                           ELSE Append(f[n - 1], refs[n])]
           G == [p \in Nat \X Seq(Refs) |->
                   IF p[1] + 1 \in 1..Len(refs) THEN Add(p[2], refs[p[1] + 1]) ELSE p[2]]
<1>1. Graph!Fresh(refs, met) = (CHOOSE f : Is(f))[Len(refs)]
  BY DEF Graph!Fresh
<1>2. ASSUME NEW s \in Seq(Refs), NEW r \in Refs PROVE Add(s, r) \in Seq(Refs)
  OBVIOUS
<1>3. \E f : Is(f)
  <2> HIDE DEF Add
  <2>1. G \in [Nat \X Seq(Refs) -> Seq(Refs)]
    <3>1. ASSUME NEW p \in Nat \X Seq(Refs)
          PROVE  (IF p[1] + 1 \in 1..Len(refs) THEN Add(p[2], refs[p[1] + 1]) ELSE p[2])
                   \in Seq(Refs)
      <4>1. p[2] \in Seq(Refs)
        OBVIOUS
      <4>2. p[1] + 1 \in 1..Len(refs) => refs[p[1] + 1] \in Refs
        OBVIOUS
      <4> QED
        BY <1>2, <4>1, <4>2
    <3> QED
      BY <3>1
  <2>2. <<>> \in Seq(Refs)
    OBVIOUS
  <2>3. ASSUME NEW n \in Nat, NEW s \in Seq(Refs), n + 1 \in 1..Len(refs)
        PROVE  G[<<n, s>>] = Add(s, refs[n + 1])
    BY <2>3
  <2> HIDE DEF G
  <2>4. PICK g : Continues(g, Seq(Refs), <<>>, G)
    BY <2>1, <2>2, Recursion
  <2> DEFINE f == [n \in 0..Len(refs) |-> g[n]]
  <2>5. g \in [Nat -> Seq(Refs)] /\ g[0] = <<>>
    BY <2>4 DEF Continues
  <2>6. ASSUME NEW n \in 1..Len(refs) PROVE g[n] = Add(g[n - 1], refs[n])
    <3>1. n - 1 \in Nat /\ n - 1 + 1 = n
      OBVIOUS
    <3>2. g[n] = G[<<n - 1, g[n - 1]>>]
      BY <2>4, <3>1 DEF Continues
    <3> QED
      BY <2>3, <2>5, <3>1, <3>2
  <2>7. ASSUME NEW n \in 0..Len(refs)
        PROVE  f[n] = IF n = 0 THEN <<>> ELSE Add(f[n - 1], refs[n])
    <3>1. CASE n = 0
      BY <2>5, <3>1
    <3>2. CASE n # 0
      <4>1. n \in 1..Len(refs) /\ n - 1 \in 0..Len(refs)
        BY <3>2
      <4> QED
        BY <2>6, <3>2, <4>1
    <3> QED
      BY <3>1, <3>2
  <2>8. f = [n \in 0..Len(refs) |-> IF n = 0 THEN <<>> ELSE Add(f[n - 1], refs[n])]
    <3>1. f = [n \in 0..Len(refs) |-> f[n]]
      OBVIOUS
    <3> HIDE DEF f
    <3> QED
      BY <2>7, <3>1
  <2> HIDE DEF f
  <2> QED
    BY <2>8 DEF Add
<1>4. ASSUME NEW f, Is(f)
      PROVE  FreshAt(f, Len(refs), refs, met)
  <2>1. f[0] = <<>>
    BY <1>4
  <2>2. ASSUME NEW n \in 1..Len(refs) PROVE f[n] = Add(f[n - 1], refs[n])
    <3>1. ASSUME NEW i \in 0..Len(refs), i # 0
          PROVE  f[i] = Add(f[i - 1], refs[i])
      BY <1>4, <3>1
    <3> QED
      BY <3>1
  <2> HIDE DEF Is
  <2> DEFINE T == {n \in Nat : n <= Len(refs) => FreshAt(f, n, refs, met)}
  <2>3. 0 \in T
    <3>1. Graph!Range(f[0]) = {} /\ f[0] \in Seq(Refs) /\ DOMAIN f[0] = {}
      BY <2>1 DEF Graph!Range
    <3>2. {refs[i] : i \in 1..0} = {}
      OBVIOUS
    <3> QED
      BY <3>1, <3>2 DEF FreshAt
  <2>4. ASSUME NEW n \in Nat, n \in T PROVE n + 1 \in T
    <3> SUFFICES ASSUME n + 1 <= Len(refs) PROVE FreshAt(f, n + 1, refs, met)
      OBVIOUS
    <3> DEFINE s == f[n]
               r == refs[n + 1]
    <3>1. n + 1 \in 1..Len(refs) /\ n + 1 - 1 = n /\ r \in Refs
      OBVIOUS
    <3>2. f[n + 1] = Add(s, r)
      BY <2>2, <3>1
    <3>3. /\ s \in Seq(Refs) /\ \A i, j \in DOMAIN s : s[i] = s[j] => i = j
          /\ Graph!Range(s) = {refs[i] : i \in 1..n} \ met
      BY <2>4, <3>1 DEF FreshAt
    <3>4. {refs[i] : i \in 1..(n + 1)} = {refs[i] : i \in 1..n} \union {r}
      OBVIOUS
    <3> HIDE DEF s, r
    <3>5. CASE r \in met \union Graph!Range(s)
      BY <3>2, <3>3, <3>4, <3>5 DEF FreshAt
    <3>6. CASE r \notin met \union Graph!Range(s)
      <4>1. f[n + 1] = Append(s, r)
        BY <3>2, <3>6
      <4>2. /\ Append(s, r) \in Seq(Refs) /\ Len(Append(s, r)) = Len(s) + 1
            /\ \A i \in 1..Len(s) : Append(s, r)[i] = s[i]
            /\ Append(s, r)[Len(s) + 1] = r
        BY <3>1, <3>3, AppendProperties
      <4>3. Graph!Range(Append(s, r)) = Graph!Range(s) \union {r}
        <5>1. DOMAIN Append(s, r) = 1..(Len(s) + 1) /\ DOMAIN s = 1..Len(s) /\ Len(s) \in Nat
          BY <3>3, <4>2
        <5>2. ASSUME NEW x PROVE x \in Graph!Range(Append(s, r)) <=> x \in Graph!Range(s) \/ x = r
          BY <4>2, <5>1 DEF Graph!Range
        <5> QED
          BY <5>2
      <4>4. \A i, j \in DOMAIN Append(s, r) : Append(s, r)[i] = Append(s, r)[j] => i = j
        <5>1. \A i \in 1..Len(s) : s[i] # r
          BY <3>3, <3>6, RangeOf
        <5>2. DOMAIN Append(s, r) = 1..(Len(s) + 1) /\ Len(s) \in Nat /\ DOMAIN s = 1..Len(s)
          BY <3>3, <4>2
        <5> QED
          BY <3>3, <4>2, <5>1, <5>2
      <4> QED
        <5>1. Graph!Range(f[n + 1]) = {refs[i] : i \in 1..(n + 1)} \ met
          BY <3>3, <3>4, <3>6, <4>1, <4>3
        <5> QED
          BY <4>1, <4>2, <4>4, <5>1 DEF FreshAt
    <3> QED
      BY <3>5, <3>6
  <2> HIDE DEF T
  <2>5. Len(refs) \in T
    BY <2>3, <2>4, Induction
  <2> QED
    BY <2>5 DEF T
<1> HIDE DEF Is
<1>5. FreshAt(CHOOSE f : Is(f), Len(refs), refs, met)
  BY <1>3, <1>4
<1>6. Graph!Range(refs) = {refs[i] : i \in 1..Len(refs)}
  BY RangeOf
<1> QED
  BY <1>1, <1>5, <1>6 DEF FreshAt

\* What the concatenation of the first n sequences has.
ValuesOf(seqs, n) == UNION {Graph!Range(seqs[i]) : i \in 1..n}
FlatAt(f, n, seqs) == f[n] \in Seq(Refs) /\ Graph!Range(f[n]) = ValuesOf(seqs, n)

\* Concatenated sequences have the values of all of them.
LEMMA Flattened ==
  ASSUME NEW seqs \in Seq(Seq(Refs))
  PROVE  /\ Graph!FlattenSeq(seqs) \in Seq(Refs)
         /\ Graph!Range(Graph!FlattenSeq(seqs)) =
              UNION {Graph!Range(seqs[i]) : i \in DOMAIN seqs}
<1> DEFINE N == Len(seqs)
           Is(f) == f = [i \in 1..N |-> IF i = 1 THEN seqs[i] ELSE f[i - 1] \o seqs[i]]
           G == [p \in Nat \X Seq(Refs) |->
                   IF p[1] + 2 \in 1..N THEN p[2] \o seqs[p[1] + 2] ELSE p[2]]
<1>1. CASE N = 0
  <2>1. Graph!FlattenSeq(seqs) = seqs /\ seqs = <<>>
    BY <1>1 DEF Graph!FlattenSeq
  <2> QED
    BY <2>1 DEF Graph!Range
<1>2. CASE N # 0
  <2>1. N \in Nat \ {0} /\ \A i \in 1..N : seqs[i] \in Seq(Refs)
    BY <1>2
  <2>2. Graph!FlattenSeq(seqs) = (CHOOSE f : Is(f))[N]
    BY <1>2 DEF Graph!FlattenSeq
  <2> HIDE DEF N
  <2>3. \E f : Is(f)
    <3>1. G \in [Nat \X Seq(Refs) -> Seq(Refs)]
      <4>1. ASSUME NEW p \in Nat \X Seq(Refs)
            PROVE  (IF p[1] + 2 \in 1..N THEN p[2] \o seqs[p[1] + 2] ELSE p[2]) \in Seq(Refs)
        <5>1. p[2] \in Seq(Refs)
          OBVIOUS
        <5>2. p[1] + 2 \in 1..N => p[2] \o seqs[p[1] + 2] \in Seq(Refs)
          BY <2>1, <5>1, ConcatProperties
        <5> QED
          BY <5>1, <5>2
      <4> QED
        BY <4>1
    <3>2. seqs[1] \in Seq(Refs)
      BY <2>1
    <3>3. ASSUME NEW n \in Nat, NEW s \in Seq(Refs), n + 2 \in 1..N
          PROVE  G[<<n, s>>] = s \o seqs[n + 2]
      BY <3>3
    <3> HIDE DEF G
    <3>4. PICK g : Continues(g, Seq(Refs), seqs[1], G)
      BY <3>1, <3>2, Recursion
    <3> DEFINE f == [i \in 1..N |-> g[i - 1]]
    <3>5. g \in [Nat -> Seq(Refs)] /\ g[0] = seqs[1]
      BY <3>4 DEF Continues
    <3>6. ASSUME NEW i \in 1..N, i # 1 PROVE g[i - 1] = g[i - 2] \o seqs[i]
      <4>1. i - 2 \in Nat /\ i - 2 + 1 = i - 1 /\ i - 2 + 2 = i
        BY <2>1, <3>6
      <4>2. g[i - 1] = G[<<i - 2, g[i - 2]>>]
        BY <3>4, <4>1 DEF Continues
      <4> QED
        BY <3>3, <3>5, <4>1, <4>2
    <3>7. ASSUME NEW i \in 1..N
          PROVE  f[i] = IF i = 1 THEN seqs[i] ELSE f[i - 1] \o seqs[i]
      <4>1. CASE i = 1
        BY <3>5, <4>1
      <4>2. CASE i # 1
        <5>1. i - 1 \in 1..N /\ i - 1 - 1 = i - 2
          BY <2>1, <4>2
        <5> QED
          BY <3>6, <4>2, <5>1
      <4> QED
        BY <4>1, <4>2
    <3>8. f = [i \in 1..N |-> IF i = 1 THEN seqs[i] ELSE f[i - 1] \o seqs[i]]
      <4>1. f = [i \in 1..N |-> f[i]]
        OBVIOUS
      <4> HIDE DEF f
      <4> QED
        BY <3>7, <4>1
    <3> HIDE DEF f
    <3> QED
      BY <3>8
  <2>4. ASSUME NEW f, Is(f)
        PROVE  FlatAt(f, N, seqs)
    <3>1. f[1] = seqs[1]
      BY <2>1, <2>4
    <3>2. ASSUME NEW i \in 1..N, i # 1 PROVE f[i] = f[i - 1] \o seqs[i]
      BY <2>4, <3>2
    <3> HIDE DEF Is
    <3> DEFINE T == {n \in Nat : n + 1 <= N => FlatAt(f, n + 1, seqs)}
    <3>3. 0 \in T
      <4>1. ValuesOf(seqs, 0 + 1) = Graph!Range(seqs[1])
        BY DEF ValuesOf
      <4> QED
        BY <2>1, <3>1, <4>1 DEF FlatAt
    <3>4. ASSUME NEW n \in Nat, n \in T PROVE n + 1 \in T
      <4> SUFFICES ASSUME n + 1 + 1 <= N PROVE FlatAt(f, n + 1 + 1, seqs)
        OBVIOUS
      <4> DEFINE s == f[n + 1]
                 t == seqs[n + 2]
      <4>1. n + 2 \in 1..N /\ n + 2 # 1 /\ n + 2 - 1 = n + 1 /\ n + 1 + 1 = n + 2
        BY <2>1
      <4>2. f[n + 2] = s \o t
        <5> HIDE DEF s, t, T
        <5> DEFINE m == n + 2
        <5>1. m \in 1..N /\ m # 1 /\ m - 1 = n + 1
          BY <4>1
        <5> HIDE DEF m
        <5>2. f[m] = f[m - 1] \o seqs[m]
          BY <3>2, <5>1
        <5> QED
          BY <5>1, <5>2 DEF m, s, t
      <4>3. s \in Seq(Refs) /\ Graph!Range(s) = ValuesOf(seqs, n + 1)
        BY <2>1, <3>4 DEF FlatAt
      <4>4. t \in Seq(Refs)
        BY <2>1, <4>1
      <4>5. ValuesOf(seqs, n + 2) = ValuesOf(seqs, n + 1) \union Graph!Range(t)
        <5>1. ASSUME NEW i PROVE i \in 1..(n + 2) <=> i \in 1..(n + 1) \/ i = n + 2
          OBVIOUS
        <5>2. ASSUME NEW x
              PROVE  (\E i \in 1..(n + 2) : x \in Graph!Range(seqs[i])) <=>
                       (\E i \in 1..(n + 1) : x \in Graph!Range(seqs[i])) \/ x \in Graph!Range(t)
          BY <5>1
        <5> QED
          BY <5>2 DEF ValuesOf
      <4> HIDE DEF s, t
      <4>6. s \o t \in Seq(Refs)
        BY <4>3, <4>4, ConcatProperties
      <4>7. Graph!Range(s \o t) = Graph!Range(s) \union Graph!Range(t)
        <5>1. /\ DOMAIN s = 1..Len(s) /\ DOMAIN t = 1..Len(t) /\ Len(s) \in Nat /\ Len(t) \in Nat
              /\ DOMAIN (s \o t) = 1..(Len(s) + Len(t))
              /\ \A i \in 1..(Len(s) + Len(t)) :
                   (s \o t)[i] = IF i <= Len(s) THEN s[i] ELSE t[i - Len(s)]
          BY <4>3, <4>4, <4>6, ConcatProperties
        <5>2. ASSUME NEW i \in DOMAIN t
              PROVE  t[i] = (s \o t)[i + Len(s)] /\ i + Len(s) \in DOMAIN (s \o t)
          BY <5>1
        <5>3. ASSUME NEW i \in DOMAIN s PROVE s[i] = (s \o t)[i] /\ i \in DOMAIN (s \o t)
          BY <5>1
        <5>4. ASSUME NEW i \in DOMAIN (s \o t), NEW x, x = (s \o t)[i]
              PROVE  (\E j \in DOMAIN s : x = s[j]) \/ (\E j \in DOMAIN t : x = t[j])
          BY <5>1, <5>4
        <5>5. ASSUME NEW x
              PROVE  x \in Graph!Range(s \o t) <=> x \in Graph!Range(s) \/ x \in Graph!Range(t)
          <6>1. ASSUME x \in Graph!Range(s \o t)
                PROVE  x \in Graph!Range(s) \/ x \in Graph!Range(t)
            BY <5>4, <6>1 DEF Graph!Range
          <6>2. ASSUME x \in Graph!Range(s) PROVE x \in Graph!Range(s \o t)
            BY <5>3, <6>2 DEF Graph!Range
          <6>3. ASSUME x \in Graph!Range(t) PROVE x \in Graph!Range(s \o t)
            BY <5>2, <6>3 DEF Graph!Range
          <6> QED
            BY <6>1, <6>2, <6>3
        <5> QED
          BY <5>5
      <4>8. FlatAt(f, n + 2, seqs)
        BY <4>2, <4>3, <4>5, <4>6, <4>7 DEF FlatAt
      <4> QED
        BY <4>1, <4>8
    <3> HIDE DEF T
    <3>5. N - 1 \in T /\ N - 1 + 1 = N
      <4>1. N - 1 \in Nat /\ N - 1 + 1 = N
        BY <2>1
      <4>2. Nat \subseteq T
        BY <3>3, <3>4, Induction
      <4> QED
        BY <4>1, <4>2
    <3> QED
      BY <2>1, <3>5 DEF T
  <2> HIDE DEF Is
  <2>5. FlatAt(CHOOSE f : Is(f), N, seqs)
    BY <2>3, <2>4
  <2>6. DOMAIN seqs = 1..N
    BY DEF N
  <2> QED
    BY <2>2, <2>5, <2>6 DEF FlatAt, ValuesOf
<1> QED
  BY <1>1, <1>2

\* A position in a sequence of n lies in one of its batches of b.
LEMMA BatchOf ==
  ASSUME NEW b \in Nat \ {0}, NEW n \in Nat, NEW p \in 1..n
  PROVE  \E k \in 1..((n + b - 1) \div b) : \E j \in 1..b :
           (k - 1) * b \in Nat /\ p = (k - 1) * b + j
<1> DEFINE q == (p - 1) \div b
           r == (p - 1) % b
           Q == (n + b - 1) \div b
           R == (n + b - 1) % b
<1>1. p - 1 \in Nat /\ n + b - 1 \in Nat
  OBVIOUS
<1>2. q \in Nat /\ r \in 0..(b - 1) /\ p - 1 = b * q + r
  BY <1>1, Division
<1>3. Q \in Nat /\ R \in 0..(b - 1) /\ n + b - 1 = b * Q + R
  BY <1>1, Division
<1> HIDE DEF q, r, Q, R
<1>4. q < Q
  <2> SUFFICES ASSUME Q <= q PROVE FALSE
    BY <1>2, <1>3
  <2>1. PICK d \in Nat : q = Q + d
    <3>1. q - Q \in Nat /\ q = Q + (q - Q)
      BY <1>2, <1>3
    <3> QED
      BY <3>1
  <2>2. b * q = b * Q + b * d /\ b * d \in Nat /\ b * Q \in Nat
    BY <1>3, <2>1
  <2> QED
    BY <1>2, <1>3, <2>2
<1> DEFINE k == q + 1
           j == r + 1
<1>5. k \in 1..Q /\ j \in 1..b /\ (k - 1) * b = b * q /\ b * q \in Nat
  BY <1>2, <1>3, <1>4
<1>6. p = (k - 1) * b + j
  BY <1>2, <1>5
<1> HIDE DEF k, j
<1> QED
  BY <1>5, <1>6 DEF Q

\* A batch is not empty.
LEMMA BatchStarts ==
  ASSUME NEW b \in Nat \ {0}, NEW n \in Nat, NEW k \in 1..((n + b - 1) \div b)
  PROVE  (k - 1) * b \in Nat /\ k * b \in Nat /\ k * b = (k - 1) * b + b
<1>1. k \in Nat /\ k - 1 \in Nat
  <2>1. (n + b - 1) \div b \in Nat
    <3>1. n + b - 1 \in Nat
      OBVIOUS
    <3> QED
      BY <3>1, Division
  <2> QED
    BY <2>1
<1> QED
  BY <1>1

\* The least of two.
LEMMA Least ==
  ASSUME NEW x \in Int, NEW y \in Int
  PROVE  Graph!Min({x, y}) = IF x <= y THEN x ELSE y
<1>1. CASE x <= y
  BY <1>1 DEF Graph!Min
<1>2. CASE ~(x <= y)
  BY <1>2 DEF Graph!Min
<1> QED
  BY <1>1, <1>2

\* Every reference is in one of the batches.
LEMMA InBatch ==
  ASSUME NEW refs \in Seq(Refs), NEW ref \in Graph!Range(refs)
  PROVE  \E k \in DOMAIN Graph!Batches(refs) : Graph!Contains(Graph!Batches(refs)[k], ref)
<1> DEFINE u == Graph!Distinct(refs)
           b == BatchSize
           n == Len(u)
           end(k) == Graph!Min({k * b, n})
<1>1. b \in Nat \ {0}
  BY LibraryAssumption
<1>2. u \in Seq(Refs) /\ Graph!Range(u) = Graph!Range(refs)
  <2>1. Graph!Range(u) = Graph!Range(refs) \ {}
    BY FreshOnce DEF Graph!Distinct
  <2> QED
    BY <2>1, FreshOnce DEF Graph!Distinct
<1>3. Graph!Batches(refs) =
        [k \in 1..((n + b - 1) \div b) |-> SubSeq(u, (k - 1) * b + 1, end(k))]
  BY DEF Graph!Batches
<1> HIDE DEF u, b, n, end
<1>4. n \in Nat /\ \A i \in 1..n : u[i] \in Refs
  BY <1>2 DEF n
<1>5. PICK p \in 1..n : u[p] = ref
  <2>1. Graph!Range(u) = {u[i] : i \in 1..Len(u)}
    BY <1>2, RangeOf
  <2> QED
    BY <1>2, <2>1 DEF n
<1>6. PICK k \in 1..((n + b - 1) \div b), j \in 1..b :
        (k - 1) * b \in Nat /\ p = (k - 1) * b + j
  BY <1>1, <1>4, BatchOf
<1> DEFINE m == (k - 1) * b + 1
           e == end(k)
<1>7. e \in Int /\ e <= n /\ p <= e /\ m \in Nat \ {0}
  <2>1. k * b \in Nat /\ k * b = (k - 1) * b + b
    BY <1>1, <1>4, BatchStarts
  <2>2. e = IF k * b <= n THEN k * b ELSE n
    BY <1>4, <2>1, Least DEF end
  <2> QED
    BY <1>1, <1>4, <1>5, <1>6, <2>1, <2>2
<1>8. /\ SubSeq(u, m, e) \in Seq(Refs)
      /\ Len(SubSeq(u, m, e)) = IF m <= e THEN e - m + 1 ELSE 0
      /\ \A i \in 1..(e - m + 1) : SubSeq(u, m, e)[i] = u[m + i - 1]
  <2>1. \A i \in m..e : u[i] \in Refs
    BY <1>4, <1>7
  <2> HIDE DEF m, e
  <2> QED
    BY <1>7, <2>1, SubSeqProperties
<1>9. j \in 1..(e - m + 1) /\ m + j - 1 = p /\ m <= e
  BY <1>6, <1>7
<1>10. Graph!Contains(SubSeq(u, m, e), ref)
  <2> HIDE DEF m, e
  <2> QED
    BY <1>5, <1>7, <1>8, <1>9 DEF Graph!Contains
<1>11. k \in DOMAIN Graph!Batches(refs) /\ Graph!Batches(refs)[k] = SubSeq(u, m, e)
  BY <1>3
<1> HIDE DEF m, e
<1> QED
  BY <1>10, <1>11

\* Every batch is a sequence of references.
LEMMA BatchesAreSequences ==
  ASSUME NEW refs \in Seq(Refs), NEW k \in DOMAIN Graph!Batches(refs)
  PROVE  Graph!Batches(refs)[k] \in Seq(Refs)
<1> DEFINE u == Graph!Distinct(refs)
           b == BatchSize
           n == Len(u)
           m == (k - 1) * b + 1
           e == Graph!Min({k * b, n})
<1>1. b \in Nat \ {0} /\ n \in Nat /\ u \in Seq(Refs)
  BY LibraryAssumption, FreshOnce DEF Graph!Distinct
<1>2. k \in 1..((n + b - 1) \div b) /\ Graph!Batches(refs)[k] = SubSeq(u, m, e)
  BY DEF Graph!Batches
<1>3. (k - 1) * b \in Nat /\ k * b \in Nat
  <2> HIDE DEF b, n, u
  <2> QED
    BY <1>1, <1>2, BatchStarts
<1>4. e \in Int /\ e <= n
  <2> HIDE DEF b, n, u
  <2>1. e = IF k * b <= n THEN k * b ELSE n
    BY <1>1, <1>3, Least
  <2> QED
    BY <1>1, <1>3, <2>1
<1>5. m \in Nat \ {0}
  BY <1>3
<1>6. \A i \in m..e : u[i] \in Refs
  <2> HIDE DEF b, u, m, e
  <2> QED
    BY <1>1, <1>4, <1>5 DEF n
<1> HIDE DEF b, n, u, m, e
<1> QED
  BY <1>2, <1>4, <1>5, <1>6, SubSeqProperties

\* Every reference gets the answer that belongs to it.
LEMMA Answers ==
  ASSUME NEW refs \in Seq(Refs)
  PROVE  Graph!LoadWith(refs) = [i \in DOMAIN refs |-> <<refs[i], status[refs[i]]>>]
<1> DEFINE B == Graph!Batches(refs)
           answers == [k \in DOMAIN B |-> Graph!Answer(B[k])]
<1>1. Graph!LoadWith(refs) =
        [i \in DOMAIN refs |-> <<refs[i], Graph!AnswerTo(refs, answers, refs[i])>>]
  BY DEF Graph!LoadWith
<1>2. ASSUME NEW i \in DOMAIN refs
      PROVE  Graph!AnswerTo(refs, answers, refs[i]) = status[refs[i]]
  <2> DEFINE ref == refs[i]
             k == CHOOSE k \in DOMAIN answers : Graph!Contains(B[k], ref)
             j == CHOOSE j \in DOMAIN answers[k] : B[k][j] = ref
  <2>1. Graph!AnswerTo(refs, answers, ref) = answers[k][j]
    BY DEF Graph!AnswerTo
  <2>2. ref \in Graph!Range(refs)
    BY DEF Graph!Range
  <2> HIDE DEF ref, B
  <2>3. \E l \in DOMAIN B : Graph!Contains(B[l], ref)
    BY <2>2, InBatch DEF B
  <2>4. DOMAIN answers = DOMAIN B
    OBVIOUS
  <2>5. k \in DOMAIN B /\ Graph!Contains(B[k], ref)
    BY <2>3, <2>4
  <2>6. answers[k] = Graph!Answer(B[k])
    BY <2>5
  <2> HIDE DEF k, answers
  <2>7. DOMAIN answers[k] = DOMAIN B[k]
    BY <2>6 DEF Graph!Answer
  <2>8. B[k] \in Seq(Refs)
    BY <2>5, BatchesAreSequences DEF B
  <2>9. \E l \in DOMAIN B[k] : B[k][l] = ref
    BY <2>5, <2>8 DEF Graph!Contains
  <2>10. j \in DOMAIN B[k] /\ B[k][j] = ref
    BY <2>7, <2>9
  <2> HIDE DEF j
  <2>11. answers[k][j] = status[ref]
    BY <2>6, <2>10 DEF Graph!Answer
  <2> QED
    BY <2>1, <2>11 DEF ref
<1> HIDE DEF answers
<1> QED
  BY <1>1, <1>2

\* The layers of any graph: f and r for the documents and who of them exist.
NextOf(refs, docs, stat) == UNION {Graph!Range(docs[r]) : r \in {r \in refs : stat[r] = "found"}}
LayersOf(first, docs, stat) ==
  CHOOSE f : f = [k \in Nat |-> IF k = 0 THEN Graph!Range(first)
                                ELSE NextOf(f[k - 1], docs, stat) \ UNION {f[j] : j \in 0..(k - 1)}]

\* The layers change only with the graph and the roots.
LEMMA LayersStay ==
  ASSUME UNCHANGED <<children, status, roots>>
  PROVE  Graph!Layer' = Graph!Layer
<1>1. Graph!Layer = LayersOf(roots, children, status)
  BY DEF Graph!Layer, Graph!Children, LayersOf, NextOf
<1>2. Graph!Layer' = LayersOf(roots', children', status')
  BY DEF Graph!Layer, Graph!Children, LayersOf, NextOf
<1> QED
  BY <1>1, <1>2

\* What lies before a layer.
Before(f, k) == UNION {f[j] : j \in 0..(k - 1)}

\* The references in documents are references.
LEMMA ChildrenAreRefs ==
  ASSUME GraphTypes, NEW refs \in SUBSET Refs
  PROVE  Graph!Children(refs) \subseteq Refs
<1> SUFFICES ASSUME NEW x \in Graph!Children(refs) PROVE x \in Refs
  OBVIOUS
<1>1. PICK r \in refs : x \in Graph!Range(children[r])
  BY DEF Graph!Children
<1>2. children[r] \in Seq(Refs)
  BY DEF GraphTypes
<1> QED
  BY <1>1, <1>2, RangeOf

\* The first layer is the roots, and each next one what the documents of the
\* one before it refer to and no earlier one has.
LEMMA LayerByLayer ==
  ASSUME GraphTypes
  PROVE  /\ Graph!Layer[0] = Graph!Range(roots)
         /\ \A k \in Nat : Graph!Layer[k] \subseteq Refs
         /\ \A k \in Nat :
              Graph!Layer[k + 1] = Graph!Children(Graph!Layer[k]) \ Before(Graph!Layer, k + 1)
<1> DEFINE Is(f) == f = [k \in Nat |-> IF k = 0 THEN Graph!Range(roots)
                                       ELSE Graph!Children(f[k - 1]) \ Before(f, k)]
           S == (SUBSET Refs) \X (SUBSET Refs)
           first == <<Graph!Range(roots), {}>>
           step(p) == <<Graph!Children(p[1]) \ (p[2] \union p[1]), p[2] \union p[1]>>
           G == [p \in Nat \X S |-> step(p[2])]
<1>1. Graph!Layer = CHOOSE f : Is(f)
  BY DEF Graph!Layer, Before
<1>2. \E f : Is(f)
  <2>1. first \in S
    BY RangeOf DEF GraphTypes
  <2>2. ASSUME NEW p \in S PROVE step(p) \in S
    <3>1. p[1] \in SUBSET Refs /\ p[2] \in SUBSET Refs
      OBVIOUS
    <3>2. Graph!Children(p[1]) \subseteq Refs
      BY <3>1, ChildrenAreRefs
    <3> QED
      BY <3>1, <3>2
  <2> HIDE DEF step, S
  <2>3. G \in [Nat \X S -> S]
    BY <2>2
  <2>4. ASSUME NEW n \in Nat, NEW p \in S PROVE G[<<n, p>>] = step(p)
    OBVIOUS
  <2> HIDE DEF G, first
  <2>5. PICK g : Continues(g, S, first, G)
    BY <2>1, <2>3, Recursion
  <2>6. g \in [Nat -> S] /\ g[0] = first /\ \A n \in Nat : g[n + 1] = step(g[n])
    BY <2>4, <2>5 DEF Continues
  <2> DEFINE f == [k \in Nat |-> g[k][1]]
             T == {k \in Nat : g[k][2] = Before(f, k)}
  <2>7. Nat \subseteq T
    <3>1. \A k \in Nat : f[k] = g[k][1]
      OBVIOUS
    <3> HIDE DEF f
    <3>2. 0 \in T
      <4>1. Before(f, 0) = {}
        BY DEF Before
      <4>2. g[0][2] = {}
        BY <2>6 DEF first
      <4> QED
        BY <4>1, <4>2
    <3>3. ASSUME NEW k \in Nat, k \in T PROVE k + 1 \in T
      <4>1. Before(f, k + 1) = Before(f, k) \union f[k]
        <5>1. ASSUME NEW j PROVE j \in 0..(k + 1 - 1) <=> j \in 0..(k - 1) \/ j = k
          OBVIOUS
        <5> QED
          BY <5>1 DEF Before
      <4>2. g[k + 1][2] = g[k][2] \union g[k][1]
        BY <2>6 DEF step
      <4>3. g[k][2] = Before(f, k) /\ f[k] = g[k][1]
        BY <3>1, <3>3
      <4>4. g[k + 1][2] = Before(f, k + 1)
        BY <4>1, <4>2, <4>3
      <4> QED
        BY <4>4
    <3> HIDE DEF T
    <3> QED
      BY <3>2, <3>3, Induction
  <2>8. ASSUME NEW k \in Nat
        PROVE  f[k] = IF k = 0 THEN Graph!Range(roots) ELSE Graph!Children(f[k - 1]) \ Before(f, k)
    <3>1. CASE k = 0
      BY <2>6, <3>1 DEF first
    <3>2. CASE k # 0
      <4>1. k - 1 \in Nat /\ k - 1 + 1 = k
        BY <3>2
      <4>2. g[k] = step(g[k - 1])
        BY <2>6, <4>1
      <4>3. g[k][1] = Graph!Children(g[k - 1][1]) \ g[k][2]
        BY <4>2 DEF step
      <4>4. g[k][2] = Before(f, k)
        BY <2>7
      <4> QED
        BY <3>2, <4>1, <4>3, <4>4
    <3> QED
      BY <3>1, <3>2
  <2>9. f = [k \in Nat |-> f[k]]
    OBVIOUS
  <2> HIDE DEF f
  <2> QED
    BY <2>8, <2>9
<1>3. Is(Graph!Layer)
  <2> HIDE DEF Is
  <2> QED
    BY <1>1, <1>2
<1>4. Graph!Layer[0] = Graph!Range(roots)
  BY <1>3
<1>5. ASSUME NEW k \in Nat
      PROVE  Graph!Layer[k + 1] = Graph!Children(Graph!Layer[k]) \ Before(Graph!Layer, k + 1)
  <2>1. ASSUME NEW l \in Nat, l # 0
        PROVE  Graph!Layer[l] = Graph!Children(Graph!Layer[l - 1]) \ Before(Graph!Layer, l)
    BY <1>3, <2>1
  <2> DEFINE m == k + 1
  <2>2. m \in Nat /\ m # 0 /\ m - 1 = k
    OBVIOUS
  <2> HIDE DEF m
  <2>3. Graph!Layer[m] = Graph!Children(Graph!Layer[m - 1]) \ Before(Graph!Layer, m)
    BY <2>1, <2>2
  <2> QED
    BY <2>2, <2>3 DEF m
<1> HIDE DEF Is
<1> DEFINE T == {k \in Nat : Graph!Layer[k] \subseteq Refs}
<1>6. Nat \subseteq T
  <2>1. 0 \in T
    BY <1>4, RangeOf DEF GraphTypes
  <2>2. ASSUME NEW k \in Nat, k \in T PROVE k + 1 \in T
    BY <1>5, <2>2, ChildrenAreRefs
  <2> HIDE DEF T
  <2> QED
    BY <2>1, <2>2, Induction
<1> QED
  BY <1>4, <1>5, <1>6

\* What lies before the next layer.
LEMMA BeforeNext ==
  ASSUME NEW f, NEW k \in Nat
  PROVE  Before(f, k + 1) = Before(f, k) \union f[k]
<1>1. ASSUME NEW j PROVE j \in 0..(k + 1 - 1) <=> j \in 0..(k - 1) \/ j = k
  OBVIOUS
<1> QED
  BY <1>1 DEF Before

\* No reference is in two layers.
LEMMA LayersDisjoint ==
  ASSUME GraphTypes, NEW k \in Nat
  PROVE  Graph!Layer[k] \intersect Before(Graph!Layer, k) = {}
<1>1. CASE k = 0
  <2>1. Before(Graph!Layer, 0) = {}
    BY DEF Before
  <2> QED
    BY <1>1, <2>1
<1>2. CASE k # 0
  <2>1. k - 1 \in Nat /\ k - 1 + 1 = k
    BY <1>2
  <2>2. Graph!Layer[k] = Graph!Children(Graph!Layer[k - 1]) \ Before(Graph!Layer, k)
    BY <2>1, LayerByLayer
  <2> QED
    BY <2>2
<1> QED
  BY <1>1, <1>2

\* After an empty layer there are only empty ones.
LEMMA NothingFollows ==
  ASSUME GraphTypes, NEW d \in Nat, Graph!Layer[d] = {}
  PROVE  \A k \in Nat : Graph!Layer[k] \subseteq Before(Graph!Layer, d)
<1> DEFINE T == {n \in Nat : Graph!Layer[d + n] = {}}
<1>1. Nat \subseteq T
  <2>1. 0 \in T
    OBVIOUS
  <2>2. ASSUME NEW n \in Nat, n \in T PROVE n + 1 \in T
    <3>1. d + n \in Nat /\ d + n + 1 = d + (n + 1)
      OBVIOUS
    <3>2. Graph!Children({}) = {}
      BY DEF Graph!Children
    <3>3. Graph!Layer[d + n + 1] =
            Graph!Children(Graph!Layer[d + n]) \ Before(Graph!Layer, d + n + 1)
      BY <3>1, LayerByLayer
    <3> QED
      BY <2>2, <3>1, <3>2, <3>3
  <2> HIDE DEF T
  <2> QED
    BY <2>1, <2>2, Induction
<1> SUFFICES ASSUME NEW k \in Nat PROVE Graph!Layer[k] \subseteq Before(Graph!Layer, d)
  OBVIOUS
<1>2. CASE k < d
  <2>1. k \in 0..(d - 1)
    BY <1>2
  <2> QED
    BY <2>1 DEF Before
<1>3. CASE ~(k < d)
  <2>1. k - d \in Nat /\ d + (k - d) = k
    BY <1>3
  <2> QED
    BY <1>1, <2>1
<1> QED
  BY <1>2, <1>3

\* What is complete lies before the layer of the present depth.
LEMMA CompleteIsBefore == Graph!Complete = Before(Graph!Layer, depth)
BY DEF Graph!Complete, Before

\* A finite set of references as a sequence.
LEMMA SetSequences ==
  ASSUME NEW refs \in SUBSET Refs
  PROVE  Graph!SetToSeq(refs) \in Seq(Refs)
<1>1. IsFiniteSet(refs)
  BY LibraryAssumption, FS_Subset
<1>2. Cardinality(refs) \in Nat /\ ExistsBijection(1..Cardinality(refs), refs)
  BY <1>1, FS_CardinalityType
<1>3. PICK f : f \in Bijection(1..Cardinality(refs), refs)
  BY <1>2 DEF ExistsBijection
<1>4. f \in [1..Cardinality(refs) -> refs] /\ Graph!IsInjective(f)
  BY <1>3 DEF Bijection, Injection, IsInjective, Graph!IsInjective
<1>5. Graph!Cardinality(refs) = Cardinality(refs)
  BY DEF Cardinality, Graph!Cardinality
<1>6. Graph!SetToSeq(refs) \in [1..Cardinality(refs) -> refs]
  BY <1>4, <1>5 DEF Graph!SetToSeq
<1>7. Graph!SetToSeq(refs) \in Seq(refs)
  BY <1>2, <1>6
<1> QED
  BY <1>7

\* The invariant holds before a call.
LEMMA InitLoads == Graph!Init => Loads
<1> SUFFICES ASSUME Graph!Init PROVE Loads
  OBVIOUS
<1>1. /\ children \in [Refs -> {Graph!SetToSeq(s) : s \in SUBSET Refs}]
      /\ status \in [Refs -> Statuses]
      /\ roots \in Roots /\ maxDepth \in Depths /\ maxDocuments \in Limits
      /\ loading = "called" /\ depth = 0 /\ seen = {} /\ pending = <<>> /\ batch = <<>>
      /\ nodes = <<>> /\ truncated = FALSE /\ failed = "none"
  BY DEF Graph!Init, Statuses
<1>2. children \in [Refs -> Seq(Refs)]
  BY <1>1, SetSequences
<1>3. roots \in Seq(Refs) /\ maxDepth \in Nat \ {0} /\ maxDocuments \in Nat
  BY <1>1, LibraryAssumption
<1>4. GraphTypes
  <2>1. <<>> \in Seq(Refs) /\ <<>> \in Seq(Refs \X Outcomes)
    OBVIOUS
  <2>2. truncated \in BOOLEAN
    BY <1>1
  <2> QED
    BY <1>1, <1>2, <1>3, <2>1, <2>2 DEF GraphTypes
<1>5. ~Graph!Preloaded
  BY <1>1 DEF Graph!Preloaded
<1> QED
  BY <1>1, <1>4, <1>5 DEF Loads, Uncalled, AnsweredInPlace, Layered, Between, Outcome

\* What is loaded keeps its order while a call only looks at the next level.
LEMMA LoadedStays ==
  ASSUME Once, Ordered, Bounded, UNCHANGED Graph!input, UNCHANGED <<depth, pending, nodes>>
  PROVE  /\ Once' /\ Ordered' /\ Bounded'
         /\ Graph!Complete' = Graph!Complete /\ (Graph!Layer[depth])' = Graph!Layer[depth]
<1>1. Graph!Layer' = Graph!Layer /\ UNCHANGED <<status, roots, maxDepth, maxDocuments>>
  BY LayersStay DEF Graph!input
<1>2. Graph!Complete' = Graph!Complete /\ Loaded' = Loaded
  BY <1>1 DEF Graph!Complete, Loaded
<1>3. Once'
  BY <1>1, <1>2 DEF Once
<1>4. Ordered'
  BY <1>1, <1>2 DEF Ordered
<1>5. Bounded'
  BY <1>1, <1>2 DEF Bounded
<1> QED
  BY <1>1, <1>2, <1>3, <1>4, <1>5

\* MGet answers every reference in its place.
LEMMA MGetKeeps ==
  ASSUME Loads, Graph!MGet
  PROVE  Loads'
<1>1. /\ loading = "called" /\ loading' = "returned" /\ UNCHANGED Graph!input
      /\ UNCHANGED <<depth, seen, pending, batch, truncated>>
  BY DEF Graph!MGet, Graph!Return
<1>2. GraphTypes /\ depth = 0 /\ pending = <<>>
  BY <1>1 DEF Loads, Uncalled
<1>3. ~Graph!Preloaded'
  BY <1>1, <1>2 DEF Graph!Preloaded
<1>4. UNCHANGED <<children, status, roots, maxDepth, maxDocuments>>
  BY <1>1 DEF Graph!input
<1>5. CASE nodes' = nodes /\ failed' = "request"
  <2>1. GraphTypes' /\ AnsweredInPlace'
    BY <1>1, <1>2, <1>4, <1>5 DEF GraphTypes, AnsweredInPlace
  <2> QED
    BY <1>1, <1>3, <2>1 DEF Loads, Uncalled, Layered, Between, Outcome
<1>6. CASE \E refused \in SUBSET {i \in DOMAIN roots : status[roots[i]] = "found"} :
             nodes' = Graph!AfterRead(Graph!LoadWith(roots), refused)
  <2>1. PICK refused \in SUBSET {i \in DOMAIN roots : status[roots[i]] = "found"} :
               nodes' = Graph!AfterRead(Graph!LoadWith(roots), refused)
    BY <1>6
  <2>2. roots \in Seq(Refs) /\ status \in [Refs -> Statuses]
    BY <1>2 DEF GraphTypes
  <2>3. Graph!LoadWith(roots) = [i \in DOMAIN roots |-> <<roots[i], status[roots[i]]>>]
    BY <2>2, Answers
  <2>4. nodes' = [i \in DOMAIN roots |-> IF i \in refused THEN <<roots[i], "hook">>
                                         ELSE <<roots[i], status[roots[i]]>>]
    BY <2>1, <2>3 DEF Graph!AfterRead
  <2>5. InPlace'
    BY <1>4, <2>1, <2>4 DEF InPlace
  <2>6. nodes' \in Seq(Refs \X Outcomes)
    <3>1. \A i \in 1..Len(roots) : nodes'[i] \in Refs \X Outcomes
      BY <2>2, <2>4 DEF Outcomes
    <3>2. nodes' = [i \in 1..Len(roots) |-> nodes'[i]]
      BY <2>2, <2>4
    <3> QED
      BY <2>2, <3>1, <3>2
  <2> QED
    BY <1>1, <1>2, <1>3, <1>4, <2>5, <2>6
       DEF Loads, GraphTypes, Uncalled, AnsweredInPlace, Layered, Between, Outcome
<1> QED
  BY <1>5, <1>6 DEF Graph!MGet, Graph!Return

\* Preload starts with the roots pending.
LEMMA PreloadKeeps ==
  ASSUME Loads, Graph!Preload
  PROVE  Loads'
<1>1. /\ loading = "called" /\ loading' = "level" /\ pending' = roots /\ UNCHANGED Graph!input
      /\ UNCHANGED <<depth, seen, batch, nodes, truncated, failed>>
  BY DEF Graph!Preload
<1>2. GraphTypes /\ depth = 0 /\ seen = {} /\ nodes = <<>> /\ ~truncated /\ failed = "none"
  BY <1>1 DEF Loads, Uncalled
<1>3. UNCHANGED <<children, status, roots, maxDepth, maxDocuments>>
  BY <1>1 DEF Graph!input
<1>4. GraphTypes'
  BY <1>1, <1>2, <1>3 DEF GraphTypes
<1>5. Graph!Complete' = {}
  BY <1>1, <1>2 DEF Graph!Complete
<1>6. (Graph!Layer[depth])' = Graph!Range(roots)
  BY <1>1, <1>2, <1>3, LayersStay, LayerByLayer
<1>7. Once' /\ Ordered'
  BY <1>1, <1>2, <1>5 DEF Once, Ordered, Loaded, Graph!Range
<1>8. Bounded'
  BY <1>1, <1>2, <1>3, <1>5, <1>6 DEF Bounded, GraphTypes
<1>9. ~Graph!Preloaded'
  BY <1>1 DEF Graph!Preloaded
<1> QED
  BY <1>1, <1>2, <1>4, <1>5, <1>7, <1>8, <1>9
     DEF Loads, Uncalled, AnsweredInPlace, Layered, Between, Outcome

\* What is new in a level is the next layer.
LEMMA NewIsNext ==
  ASSUME Loads, loading = "level"
  PROVE  /\ Graph!NewRefs(pending) \in Seq(Refs)
         /\ Graph!Range(Graph!NewRefs(pending)) = Graph!Layer[depth]
         /\ \A i, j \in DOMAIN Graph!NewRefs(pending) :
              Graph!NewRefs(pending)[i] = Graph!NewRefs(pending)[j] => i = j
         /\ Graph!NewRefs(pending) = <<>> <=> Graph!Layer[depth] = {}
         /\ Graph!Cardinality(Graph!Layer[depth]) = Len(Graph!NewRefs(pending))
<1> DEFINE new == Graph!NewRefs(pending)
<1>1. pending \in Seq(Refs) /\ seen = Graph!Complete /\ Bounded
  BY DEF Loads, GraphTypes, Layered, Between
<1>2. /\ new \in Seq(Refs) /\ \A i, j \in DOMAIN new : new[i] = new[j] => i = j
      /\ Graph!Range(new) = Graph!Range(pending) \ seen
  BY <1>1, FreshOnce DEF Graph!NewRefs
<1>3. Graph!Range(new) = Graph!Layer[depth]
  BY <1>1, <1>2 DEF Bounded
<1> HIDE DEF new
<1>4. new = <<>> <=> Graph!Layer[depth] = {}
  BY <1>2, <1>3, RangeOf
<1>5. Graph!Cardinality(Graph!Layer[depth]) = Len(new)
  BY <1>2, <1>3, Distinctness
<1> QED
  BY <1>2, <1>3, <1>4, <1>5 DEF new

\* A level is loaded, or ends the call for the reason that is given.
LEMMA LevelKeeps ==
  ASSUME Loads, Graph!Level
  PROVE  Loads'
<1> DEFINE new == Graph!NewRefs(pending)
<1>1. /\ loading = "level" /\ loading' \in {"load", "returned"} /\ UNCHANGED Graph!input
      /\ UNCHANGED <<depth, pending, nodes>>
  BY DEF Graph!Level, Graph!Return
<1>2. /\ GraphTypes /\ Once /\ Ordered /\ Bounded /\ seen = Graph!Complete
      /\ ~truncated /\ failed = "none"
  BY <1>1 DEF Loads, Layered, Between
<1>3. /\ Once' /\ Ordered' /\ Bounded' /\ Graph!Complete' = Graph!Complete
      /\ (Graph!Layer[depth])' = Graph!Layer[depth]
  BY <1>1, <1>2, LoadedStays
<1>4. UNCHANGED <<children, status, roots, maxDepth, maxDocuments>>
  BY <1>1 DEF Graph!input
<1>5. /\ new \in Seq(Refs) /\ Graph!Range(new) = Graph!Layer[depth]
      /\ \A i, j \in DOMAIN new : new[i] = new[j] => i = j
      /\ new = <<>> <=> Graph!Layer[depth] = {}
      /\ Graph!Cardinality(Graph!Layer[depth]) = Len(new)
  BY <1>1, NewIsNext
<1> HIDE DEF new
<1>6. GraphTypes'
  <2>1. batch' \in Seq(Refs) /\ truncated' \in BOOLEAN
    BY <1>2, <1>5 DEF Graph!Level, GraphTypes, new
  <2> QED
    BY <1>1, <1>2, <1>4, <2>1 DEF GraphTypes
<1>7. Uncalled' /\ Layered'
  BY <1>1, <1>3 DEF Uncalled, Layered
<1>8. AnsweredInPlace'
  <2> SUFFICES ASSUME loading' = "returned", ~Graph!Preloaded'
               PROVE  InPlace'
    BY DEF AnsweredInPlace
  <2>1. depth = 0 /\ Len(pending) = 0 /\ pending = <<>>
    BY <1>1, <1>2 DEF Graph!Preloaded, GraphTypes
  <2>2. roots = <<>> /\ nodes = <<>>
    BY <1>2, <2>1 DEF Bounded
  <2> QED
    BY <1>1, <1>4, <2>2 DEF InPlace
<1>9. /\ failed' \in {"none", "nil", "context", "limit"}
      /\ loading' = "load" =>
           /\ failed' = "none" /\ ~truncated' /\ batch' = new /\ depth < maxDepth
           /\ seen' = seen \union Graph!Range(new) /\ Len(nodes) + Len(new) <= maxDocuments
      /\ loading' = "returned" => failed' # "none"
      /\ failed' = "limit" =>
           /\ new # <<>> /\ depth < maxDepth /\ Len(nodes) + Len(new) > maxDocuments
      /\ failed' = "nil" /\ ~truncated' => new = <<>> \/ pending = <<>>
      /\ truncated' => failed' = "nil" /\ depth >= maxDepth /\ new # <<>>
  <2>1. depth \in Nat /\ maxDepth \in Nat /\ Len(nodes) + Len(new) \in Nat /\ maxDocuments \in Nat
    BY <1>2, <1>5 DEF GraphTypes
  <2> QED
    BY <1>2, <2>1 DEF Graph!Level, Graph!Return, new
<1>10. Between'
  BY <1>1, <1>2, <1>3, <1>4, <1>5, <1>9 DEF Between
<1>11. Outcome'
  <2>1. pending = <<>> => Graph!Layer[depth] = {}
    BY <1>2 DEF Bounded, Graph!Range
  <2>2. depth >= maxDepth => depth = maxDepth
    BY <1>2 DEF Bounded, GraphTypes
  <2> QED
    BY <1>1, <1>3, <1>4, <1>5, <1>9, <2>1, <2>2 DEF Outcome, Graph!Preloaded
<1> QED
  BY <1>6, <1>7, <1>8, <1>10, <1>11 DEF Loads

\* The results of a layer's batch continue what is loaded.
LEMMA NodesGrow ==
  ASSUME GraphTypes, Once, Ordered, Bounded, NEW results,
         results = [i \in DOMAIN batch |-> <<batch[i], status[batch[i]]>>],
         \A i, j \in DOMAIN batch : batch[i] = batch[j] => i = j,
         Graph!Range(batch) = Graph!Layer[depth],
         nodes' = nodes \o results, depth' = depth + 1,
         Graph!Layer' = Graph!Layer, UNCHANGED status
  PROVE  /\ nodes' \in Seq(Refs \X Outcomes) /\ Len(nodes') = Len(nodes) + Len(batch)
         /\ Graph!Complete' = Graph!Complete \union Graph!Layer[depth]
         /\ Once' /\ Ordered'
<1> DEFINE n == Len(nodes)
           m == Len(batch)
<1>1. /\ nodes \in Seq(Refs \X Outcomes) /\ batch \in Seq(Refs) /\ status \in [Refs -> Statuses]
      /\ depth \in Nat
  BY DEF GraphTypes
<1>2. results \in Seq(Refs \X Outcomes) /\ Len(results) = m
  <2>1. DOMAIN batch = 1..m /\ m \in Nat
    BY <1>1
  <2>2. \A i \in 1..m : batch[i] \in Refs /\ status[batch[i]] \in Outcomes
    BY <1>1 DEF Outcomes
  <2> HIDE DEF m
  <2>3. results \in [1..m -> Refs \X Outcomes] /\ DOMAIN results = 1..m
    BY <2>1, <2>2
  <2>4. results \in Seq(Refs \X Outcomes)
    BY <2>1, <2>3
  <2>5. DOMAIN results = 1..Len(results) /\ Len(results) \in Nat
    BY <2>4
  <2> QED
    BY <2>1, <2>3, <2>4, <2>5
<1>3. /\ nodes' \in Seq(Refs \X Outcomes) /\ Len(nodes') = n + m
      /\ \A i \in 1..(n + m) : nodes'[i] = IF i <= n THEN nodes[i] ELSE results[i - n]
  <2> HIDE DEF m
  <2> QED
    BY <1>1, <1>2, ConcatProperties
<1>4. /\ n \in Nat /\ m \in Nat /\ DOMAIN nodes = 1..n /\ DOMAIN batch = 1..m
      /\ DOMAIN nodes' = 1..(n + m)
  BY <1>1, <1>3
<1> HIDE DEF n, m
<1>5. Graph!Complete' = Graph!Complete \union Graph!Layer[depth]
  BY <1>1, BeforeNext DEF Graph!Complete, Before
<1>6. Graph!Complete \intersect Graph!Layer[depth] = {}
  BY <1>1, LayersDisjoint, CompleteIsBefore
<1>7. ASSUME NEW i \in 1..n
      PROVE  i \in DOMAIN nodes' /\ nodes'[i] = nodes[i] /\ Loaded'[i] = Loaded[i]
             /\ Loaded[i] \in Graph!Complete
  <2>1. i \in 1..(n + m) /\ nodes'[i] = nodes[i]
    BY <1>3, <1>4
  <2>2. Loaded'[i] = nodes'[i][1] /\ Loaded[i] = nodes[i][1]
    BY <1>4, <2>1 DEF Loaded
  <2>3. Loaded[i] \in Graph!Range(Loaded)
    BY <1>4 DEF Loaded, Graph!Range
  <2> QED
    BY <1>4, <2>1, <2>2, <2>3 DEF Once
<1>8. ASSUME NEW i \in 1..m
      PROVE  n + i \in DOMAIN nodes' /\ Loaded'[n + i] = batch[i]
             /\ nodes'[n + i][2] = status[batch[i]] /\ batch[i] \in Graph!Layer[depth]
  <2>1. n + i \in 1..(n + m) /\ ~(n + i <= n) /\ n + i - n = i
    BY <1>4
  <2>2. nodes'[n + i] = results[i]
    <3> DEFINE p == n + i
    <3>1. p \in 1..(n + m) /\ ~(p <= n) /\ p - n = i
      BY <1>4, <2>1
    <3> HIDE DEF p
    <3>2. nodes'[p] = results[i]
      BY <1>3, <3>1
    <3> QED
      BY <3>2 DEF p
  <2>3. results[i] = <<batch[i], status[batch[i]]>>
    BY <1>4
  <2>4. Loaded'[n + i] = nodes'[n + i][1]
    BY <1>4, <2>1 DEF Loaded
  <2>5. batch[i] \in Graph!Range(batch)
    BY <1>4 DEF Graph!Range
  <2> QED
    BY <1>4, <2>1, <2>2, <2>3, <2>4, <2>5
<1>9. ASSUME NEW i \in DOMAIN nodes', i \notin 1..n
      PROVE  \E j \in 1..m : i = n + j /\ Loaded'[i] = batch[j] /\ batch[j] \in Graph!Layer[depth]
                             /\ nodes'[i][2] = status[batch[j]]
  <2> DEFINE j == i - n
  <2>1. j \in 1..m /\ i = n + j
    <3>1. i \in 1..(n + m) /\ n \in Nat /\ m \in Nat
      BY <1>4
    <3>2. i > n
      BY <1>9, <3>1
    <3> QED
      BY <3>1, <3>2
  <2> HIDE DEF j
  <2> QED
    BY <1>8, <2>1
<1>10. Once'
  <2>1. ASSUME NEW i \in DOMAIN nodes', NEW j \in DOMAIN nodes', Loaded'[i] = Loaded'[j]
        PROVE  i = j
    <3>1. CASE i \in 1..n /\ j \in 1..n
      BY <1>4, <1>7, <2>1, <3>1 DEF Once
    <3>2. CASE i \in 1..n /\ j \notin 1..n
      <4>1. Loaded'[i] \in Graph!Complete
        BY <1>7, <3>2
      <4>2. Loaded'[j] \in Graph!Layer[depth]
        BY <1>9, <3>2
      <4> QED
        BY <1>6, <2>1, <4>1, <4>2
    <3>3. CASE i \notin 1..n /\ j \in 1..n
      <4>1. Loaded'[i] \in Graph!Layer[depth]
        BY <1>9, <3>3
      <4>2. Loaded'[j] \in Graph!Complete
        BY <1>7, <3>3
      <4> QED
        BY <1>6, <2>1, <4>1, <4>2
    <3>4. CASE i \notin 1..n /\ j \notin 1..n
      <4>1. PICK k \in 1..m : i = n + k /\ Loaded'[i] = batch[k]
        BY <1>9, <3>4
      <4>2. PICK l \in 1..m : j = n + l /\ Loaded'[j] = batch[l]
        BY <1>9, <3>4
      <4> QED
        BY <1>4, <2>1, <4>1, <4>2
    <3> QED
      BY <3>1, <3>2, <3>3, <3>4
  <2>2. Graph!Range(Loaded') = Graph!Complete'
    <3>1. DOMAIN Loaded' = DOMAIN nodes' /\ DOMAIN Loaded = 1..n
      BY <1>4 DEF Loaded
    <3>2. ASSUME NEW x \in Graph!Range(Loaded') PROVE x \in Graph!Complete'
      <4>1. PICK i \in DOMAIN nodes' : x = Loaded'[i]
        BY <3>1 DEF Graph!Range
      <4> QED
        BY <1>5, <1>7, <1>9, <4>1
    <3>3. ASSUME NEW x \in Graph!Complete' PROVE x \in Graph!Range(Loaded')
      <4>1. CASE x \in Graph!Complete
        <5>1. PICK i \in 1..n : x = Loaded[i]
          BY <3>1, <4>1 DEF Once, Graph!Range
        <5> QED
          BY <1>7, <3>1, <5>1 DEF Graph!Range
      <4>2. CASE x \in Graph!Layer[depth]
        <5>1. PICK i \in 1..m : x = batch[i]
          BY <1>4, <4>2 DEF Graph!Range
        <5> DEFINE p == n + i
        <5>2. p \in DOMAIN Loaded' /\ Loaded'[p] = x
          BY <1>8, <3>1, <5>1
        <5> HIDE DEF p
        <5> QED
          BY <5>2 DEF Graph!Range
      <4> QED
        BY <1>5, <4>1, <4>2
    <3> QED
      BY <3>2, <3>3
  <2>3. ASSUME NEW i \in DOMAIN nodes' PROVE nodes'[i][2] = status'[Loaded'[i]]
    <3>1. CASE i \in 1..n
      BY <1>4, <1>7, <3>1 DEF Once
    <3>2. CASE i \notin 1..n
      BY <1>9, <3>2
    <3> QED
      BY <3>1, <3>2
  <2> QED
    BY <2>1, <2>2, <2>3 DEF Once
<1>11. Ordered'
  <2> SUFFICES ASSUME NEW i \in DOMAIN nodes', NEW j \in DOMAIN nodes',
                      NEW k \in 0..depth, NEW l \in 0..depth,
                      Loaded'[i] \in Graph!Layer[k], Loaded'[j] \in Graph!Layer[l], i < j
               PROVE  k <= l
    <3>1. depth' - 1 = depth
      BY <1>1
    <3> QED
      BY <3>1 DEF Ordered
  <2>1. ASSUME NEW x \in Graph!Layer[depth], NEW a \in 0..depth, x \in Graph!Layer[a]
        PROVE  a = depth
    <3> SUFFICES ASSUME a # depth PROVE FALSE
      OBVIOUS
    <3>1. a \in 0..(depth - 1)
      BY <1>1
    <3>2. x \in Graph!Complete
      BY <2>1, <3>1 DEF Graph!Complete
    <3> QED
      BY <1>6, <3>2
  <2>2. CASE j \notin 1..n
    <3>1. Loaded'[j] \in Graph!Layer[depth]
      BY <1>9, <2>2
    <3>2. l = depth
      BY <2>1, <3>1
    <3> QED
      BY <1>1, <3>2
  <2>3. CASE j \in 1..n
    <3>1. i \in 1..n
      BY <1>4, <2>3
    <3>2. k # depth /\ l # depth
      BY <1>6, <1>7, <2>3, <3>1
    <3>3. k \in 0..(depth - 1) /\ l \in 0..(depth - 1)
      BY <1>1, <3>2
    <3> QED
      BY <1>4, <1>7, <2>3, <3>1, <3>3 DEF Ordered
  <2> QED
    BY <2>2, <2>3
<1> QED
  BY <1>3, <1>5, <1>10, <1>11 DEF n, m

\* What is found of a layer refers to the next one.
LEMMA PendingNext ==
  ASSUME GraphTypes, NEW found,
         found = [i \in DOMAIN batch |->
                    IF status[batch[i]] = "found" THEN children[batch[i]] ELSE <<>>],
         Graph!Range(batch) = Graph!Layer[depth]
  PROVE  /\ Graph!FlattenSeq(found) \in Seq(Refs)
         /\ Graph!Range(Graph!FlattenSeq(found)) = Graph!Children(Graph!Layer[depth])
<1>1. batch \in Seq(Refs) /\ children \in [Refs -> Seq(Refs)]
  BY DEF GraphTypes
<1>2. found \in Seq(Seq(Refs))
  <2>1. \A i \in 1..Len(batch) : batch[i] \in Refs /\ found[i] \in Seq(Refs)
    BY <1>1
  <2>2. found = [i \in 1..Len(batch) |-> found[i]] /\ Len(batch) \in Nat
    BY <1>1
  <2> QED
    BY <2>1, <2>2
<1>3. /\ Graph!FlattenSeq(found) \in Seq(Refs)
      /\ Graph!Range(Graph!FlattenSeq(found)) =
           UNION {Graph!Range(found[i]) : i \in DOMAIN found}
  BY <1>2, Flattened
<1>4. ASSUME NEW x
      PROVE  (\E i \in DOMAIN found : x \in Graph!Range(found[i])) <=>
               \E r \in Graph!Layer[depth] : status[r] = "found" /\ x \in Graph!Range(children[r])
  <2>1. DOMAIN found = DOMAIN batch /\ Graph!Range(<<>>) = {}
    BY DEF Graph!Range
  <2>2. ASSUME NEW i \in DOMAIN found, x \in Graph!Range(found[i])
        PROVE  \E r \in Graph!Layer[depth] : status[r] = "found" /\ x \in Graph!Range(children[r])
    <3>1. status[batch[i]] = "found" /\ found[i] = children[batch[i]]
      BY <2>1, <2>2
    <3>2. batch[i] \in Graph!Layer[depth]
      BY <2>1 DEF Graph!Range
    <3> QED
      BY <2>2, <3>1, <3>2
  <2>3. ASSUME NEW r \in Graph!Layer[depth], status[r] = "found", x \in Graph!Range(children[r])
        PROVE  \E i \in DOMAIN found : x \in Graph!Range(found[i])
    <3>1. PICK i \in DOMAIN batch : batch[i] = r
      BY DEF Graph!Range
    <3> QED
      BY <2>1, <2>3, <3>1
  <2> QED
    BY <2>2, <2>3
<1>5. UNION {Graph!Range(found[i]) : i \in DOMAIN found} = Graph!Children(Graph!Layer[depth])
  BY <1>4 DEF Graph!Children
<1> QED
  BY <1>3, <1>5

\* A level that is loaded is the next layer, and its references are pending.
LEMMA LoadLevelKeeps ==
  ASSUME Loads, Graph!LoadLevel
  PROVE  Loads'
<1>1. loading = "load" /\ UNCHANGED <<seen, batch, truncated>> /\ UNCHANGED Graph!input
  BY DEF Graph!LoadLevel
<1>2. /\ GraphTypes /\ Once /\ Ordered /\ Bounded /\ ~truncated
      /\ seen = Graph!Complete \union Graph!Layer[depth]
      /\ \A i, j \in DOMAIN batch : batch[i] = batch[j] => i = j
      /\ Graph!Range(batch) = Graph!Layer[depth]
      /\ depth < maxDepth /\ Len(nodes) + Len(batch) <= maxDocuments /\ failed = "none"
  BY <1>1 DEF Loads, Layered, Between
<1>3. UNCHANGED <<children, status, roots, maxDepth, maxDocuments>>
  BY <1>1 DEF Graph!input
<1>4. CASE Graph!Return("request") /\ UNCHANGED <<depth, pending, nodes>>
  <2>1. loading' = "returned" /\ failed' = "request"
    BY <1>4 DEF Graph!Return
  <2>2. Once' /\ Ordered' /\ Bounded'
    BY <1>1, <1>2, <1>4, LoadedStays
  <2>3. GraphTypes'
    BY <1>1, <1>2, <1>3, <1>4, <2>1 DEF GraphTypes
  <2> QED
    BY <1>1, <1>2, <2>1, <2>2, <2>3
       DEF Loads, Uncalled, AnsweredInPlace, Layered, Between, Outcome
<1>5. CASE ~(Graph!Return("request") /\ UNCHANGED <<depth, pending, nodes>>)
  <2> DEFINE results == Graph!LoadWith(batch)
             found == [i \in DOMAIN results |->
                         IF results[i][2] = "found" THEN children[results[i][1]] ELSE <<>>]
  <2>1. /\ nodes' = nodes \o results /\ pending' = Graph!FlattenSeq(found)
        /\ depth' = depth + 1 /\ loading' = "level" /\ failed' = failed
    BY <1>5 DEF Graph!LoadLevel
  <2>2. results = [i \in DOMAIN batch |-> <<batch[i], status[batch[i]]>>]
    BY <1>2, Answers DEF GraphTypes
  <2>3. found = [i \in DOMAIN batch |->
                   IF status[batch[i]] = "found" THEN children[batch[i]] ELSE <<>>]
    BY <2>2
  <2> HIDE DEF results, found
  <2>4. Graph!Layer' = Graph!Layer
    BY <1>3, LayersStay
  <2>5. /\ nodes' \in Seq(Refs \X Outcomes) /\ Len(nodes') = Len(nodes) + Len(batch)
        /\ Graph!Complete' = Graph!Complete \union Graph!Layer[depth]
        /\ Once' /\ Ordered'
    BY <1>2, <1>3, <2>1, <2>2, <2>4, NodesGrow
  <2>6. pending' \in Seq(Refs) /\ Graph!Range(pending') = Graph!Children(Graph!Layer[depth])
    BY <1>2, <2>1, <2>3, PendingNext
  <2>7. depth \in Nat /\ maxDepth \in Nat /\ depth + 1 \in Nat
    BY <1>2 DEF GraphTypes
  <2>8. GraphTypes'
    BY <1>1, <1>2, <1>3, <2>1, <2>5, <2>6, <2>7 DEF GraphTypes
  <2>9. Graph!Range(pending') \ Graph!Complete' = Graph!Layer'[depth']
    <3>1. Graph!Layer[depth + 1] =
            Graph!Children(Graph!Layer[depth]) \ Before(Graph!Layer, depth + 1)
      BY <1>2, <2>7, LayerByLayer
    <3>2. Before(Graph!Layer, depth + 1) = Graph!Complete'
      BY <2>5, <2>7, BeforeNext, CompleteIsBefore
    <3> QED
      BY <2>1, <2>4, <2>6, <3>1, <3>2
  <2>10. Bounded'
    BY <1>2, <1>3, <2>1, <2>5, <2>7, <2>9 DEF Bounded
  <2>11. ~Graph!Preloaded'
    BY <2>1 DEF Graph!Preloaded
  <2>12. Between'
    BY <1>1, <1>2, <2>1, <2>5 DEF Between
  <2> QED
    BY <2>1, <2>5, <2>8, <2>10, <2>11, <2>12
       DEF Loads, Uncalled, AnsweredInPlace, Layered, Outcome
<1> QED
  BY <1>4, <1>5

\* Every step of a call that loads references keeps its invariant.
LEMMA GraphStep ==
  ASSUME GraphInv, Next
  PROVE  GraphInv'
<1> SUFFICES ASSUME part = "graph", part' = "graph" PROVE Loads'
  BY DEF Next, GraphInv
<1>1. Loads /\ Graph!Next
  BY DEF GraphInv, Next
<1> QED
  BY <1>1, MGetKeeps, PreloadKeeps, LevelKeeps, LoadLevelKeeps DEF Graph!Next

\* A state of the invariant has what is promised of a result.
LEMMA LoadsPromised ==
  ASSUME Loads
  PROVE  Graph!PreloadIsBreadthFirst
<1>1. GraphTypes
  BY DEF Loads
<1>2. ASSUME loading = "returned", ~Graph!Preloaded, failed = "nil"
      PROVE  InPlace
  BY <1>2 DEF Loads, AnsweredInPlace
<1>3. ASSUME Graph!Preloaded
      PROVE  /\ Graph!IsInjective(Loaded) /\ Graph!Range(Loaded) = Graph!Complete
             /\ \A i \in DOMAIN nodes : nodes[i][2] = status[Loaded[i]]
             /\ Ordered
             /\ Len(nodes) <= maxDocuments
             /\ failed = "limit" <=>
                  failed # "context" /\ failed # "request" /\ depth < maxDepth
                  /\ Graph!Layer[depth] # {}
                  /\ Len(nodes) + Graph!Cardinality(Graph!Layer[depth]) > maxDocuments
             /\ truncated => failed = "nil" /\ depth = maxDepth /\ Graph!Layer[depth] # {}
             /\ failed = "nil" /\ ~truncated =>
                  \A k \in 0..Graph!Cardinality(Refs) : Graph!Layer[k] \subseteq Graph!Complete
  <2>1. Once /\ Ordered /\ Bounded /\ Outcome
    BY <1>3 DEF Loads, Layered
  <2>2. Graph!IsInjective(Loaded)
    BY <2>1 DEF Once, Loaded, Graph!IsInjective
  <2>3. failed = "limit" <=>
          failed # "context" /\ failed # "request" /\ depth < maxDepth
          /\ Graph!Layer[depth] # {}
          /\ Len(nodes) + Graph!Cardinality(Graph!Layer[depth]) > maxDocuments
    <3>1. depth < maxDepth => depth # maxDepth
      BY <1>1 DEF GraphTypes
    <3> QED
      BY <1>3, <2>1, <3>1 DEF Outcome
  <2>4. ASSUME failed = "nil", ~truncated
        PROVE  \A k \in 0..Graph!Cardinality(Refs) : Graph!Layer[k] \subseteq Graph!Complete
    <3>1. Graph!Layer[depth] = {} /\ depth \in Nat
      BY <1>1, <1>3, <2>1, <2>4 DEF Outcome, GraphTypes
    <3>2. \A k \in Nat : Graph!Layer[k] \subseteq Graph!Complete
      BY <1>1, <3>1, NothingFollows, CompleteIsBefore
    <3>3. Graph!Cardinality(Refs) \in Nat
      <4>1. Graph!Cardinality(Refs) = Cardinality(Refs)
        BY DEF Cardinality, Graph!Cardinality
      <4> QED
        BY <4>1, LibraryAssumption, FS_CardinalityType
    <3> QED
      BY <3>2, <3>3
  <2> QED
    BY <1>3, <2>1, <2>2, <2>3, <2>4 DEF Once, Bounded, Outcome
<1> QED
  BY <1>2, <1>3 DEF Graph!PreloadIsBreadthFirst, InPlace, Loaded, Ordered

\* Preload returns whole levels of the breadth-first tree of references within its limits, and
\* MGet each answer in its reference's place (src/relations.go), for any documents, references,
\* size of a batch and limits.  Where MGet's hook refuses a document, its error is the answer.
THEOREM PreloadIsBreadthFirstAlways == Spec => []PreloadIsBreadthFirst
<1>1. Init => GraphInv
  BY InitLoads DEF Init, GraphInv
<1>2. GraphInv /\ [Next]_<<part, setup, graph, derived, bulk, case>> => GraphInv'
  <2>1. ASSUME GraphInv, UNCHANGED <<part, setup, graph, derived, bulk, case>>
        PROVE  GraphInv'
    <3>1. /\ UNCHANGED <<part, children, status, roots, maxDepth, maxDocuments, loading, depth>>
          /\ UNCHANGED <<seen, pending, batch, nodes, truncated, failed>>
      BY <2>1 DEF graph
    <3>2. Graph!Layer' = Graph!Layer
      BY <3>1, LayersStay
    <3>3. Graph!Complete' = Graph!Complete /\ Loaded' = Loaded /\ Graph!Preloaded' = Graph!Preloaded
      BY <3>1, <3>2 DEF Graph!Complete, Loaded, Graph!Preloaded
    <3>4. GraphTypes' = GraphTypes /\ Uncalled' = Uncalled /\ AnsweredInPlace' = AnsweredInPlace
      BY <3>1, <3>3 DEF GraphTypes, Uncalled, AnsweredInPlace, InPlace
    <3>5. Once' = Once /\ Ordered' = Ordered /\ Bounded' = Bounded
      BY <3>1, <3>2, <3>3 DEF Once, Ordered, Bounded
    <3>6. Between' = Between /\ Outcome' = Outcome
      BY <3>1, <3>2, <3>3 DEF Between, Outcome
    <3> QED
      BY <2>1, <3>1, <3>3, <3>4, <3>5, <3>6 DEF GraphInv, Loads, Layered
  <2> QED
    BY <2>1, GraphStep
<1>3. GraphInv => PreloadIsBreadthFirst
  BY LoadsPromised DEF GraphInv, PreloadIsBreadthFirst
<1> QED
  BY <1>1, <1>2, <1>3, PTL DEF Spec

-----------------------------------------------------------------------------
(* What searches select.                                                   *)

\* What a sequence contains is its range.
LEMMA Ranges ==
  ASSUME NEW S, NEW s \in Seq(S)
  PROVE  /\ Select!Range(s) = {s[i] : i \in 1..Len(s)} /\ Select!Range(s) \subseteq S
         /\ s = <<>> <=> Select!Range(s) = {}
         /\ \A x : Select!Contains(s, x) <=> x \in Select!Range(s)
<1>1. Select!Range(s) = {s[i] : i \in 1..Len(s)}
  BY DEF Select!Range
<1>2. Select!Range(s) \subseteq S
  BY <1>1
<1>3. s = <<>> <=> Select!Range(s) = {}
  BY <1>1
<1>4. ASSUME NEW x PROVE Select!Contains(s, x) <=> x \in Select!Range(s)
  BY <1>1 DEF Select!Contains
<1> QED
  BY <1>1, <1>2, <1>3, <1>4

\* Of two sequences joined it is the union.
LEMMA Joined ==
  ASSUME NEW S, NEW s \in Seq(S), NEW t \in Seq(S)
  PROVE  /\ s \o t \in Seq(S)
         /\ Select!Range(s \o t) = Select!Range(s) \union Select!Range(t)
<1>1. s \o t \in Seq(S)
  OBVIOUS
<1>2. ASSUME NEW x \in Select!Range(s \o t)
      PROVE  x \in Select!Range(s) \union Select!Range(t)
  <2> Select!Range(s \o t) = {(s \o t)[j] : j \in 1..Len(s \o t)}
    BY <1>1, Ranges
  <2>1. PICK i \in 1..Len(s \o t) : x = (s \o t)[i]
    BY <1>2
  <2>2. CASE i <= Len(s)
    <3>1. x = s[i] /\ i \in 1..Len(s)
      BY <2>1, <2>2, ConcatProperties
    <3> QED
      BY <3>1, Ranges
  <2>3. CASE i > Len(s)
    <3>1. x = t[i - Len(s)] /\ i - Len(s) \in 1..Len(t)
      BY <2>1, <2>3, ConcatProperties
    <3> QED
      BY <3>1, Ranges
  <2> QED
    BY <2>1, <2>2, <2>3
<1>3. ASSUME NEW x \in Select!Range(s) PROVE x \in Select!Range(s \o t)
  <2>1. PICK i \in 1..Len(s) : x = s[i]
    BY <1>3, Ranges
  <2>2. (s \o t)[i] = x /\ i \in 1..Len(s \o t)
    BY <2>1, ConcatProperties
  <2>3. Select!Range(s \o t) = {(s \o t)[j] : j \in 1..Len(s \o t)}
    BY <1>1, Ranges
  <2> QED
    BY <2>2, <2>3
<1>4. ASSUME NEW x \in Select!Range(t) PROVE x \in Select!Range(s \o t)
  <2>1. PICK i \in 1..Len(t) : x = t[i]
    BY <1>4, Ranges
  <2>2. (s \o t)[Len(s) + i] = x /\ Len(s) + i \in 1..Len(s \o t)
    BY <2>1, ConcatProperties
  <2>3. Select!Range(s \o t) = {(s \o t)[j] : j \in 1..Len(s \o t)}
    BY <1>1, Ranges
  <2> QED
    BY <2>2, <2>3
<1> QED
  BY <1>1, <1>2, <1>3, <1>4

\* How many queries of a sequence match a document.
Matching(q, d) == Cardinality({i \in DOMAIN q : d \in q[i]})

\* The queries that match are counted, and all of them are when the document is in each.
LEMMA MatchingAll ==
  ASSUME NEW S, NEW q \in Seq(S), NEW d
  PROVE  /\ Select!Cardinality({i \in DOMAIN q : d \in q[i]}) = Matching(q, d)
         /\ Matching(q, d) \in Nat
         /\ Matching(q, d) = Len(q) <=> \A x \in Select!Range(q) : d \in x
         /\ Matching(q, d) = 0 <=> \A x \in Select!Range(q) : d \notin x
<1> DEFINE M == {i \in DOMAIN q : d \in q[i]}
<1>1. IsFiniteSet(1..Len(q)) /\ Cardinality(1..Len(q)) = Len(q)
  <2>1. Len(q) \in Nat
    OBVIOUS
  <2> QED
    BY <2>1, FS_Interval
<1>2. M \in SUBSET (1..Len(q)) /\ IsFiniteSet(M)
  BY <1>1, FS_Subset
<1>3. Select!Cardinality(M) = Cardinality(M)
  BY DEF Cardinality, Select!Cardinality
<1>4. Cardinality(M) \in Nat
  BY <1>2, FS_CardinalityType
<1>5. Cardinality(M) = Len(q) <=> M = 1..Len(q)
  BY <1>1, <1>2, FS_Subset
<1>6. Cardinality(M) = 0 <=> M = {}
  BY <1>2, FS_EmptySet
<1>7. M = 1..Len(q) <=> \A x \in Select!Range(q) : d \in x
  BY Ranges
<1>8. M = {} <=> \A x \in Select!Range(q) : d \notin x
  BY Ranges
<1> QED
  BY <1>3, <1>4, <1>5, <1>6, <1>7, <1>8 DEF Matching

\* What a bool query selects: all of what is required, nothing of what is excluded,
\* and one of the rest if it has to.
LEMMA BoolSelects ==
  ASSUME NEW S, NEW must \in Seq(S), NEW filter \in Seq(S), NEW should \in Seq(S),
         NEW mustNot \in Seq(S), NEW minimum \in {0, 1}
  PROVE  Select!Bool(must, filter, should, mustNot, minimum) =
           {d \in AllDocs :
              /\ \A x \in Select!Range(must) \union Select!Range(filter) : d \in x
              /\ \A x \in Select!Range(mustNot) : d \notin x
              /\ minimum = 1 => \E x \in Select!Range(should) : d \in x}
<1>1. ASSUME NEW d \in AllDocs
      PROVE  /\ (\A i \in DOMAIN must : d \in must[i]) <=> (\A x \in Select!Range(must) : d \in x)
             /\ (\A i \in DOMAIN filter : d \in filter[i])
                <=> (\A x \in Select!Range(filter) : d \in x)
             /\ (\A i \in DOMAIN mustNot : d \notin mustNot[i])
                <=> (\A x \in Select!Range(mustNot) : d \notin x)
  BY DEF Select!Range
<1>2. ASSUME NEW d \in AllDocs
      PROVE  Select!Cardinality({i \in DOMAIN should : d \in should[i]}) >= minimum
             <=> (minimum = 1 => \E x \in Select!Range(should) : d \in x)
  <2>1. /\ Matching(should, d) \in Nat
        /\ Matching(should, d) = 0 <=> \A x \in Select!Range(should) : d \notin x
        /\ Select!Cardinality({i \in DOMAIN should : d \in should[i]}) = Matching(should, d)
    BY MatchingAll
  <2> QED
    BY <2>1
<1> QED
  BY <1>1, <1>2, SMTT(30) DEF Select!Bool

\* And, Filter, Or and Not of queries that were built.
LEMMA BooleanSelects ==
  ASSUME NEW kind \in {"must", "filter", "should", "must_not"},
         NEW queries \in Seq({Bad} \union Select!Query)
  PROVE  Select!Boolean(kind, queries) =
           IF Bad \in Select!Range(queries) THEN Bad
           ELSE {d \in AllDocs :
                   CASE kind \in {"must", "filter"} -> \A q \in Select!Range(queries) : d \in q
                     [] kind = "should" -> \E q \in Select!Range(queries) : d \in q
                     [] kind = "must_not" -> \A q \in Select!Range(queries) : d \notin q}
<1> DEFINE S == {Bad} \union Select!Query
           e == <<>>
           Selects(m, f, s, n, least) ==
             {d \in AllDocs : /\ \A x \in m \union f : d \in x
                              /\ \A x \in n : d \notin x
                              /\ least = 1 => \E x \in s : d \in x}
<1>1. e \in Seq(S) /\ Select!Range(e) = {}
  BY EmptySeq, Ranges
<1>2. CASE queries = e
  <2>1. Select!Range(queries) = {}
    BY <1>1, <1>2
  <2> QED
    BY <1>2, <2>1 DEF Select!Boolean
<1>3. CASE queries # e /\ Bad \in Select!Range(queries)
  BY <1>3, Ranges DEF Select!Boolean
<1>4. CASE queries # e /\ Bad \notin Select!Range(queries)
  <2> DEFINE r == Select!Range(queries)
  <2>1. ~Select!Contains(queries, Bad)
    BY <1>4, Ranges
  <2>2. Select!Boolean(kind, queries) =
          CASE kind = "must" -> Select!Bool(queries, e, e, e, 0)
            [] kind = "filter" -> Select!Bool(e, queries, e, e, 0)
            [] kind = "should" -> Select!Bool(e, e, queries, e, 1)
            [] kind = "must_not" -> Select!Bool(e, e, e, queries, 0)
    BY <1>4, <2>1 DEF Select!Boolean
  <2>3. queries \in Seq(S)
    OBVIOUS
  <2> HIDE DEF e, S
  <2>4. /\ Select!Bool(queries, e, e, e, 0) = Selects(r, {}, {}, {}, 0)
        /\ Select!Bool(e, queries, e, e, 0) = Selects({}, r, {}, {}, 0)
    BY <1>1, <2>3, BoolSelects
  <2>5. /\ Select!Bool(e, e, queries, e, 1) = Selects({}, {}, r, {}, 1)
        /\ Select!Bool(e, e, e, queries, 0) = Selects({}, {}, {}, r, 0)
    BY <1>1, <2>3, BoolSelects
  <2> HIDE DEF r
  <2>6. CASE kind = "must"
    BY <1>4, <2>2, <2>4, <2>6 DEF r
  <2>7. CASE kind = "filter"
    BY <1>4, <2>2, <2>4, <2>7 DEF r
  <2>8. CASE kind = "should"
    BY <1>4, <2>2, <2>5, <2>8 DEF r
  <2>9. CASE kind = "must_not"
    BY <1>4, <2>2, <2>5, <2>9 DEF r
  <2> QED
    BY <2>6, <2>7, <2>8, <2>9
<1> QED
  BY <1>2, <1>3, <1>4

\* Composing queries keeps what the run checks.
LEMMA ComposeKeeps ==
  ASSUME given \in Calls, Select!Compose
  PROVE  Select!QueriesSelect'
<1> DEFINE kind == given.kind
           queries == given.queries
<1>1. /\ given' = given /\ result' = [docs |-> Select!Boolean(kind, queries)]
      /\ kind \in {"must", "filter", "should", "must_not"}
  BY DEF Select!Compose
<1>2. queries \in Seq({Bad} \union Select!Query)
  BY <1>1, QueriesAssumption DEF Select!Compositions, Select!Finders, Select!Faceted,
     Select!MultiSearches
<1>3. result'.docs = Select!Boolean(kind, queries)
  BY <1>1
<1>4. Select!Contains(queries, Bad) <=> Bad \in Select!Range(queries)
  BY <1>2, Ranges
<1>5. \A d : /\ Select!Cardinality({i \in DOMAIN queries : d \in queries[i]}) = Matching(queries, d)
             /\ Matching(queries, d) \in Nat
             /\ Matching(queries, d) = Len(queries) <=> \A x \in Select!Range(queries) : d \in x
             /\ Matching(queries, d) = 0 <=> \A x \in Select!Range(queries) : d \notin x
  BY <1>2, MatchingAll
<1> DEFINE In(d, q) == Select!Cardinality({i \in DOMAIN q : d \in q[i]})
           Right == {d \in AllDocs :
             CASE kind \in {"must", "filter"} -> In(d, queries) = Len(queries)
               [] kind = "should" -> In(d, queries) > 0
               [] kind = "must_not" -> In(d, queries) = 0}
<1>6. Right = {d \in AllDocs :
                 CASE kind \in {"must", "filter"} -> \A q \in Select!Range(queries) : d \in q
                   [] kind = "should" -> \E q \in Select!Range(queries) : d \in q
                   [] kind = "must_not" -> \A q \in Select!Range(queries) : d \notin q}
  <2> SUFFICES ASSUME NEW d \in AllDocs
      PROVE (CASE kind \in {"must", "filter"} -> In(d, queries) = Len(queries)
               [] kind = "should" -> In(d, queries) > 0
               [] kind = "must_not" -> In(d, queries) = 0)
            <=> (CASE kind \in {"must", "filter"} -> \A q \in Select!Range(queries) : d \in q
                   [] kind = "should" -> \E q \in Select!Range(queries) : d \in q
                   [] kind = "must_not" -> \A q \in Select!Range(queries) : d \notin q)
    OBVIOUS
  <2> HIDE DEF kind, queries
  <2> QED
    BY <1>1, <1>5
<1>7. result'.docs = IF Select!Contains(queries, Bad) THEN Bad ELSE Right
  BY <1>1, <1>2, <1>3, <1>4, <1>6, BooleanSelects
<1>8. ~(kind = "find") /\ ~(kind = "facets") /\ ~(kind = "msearch")
  BY <1>1
<1> QED
  BY <1>1, <1>7, <1>8 DEF Select!QueriesSelect

\* The lesser and the greater of two numbers.
LEMMA TwoNumbers ==
  ASSUME NEW x \in Int, NEW y \in Int
  PROVE  /\ Select!Min({x, y}) = IF x <= y THEN x ELSE y
         /\ Select!Max({x, y}) = IF x <= y THEN y ELSE x
<1>1. CASE x <= y
  BY <1>1 DEF Select!Min, Select!Max
<1>2. CASE ~(x <= y)
  BY <1>2 DEF Select!Min, Select!Max
<1> QED
  BY <1>1, <1>2

\* The place of a document in a set, counting from 0.
Rank(docs, d) == Select!Cardinality(Select!Before(docs, d))

\* No two documents have the same place, and there is one at each.
LEMMA Ranks ==
  ASSUME NEW docs \in SUBSET AllDocs
  PROVE  /\ Select!Cardinality(docs) = Cardinality(docs) /\ Cardinality(docs) \in Nat
         /\ Cardinality(docs) = 0 <=> docs = {}
         /\ \A d \in docs : Rank(docs, d) \in 0..(Cardinality(docs) - 1)
         /\ \A d, e \in docs : Rank(docs, d) = Rank(docs, e) => d = e
         /\ \A i \in 0..(Cardinality(docs) - 1) : \E d \in docs : Rank(docs, d) = i
<1> DEFINE B(d) == Select!Before(docs, d)
           n == Cardinality(docs)
           f == [d \in docs |-> Cardinality(B(d))]
<1>1. IsFiniteSet(docs) /\ docs \subseteq Nat
  BY QueriesAssumption, FS_Subset
<1>2. /\ Select!Cardinality(docs) = n /\ n \in Nat
      /\ \A d \in docs : Rank(docs, d) = Cardinality(B(d))
      /\ n = 0 <=> docs = {}
  BY <1>1, FS_CardinalityType, FS_EmptySet DEF Cardinality, Select!Cardinality, Rank
<1>3. ASSUME NEW d \in docs
      PROVE  IsFiniteSet(B(d)) /\ Cardinality(B(d)) \in 0..(n - 1)
  <2>1. B(d) \in SUBSET docs /\ d \notin B(d)
    BY <1>1 DEF Select!Before
  <2>2. IsFiniteSet(B(d)) /\ Cardinality(B(d)) <= n /\ (n = Cardinality(B(d)) => docs = B(d))
    BY <1>1, <2>1, FS_Subset
  <2>3. Cardinality(B(d)) \in Nat /\ Cardinality(B(d)) # n
    BY <2>1, <2>2, FS_CardinalityType
  <2> QED
    BY <1>2, <2>2, <2>3
<1>4. ASSUME NEW d \in docs, NEW e \in docs, d < e
      PROVE  Cardinality(B(d)) < Cardinality(B(e))
  <2>1. B(d) \in SUBSET B(e) /\ d \in B(e) /\ d \notin B(d)
    <3>1. \A x \in docs : x \in Nat
      BY <1>1
    <3> QED
      BY <1>4, <3>1 DEF Select!Before
  <2>2. Cardinality(B(d)) <= Cardinality(B(e)) /\ Cardinality(B(d)) # Cardinality(B(e))
    BY <1>3, <2>1, FS_Subset
  <2> QED
    BY <1>2, <1>3, <2>2
<1>5. ASSUME NEW d \in docs, NEW e \in docs, Cardinality(B(d)) = Cardinality(B(e))
      PROVE  d = e
  <2>1. d \in Nat /\ e \in Nat /\ Cardinality(B(d)) \in Int
    BY <1>1, <1>3
  <2>2. ~(d < e) /\ ~(e < d)
    BY <1>4, <1>5, <2>1
  <2> QED
    BY <2>1, <2>2
<1>6. ASSUME NEW i \in 0..(n - 1) PROVE \E d \in docs : Cardinality(B(d)) = i
  <2>1. f \in Injection(docs, 0..(n - 1))
    BY <1>3, <1>5 DEF Injection, IsInjective
  <2>2. IsFiniteSet(0..(n - 1)) /\ Cardinality(0..(n - 1)) = n
    <3>1. 0 \in Int /\ n - 1 \in Int /\ n \in Nat
      BY <1>2
    <3>2. /\ IsFiniteSet(0..(n - 1))
          /\ Cardinality(0..(n - 1)) = IF 0 > n - 1 THEN 0 ELSE (n - 1) - 0 + 1
      BY <3>1, FS_Interval
    <3> HIDE DEF n
    <3> QED
      BY <3>1, <3>2
  <2>3. f \in Surjection(docs, 0..(n - 1))
    BY <2>1, <2>2, FS_Injection
  <2> QED
    BY <2>3 DEF Surjection
<1> QED
  BY <1>2, <1>3, <1>5, <1>6

\* A window from the start on is empty only if there is nothing to show or to see,
\* and one that is large enough shows everything.
LEMMA Windows ==
  ASSUME NEW docs \in SUBSET AllDocs
  PROVE  /\ Select!Window(docs, 0, 1) = <<>> <=> docs = {}
         /\ Select!Range(Select!Window(docs, 0, Select!Cardinality(AllDocs))) = docs
<1> DEFINE n == Cardinality(docs)
           At(i) == CHOOSE d \in docs : Rank(docs, d) = 0 + i - 1
<1>1. n \in Nat /\ Select!Cardinality(docs) = n /\ (n = 0 <=> docs = {})
  BY Ranks
<1>2. Cardinality(AllDocs) \in Nat /\ n <= Cardinality(AllDocs)
      /\ Select!Cardinality(AllDocs) = Cardinality(AllDocs)
  BY Ranks, QueriesAssumption, FS_Subset
<1>3. ASSUME NEW size \in Nat
      PROVE  Select!Window(docs, 0, size) = [i \in 1..(IF size <= n THEN size ELSE n) |-> At(i)]
  <2> HIDE DEF n
  <2>1. Select!Max({0, n - 0}) = n
    <3>1. n - 0 = n /\ n \in Int /\ 0 \in Int /\ 0 <= n
      BY <1>1
    <3> QED
      BY <3>1, TwoNumbers
  <2>2. Select!Min({size, n}) = IF size <= n THEN size ELSE n
    <3>1. n \in Int /\ size \in Int
      BY <1>1
    <3> QED
      BY <3>1, TwoNumbers
  <2> QED
    BY <1>1, <2>1, <2>2 DEF Select!Window, Rank
<1>4. ASSUME NEW i \in 1..n PROVE At(i) \in docs /\ Rank(docs, At(i)) = i - 1
  <2>1. i - 1 \in 0..(n - 1) /\ 0 + i - 1 = i - 1
    BY <1>1
  <2> HIDE DEF n
  <2>2. \E d \in docs : Rank(docs, d) = 0 + i - 1
    BY <2>1, Ranks DEF n
  <2> QED
    BY <2>1, <2>2
<1>5. Select!Window(docs, 0, 1) = <<>> <=> docs = {}
  <2>1. CASE docs = {}
    <3>1. Select!Window(docs, 0, 1) = [i \in 1..0 |-> At(i)]
      BY <1>1, <1>3, <2>1
    <3>2. [i \in 1..0 |-> At(i)] \in Seq({}) /\ Len([i \in 1..0 |-> At(i)]) = 0
      OBVIOUS
    <3> QED
      BY <2>1, <3>1, <3>2, EmptySeq
  <2>2. CASE docs # {}
    <3>1. Select!Window(docs, 0, 1) = [i \in 1..1 |-> At(i)]
      <4>1. (IF 1 <= n THEN 1 ELSE n) = 1
        BY <1>1, <2>2
      <4> QED
        BY <1>3, <4>1
    <3>2. 1 \in DOMAIN Select!Window(docs, 0, 1)
      BY <3>1
    <3> QED
      BY <2>2, <3>2
  <2> QED
    BY <2>1, <2>2
<1>6. Select!Range(Select!Window(docs, 0, Select!Cardinality(AllDocs))) = docs
  <2>1. Select!Window(docs, 0, Select!Cardinality(AllDocs)) = [i \in 1..n |-> At(i)]
    <3>1. (IF Cardinality(AllDocs) <= n THEN Cardinality(AllDocs) ELSE n) = n
      BY <1>1, <1>2
    <3> QED
      BY <1>2, <1>3, <3>1
  <2>2. ASSUME NEW d \in docs PROVE \E i \in 1..n : At(i) = d
    <3>1. Rank(docs, d) \in 0..(n - 1)
      BY Ranks
    <3> DEFINE i == Rank(docs, d) + 1
    <3>2. i \in 1..n /\ i - 1 = Rank(docs, d)
      BY <1>1, <3>1
    <3>3. At(i) \in docs /\ Rank(docs, At(i)) = Rank(docs, d)
      BY <1>4, <3>2
    <3>4. At(i) = d
      BY <3>3, Ranks
    <3> QED
      BY <3>2, <3>4
  <2>3. {At(i) : i \in 1..n} = docs
    BY <1>4, <2>2
  <2> HIDE DEF At, n
  <2> QED
    BY <2>1, <2>3 DEF Select!Range
<1> QED
  BY <1>5, <1>6

\* What a Finder and the bodies made of it are.
Queried == {Bad} \union Select!Query
Searched ==
  [query : {Nil} \union Select!Query, knn : {Nil} \union Select!Query,
   post : {Nil} \union Select!Query, from : Nat, size : Nat, terminate : BOOLEAN]
Finding ==
  [kind : {"find"}, must : Seq(Queried), filter : Seq(Queried), should : Seq(Queried),
   mustNot : Seq(Queried), base : Searched]

\* What a Finder requires, and the documents that satisfy its clauses.
Required(f) ==
  Select!Range(f.must) \union Select!Range(f.filter) \union ({f.base.query} \ {Nil})
Lexical(f) ==
  {d \in AllDocs :
     /\ \A q \in Required(f) : d \in q
     /\ \A q \in Select!Range(f.mustNot) : d \notin q
     /\ Required(f) = {} /\ f.should # <<>> => \E q \in Select!Range(f.should) : d \in q}
HasBad(f) == Select!Contains(Select!Clauses(f), Bad)
Alone(f) == Select!Clauses(f) = <<>> /\ f.base.query = Nil /\ f.base.knn # Nil

\* The clauses are those of the four kinds.
LEMMA ClausesOf ==
  ASSUME NEW f \in Finding
  PROVE  /\ Select!Clauses(f) \in Seq(Queried)
         /\ HasBad(f) <=> \/ Bad \in Select!Range(f.must) \/ Bad \in Select!Range(f.filter)
                          \/ Bad \in Select!Range(f.should) \/ Bad \in Select!Range(f.mustNot)
         /\ Select!Clauses(f) = <<>> <=>
              f.must = <<>> /\ f.filter = <<>> /\ f.should = <<>> /\ f.mustNot = <<>>
<1>1. /\ f.must \in Seq(Queried) /\ f.filter \in Seq(Queried)
      /\ f.should \in Seq(Queried) /\ f.mustNot \in Seq(Queried)
  BY DEF Finding
<1> DEFINE a == f.must
           b == f.filter
           c == f.should
           e == f.mustNot
           ab == a \o b
           abc == ab \o c
           all == abc \o e
<1>2. Select!Clauses(f) = all
  BY DEF Select!Clauses
<1> HIDE DEF a, b, c, e
<1>3. a \in Seq(Queried) /\ b \in Seq(Queried) /\ c \in Seq(Queried) /\ e \in Seq(Queried)
  BY <1>1 DEF a, b, c, e
<1>4. ab \in Seq(Queried) /\ Select!Range(ab) = Select!Range(a) \union Select!Range(b)
  BY <1>3, Joined
<1> HIDE DEF ab
<1>5. abc \in Seq(Queried) /\ Select!Range(abc) = Select!Range(ab) \union Select!Range(c)
  BY <1>3, <1>4, Joined
<1> HIDE DEF abc
<1>6. all \in Seq(Queried) /\ Select!Range(all) = Select!Range(abc) \union Select!Range(e)
  BY <1>3, <1>5, Joined
<1> HIDE DEF all
<1>7. /\ all \in Seq(Queried)
      /\ Select!Range(all) = Select!Range(a) \union Select!Range(b) \union Select!Range(c)
                             \union Select!Range(e)
  BY <1>4, <1>5, <1>6
<1>8. Select!Contains(all, Bad) <=> Bad \in Select!Range(all)
  BY <1>7, Ranges
<1>9. /\ a = <<>> <=> Select!Range(a) = {}
      /\ b = <<>> <=> Select!Range(b) = {}
      /\ c = <<>> <=> Select!Range(c) = {}
      /\ e = <<>> <=> Select!Range(e) = {}
      /\ all = <<>> <=> Select!Range(all) = {}
  BY <1>3, <1>7, Ranges
<1>10. HasBad(f) <=> \/ Bad \in Select!Range(a) \/ Bad \in Select!Range(b)
                     \/ Bad \in Select!Range(c) \/ Bad \in Select!Range(e)
  BY <1>2, <1>7, <1>8 DEF HasBad
<1>11. Select!Clauses(f) = <<>> <=> a = <<>> /\ b = <<>> /\ c = <<>> /\ e = <<>>
  BY <1>2, <1>7, <1>9
<1> QED
  BY <1>2, <1>7, <1>10, <1>11 DEF a, b, c, e

\* With the base's query, which is required too.
LEMMA MustOf ==
  ASSUME NEW f \in Finding
  PROVE  /\ Select!Must(f) \in Seq(Queried)
         /\ Select!Range(Select!Must(f)) = Select!Range(f.must) \union ({f.base.query} \ {Nil})
         /\ Select!Must(f) = <<>> <=> f.must = <<>> /\ f.base.query = Nil
<1>1. f.must \in Seq(Queried) /\ f.base.query \in {Nil} \union Select!Query
  BY DEF Finding, Searched
<1>2. CASE f.base.query = Nil
  <2>1. Select!Must(f) = f.must
    BY <1>2 DEF Select!Must
  <2> QED
    BY <1>1, <1>2, <2>1
<1>3. CASE f.base.query # Nil
  <2> DEFINE q == f.base.query
             one == <<q>>
  <2>1. one \in Seq(Queried) /\ Len(one) = 1 /\ one[1] = q
    BY <1>1, <1>3 DEF Queried
  <2>2. Select!Must(f) = one \o f.must
    BY <1>3 DEF Select!Must
  <2> HIDE DEF one
  <2>3. Select!Range(one) = {q}
    BY <2>1 DEF Select!Range
  <2>4. /\ Select!Must(f) \in Seq(Queried)
        /\ Select!Range(Select!Must(f)) = {q} \union Select!Range(f.must)
    BY <1>1, <2>1, <2>2, <2>3, Joined
  <2>5. Select!Must(f) # <<>>
    <3>1. Select!Range(Select!Must(f)) # {}
      BY <2>4
    <3> QED
      BY <2>4, <3>1, Ranges
  <2> QED
    BY <1>3, <2>4, <2>5
<1> QED
  BY <1>2, <1>3

\* A Finder compiles to the query its clauses say, if all of them could be built.
LEMMA CompileSelects ==
  ASSUME NEW f \in Finding
  PROVE  Select!Compile(f) = IF HasBad(f) THEN Bad ELSE Lexical(f)
<1> DEFINE must == Select!Must(f)
           some == f.filter \o f.should
           rest == some \o f.mustNot
<1>1. /\ f.must \in Seq(Queried) /\ f.filter \in Seq(Queried)
      /\ f.should \in Seq(Queried) /\ f.mustNot \in Seq(Queried)
      /\ f.base.query \in {Nil} \union Select!Query
  BY DEF Finding, Searched
<1>2. /\ must \in Seq(Queried)
      /\ Select!Range(must) = Select!Range(f.must) \union ({f.base.query} \ {Nil})
  BY MustOf
<1>3. /\ some \in Seq(Queried)
      /\ Select!Range(some) = Select!Range(f.filter) \union Select!Range(f.should)
  BY <1>1, Joined
<1>4. /\ rest \in Seq(Queried)
      /\ Select!Range(rest) = Select!Range(f.filter) \union Select!Range(f.should)
                              \union Select!Range(f.mustNot)
  <2> HIDE DEF some
  <2> QED
    BY <1>1, <1>3, Joined
<1>5. Select!Compile(f) =
        IF rest = <<>> /\ must = <<>> THEN AllDocs
        ELSE IF rest = <<>> /\ Len(must) = 1 THEN must[1]
        ELSE IF Select!Contains(must \o rest, Bad) THEN Bad
        ELSE Select!Bool(must, f.filter, f.should, f.mustNot, Select!AtLeast(f))
  BY DEF Select!Compile
<1> HIDE DEF must, some, rest
<1>6. Select!Contains(must \o rest, Bad) <=> HasBad(f)
  <2>1. /\ must \o rest \in Seq(Queried)
        /\ Select!Range(must \o rest) = Select!Range(must) \union Select!Range(rest)
    BY <1>2, <1>4, Joined
  <2>2. Select!Contains(must \o rest, Bad) <=> Bad \in Select!Range(must \o rest)
    BY <2>1, Ranges
  <2>3. Bad \notin ({f.base.query} \ {Nil})
    BY <1>1, QueriesAssumption
  <2> QED
    BY <1>2, <1>4, <2>1, <2>2, <2>3, ClausesOf
<1>7. Required(f) = Select!Range(must) \union Select!Range(f.filter)
  BY <1>2 DEF Required
<1>8. /\ f.filter = <<>> <=> Select!Range(f.filter) = {}
      /\ f.should = <<>> <=> Select!Range(f.should) = {}
      /\ f.mustNot = <<>> <=> Select!Range(f.mustNot) = {}
      /\ must = <<>> <=> Select!Range(must) = {}
      /\ rest = <<>> <=> Select!Range(rest) = {}
  BY <1>1, <1>2, <1>4, Ranges
<1>9. CASE rest = <<>> /\ must = <<>>
  <2>1. Required(f) = {} /\ Select!Range(f.mustNot) = {} /\ f.should = <<>>
    BY <1>4, <1>7, <1>8, <1>9
  <2>2. ~HasBad(f)
    BY <1>2, <1>4, <1>8, <1>9, ClausesOf
  <2>3. Lexical(f) = AllDocs
    BY <2>1 DEF Lexical
  <2> QED
    BY <1>5, <1>9, <2>2, <2>3
<1>10. CASE rest = <<>> /\ Len(must) = 1
  <2> DEFINE q == must[1]
  <2>1. Select!Range(must) = {q} /\ q \in Queried
    <3>1. Select!Range(must) = {must[i] : i \in 1..Len(must)}
      BY <1>2, Ranges
    <3> QED
      BY <1>2, <1>10, <3>1
  <2>2. Required(f) = {q} /\ Select!Range(f.mustNot) = {} /\ f.should = <<>>
    BY <1>4, <1>7, <1>8, <1>10, <2>1
  <2>3. must # <<>>
    BY <1>8, <2>1
  <2>4. Select!Compile(f) = q
    BY <1>5, <1>10, <2>3
  <2>5. HasBad(f) <=> q = Bad
    <3>1. Bad # f.base.query
      BY <1>1, QueriesAssumption
    <3> QED
      BY <1>2, <1>4, <1>8, <1>10, <2>1, <3>1, ClausesOf
  <2>6. q # Bad => q \in SUBSET AllDocs
    BY <2>1 DEF Queried, Select!Query
  <2>7. q # Bad => Lexical(f) = q
    BY <2>2, <2>6 DEF Lexical
  <2> QED
    BY <2>4, <2>5, <2>7
<1>11. CASE ~(rest = <<>> /\ must = <<>>) /\ ~(rest = <<>> /\ Len(must) = 1)
  <2>1. Select!Compile(f) =
          IF HasBad(f) THEN Bad
          ELSE Select!Bool(must, f.filter, f.should, f.mustNot, Select!AtLeast(f))
    BY <1>5, <1>6, <1>11
  <2>2. must \o f.filter = <<>> <=> Required(f) = {}
    <3>1. /\ must \o f.filter \in Seq(Queried)
          /\ Select!Range(must \o f.filter) = Select!Range(must) \union Select!Range(f.filter)
      BY <1>1, <1>2, Joined
    <3> QED
      BY <1>7, <3>1, Ranges
  <2>3. Select!AtLeast(f) = IF Required(f) = {} /\ f.should # <<>> THEN 1 ELSE 0
    BY <2>2 DEF Select!AtLeast, Select!Default, must
  <2>4. Select!Bool(must, f.filter, f.should, f.mustNot, Select!AtLeast(f)) =
           {d \in AllDocs :
              /\ \A x \in Select!Range(must) \union Select!Range(f.filter) : d \in x
              /\ \A x \in Select!Range(f.mustNot) : d \notin x
              /\ Select!AtLeast(f) = 1 => \E x \in Select!Range(f.should) : d \in x}
    <3>1. Select!AtLeast(f) \in {0, 1}
      BY <2>3
    <3> DEFINE least == Select!AtLeast(f)
    <3> HIDE DEF least
    <3>2. f.filter \in Seq(Queried) /\ f.should \in Seq(Queried) /\ f.mustNot \in Seq(Queried)
      BY <1>1
    <3>3. least \in {0, 1} /\ must \in Seq(Queried)
      BY <1>2, <3>1 DEF least
    <3>4. Select!Bool(must, f.filter, f.should, f.mustNot, least) =
           {d \in AllDocs :
              /\ \A x \in Select!Range(must) \union Select!Range(f.filter) : d \in x
              /\ \A x \in Select!Range(f.mustNot) : d \notin x
              /\ least = 1 => \E x \in Select!Range(f.should) : d \in x}
      BY <3>2, <3>3, BoolSelects, SMTT(30)
    <3> QED
      BY <3>4 DEF least
  <2>5. Select!Bool(must, f.filter, f.should, f.mustNot, Select!AtLeast(f)) = Lexical(f)
    BY <1>7, <2>3, <2>4 DEF Lexical
  <2> QED
    BY <2>1, <2>5
<1> QED
  BY <1>9, <1>10, <1>11

\* A request without a good answer returns an error.
LEMMA FailuresFail == \A r \in Select!Failures : r.err # "nil"
<1> DEFINE lost == Select!TransportError
           unavailable == Select!Response(503, "json")
           missing == Select!Response(404, "json")
           garbage == Select!Response(200, "garbage")
<1>1. Select!Perform(lost, TRUE) # "nil"
  BY DEF Select!Perform, Select!TransportError
<1>2. Select!Perform(unavailable, TRUE) # "nil"
  BY DEF Select!Perform, Select!Response, Select!Class
<1>3. Select!Perform(missing, TRUE) # "nil"
  BY DEF Select!Perform, Select!Response, Select!Class
<1>4. Select!Perform(garbage, TRUE) # "nil"
  BY DEF Select!Perform, Select!Response
<1>5. Select!Failures = {Select!Failed(Select!Perform(reply, TRUE)) :
                           reply \in {lost, unavailable, missing, garbage}}
  BY DEF Select!Failures
<1> HIDE DEF lost, unavailable, missing, garbage
<1> SUFFICES ASSUME NEW r \in Select!Failures PROVE r.err # "nil"
  OBVIOUS
<1>6. PICK reply \in {lost, unavailable, missing, garbage} :
        r = Select!Failed(Select!Perform(reply, TRUE))
  BY <1>5
<1>7. Select!Perform(reply, TRUE) # "nil"
  BY <1>1, <1>2, <1>3, <1>4
<1>8. r.err = Select!Perform(reply, TRUE)
  BY <1>6 DEF Select!Failed
<1> QED
  BY <1>7, <1>8

\* A search that returns no error has the hits of all shards.
LEMMA SearchAnswers ==
  ASSUME NEW s, NEW ctx, NEW r \in Select!Search(s, ctx), r.err = "nil"
  PROVE  \E c \in Select!Collected(s) : r.hits = Select!Hits(s, c, Shards)
<1>1. r \notin Select!Failures
  BY FailuresFail
<1>2. r # Select!Failed("validation")
  BY DEF Select!Failed
<1>3. \/ \E c \in Select!Collected(s), shards \in SUBSET Shards :
           r = [hits |-> Select!Hits(s, c, shards),
                err |-> IF shards = Shards THEN "nil" ELSE "partial"]
      \/ \E c \in Select!Collected(s) :
           r = [hits |-> Select!Hits(s, c, Shards), err |-> "hook"]
  BY <1>1, <1>2 DEF Select!Search
<1> QED
  BY <1>3

\* What a Finder is asked for, in the terms above.
Near(f) == IF f.base.knn = Nil THEN {} ELSE f.base.knn

\* A Finder asks for what its clauses match, and for what is near.
LEMMA WantedSelects ==
  ASSUME NEW f \in Finding
  PROVE  /\ Select!Wanted(f) = IF Alone(f) THEN f.base.knn ELSE Lexical(f) \union Near(f)
         /\ Select!Wanted(f) \in SUBSET AllDocs
<1>1. /\ f.must \in Seq(Queried) /\ f.filter \in Seq(Queried)
      /\ f.base.query \in {Nil} \union Select!Query /\ f.base.knn \in {Nil} \union Select!Query
  BY DEF Finding, Searched
<1>2. Select!Range(f.must \o f.filter) = Select!Range(f.must) \union Select!Range(f.filter)
  BY <1>1, Joined
<1>3. Nil \notin Select!Range(f.must) /\ Nil \notin Select!Range(f.filter)
  <2>1. Nil \notin Queried
    BY QueriesAssumption DEF Queried
  <2> QED
    BY <1>1, <2>1, Ranges
<1>4. (Select!Range(f.must \o f.filter) \union {f.base.query}) \ {Nil} = Required(f)
  BY <1>2, <1>3 DEF Required
<1>5. Select!Wanted(f) = IF Alone(f) THEN f.base.knn ELSE Lexical(f) \union Near(f)
  BY <1>4 DEF Select!Wanted, Alone, Lexical, Near
<1>6. Lexical(f) \in SUBSET AllDocs
  BY DEF Lexical
<1>7. f.base.knn # Nil => f.base.knn \in SUBSET AllDocs
  BY <1>1 DEF Select!Query
<1> QED
  BY <1>5, <1>6, <1>7 DEF Near, Alone

\* The search a Finder sends selects that, and keeps the rest of its body.
LEMMA SearchSelects ==
  ASSUME NEW f \in Finding
  PROVE  LET s == Select!SearchOf(f) IN
         /\ HasBad(f) => s.query = Bad
         /\ ~HasBad(f) => s.query # Bad /\ Select!Selected(s) = Select!Wanted(f)
         /\ s.post = f.base.post /\ s.from = f.base.from /\ s.size = f.base.size
         /\ s.terminate = f.base.terminate
<1> DEFINE s == Select!SearchOf(f)
<1>1. /\ f.base \in Searched
      /\ f.base.query \in {Nil} \union Select!Query /\ f.base.knn \in {Nil} \union Select!Query
  BY DEF Finding, Searched
<1>2. Nil # Bad /\ Bad \notin Select!Query /\ Nil \notin Select!Query
  BY QueriesAssumption
<1>3. CASE Alone(f)
  <2>1. s = f.base
    <3>1. (f.must \o f.filter) \o f.should \o f.mustNot = <<>>
      BY <1>3 DEF Alone, Select!Clauses
    <3> QED
      BY <1>3, <3>1 DEF Select!SearchOf, Alone
  <2>2. ~HasBad(f)
    <3>1. Select!Clauses(f) = <<>> /\ Select!Clauses(f) \in Seq(Queried)
      BY <1>3, ClausesOf DEF Alone
    <3> QED
      BY <3>1 DEF HasBad, Select!Contains
  <2>3. s.query = Nil /\ s.knn # Nil
    BY <1>3, <2>1 DEF Alone
  <2>4. Select!Selected(s) = s.knn
    <3>1. {s.query, s.knn} \ {Nil} = {s.knn}
      BY <2>3
    <3>2. UNION {s.knn} = s.knn
      OBVIOUS
    <3> HIDE DEF s
    <3> QED
      BY <2>3, <3>1, <3>2 DEF Select!Selected
  <2>5. Select!Wanted(f) = f.base.knn
    BY <1>3, WantedSelects
  <2> QED
    BY <1>2, <2>1, <2>2, <2>3, <2>4, <2>5
<1>4. CASE ~Alone(f)
  <2>1. s = [f.base EXCEPT !.query = Select!Compile(f)]
    BY <1>4 DEF Select!SearchOf, Alone, Select!Clauses
  <2>2. /\ s.query = Select!Compile(f) /\ s.knn = f.base.knn /\ s.post = f.base.post
        /\ s.from = f.base.from /\ s.size = f.base.size /\ s.terminate = f.base.terminate
    BY <1>1, <2>1 DEF Searched
  <2>3. HasBad(f) => s.query = Bad
    BY <2>2, CompileSelects
  <2>4. ASSUME ~HasBad(f) PROVE s.query # Bad /\ Select!Selected(s) = Select!Wanted(f)
    <3>1. s.query = Lexical(f)
      BY <2>2, <2>4, CompileSelects
    <3>2. Lexical(f) \in Select!Query
      BY DEF Lexical, Select!Query
    <3> HIDE DEF s
    <3>3. s.query # Bad /\ s.query # Nil
      BY <1>2, <3>1, <3>2
    <3>4. Select!Selected(s) = UNION ({s.query, s.knn} \ {Nil})
      BY <3>3 DEF Select!Selected
    <3>5. Select!Selected(s) = Lexical(f) \union Near(f)
      <4>1. CASE f.base.knn = Nil
        <5>1. {s.query, s.knn} \ {Nil} = {s.query}
          BY <2>2, <3>3, <4>1
        <5>2. UNION {s.query} = s.query
          OBVIOUS
        <5> QED
          BY <3>1, <3>4, <4>1, <5>1, <5>2 DEF Near
      <4>2. CASE f.base.knn # Nil
        <5>1. {s.query, s.knn} \ {Nil} = {s.query, s.knn}
          BY <2>2, <3>3, <4>2
        <5>2. UNION {s.query, s.knn} = s.query \union s.knn
          OBVIOUS
        <5> QED
          BY <2>2, <3>1, <3>4, <4>2, <5>1, <5>2 DEF Near
      <4> QED
        BY <4>1, <4>2
    <3>6. Select!Wanted(f) = Lexical(f) \union Near(f)
      BY <1>4, WantedSelects
    <3> QED
      BY <3>3, <3>5, <3>6
  <2> HIDE DEF s
  <2> QED
    BY <2>2, <2>3, <2>4 DEF s
<1> QED
  BY <1>3, <1>4

\* What a Finder shows: the wanted documents its post_filter lets through.
Shown(f, docs) == {d \in docs : f.base.post = Nil \/ d \in f.base.post}

\* A result without an error has the window of what is wanted, or of something of it
\* if the search may stop early.
LEMMA ResultSelects ==
  ASSUME NEW f \in Finding, NEW ctx, NEW r \in Select!Result(f, ctx), r.err = "nil"
  PROVE  /\ ~HasBad(f)
         /\ \E c \in SUBSET Select!Wanted(f) :
              /\ r.hits = Select!Window(Shown(f, c), f.base.from, f.base.size)
              /\ c = {} <=> Select!Wanted(f) = {}
              /\ ~f.base.terminate => c = Select!Wanted(f)
<1> DEFINE s == Select!SearchOf(f)
<1>1. /\ HasBad(f) => s.query = Bad
      /\ ~HasBad(f) => s.query # Bad /\ Select!Selected(s) = Select!Wanted(f)
      /\ s.post = f.base.post /\ s.from = f.base.from /\ s.size = f.base.size
      /\ s.terminate = f.base.terminate
  BY SearchSelects
<1>2. Select!Result(f, ctx) =
        IF s.query = Bad THEN {Select!Failed("validation")} ELSE Select!Search(s, ctx)
  BY DEF Select!Result
<1> HIDE DEF s
<1>3. s.query # Bad /\ r \in Select!Search(s, ctx)
  BY <1>2 DEF Select!Failed
<1>4. ~HasBad(f) /\ Select!Selected(s) = Select!Wanted(f)
  BY <1>1, <1>3
<1>5. PICK c \in Select!Collected(s) : r.hits = Select!Hits(s, c, Shards)
  BY <1>3, SearchAnswers
<1>6. Select!Wanted(f) \in SUBSET AllDocs
  BY WantedSelects
<1>7. c \in SUBSET Select!Wanted(f) /\ (~f.base.terminate => c = Select!Wanted(f))
  <2>1. CASE ~s.terminate
    BY <1>4, <2>1 DEF Select!Collected
  <2>2. CASE s.terminate
    BY <1>1, <1>4, <2>2 DEF Select!Collected
  <2> QED
    BY <1>1, <2>1, <2>2
<1>8. ASSUME c = {} PROVE Select!Wanted(f) = {}
  <2> SUFFICES ASSUME NEW d \in Select!Wanted(f) PROVE FALSE
    OBVIOUS
  <2>1. s.terminate
    BY <1>1, <1>7, <1>8
  <2>2. Select!Cardinality({e \in c : Shard[e] = Shard[d]}) = 1
    BY <1>4, <2>1 DEF Select!Collected
  <2>3. {e \in c : Shard[e] = Shard[d]} = {}
    BY <1>8
  <2>4. Select!Cardinality({}) = 0
    BY FS_EmptySet DEF Select!Cardinality, Cardinality
  <2> QED
    BY <2>2, <2>3, <2>4
<1>9. {d \in c : Shard[d] \in Shards /\ (s.post = Nil \/ d \in s.post)} = Shown(f, c)
  BY <1>1, <1>6, <1>7, QueriesAssumption DEF Shown
<1>10. r.hits = Select!Window(Shown(f, c), f.base.from, f.base.size)
  BY <1>1, <1>5, <1>9 DEF Select!Hits
<1> QED
  BY <1>4, <1>7, <1>8, <1>10

\* Only the clauses, the query and the kNN search say what is wanted.
LEMMA SameWanted ==
  ASSUME NEW f \in Finding, NEW g \in Finding,
         /\ g.must = f.must /\ g.filter = f.filter /\ g.should = f.should
         /\ g.mustNot = f.mustNot /\ g.base.query = f.base.query
  PROVE  /\ HasBad(g) <=> HasBad(f)
         /\ g.base.knn = f.base.knn => Select!Wanted(g) = Select!Wanted(f)
         /\ g.base.knn = Nil => Select!Wanted(g) = Lexical(f)
<1>1. Lexical(g) = Lexical(f)
  BY DEF Lexical, Required
<1>2. Select!Clauses(g) = Select!Clauses(f)
  BY DEF Select!Clauses
<1>3. Select!Wanted(g) = IF Alone(g) THEN g.base.knn ELSE Lexical(g) \union Near(g)
  BY WantedSelects
<1>4. Select!Wanted(f) = IF Alone(f) THEN f.base.knn ELSE Lexical(f) \union Near(f)
  BY WantedSelects
<1>5. HasBad(g) <=> HasBad(f)
  BY <1>2 DEF HasBad
<1>6. g.base.knn = f.base.knn => Select!Wanted(g) = Select!Wanted(f)
  <2>1. ASSUME g.base.knn = f.base.knn PROVE (Alone(g) <=> Alone(f)) /\ Near(g) = Near(f)
    BY <1>2, <2>1 DEF Alone, Near
  <2> QED
    BY <1>1, <1>3, <1>4, <2>1
<1>7. g.base.knn = Nil => Select!Wanted(g) = Lexical(f)
  <2>1. ASSUME g.base.knn = Nil PROVE ~Alone(g) /\ Near(g) = {}
    BY <2>1 DEF Alone, Near
  <2> QED
    BY <1>1, <1>3, <2>1
<1> QED
  BY <1>5, <1>6, <1>7

\* Finder.First shows the first document there is.
LEMMA FirstSelects ==
  ASSUME NEW f \in Finding, ~f.base.terminate, NEW ctx, NEW r \in Select!First(f, ctx),
         r.err = "nil"
  PROVE  /\ ~HasBad(f) /\ r.hits # <<>>
         /\ r.hits = Select!Window(Shown(f, Select!Wanted(f)), f.base.from, 1)
<1> DEFINE g == [f EXCEPT !.base.size = 1]
<1>1. /\ g \in Finding /\ ~g.base.terminate /\ g.base.size = 1 /\ g.base.from = f.base.from
      /\ g.base.post = f.base.post /\ g.base.knn = f.base.knn
      /\ g.must = f.must /\ g.filter = f.filter /\ g.should = f.should
      /\ g.mustNot = f.mustNot /\ g.base.query = f.base.query
  BY DEF Finding, Searched
<1>2. PICK q \in Select!Result(g, ctx) :
        r = IF q.hits = <<>> /\ q.err = "nil" THEN Select!Failed("notFound") ELSE q
  BY DEF Select!First
<1> HIDE DEF g
<1>3. r = q /\ q.err = "nil" /\ q.hits # <<>>
  BY <1>2 DEF Select!Failed
<1>4. ~HasBad(g) /\ q.hits = Select!Window(Shown(g, Select!Wanted(g)), g.base.from, g.base.size)
  BY <1>1, <1>3, ResultSelects
<1>5. (HasBad(g) <=> HasBad(f)) /\ Select!Wanted(g) = Select!Wanted(f)
  BY <1>1, SameWanted
<1>6. Shown(g, Select!Wanted(g)) = Shown(f, Select!Wanted(f))
  BY <1>1, <1>5 DEF Shown
<1> QED
  BY <1>1, <1>3, <1>4, <1>5, <1>6

\* Finder.Exists is true exactly if there is something to show.
LEMMA ExistsSelects ==
  ASSUME NEW f \in Finding, NEW ctx, NEW r \in Select!Exists(f, ctx), r.err = "nil"
  PROVE  ~HasBad(f) /\ r.exists = (Shown(f, Select!Wanted(f)) # {})
<1> DEFINE g == [f EXCEPT !.base.from = 0, !.base.size = 1,
                          !.base.terminate = f.base.post = Nil]
<1>1. /\ g \in Finding /\ g.base.terminate = (f.base.post = Nil) /\ g.base.size = 1
      /\ g.base.from = 0 /\ g.base.post = f.base.post /\ g.base.knn = f.base.knn
      /\ g.must = f.must /\ g.filter = f.filter /\ g.should = f.should
      /\ g.mustNot = f.mustNot /\ g.base.query = f.base.query
  BY DEF Finding, Searched
<1>2. PICK q \in Select!Result(g, ctx) : r = [exists |-> q.hits # <<>>, err |-> q.err]
  BY DEF Select!Exists
<1> HIDE DEF g
<1>3. q.err = "nil" /\ r.exists = (q.hits # <<>>)
  BY <1>2
<1>4. (HasBad(g) <=> HasBad(f)) /\ Select!Wanted(g) = Select!Wanted(f)
  BY <1>1, SameWanted
<1>5. ~HasBad(g)
  BY <1>1, <1>3, ResultSelects
<1>6. PICK c \in SUBSET Select!Wanted(g) :
        /\ q.hits = Select!Window(Shown(g, c), g.base.from, g.base.size)
        /\ c = {} <=> Select!Wanted(g) = {}
        /\ ~g.base.terminate => c = Select!Wanted(g)
  BY <1>1, <1>3, ResultSelects
<1>7. Shown(g, c) \in SUBSET AllDocs
  BY <1>1, <1>6, WantedSelects DEF Shown
<1>8. q.hits # <<>> <=> Shown(g, c) # {}
  BY <1>1, <1>6, <1>7, Windows
<1>9. Shown(g, c) # {} <=> Shown(f, Select!Wanted(f)) # {}
  <2>1. CASE f.base.post = Nil
    <3>1. Shown(g, c) = c /\ Shown(f, Select!Wanted(f)) = Select!Wanted(f)
      BY <1>1, <2>1 DEF Shown
    <3> QED
      BY <1>4, <1>6, <3>1
  <2>2. CASE f.base.post # Nil
    <3>1. c = Select!Wanted(f)
      BY <1>1, <1>4, <1>6, <2>2
    <3> QED
      BY <1>1, <3>1 DEF Shown
  <2> QED
    BY <2>1, <2>2
<1> QED
  BY <1>3, <1>4, <1>5, <1>8, <1>9

\* Finder.Count counts what satisfies the clauses and the base's query.
LEMMA CountSelects ==
  ASSUME NEW f \in Finding, NEW ctx, NEW r \in Select!Count(f, ctx), r.err = "nil"
  PROVE  ~HasBad(f) /\ r.count = Select!Cardinality(Lexical(f))
<1>1. Select!Compile(f) # Bad /\ r \in Select!CountWith(Select!Compile(f), ctx)
  BY DEF Select!Count
<1>2. ~HasBad(f) /\ Select!Compile(f) = Lexical(f)
  BY <1>1, CompileSelects
<1>3. r \in Select!CountWith(Lexical(f), ctx)
  BY <1>1, <1>2
<1>4. r.count = Select!Cardinality({d \in Lexical(f) : Shard[d] \in Shards})
  <2>1. CASE \E q \in Select!Failures : r = [count |-> 0, err |-> q.err]
    BY <2>1, FailuresFail
  <2>2. CASE \E shards \in SUBSET Shards :
               r = [count |-> Select!Cardinality({d \in Lexical(f) : Shard[d] \in shards}),
                    err |-> IF shards = Shards THEN "nil" ELSE "partial"]
    BY <2>2
  <2> QED
    BY <1>3, <2>1, <2>2 DEF Select!CountWith
<1>5. {d \in Lexical(f) : Shard[d] \in Shards} = Lexical(f)
  BY QueriesAssumption DEF Lexical
<1> QED
  BY <1>2, <1>4, <1>5

\* The terminal methods of a Finder keep what the run checks.
LEMMA FindAnswers ==
  ASSUME given \in Calls, Select!Find
  PROVE  Select!QueriesSelect'
<1> DEFINE f == given
<1>1. given' = given /\ given.kind = "find"
  BY DEF Select!Find
<1>2. f \in Select!Finders
  BY <1>1, QueriesAssumption DEF Select!Compositions, Select!Finders, Select!Faceted,
     Select!MultiSearches
<1>3. f \in Finding /\ f.base.terminate = FALSE
  BY <1>2 DEF Finding, Searched, Queried, Select!Finders, Select!Body
<1>4. PICK ctx \in BOOLEAN :
        \/ \E r \in Select!Result(f, ctx) : Select!Returns("All", r)
        \/ \E r \in Select!First(f, ctx) : Select!Returns("First", r)
        \/ \E r \in Select!Exists(f, ctx) : Select!Returns("Exists", r)
        \/ \E r \in Select!Count(f, ctx) : Select!Returns("Count", r)
  BY DEF Select!Find
<1> DEFINE shown == Shown(f, Select!Wanted(f))
           without == [f EXCEPT !.base.knn = Nil, !.base.post = Nil]
           Right == result'.err = "nil" => ~HasBad(f) /\ Select!FinderSelects(f, result')
<1>5. ASSUME NEW r \in Select!Result(f, ctx), Select!Returns("All", r) PROVE Right
  <2>1. /\ result'.method = "All" /\ result'.err = r.err /\ result'.returned = r
    BY <1>5 DEF Select!Returns
  <2>2. r.err = "nil" => /\ ~HasBad(f)
                         /\ r.hits = Select!Window(shown, f.base.from, f.base.size)
    BY <1>3, ResultSelects
  <2> QED
    BY <2>1, <2>2 DEF Select!FinderSelects, Shown
<1>6. ASSUME NEW r \in Select!First(f, ctx), Select!Returns("First", r) PROVE Right
  <2>1. /\ result'.method = "First" /\ result'.err = r.err /\ result'.returned = r
    BY <1>6 DEF Select!Returns
  <2>2. r.err = "nil" => /\ ~HasBad(f) /\ r.hits # <<>>
                         /\ r.hits = Select!Window(shown, f.base.from, 1)
    BY <1>3, FirstSelects
  <2> QED
    BY <2>1, <2>2 DEF Select!FinderSelects, Shown
<1>7. ASSUME NEW r \in Select!Exists(f, ctx), Select!Returns("Exists", r) PROVE Right
  <2>1. /\ result'.method = "Exists" /\ result'.err = r.err /\ result'.returned = r
    BY <1>7 DEF Select!Returns
  <2>2. r.err = "nil" => ~HasBad(f) /\ r.exists = (shown # {})
    BY <1>3, ExistsSelects
  <2> QED
    BY <2>1, <2>2 DEF Select!FinderSelects, Shown
<1>8. ASSUME NEW r \in Select!Count(f, ctx), Select!Returns("Count", r) PROVE Right
  <2>1. /\ result'.method = "Count" /\ result'.err = r.err /\ result'.returned = r
    BY <1>8 DEF Select!Returns
  <2>2. r.err = "nil" => ~HasBad(f) /\ r.count = Select!Cardinality(Lexical(f))
    BY <1>3, CountSelects
  <2>3. Select!Wanted(without) = Lexical(f)
    <3>1. /\ without \in Finding /\ without.base.knn = Nil
          /\ without.must = f.must /\ without.filter = f.filter /\ without.should = f.should
          /\ without.mustNot = f.mustNot /\ without.base.query = f.base.query
      BY <1>3 DEF Finding, Searched
    <3> HIDE DEF without
    <3> QED
      BY <1>3, <3>1, SameWanted
  <2> QED
    BY <2>1, <2>2, <2>3 DEF Select!FinderSelects
<1>9. Right
  BY <1>4, <1>5, <1>6, <1>7, <1>8
<1> QED
  BY <1>1, <1>9 DEF Select!QueriesSelect, HasBad

\* A finite set of queries as a sequence.
LEMMA SetAsSequence ==
  ASSUME NEW T \in SUBSET Select!Query, IsFiniteSet(T)
  PROVE  Select!SetToSeq(T) \in Seq(T) /\ Select!Range(Select!SetToSeq(T)) = T
<1> DEFINE n == Cardinality(T)
           s == Select!SetToSeq(T)
<1>1. n \in Nat /\ ExistsBijection(1..n, T)
  BY FS_CardinalityType
<1>2. PICK f : f \in Bijection(1..n, T)
  BY <1>1 DEF ExistsBijection
<1>3. f \in [1..n -> T] /\ Select!IsInjective(f)
  BY <1>2 DEF Bijection, Injection, IsInjective, Select!IsInjective
<1>4. Select!Cardinality(T) = n
  BY DEF Cardinality, Select!Cardinality
<1>5. s \in [1..n -> T] /\ Select!IsInjective(s)
  BY <1>3, <1>4 DEF Select!SetToSeq
<1> HIDE DEF s
<1>6. s \in Injection(1..n, T)
  BY <1>5 DEF Injection, IsInjective, Select!IsInjective
<1>7. Cardinality(1..n) = n
  BY <1>1, FS_Interval
<1>8. s \in Surjection(1..n, T)
  BY <1>6, <1>7, FS_Injection
<1>9. Select!Range(s) = T
  BY <1>5, <1>8 DEF Surjection, Select!Range
<1>10. s \in Seq(T)
  <2> HIDE DEF n
  <2> QED
    BY <1>1, <1>5
<1> QED
  BY <1>9, <1>10 DEF s

\* The selections of some facets, joined, select what all of them do.
LEMMA SelectionsSelect ==
  ASSUME NEW c \in Select!Faceted, NEW N \in SUBSET c.names,
         \A n \in N : c.selection[n] \notin {Nil, Bad}
  PROVE  Select!Boolean("must", Select!SelectionsOf(c, N)) =
           {d \in AllDocs : \A n \in N : d \in c.selection[n]}
<1> DEFINE T == {c.selection[n] : n \in N}
           f == [n \in N |-> c.selection[n]]
           s == Select!SelectionsOf(c, N)
<1>1. /\ N \subseteq AggNames /\ c.selection \in [AggNames -> Select!Selections]
      /\ IsFiniteSet(N)
  BY QueriesAssumption, FS_Subset DEF Select!Faceted
<1>2. T \in SUBSET Select!Query
  BY <1>1 DEF Select!Selections
<1>3. f \in Surjection(N, T)
  BY DEF Surjection
<1>4. IsFiniteSet(T)
  BY <1>1, <1>3, FS_Surjection
<1>5. s \in Seq(T) /\ Select!Range(s) = T
  BY <1>2, <1>4, SetAsSequence DEF Select!SelectionsOf
<1> HIDE DEF s
<1>6. s \in Seq({Bad} \union Select!Query)
  BY <1>2, <1>5
<1>7. Bad \notin Select!Range(s)
  BY <1>2, <1>5, QueriesAssumption
<1>8. Select!Boolean("must", s) = {d \in AllDocs : \A q \in Select!Range(s) : d \in q}
  BY <1>6, <1>7, BooleanSelects
<1>9. \A d : (\A q \in T : d \in q) <=> (\A n \in N : d \in c.selection[n])
  OBVIOUS
<1> QED
  BY <1>5, <1>8, <1>9 DEF s

\* A key without a type.
NoType == ""
Untyped(n) == <<NoType, n>>

\* Decoding by name, of aggregations none of whose keys has a type ...
LEMMA DecodePlain ==
  ASSUME NEW A, NEW n, NEW e \in A, e[1] = Untyped(n),
         \A a \in A : a[1] = Untyped(n) => a = e
  PROVE  Select!DecodeAgg(A, n) = e[2]
<1> DEFINE plain == {a \in A : a[1] \in {Untyped(n)}}
<1>1. plain = {e}
  OBVIOUS
<1> HIDE DEF plain
<1>2. plain # {} /\ (CHOOSE a \in plain : TRUE)[2] = e[2]
  BY <1>1
<1> QED
  BY <1>2 DEF Select!DecodeAgg, plain, Untyped, NoType

\* ... and of aggregations whose keys all have one.
LEMMA DecodeTyped ==
  ASSUME NEW A, NEW n, NEW e \in A, e[1][2] = n,
         \A a \in A : a[1][1] # NoType,
         \A a \in A : a[1][2] = n => a = e
  PROVE  Select!DecodeAgg(A, n) = e[2]
<1> DEFINE plain == {a \in A : a[1] \in {Untyped(n)}}
           keys == {a[1] : a \in {a \in A : a[1][1] # NoType /\ a[1][2] = n}}
           typed == {a \in A : a[1] \in keys}
<1>1. plain = {}
  <2> SUFFICES ASSUME NEW a \in plain PROVE FALSE
    OBVIOUS
  <2>1. a \in A /\ a[1] = Untyped(n)
    OBVIOUS
  <2>2. Untyped(n)[1] = NoType
    BY DEF Untyped
  <2> QED
    BY <2>1, <2>2
<1>2. keys = {e[1]}
  <2>1. {a \in A : a[1][1] # NoType /\ a[1][2] = n} = {e}
    OBVIOUS
  <2> QED
    BY <2>1
<1>3. typed = {e}
  <2> HIDE DEF keys
  <2> QED
    BY <1>2
<1>4. Select!DecodeAgg(A, n) =
        IF plain # {} THEN (CHOOSE a \in plain : TRUE)[2]
        ELSE IF Select!Cardinality(typed) = 1 THEN (CHOOSE a \in typed : TRUE)[2]
        ELSE IF typed = {} THEN "notFound" ELSE "ambiguous"
  BY DEF Select!DecodeAgg, Untyped, NoType
<1> HIDE DEF plain, typed, keys
<1>5. Select!Cardinality(typed) = 1 /\ (CHOOSE a \in typed : TRUE) = e
  BY <1>3, FS_Singleton DEF Cardinality, Select!Cardinality
<1> QED
  BY <1>1, <1>4, <1>5

\* Each aggregation is decoded by its name, which no other has.
LEMMA DecodeSelects ==
  ASSUME NEW c \in Select!Faceted, c.names \intersect c.aggs = {}, NEW s,
         NEW n \in c.names \union c.aggs
  PROVE  Select!DecodeAgg(Select!Aggregated(c, s), n) =
           IF n \in c.names THEN s.filter[n] \intersect c.base.query ELSE c.base.query
<1> DEFINE A == Select!Aggregated(c, s)
           K(m) == IF m \in c.names THEN <<IF c.typed THEN "filter" ELSE "", m>>
                   ELSE <<IF c.typed THEN "terms" ELSE "", m>>
           V(m) == IF m \in c.names THEN s.filter[m] \intersect c.base.query ELSE c.base.query
           all == c.names \union c.aggs
           e == <<K(n), V(n)>>
<1>1. A = {<<K(m), V(m)>> : m \in all}
  BY DEF Select!Aggregated
<1>2. c.typed \in BOOLEAN
  BY DEF Select!Faceted
<1>3. ~c.typed => \A m \in all : K(m) = Untyped(m)
  BY DEF Untyped, NoType
<1>4. c.typed => \A m \in all : K(m)[1] # NoType /\ K(m)[2] = m
  BY DEF NoType
<1> HIDE DEF A, K, V, all
<1>5. e \in A /\ e[1] = K(n) /\ e[2] = V(n) /\ n \in all
  BY <1>1 DEF all
<1>6. e = <<K(n), V(n)>>
  OBVIOUS
<1> HIDE DEF e
<1>7. CASE ~c.typed
  <2>1. e[1] = Untyped(n)
    BY <1>3, <1>5, <1>7
  <2>2. ASSUME NEW a \in A, a[1] = Untyped(n) PROVE a = e
    <3>1. PICK m \in all : a = <<K(m), V(m)>>
      BY <1>1
    <3>2. Untyped(n) = Untyped(m)
      BY <1>3, <1>7, <2>2, <3>1
    <3>3. Untyped(n)[2] = n /\ Untyped(m)[2] = m
      BY DEF Untyped
    <3> QED
      BY <1>6, <3>1, <3>2, <3>3
  <2>3. Select!DecodeAgg(A, n) = e[2]
    BY <1>5, <2>1, <2>2, DecodePlain
  <2> QED
    BY <1>5, <2>3 DEF A, V
<1>8. CASE c.typed
  <2>1. e[1][2] = n
    BY <1>4, <1>5, <1>8
  <2>2. ASSUME NEW a \in A PROVE a[1][1] # NoType /\ (a[1][2] = n => a = e)
    <3>1. PICK m \in all : a = <<K(m), V(m)>>
      BY <1>1
    <3>2. a[1] = K(m)
      BY <3>1
    <3> QED
      BY <1>4, <1>8, <1>6, <3>1, <3>2
  <2>3. Select!DecodeAgg(A, n) = e[2]
    BY <1>5, <2>1, <2>2, DecodeTyped
  <2> QED
    BY <1>5, <2>3 DEF A, V
<1> QED
  BY <1>2, <1>7, <1>8
\* Faceted searches keep what the run checks.
LEMMA FacetsKeep ==
  ASSUME given \in Calls, Select!Facets
  PROVE  Select!QueriesSelect'
<1> DEFINE c == given
           s == Select!WithFacets(c)
           Under(names) ==
             {d \in c.base.query : \A n \in names : c.selection[n] = Nil \/ d \in c.selection[n]}
           Right == result'.err = "nil" =>
             /\ result'.hits = Under(c.names)
             /\ \A n \in c.names : result'.aggs[n] = Under(c.names \ {n})
             /\ \A n \in c.aggs : result'.aggs[n] = c.base.query
<1>1. given' = given /\ given.kind = "facets"
  BY DEF Select!Facets
<1>2. c \in Select!Faceted
  BY <1>1, QueriesAssumption DEF Select!Compositions, Select!Finders, Select!Faceted,
     Select!MultiSearches
<1>3. /\ c.base \in [query : Select!Query, knn : {Nil}, post : {Nil} \union Select!Query,
                     from : {0}, size : {Select!Cardinality(AllDocs)}, terminate : {FALSE}]
      /\ c.names \subseteq AggNames /\ c.selection \in [AggNames -> Select!Selections]
  BY <1>2 DEF Select!Faceted
<1>4. /\ c.base.query \in SUBSET AllDocs /\ c.base.from = 0
      /\ c.base.size = Select!Cardinality(AllDocs)
  BY <1>3 DEF Select!Query
<1>5. CASE s.err # "nil"
  <2>1. result' = s
    BY <1>5 DEF Select!Facets
  <2> QED
    BY <1>1, <1>5, <2>1 DEF Select!QueriesSelect
<1>6. CASE s.err = "nil"
  <2> DEFINE post == Select!Selecting(c)
             base == [c.base EXCEPT !.post = s.post]
  <2>1. result' = [err |-> "nil",
                   hits |-> Select!Range(Select!Hits(base, c.base.query, Shards)),
                   aggs |-> [n \in c.names \union c.aggs |->
                               Select!DecodeAgg(Select!Aggregated(c, s), n)]]
    BY <1>6 DEF Select!Facets
  <2>2. post = {n \in c.names : c.selection[n] # Nil}
    BY DEF Select!Selecting
  <2>3. c.names # {} => c.names \intersect c.aggs = {} /\ \A n \in c.names : c.selection[n] # Bad
    BY <1>6 DEF Select!WithFacets
  <2>4. c.names = {} => s.post = Nil
    BY <1>6 DEF Select!WithFacets
  <2>5. c.names # {} =>
          /\ s.post = IF post = {} THEN Nil
                      ELSE Select!Boolean("must", Select!SelectionsOf(c, post))
          /\ \A n \in c.names :
               s.filter[n] = Select!Boolean("must", Select!SelectionsOf(c, post \ {n}))
    BY <1>6 DEF Select!WithFacets
  <2> HIDE DEF s, post
  <2>6. ASSUME NEW N \in SUBSET post
        PROVE  Select!Boolean("must", Select!SelectionsOf(c, N)) =
                 {d \in AllDocs : \A n \in N : d \in c.selection[n]}
    <3>1. N \in SUBSET c.names /\ \A n \in N : c.selection[n] \notin {Nil, Bad}
      BY <2>2, <2>3
    <3> QED
      BY <1>2, <3>1, SelectionsSelect
  <2>7. result'.hits = Under(c.names)
    <3>1. ASSUME NEW d \in c.base.query
          PROVE  (s.post = Nil \/ d \in s.post)
                 <=> (\A n \in c.names : c.selection[n] = Nil \/ d \in c.selection[n])
      <4>1. CASE post = {}
        BY <2>2, <2>4, <2>5, <4>1
      <4>2. CASE post # {}
        <5>1. s.post = {x \in AllDocs : \A n \in post : x \in c.selection[n]}
          BY <2>2, <2>5, <2>6, <4>2
        <5>2. s.post # Nil
          <6>1. s.post \in Select!Query
            BY <5>1 DEF Select!Query
          <6> QED
            BY <6>1, QueriesAssumption
        <5>3. d \in AllDocs
          BY <1>4
        <5> QED
          BY <2>2, <5>1, <5>2, <5>3
      <4> QED
        BY <4>1, <4>2
    <3> DEFINE shown == {d \in c.base.query : Shard[d] \in Shards
                                              /\ (base.post = Nil \/ d \in base.post)}
    <3>2. base.post = s.post /\ base.from = 0 /\ base.size = Select!Cardinality(AllDocs)
      BY <1>3, <1>4
    <3>3. shown = Under(c.names)
      BY <1>4, <3>1, <3>2, QueriesAssumption
    <3> HIDE DEF base
    <3>4. Select!Hits(base, c.base.query, Shards)
            = Select!Window(shown, 0, Select!Cardinality(AllDocs))
      BY <3>2 DEF Select!Hits
    <3>5. shown \in SUBSET AllDocs
      BY <1>4
    <3> HIDE DEF shown
    <3>6. Select!Range(Select!Window(shown, 0, Select!Cardinality(AllDocs))) = shown
      BY <3>5, Windows
    <3>7. result'.hits = Select!Range(Select!Hits(base, c.base.query, Shards))
      BY <2>1
    <3> QED
      BY <3>3, <3>4, <3>6, <3>7
  <2>8. c.names \intersect c.aggs = {}
    BY <2>3
  <2>9. ASSUME NEW n \in c.names \union c.aggs
        PROVE  result'.aggs[n] =
                 IF n \in c.names THEN s.filter[n] \intersect c.base.query ELSE c.base.query
    <3>1. result'.aggs[n] = Select!DecodeAgg(Select!Aggregated(c, s), n)
      BY <2>1
    <3>2. Select!DecodeAgg(Select!Aggregated(c, s), n) =
            IF n \in c.names THEN s.filter[n] \intersect c.base.query ELSE c.base.query
      BY <1>2, <2>8, DecodeSelects
    <3> QED
      BY <3>1, <3>2
  <2>10. ASSUME NEW n \in c.names PROVE result'.aggs[n] = Under(c.names \ {n})
    <3>1. s.filter[n] = {d \in AllDocs : \A m \in post \ {n} : d \in c.selection[m]}
      BY <2>5, <2>6
    <3>2. s.filter[n] \intersect c.base.query = Under(c.names \ {n})
      BY <1>4, <2>2, <3>1
    <3> QED
      BY <2>9, <3>2
  <2>11. ASSUME NEW n \in c.aggs PROVE result'.aggs[n] = c.base.query
    <3>1. n \notin c.names
      BY <2>8
    <3> QED
      BY <2>9, <3>1
  <2>12. Right
    BY <2>7, <2>10, <2>11
  <2> QED
    BY <1>1, <2>12 DEF Select!QueriesSelect
<1> QED
  BY <1>5, <1>6

\* Multi-searches keep what the run checks.
LEMMA MultiSearchKeeps ==
  ASSUME given \in Calls, Select!MultiSearch
  PROVE  Select!QueriesSelect'
<1> DEFINE searches == given.searches
           Right == result'.err = "nil" =>
             /\ Len(result'.results) = Len(searches)
             /\ \A i \in DOMAIN searches : result'.results[i].err = "nil" =>
                  Select!Range(result'.results[i].hits) = searches[i].query
<1>1. given' = given /\ given.kind = "msearch"
  BY DEF Select!MultiSearch
<1>2. searches \in Seq([query : Select!Query, pit : BOOLEAN, bad : BOOLEAN,
                        params : SUBSET {"routing", "typed_keys", "version"}])
  BY <1>1, QueriesAssumption DEF Select!Compositions, Select!Finders, Select!Faceted,
     Select!MultiSearches
<1> HIDE DEF searches
<1>3. ASSUME NEW i \in 1..Len(searches) PROVE searches[i].query \in SUBSET AllDocs
  <2> DEFINE S == [query : Select!Query, pit : BOOLEAN, bad : BOOLEAN,
                   params : SUBSET {"routing", "typed_keys", "version"}]
  <2>1. searches \in Seq(S)
    BY <1>2
  <2>2. \A x \in S : x.query \in SUBSET AllDocs
    BY DEF Select!Query
  <2> HIDE DEF S
  <2> QED
    BY <2>1, <2>2
<1>4. ASSUME searches = <<>>, result' = [err |-> "nil", results |-> <<>>] PROVE Right
  <2>1. Len(searches) = Len(<<>>) /\ DOMAIN searches = {}
    BY <1>4
  <2> QED
    BY <1>4, <2>1
<1>5. ASSUME searches # <<>>, NEW n \in {Len(searches) - 1, Len(searches)},
             NEW responses \in Select!Batches(searches, n), Len(responses) = Len(searches),
             NEW results \in [DOMAIN searches ->
                                UNION {Select!Item(r) : r \in Select!Range(responses)}],
             \A i \in DOMAIN searches : results[i] \in Select!Item(responses[i]),
             result' = [err |-> "nil", results |-> results]
      PROVE  Right
  <2>1. Len(searches) \in Nat \ {0} /\ DOMAIN searches = 1..Len(searches)
    BY <1>2, <1>5
  <2>2. /\ n \in Nat /\ DOMAIN responses = 1..n
        /\ \A i \in 1..n : responses[i] \in Select!Responses(searches[i])
    BY <1>5, <2>1 DEF Select!Batches
  <2>3. n = Len(searches)
    BY <1>5, <2>2
  <2>4. Len(results) = Len(searches)
    BY <1>5, <2>1
  <2>5. ASSUME NEW i \in DOMAIN searches, results[i].err = "nil"
        PROVE  Select!Range(results[i].hits) = searches[i].query
    <3> DEFINE response == responses[i]
    <3>1. results[i] \in Select!Item(response) /\ response \in Select!Responses(searches[i])
      BY <1>5, <2>1, <2>2, <2>3
    <3> HIDE DEF response
    <3> DEFINE docs(shards) == {d \in searches[i].query : Shard[d] \in shards}
    <3> HIDE DEF docs
    <3>2. \/ response.error \in {"item", "malformed"}
          \/ /\ response.error = "" /\ response.shards \in SUBSET Shards
             /\ response.docs = docs(response.shards)
      <4>1. Select!Responses(searches[i]) =
              {[error |-> e, shards |-> Shards, docs |-> {}] : e \in {"item", "malformed"}}
              \union {[error |-> "", shards |-> shards, docs |-> docs(shards)] :
                        shards \in SUBSET Shards}
        BY DEF Select!Responses, docs
      <4>2. CASE response \in {[error |-> e, shards |-> Shards, docs |-> {}] :
                                 e \in {"item", "malformed"}}
        <5>1. PICK e \in {"item", "malformed"} :
                response = [error |-> e, shards |-> Shards, docs |-> {}]
          BY <4>2
        <5> QED
          BY <5>1
      <4>3. CASE response \in {[error |-> "", shards |-> shards, docs |-> docs(shards)] :
                                 shards \in SUBSET Shards}
        <5>1. PICK shards \in SUBSET Shards :
                response = [error |-> "", shards |-> shards, docs |-> docs(shards)]
          BY <4>3
        <5> QED
          BY <5>1
      <4> QED
        BY <3>1, <4>1, <4>2, <4>3
    <3>3. response.error = ""
      <4>1. ASSUME response.error # "" PROVE FALSE
        <5>1. results[i] = Select!Failed(response.error)
          BY <3>1, <4>1 DEF Select!Item
        <5>2. results[i].err = response.error
          BY <5>1 DEF Select!Failed
        <5>3. response.error \in {"", "item", "malformed"}
          BY <3>2
        <5> QED
          BY <2>5, <4>1, <5>2, <5>3
      <4> QED
        BY <4>1
    <3>4. /\ results[i].hits
               = Select!Window(response.docs, 0, Select!Cardinality(AllDocs))
          /\ response.shards = Shards
      <4>1. PICK e \in (IF response.shards = Shards THEN {"nil", "hook"} ELSE {"partial"}) :
              results[i] = [hits |-> Select!Window(response.docs, 0, Select!Cardinality(AllDocs)),
                            err |-> e]
        BY <3>1, <3>3 DEF Select!Item
      <4>2. e = "nil"
        BY <2>5, <4>1
      <4> QED
        BY <4>1, <4>2
    <3>5. response.docs = {d \in searches[i].query : Shard[d] \in Shards}
      BY <3>2, <3>3, <3>4 DEF docs
    <3>6. response.docs = searches[i].query /\ response.docs \in SUBSET AllDocs
      BY <1>3, <2>1, <3>5, QueriesAssumption
    <3> QED
      BY <3>4, <3>6, Windows
  <2> QED
    BY <1>5, <2>4, <2>5
<1>6. Right
  <2>1. CASE searches = <<>> /\ result' = [err |-> "nil", results |-> <<>>]
    BY <1>4, <2>1
  <2>2. CASE result' = [err |-> "validation", results |-> <<>>]
             \/ result' = [err |-> "mismatch", results |-> <<>>]
    BY <2>2
  <2>3. CASE \E r \in Select!Failures : result' = [err |-> r.err, results |-> <<>>]
    BY <2>3, FailuresFail
  <2> QED
    BY <1>5, <2>1, <2>2, <2>3 DEF Select!MultiSearch, searches
<1> QED
  BY <1>1, <1>6 DEF Select!QueriesSelect, searches

\* A case stays the one given, and its result is right.
QueryInv == part = "queries" => given \in Calls /\ Select!QueriesSelect

\* Every step of the queries keeps the invariant.
LEMMA QueryStep ==
  ASSUME QueryInv, Next
  PROVE  QueryInv'
<1> SUFFICES ASSUME part = "queries", part' = "queries"
             PROVE  (given \in Calls /\ Select!QueriesSelect)'
  BY DEF Next, QueryInv
<1>1. given \in Calls /\ Select!Next
  BY DEF QueryInv, Next
<1>2. UNCHANGED given
  BY <1>1 DEF Select!Next, Select!Compose, Select!Find, Select!Facets, Select!MultiSearch
<1>3. Select!QueriesSelect'
  BY <1>1, ComposeKeeps, FindAnswers, FacetsKeep, MultiSearchKeeps DEF Select!Next
<1> QED
  BY <1>1, <1>2, <1>3

\* A call that returns no error has the documents its caller asked for, however its
\* clauses, facets and searches are composed (src/query.go, src/finder.go, src/facets.go,
\* src/search.go), whatever shards fail or stop early.
THEOREM QueriesSelectAlways == Spec => []QueriesSelect
<1>1. Init => QueryInv
  <2> SUFFICES ASSUME Init, part = "queries" PROVE given \in Calls /\ Select!QueriesSelect
    BY DEF QueryInv
  <2>1. Select!Init
    BY DEF Init
  <2> QED
    BY <2>1 DEF Select!Init, Select!QueriesSelect
<1>2. QueryInv /\ [Next]_<<part, setup, graph, derived, bulk, case>> => QueryInv'
  <2>1. ASSUME QueryInv, UNCHANGED <<part, setup, graph, derived, bulk, case>>
        PROVE  QueryInv'
    <3>1. part' = part /\ given' = given /\ result' = result
      BY <2>1 DEF case
    <3>2. Select!QueriesSelect => Select!QueriesSelect'
      BY <3>1 DEF Select!QueriesSelect
    <3> QED
      BY <2>1, <3>1, <3>2 DEF QueryInv
  <2> QED
    BY <2>1, QueryStep
<1>3. QueryInv => QueriesSelect
  BY DEF QueryInv, QueriesSelect
<1> QED
  BY <1>1, <1>2, <1>3, PTL DEF Spec
=============================================================================
