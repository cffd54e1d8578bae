------------------------------- MODULE BulkSeq -------------------------------
(***************************************************************************)
(* Repository.BulkSeq2 (src/bulk_sequence.go) with one worker and no flush *)
(* interval: the calling goroutine ranges over the sequence, sends a batch *)
(* when it is full and calls onResult, with nothing running beside it but  *)
(* whoever ends its context.  flush() is two steps, the request and the    *)
(* callback, because the context may end between them.                     *)
(***************************************************************************)
EXTENDS Integers, Sequences

CONSTANTS
  BatchSize,   \* BulkStreamOptions.BatchSize, after its default
  MaxOps       \* bound of the model: operations the sequence yields

ASSUME SeqAssumption == BatchSize \in Nat \ {0} /\ MaxOps \in Nat

VARIABLES
  at,          \* where the call is
  ctxDone,
  taken,       \* operations the sequence has yielded
  batch,       \* the operations buffered
  why,         \* what flush() was called for: "full", "error", "end"
  short,       \* the sequence ended under a finished context, maybe early
  sequence,    \* the number of the next batch
  result,      \* whether the batch's request returned a nil error
  first,       \* the errors first holds
  formed,      \* history: the batches sent
  delivered,   \* history: the results onResult was called with
  stopped,     \* onResult has failed
  final        \* the errors returned, or {"running"}

vars == <<at, ctxDone, taken, batch, why, short, sequence, result, first, formed,
          delivered, stopped, final>>

Init ==
  /\ at = "loop" /\ ctxDone = FALSE
  /\ taken = 0 /\ batch = <<>> /\ why = "none" /\ sequence = 0
  /\ short = FALSE /\ result = FALSE
  /\ first = {} /\ formed = <<>> /\ delivered = <<>> /\ stopped = FALSE
  /\ final = {"running"}

ContextEnds ==
  /\ ~ctxDone
  /\ ctxDone' = TRUE
  /\ UNCHANGED <<at, taken, batch, why, short, sequence, result, first, formed,
                 delivered, stopped, final>>

Returns(errors) ==
  /\ at' = "returned"
  /\ final' = errors

\* flush(), where it was called from.  With an empty batch it returns true at
\* once; it never is empty when it is full.
Flush(cause) ==
  /\ why' = cause
  /\ at' = IF batch' = <<>> THEN "returning" ELSE "request"

\* The loop's body looks at the context before it looks at what was yielded.
YieldOp ==
  /\ at = "loop" /\ ~ctxDone /\ taken < MaxOps
  /\ taken' = taken + 1
  /\ batch' = Append(batch, taken + 1)
  /\ IF Len(batch') = BatchSize THEN Flush("full") ELSE UNCHANGED <<at, why>>
  /\ UNCHANGED <<ctxDone, short, sequence, result, first, formed, delivered, stopped,
                 final>>

YieldError ==
  /\ at = "loop" /\ ~ctxDone
  /\ UNCHANGED batch
  /\ Flush("error")
  /\ UNCHANGED <<ctxDone, taken, short, sequence, result, first, formed, delivered,
                 stopped, final>>

\* The check of ctx.Err() in the loop, whatever is yielded next.
ContextReturns ==
  /\ at = "loop" /\ ctxDone
  /\ Returns({"context"})
  /\ UNCHANGED <<ctxDone, taken, batch, why, short, sequence, result, first, formed,
                 delivered, stopped>>

\* A producer that honors the context ends early, without an error, when it is done.
SequenceEnds ==
  /\ at = "loop"
  /\ at' = "ended" /\ why' = "end" /\ short' = ctxDone
  /\ UNCHANGED <<ctxDone, taken, batch, sequence, result, first, formed, delivered,
                 stopped, final>>

NotChecked == FALSE   \* Mutant: the end of the sequence is taken for its end.
ContextErr == ctxDone

\* The check of ctx.Err() behind the loop, and the last flush.
ChecksEnd ==
  /\ at = "ended"
  /\ UNCHANGED batch
  /\ \/ ContextErr /\ Returns({"context"}) /\ UNCHANGED why
     \/ ~ContextErr /\ Flush("end") /\ UNCHANGED final
  /\ UNCHANGED <<ctxDone, taken, short, sequence, result, first, formed, delivered,
                 stopped>>

FirstError(ok) == IF first = {} /\ ~ok THEN {"batch"} ELSE first

\* BulkWithOptions, which fails under a finished context, and the emptied batch.
Request ==
  /\ at = "request"
  /\ formed' = Append(formed, batch)
  /\ batch' = <<>>
  /\ \E ok \in BOOLEAN :
       /\ ctxDone => ~ok
       /\ result' = ok
       /\ first' = FirstError(ok)
  /\ at' = "result"
  /\ UNCHANGED <<ctxDone, taken, why, short, sequence, delivered, stopped, final>>

CallbackStarts ==
  /\ at = "result"
  /\ delivered' = Append(delivered, [seq |-> sequence, ok |-> result])
  /\ at' = "callback"
  /\ UNCHANGED <<ctxDone, taken, batch, why, short, sequence, result, first, formed,
                 stopped, final>>

NextNumber == sequence + 1

\* onResult returns.  Its failure makes flush() return false, and is then the
\* only error of the call.
CallbackReturns ==
  /\ at = "callback"
  /\ sequence' = NextNumber
  /\ \/ /\ at' = IF why = "full" THEN "loop" ELSE "returning"
        /\ UNCHANGED <<first, stopped>>
     \/ /\ at' = "returning"
        /\ first' = {"callback"} /\ stopped' = TRUE
  /\ UNCHANGED <<ctxDone, taken, batch, why, short, result, formed, delivered, final>>

\* A producer error joins first only after a flush that returned true.
SeqReturns ==
  /\ at = "returning"
  /\ Returns(first \union (IF why = "error" /\ ~stopped THEN {"producer"} ELSE {}))
  /\ UNCHANGED <<ctxDone, taken, batch, why, short, sequence, result, first, formed,
                 delivered, stopped>>

Next ==
  \/ ContextEnds \/ YieldOp \/ YieldError \/ ContextReturns \/ SequenceEnds
  \/ ChecksEnd \/ Request \/ CallbackStarts \/ CallbackReturns \/ SeqReturns

Spec == Init /\ [][Next]_vars
-----------------------------------------------------------------------------
\* The last operation of the first k batches.
LastOf(k) == IF k = 0 THEN 0 ELSE formed[k][Len(formed[k])]

Contract == INSTANCE BulkDelivery WITH
  accepted  <- taken,
  source    <- CASE why = "error"          -> "error"
                 [] why = "end" /\ short  -> "cut"
                 [] why = "end" /\ ~short -> "end"
                 [] OTHER                  -> "open",
  batches   <- [k \in DOMAIN formed |-> Len(formed[k])],
  cut       <- LastOf(Len(formed)),
  delivered <- delivered,
  outcome   <- IF at = "returned" THEN <<final>> ELSE <<>>

\* The synchronous path implements the contract the asynchronous one does.
DeliveryContract == Contract!Spec
=============================================================================
