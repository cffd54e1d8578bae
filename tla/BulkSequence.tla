---------------------------- MODULE BulkSequence ----------------------------
(***************************************************************************)
(* Repository.streamSequence (src/bulk_sequence.go), the asynchronous path *)
(* of BulkSeq and BulkSeq2: a bridge goroutine ranges over the caller's    *)
(* sequence and feeds BulkStream through an unbuffered channel; when       *)
(* BulkStream returns, the bridge is cancelled and joined.                 *)
(*                                                                         *)
(* The bridge takes the place of BulkStream's caller, and producerCtx that *)
(* of its parent context, so parentDone is producerCtx being done.         *)
(***************************************************************************)
EXTENDS BulkStream

VARIABLES
  outerDone,  \* the context given to BulkSeq2 is done
  bridge,     \* where the bridge goroutine is
  exit,       \* why it left its loop: the sequence ended, an error, a context
  caller,     \* where streamSequence itself is
  final       \* the errors it joined, or {"running"}

sequenceVars == <<outerDone, bridge, exit, caller, final>>
allVars == <<vars, sequenceVars>>

SequenceInit ==
  /\ Init
  /\ outerDone = FALSE
  /\ bridge = "next" /\ exit = "none"
  /\ caller = "stream" /\ final = {"running"}

\* The goroutines of BulkStream, while streamSequence runs it.
StreamSteps == Stream /\ UNCHANGED sequenceVars

\* producerCtx is derived from the caller's context.
OuterCancels ==
  /\ ~outerDone
  /\ outerDone' = TRUE /\ parentDone' = TRUE
  /\ UNCHANGED <<inputVars, cancelled, runVars, bridge, exit, caller, final>>

\* The deferred close(input); done <- producerErr.
BridgeExits(why) ==
  /\ bridge' = "done" /\ exit' = why
  /\ inputClosed' = TRUE

\* The sequence yields an operation, yields an error, or ends; a producer that
\* honors the context may end early, without an error, once that is done.
BridgeNext ==
  /\ bridge = "next"
  /\ \/ /\ taken < MaxOps
        /\ bridge' = "yielded"
        /\ UNCHANGED <<exit, inputClosed>>
     \/ BridgeExits("error")
     \/ BridgeExits(IF parentDone THEN "context" ELSE "end")
  /\ UNCHANGED <<offer, taken, parentDone, cancelled, runVars, outerDone,
                 caller, final>>

\* if producerCtx.Err() != nil { return }, else the select.
BridgeChecks ==
  /\ bridge = "yielded"
  /\ \/ /\ parentDone
        /\ BridgeExits("context")
        /\ UNCHANGED offer
     \/ /\ ~parentDone
        /\ bridge' = "send" /\ offer' = taken + 1
        /\ UNCHANGED <<exit, inputClosed>>
  /\ UNCHANGED <<taken, parentDone, cancelled, runVars, outerDone, caller,
                 final>>

\* The two cases of the select: the operation was received, or the context is
\* done and the operation is given up.
BridgeSends ==
  /\ bridge = "send"
  /\ \/ /\ offer = NoOp
        /\ bridge' = "next"
        /\ UNCHANGED <<offer, exit, inputClosed>>
     \/ /\ offer # NoOp /\ parentDone
        /\ offer' = NoOp
        /\ BridgeExits("context")
  /\ UNCHANGED <<taken, parentDone, cancelled, runVars, outerDone, caller,
                 final>>

Bridge == BridgeNext \/ BridgeChecks \/ BridgeSends

Leaves   == UNCHANGED parentDone   \* Mutant: no cancel() before the join.
Cancels  == parentDone' = TRUE

\* cancel() once BulkStream has returned.
CallerCancelsBridge ==
  /\ caller = "stream" /\ ret # "running"
  /\ caller' = "join" /\ Cancels
  /\ UNCHANGED <<inputVars, cancelled, runVars, outerDone, bridge, exit, final>>

NoError       == {}   \* Mutant: the producer's error is dropped.
ProducerError == IF exit = "error" THEN {"producer"} ELSE {}

\* errors.Join(streamErr, <-done)
CallerJoins ==
  /\ caller = "join" /\ bridge = "done"
  /\ caller' = "returned"
  /\ final' = ({ret} \ {"nil"}) \union ProducerError
  /\ UNCHANGED <<inputVars, parentDone, cancelled, runVars, outerDone, bridge,
                 exit>>

SequenceNext ==
  \/ StreamSteps \/ OuterCancels \/ Bridge
  \/ CallerCancelsBridge \/ CallerJoins

SequenceSpec == SequenceInit /\ [][SequenceNext]_allVars

\* The sequence keeps producing until it ends: the documented duty of a
\* producer is to stop when yield returns false and to honor its context.
SequenceFairness ==
  /\ WF_allVars(Producer /\ UNCHANGED sequenceVars)
  /\ WF_allVars(ProducerStops /\ UNCHANGED sequenceVars)
  /\ \A w \in Workers : WF_allVars(Worker(w) /\ UNCHANGED sequenceVars)
  /\ WF_allVars(Closer /\ UNCHANGED sequenceVars)
  /\ WF_allVars(Collector /\ UNCHANGED sequenceVars)
  /\ WF_allVars(Bridge)
  /\ WF_allVars(CallerCancelsBridge) /\ WF_allVars(CallerJoins)

FairSequenceSpec == SequenceSpec /\ SequenceFairness
-----------------------------------------------------------------------------
\* Every call returns, whatever fails in it: in particular the bridge, blocked
\* on a channel nobody receives from any more, is released.
SequenceReturns == <>(caller = "returned")

\* streamSequence implements the delivery contract.
Contract == INSTANCE BulkDelivery WITH
  BatchSize <- BatchSize,
  accepted  <- taken,
  source    <- CASE exit = "none"    -> "open"
                 [] exit = "context" -> "cut"
                 [] OTHER            -> exit,
  batches   <- [k \in DOMAIN formed |-> Len(formed[k])],
  cut       <- LastOf(Len(formed)),
  delivered <- delivered,
  stopped   <- callbackFailed,
  outcome   <- IF caller = "returned"
               THEN <<{IF e = "parent" THEN "context" ELSE e : e \in final}>>
               ELSE <<>>

DeliveryContract == Contract!Spec
=============================================================================
