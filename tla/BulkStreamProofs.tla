-------------------------- MODULE BulkStreamProofs --------------------------
(***************************************************************************)
(* Proofs about BulkStream and about BulkSequence, which feeds it, for any *)
(* number of workers, any batch size, any queue capacity and any number of *)
(* operations.                                                             *)
(*                                                                         *)
(* The invariant IInv adds to the types what links the goroutines: a batch *)
(* is sent only when it is not empty and received into only when it is not *)
(* full, a worker between its two selects holds a batch, the goroutines    *)
(* end in one order, and the operation the caller is blocked on follows    *)
(* those received.  Each part has a lemma that looks only at the actions   *)
(* that disturb it; every other action leaves its variables alone.  Which  *)
(* array each batch lies in (Slices), where each batch is (Placed) and     *)
(* what the call returns (Endings) come after, and last the delivery       *)
(* contract, for which BulkSequence is given one invariant more.           *)
(***************************************************************************)
EXTENDS BulkSequence, FiniteSetTheorems, SequenceTheorems, TLAPS

USE DEF inputVars, contextVars, sliceVars, producerVars, jobVars, workerVars, resultVars,
        collectorVars, historyVars, runVars

\* TypeOK, in parts.
ControlTypes ==
  /\ offer \in Nat /\ inputClosed \in BOOLEAN /\ taken \in Nat
  /\ parentDone \in BOOLEAN /\ cancelled \in BOOLEAN
  /\ producer \in {"select", "done"} \union Sending
  /\ jobsClosed \in BOOLEAN /\ resultsClosed \in BOOLEAN
  /\ collector \in {"range", "callback", "returned"}
  /\ first \in {"nil", "batch", "callback"} /\ callbackFailed \in BOOLEAN
  /\ ret \in {"running", "nil", "batch", "callback", "parent"}

BatchTypes ==
  /\ ops \in Seq(Nat) /\ Len(ops) <= BatchSize /\ seq \in Nat
  /\ formed \in Seq(Seq(Nat)) /\ submitted \subseteq Nat

SliceTypes == heap \in Seq([1..BatchSize -> Nat]) /\ array \in DOMAIN heap

JobTypes == jobs \in Seq(Batch) /\ Len(jobs) <= QueueSize

WorkerTypes ==
  /\ worker \in [Workers -> {"idle", "took", "sent", "report", "done"}]
  /\ job \in [Workers -> Batch \union {NoBatch}]
  /\ succeeded \in [Workers -> BOOLEAN]

ResultTypes ==
  /\ results \in Seq(Result) /\ Len(results) <= Cardinality(Workers)
  /\ current \in Result \union {NoResult}
  /\ delivered \in Seq(Result)

\* The batch under construction, at each place of the producer.
BatchInProgress ==
  /\ producer = "select" => Len(ops) < BatchSize
  /\ producer \in Sending => Len(ops) > 0

\* A worker between its two selects holds a batch.
WorkersHold ==
  \A w \in Workers : worker[w] \in {"took", "sent", "report"} => job[w] \in Batch

Types ==
  /\ ControlTypes /\ BatchTypes /\ BatchInProgress /\ SliceTypes /\ JobTypes
  /\ WorkerTypes /\ WorkersHold /\ ResultTypes

\* The order in which the goroutines end.
ClosingOrder ==
  /\ producer = "done" => jobsClosed
  /\ resultsClosed => producer = "done" /\ \A w \in Workers : worker[w] = "done"
  /\ collector = "returned" => resultsClosed /\ results = <<>>
  /\ ret # "running" => collector = "returned"

\* The collector is not in the callback after the callback has failed.
CallbackOver == callbackFailed => collector # "callback"

\* Operations are offered in order.
OfferIsNext == offer # NoOp => offer = taken + 1

IInv ==
  Types /\ ClosingOrder /\ CallbackOver /\ OfferIsNext /\ BatchesCoverInput

\* The parts give TypeOK back.
LEMMA TypeParts == Types => TypeOK
  BY DEF Types, TypeOK, ControlTypes, BatchTypes, SliceTypes, JobTypes, WorkerTypes, ResultTypes

\* The capacity of the result channel is a number.
LEMMA WorkersFinite == Cardinality(Workers) \in Nat
  BY StreamAssumption, FS_CardinalityType

\* The invariant holds of a call that has not started.
LEMMA InitIInv == Init => IInv
<1> SUFFICES ASSUME Init PROVE IInv
  OBVIOUS
<1>1. ControlTypes
  BY DEF Init, ControlTypes, NoOp
<1>2. BatchTypes /\ BatchInProgress
  BY StreamAssumption DEF Init, BatchTypes, BatchInProgress, Sending
<1>3. SliceTypes /\ JobTypes /\ WorkerTypes /\ WorkersHold
  BY StreamAssumption
  DEF Init, EmptyArray, NoOp, SliceTypes, JobTypes, WorkerTypes, WorkersHold
<1>4. ResultTypes
  <2>1. Len(results) = 0 /\ results \in Seq(Result) /\ delivered \in Seq(Result)
    BY DEF Init
  <2> QED
    BY <2>1, WorkersFinite DEF Init, ResultTypes
<1>5. ClosingOrder /\ CallbackOver /\ OfferIsNext
  BY DEF Init, ClosingOrder, CallbackOver, OfferIsNext
<1>6. BatchesCoverInput
  BY DEF Init, BatchesCoverInput, LastOf, Follows
<1> QED
  BY <1>1, <1>2, <1>3, <1>4, <1>5, <1>6 DEF IInv, Types
-----------------------------------------------------------------------------
\* Types of the program counters, contexts and counters.
LEMMA ControlStep ==
  ASSUME Types, [Next]_vars
  PROVE  ControlTypes'
<1> USE DEF Types, ControlTypes, Sending, NoOp, Joined, InSelect, Buffered, Calls, FirstError
<1>1. CASE Caller
  <2>1. CASE CallerSends
    BY <2>1 DEF CallerSends
  <2>2. CASE CallerCloses
    BY <2>2 DEF CallerCloses
  <2>3. CASE CallerCancels
    BY <2>3 DEF CallerCancels
  <2> QED
    BY <1>1, <2>1, <2>2, <2>3 DEF Caller
<1>2. CASE Producer
  <2>1. CASE ProducerReceives
    BY <2>1 DEF ProducerReceives
  <2>2. CASE ProducerTicks
    BY <2>2 DEF ProducerTicks
  <2>3. CASE ProducerSeesClose
    BY <2>3, ZenonT(60) DEF ProducerSeesClose, ProducerReturns
  <2>4. CASE ProducerSends
    BY <2>4, ZenonT(60) DEF ProducerSends, ProducerReturns
  <2>5. CASE ProducerStops
    BY <2>5 DEF ProducerStops, ProducerReturns
  <2> QED
    BY <1>2, <2>1, <2>2, <2>3, <2>4, <2>5 DEF Producer
<1>3. ASSUME NEW w \in Workers, Worker(w) PROVE ControlTypes'
  BY <1>3 DEF Worker, WorkerTakes, WorkerStarts, WorkerFinishes, WorkerReports,
              WorkerStops
<1>4. CASE Closer
  BY <1>4 DEF Closer
<1>5. CASE CollectorReceives
  BY <1>5 DEF CollectorReceives
<1>6. CASE CallbackReturns
  <2>1. UNCHANGED <<inputVars, parentDone, producer, jobsClosed, resultsClosed, ret>>
    BY <1>6 DEF CallbackReturns
  <2>2. first' \in {first, "callback"} /\ callbackFailed' \in BOOLEAN
        /\ cancelled' \in BOOLEAN /\ collector' = "range"
    BY <1>6 DEF CallbackReturns
  <2> QED
    BY <2>1, <2>2
<1>7. CASE CollectorReturns
  BY <1>7 DEF CollectorReturns
<1>8. CASE UNCHANGED vars
  BY <1>8 DEF vars
<1> QED
  BY <1>1, <1>2, <1>3, <1>4, <1>5, <1>6, <1>7, <1>8 DEF Next, Stream, Collector

\* Types of the slice under construction and of the batches formed.
LEMMA BatchStep ==
  ASSUME Types, [Next]_vars
  PROVE  (BatchTypes /\ BatchInProgress)'
<1> USE StreamAssumption DEF Types, BatchTypes, BatchInProgress, Sending
<1>1. CASE ProducerReceives
  <2>1. offer \in Nat
    BY DEF ControlTypes
  <2>2. Append(ops, offer) \in Seq(Nat) /\ Len(Append(ops, offer)) = Len(ops) + 1
    BY <2>1
  <2> QED
    BY <1>1, <2>2 DEF ProducerReceives, Full
<1>2. CASE ProducerSends
  BY <1>2 DEF ProducerSends, ProducerReturns, NewSlice
<1>3. CASE ProducerTicks \/ ProducerSeesClose \/ ProducerStops
  <2>1. producer' \in Sending => ops # <<>>
    BY <1>3 DEF ProducerTicks, ProducerSeesClose, ProducerStops, ProducerReturns, Buffered, InSelect
  <2>2. ops # <<>> => Len(ops) > 0
    OBVIOUS
  <2>3. producer' # "select" /\ UNCHANGED <<ops, seq, formed, submitted>>
    BY <1>3 DEF ProducerTicks, ProducerSeesClose, ProducerStops, ProducerReturns, Buffered, InSelect
  <2> QED
    BY <2>1, <2>2, <2>3
<1>4. ASSUME NEW w \in Workers, WorkerStarts(w)
      PROVE  (BatchTypes /\ BatchInProgress)'
  <2>1. job[w].seq \in Nat
    BY <1>4 DEF WorkerStarts, WorkersHold, Batch
  <2> QED
    BY <1>4, <2>1 DEF WorkerStarts
<1>5. CASE UNCHANGED <<producer, ops, seq, formed, submitted>>
  BY <1>5
<1> QED
  BY <1>1, <1>2, <1>3, <1>4, <1>5
  DEF Next, Caller, CallerSends, CallerCloses, CallerCancels, Stream, Producer, Worker,
      WorkerTakes, WorkerFinishes, WorkerReports, WorkerStops, Closer, Collector,
      CollectorReceives, CallbackReturns, CollectorReturns, vars

\* Types of the arrays.
LEMMA SliceStep ==
  ASSUME Types, [Next]_vars
  PROVE  SliceTypes'
<1> USE DEF Types, SliceTypes
<1>1. CASE ProducerReceives
  <2>1. /\ offer \in Nat /\ heap[array] \in [1..BatchSize -> Nat]
        /\ heap' = [heap EXCEPT ![array] = [@ EXCEPT ![Len(ops) + 1] = offer]]
        /\ array' = array
    BY <1>1 DEF ProducerReceives, ControlTypes
  <2>2. [heap[array] EXCEPT ![Len(ops) + 1] = offer] \in [1..BatchSize -> Nat]
    BY <2>1
  <2> QED
    BY <2>1, <2>2
<1>2. CASE ProducerSends
  <2>1. EmptyArray \in [1..BatchSize -> Nat]
    BY DEF EmptyArray, NoOp
  <2>2. heap' = Append(heap, EmptyArray) /\ array' = Len(heap')
    BY <1>2 DEF ProducerSends, NewArray
  <2> QED
    BY <2>1, <2>2
<1>3. CASE UNCHANGED <<array, heap>>
  BY <1>3
<1> QED
  BY <1>1, <1>2, <1>3
  DEF Next, Caller, CallerSends, CallerCloses, CallerCancels, Stream, Producer,
      ProducerTicks, ProducerSeesClose, ProducerStops, Worker, WorkerTakes, WorkerStarts,
      WorkerFinishes, WorkerReports, WorkerStops, Closer, Collector, CollectorReceives,
      CallbackReturns, CollectorReturns, vars

\* Types and capacity of the queue of jobs.
LEMMA JobStep ==
  ASSUME Types, [Next]_vars
  PROVE  JobTypes'
<1> USE StreamAssumption DEF Types, JobTypes
<1>1. CASE ProducerSends
  <2>1. [seq |-> seq, array |-> array, len |-> Len(ops)] \in Batch
    BY DEF BatchTypes, SliceTypes, Batch
  <2> QED
    BY <1>1, <2>1 DEF ProducerSends
<1>2. ASSUME NEW w \in Workers, WorkerTakes(w) PROVE JobTypes'
  BY <1>2 DEF WorkerTakes
<1>3. CASE UNCHANGED jobs
  BY <1>3
<1> QED
  BY <1>1, <1>2, <1>3
  DEF Next, Caller, CallerSends, CallerCloses, CallerCancels, Stream, Producer,
      ProducerReceives, ProducerTicks, ProducerSeesClose, ProducerStops, Worker,
      WorkerStarts, WorkerFinishes, WorkerReports, WorkerStops, Closer, Collector,
      CollectorReceives, CallbackReturns, CollectorReturns, vars

\* Types of what the workers hold.
LEMMA WorkerStep ==
  ASSUME Types, [Next]_vars
  PROVE  (WorkerTypes /\ WorkersHold)'
<1> USE DEF Types, WorkerTypes, WorkersHold
<1>1. ASSUME NEW w \in Workers, WorkerTakes(w) PROVE (WorkerTypes /\ WorkersHold)'
  <2>1. Head(jobs) \in Batch
    BY <1>1 DEF WorkerTakes, JobTypes
  <2> QED
    BY <1>1, <2>1 DEF WorkerTakes
<1>2. ASSUME NEW w \in Workers, WorkerStarts(w) PROVE (WorkerTypes /\ WorkersHold)'
  BY <1>2 DEF WorkerStarts
<1>3. ASSUME NEW w \in Workers, WorkerFinishes(w) PROVE (WorkerTypes /\ WorkersHold)'
  BY <1>3 DEF WorkerFinishes
<1>4. ASSUME NEW w \in Workers, WorkerReports(w) PROVE (WorkerTypes /\ WorkersHold)'
  BY <1>4 DEF WorkerReports, LetsGo
<1>5. ASSUME NEW w \in Workers, WorkerStops(w) PROVE (WorkerTypes /\ WorkersHold)'
  BY <1>5 DEF WorkerStops
<1>6. CASE UNCHANGED workerVars
  BY <1>6
<1> QED
  BY <1>1, <1>2, <1>3, <1>4, <1>5, <1>6
  DEF Next, Caller, CallerSends, CallerCloses, CallerCancels, Stream, Producer,
      ProducerReceives, ProducerTicks, ProducerSeesClose, ProducerSends, ProducerStops,
      Worker, Closer, Collector, CollectorReceives, CallbackReturns, CollectorReturns,
      vars

\* Types and capacity of the queue of results.
LEMMA ResultStep ==
  ASSUME Types, [Next]_vars
  PROVE  ResultTypes'
<1> USE WorkersFinite DEF Types, ResultTypes
<1>1. ASSUME NEW w \in Workers, WorkerReports(w) PROVE ResultTypes'
  <2>1. Report(w) \in Seq(Result) /\ Len(Report(w)) = 1
    <3>1. [seq |-> job[w].seq, ok |-> succeeded[w]] \in Result
      BY <1>1 DEF WorkerReports, WorkersHold, WorkerTypes, Batch, Result
    <3> QED
      BY <3>1 DEF Report
  <2>2. results' = results \o Report(w) /\ UNCHANGED <<current, delivered>>
        /\ Len(results) < Cardinality(Workers)
    BY <1>1 DEF WorkerReports
  <2>3. results' \in Seq(Result) /\ Len(results') = Len(results) + 1
    <3>1. /\ results \o Report(w) \in Seq(Result)
          /\ Len(results \o Report(w)) = Len(results) + Len(Report(w))
      BY <2>1, ConcatProperties
    <3> QED
      BY <2>1, <2>2, <3>1
  <2> QED
    BY <2>2, <2>3
<1>2. CASE CollectorReceives
  <2>1. /\ Head(results) \in Result
        /\ Tail(results) \in Seq(Result) /\ Len(Tail(results)) = Len(results) - 1
    BY <1>2 DEF CollectorReceives
  <2>2. delivered' \in {delivered, Append(delivered, Head(results))}
        /\ current' \in {current, Head(results)} /\ results' = Tail(results)
    BY <1>2 DEF CollectorReceives
  <2>3. Append(delivered, Head(results)) \in Seq(Result)
    BY <2>1
  <2>4. results' \in Seq(Result) /\ Len(results') <= Cardinality(Workers)
    BY <2>1, <2>2
  <2>5. current' \in Result \union {NoResult} /\ delivered' \in Seq(Result)
    BY <2>1, <2>2, <2>3
  <2> QED
    BY <2>4, <2>5
<1>3. CASE CallbackReturns
  BY <1>3 DEF CallbackReturns
<1>4. CASE UNCHANGED <<results, current, delivered>>
  BY <1>4
<1> QED
  BY <1>1, <1>2, <1>3, <1>4
  DEF Next, Caller, CallerSends, CallerCloses, CallerCancels, Stream, Producer,
      ProducerReceives, ProducerTicks, ProducerSeesClose, ProducerSends, ProducerStops,
      Worker, WorkerTakes, WorkerStarts, WorkerFinishes, WorkerStops, Closer, Collector,
      CollectorReturns, vars

\* Every step keeps the types.
LEMMA TypesStep ==
  ASSUME Types, [Next]_vars
  PROVE  Types'
  BY ControlStep, BatchStep, SliceStep, JobStep, WorkerStep, ResultStep DEF Types
-----------------------------------------------------------------------------
\* Every step keeps the order in which goroutines end and channels close.
LEMMA ClosingStep ==
  ASSUME Types, ClosingOrder, [Next]_vars
  PROVE  ClosingOrder'
<1> USE DEF ClosingOrder, Sending
<1>1. CASE Caller
  BY <1>1 DEF Caller, CallerSends, CallerCloses, CallerCancels
<1>2. CASE Producer
  BY <1>2 DEF Producer, ProducerReceives, ProducerTicks, ProducerSeesClose,
              ProducerSends, ProducerStops, ProducerReturns, InSelect
<1>3. ASSUME NEW w \in Workers, Worker(w) PROVE ClosingOrder'
  <2>1. ~resultsClosed
    BY <1>3 DEF Worker, WorkerTakes, WorkerStarts, WorkerFinishes, WorkerReports,
                WorkerStops
  <2> QED
    BY <1>3, <2>1 DEF Worker, WorkerTakes, WorkerStarts, WorkerFinishes, WorkerReports,
                      WorkerStops
<1>4. CASE Closer
  BY <1>4 DEF Closer, Joined
<1>5. CASE Collector
  BY <1>5 DEF Collector, CollectorReceives, CallbackReturns, CollectorReturns
<1>6. CASE UNCHANGED vars
  BY <1>6 DEF vars
<1> QED
  BY <1>1, <1>2, <1>3, <1>4, <1>5, <1>6 DEF Next, Stream

\* A callback that has failed is not running.
LEMMA CallbackStep ==
  ASSUME Types, CallbackOver, [Next]_vars
  PROVE  CallbackOver'
<1> USE DEF CallbackOver
<1>1. CASE CollectorReceives
  BY <1>1 DEF CollectorReceives, Calls
<1>2. CASE CallbackReturns
  BY <1>2 DEF CallbackReturns
<1>3. CASE CollectorReturns
  BY <1>3 DEF CollectorReturns
<1>4. CASE UNCHANGED <<collector, callbackFailed>>
  BY <1>4
<1> QED
  BY <1>1, <1>2, <1>3, <1>4
  DEF Next, Caller, CallerSends, CallerCloses, CallerCancels, Stream, Producer,
      ProducerReceives, ProducerTicks, ProducerSeesClose, ProducerSends, ProducerStops,
      Worker, WorkerTakes, WorkerStarts, WorkerFinishes, WorkerReports, WorkerStops,
      Closer, Collector, vars

\* What the caller offers continues what was received.
LEMMA OfferStep ==
  ASSUME Types, OfferIsNext, [Next]_vars
  PROVE  OfferIsNext'
<1> USE DEF OfferIsNext
<1>1. CASE CallerSends \/ ProducerReceives
  BY <1>1 DEF CallerSends, ProducerReceives
<1>2. CASE UNCHANGED <<offer, taken>>
  BY <1>2
<1> QED
  BY <1>1, <1>2
  DEF Next, Caller, CallerCloses, CallerCancels, Stream, Producer, ProducerTicks,
      ProducerSeesClose, ProducerSends, ProducerStops, Worker, WorkerTakes,
      WorkerStarts, WorkerFinishes, WorkerReports, WorkerStops, Closer, Collector,
      CollectorReceives, CallbackReturns, CollectorReturns, vars
-----------------------------------------------------------------------------
(* The batches cover the input.                                            *)

\* The last operation of a batch formed is a number.
LEMMA LastOfType ==
  ASSUME Types, BatchesCoverInput, NEW k \in 0..Len(formed)
  PROVE  LastOf(k) \in Nat
<1>1. CASE k = 0
  BY <1>1 DEF LastOf
<1>2. CASE k # 0
  <2>1. k \in DOMAIN formed /\ formed[k] \in Seq(Nat)
    BY <1>2 DEF Types, BatchTypes
  <2>2. Len(formed[k]) \in DOMAIN formed[k]
    BY <2>1 DEF BatchesCoverInput
  <2> QED
    BY <1>2, <2>1, <2>2 DEF LastOf
<1> QED
  BY <1>1, <1>2

\* Appending to the batch under construction.
LEMMA ReceivesCovers ==
  ASSUME Types, OfferIsNext, BatchesCoverInput, ProducerReceives
  PROVE  BatchesCoverInput'
<1>1. /\ ops' = Append(ops, taken + 1) /\ taken' = taken + 1
      /\ UNCHANGED <<seq, formed>>
  BY DEF ProducerReceives, OfferIsNext
<1>2. ops \in Seq(Nat) /\ taken \in Nat
  BY DEF Types, BatchTypes, ControlTypes
<1>3. Len(ops') = Len(ops) + 1 /\ Len(ops) \in Nat
  BY <1>1, <1>2
<1>4. LastOf(Len(formed)) \in Int /\ taken = LastOf(Len(formed)) + Len(ops)
  <2>1. taken = LastOf(Len(formed)) + Len(ops)
    BY DEF BatchesCoverInput
  <2>2. LastOf(Len(formed)) \in Nat
    BY LastOfType DEF Types, BatchTypes
  <2> QED
    BY <2>1, <2>2
<1>5. Follows(ops', LastOf(Len(formed)))
  <2>1. SUFFICES ASSUME NEW i \in DOMAIN ops'
                 PROVE  ops'[i] = LastOf(Len(formed)) + i
    BY DEF Follows
  <2>2. CASE i \in DOMAIN ops
    BY <1>1, <1>2, <2>2 DEF BatchesCoverInput, Follows
  <2>3. CASE i = Len(ops) + 1
    BY <1>1, <1>2, <1>3, <1>4, <2>3
  <2> QED
    BY <1>1, <1>2, <1>3, <2>1, <2>2, <2>3
<1>6. \A k : LastOf(k)' = LastOf(k)
  BY <1>1 DEF LastOf
<1> QED
  BY <1>1, <1>3, <1>4, <1>5, <1>6 DEF BatchesCoverInput, Follows

\* Sending it: it becomes the last batch formed.
LEMMA SendsCovers ==
  ASSUME Types, BatchesCoverInput, ProducerSends
  PROVE  BatchesCoverInput'
<1>0. PICK n \in Nat : n = Len(formed)
  BY DEF Types, BatchTypes
<1>1. /\ formed' = Append(formed, ops) /\ ops' = <<>> /\ seq' = seq + 1
      /\ taken' = taken
  BY DEF ProducerSends, NewSlice
<1>2. /\ formed \in Seq(Seq(Nat)) /\ ops \in Seq(Nat) /\ n = Len(formed)
      /\ Len(ops) \in 1..BatchSize
  BY <1>0 DEF Types, BatchTypes, BatchInProgress, ProducerSends
<1>3. /\ Len(formed') = n + 1 /\ formed'[n + 1] = ops
      /\ \A k \in 1..n : formed'[k] = formed[k]
  BY <1>1, <1>2
<1>4. \A k \in 0..n : LastOf(k)' = LastOf(k)
  BY <1>2, <1>3 DEF LastOf
<1>5. /\ Follows(ops, LastOf(n)) /\ taken = LastOf(n) + Len(ops) /\ LastOf(n) \in Nat
      /\ seq = n
  BY <1>2, LastOfType DEF BatchesCoverInput
<1>6. LastOf(n + 1)' = taken
  <2>1. LastOf(n + 1)' = ops[Len(ops)]
    BY <1>2, <1>3 DEF LastOf
  <2>2. ops[Len(ops)] = LastOf(n) + Len(ops)
    BY <1>2, <1>5 DEF Follows
  <2> QED
    BY <1>5, <2>1, <2>2
<1>7. ASSUME NEW k \in 1..(n + 1)
      PROVE  Len(formed'[k]) \in 1..BatchSize /\ Follows(formed'[k], LastOf(k - 1)')
  <2>1. CASE k \in 1..n
    <3>1. formed'[k] = formed[k] /\ LastOf(k - 1)' = LastOf(k - 1)
      BY <1>2, <1>3, <1>4, <2>1
    <3>2. k \in DOMAIN formed
      BY <1>2, <2>1
    <3>3. Len(formed[k]) \in 1..BatchSize /\ Follows(formed[k], LastOf(k - 1))
      BY <3>2 DEF BatchesCoverInput
    <3> QED
      BY <3>1, <3>3
  <2>2. CASE k = n + 1
    <3>1. LastOf(k - 1)' = LastOf(n)
      BY <1>2, <1>4, <2>2
    <3> QED
      BY <1>2, <1>3, <1>5, <2>2, <3>1
  <2> QED
    BY <1>2, <2>1, <2>2
<1>8. Follows(ops', LastOf(Len(formed))')
  BY <1>1 DEF Follows
<1>9. taken' = LastOf(Len(formed))' + Len(ops')
  <2>1. LastOf(Len(formed))' = taken
    BY <1>3, <1>6
  <2>2. Len(ops') = 0 /\ taken \in Nat
    BY <1>1 DEF Types, ControlTypes
  <2> QED
    BY <1>1, <2>1, <2>2
<1> QED
  <2>1. DOMAIN formed' = 1..(n + 1)
    BY <1>1, <1>2
  <2> QED
    BY <1>1, <1>2, <1>3, <1>5, <1>7, <1>8, <1>9, <2>1 DEF BatchesCoverInput

\* Every step keeps the batches consecutive.
LEMMA CoverStep ==
  ASSUME Types, OfferIsNext, BatchesCoverInput, [Next]_vars
  PROVE  BatchesCoverInput'
<1>1. CASE UNCHANGED <<ops, seq, formed, taken>>
  BY <1>1 DEF BatchesCoverInput, Follows, LastOf
<1> QED
  BY <1>1, ReceivesCovers, SendsCovers
  DEF Next, Caller, CallerSends, CallerCloses, CallerCancels, Stream, Producer,
      ProducerTicks, ProducerSeesClose, ProducerStops, Worker, WorkerTakes,
      WorkerStarts, WorkerFinishes, WorkerReports, WorkerStops, Closer, Collector,
      CollectorReceives, CallbackReturns, CollectorReturns,
      vars
-----------------------------------------------------------------------------
\* The invariant holds in every behaviour.
LEMMA Invariance == Spec => []IInv
<1>1. IInv /\ [Next]_vars => IInv'
  BY TypesStep, ClosingStep, CallbackStep, OfferStep, CoverStep DEF IInv
<1> QED
  BY <1>1, InitIInv, PTL DEF Spec

\* Types and capacities: no channel ever holds more batches than QueueSize or
\* more results than there are workers, no batch more operations than BatchSize.
THEOREM TypeCorrect == Spec => []TypeOK
<1>1. IInv => TypeOK
  BY TypeParts DEF IInv
<1> QED
  BY <1>1, Invariance, PTL

\* However full batches, ticks and the final flush interleave, the batches split
\* the operations received, in order, without a gap, an overlap or an empty one.
THEOREM BatchesCoverInputAlways == Spec => []BatchesCoverInput
<1>1. IInv => BatchesCoverInput
  BY DEF IInv
<1> QED
  BY <1>1, Invariance, PTL

\* BulkStream never returns before its goroutines have exited, on any path.
THEOREM JoinedOnReturnAlways == Spec => []JoinedOnReturn
<1>1. IInv => JoinedOnReturn
  BY DEF IInv, ClosingOrder, JoinedOnReturn
<1> QED
  BY <1>1, Invariance, PTL

-----------------------------------------------------------------------------
(* The arrays.  The producer appends to the last one; batch k + 1 is the    *)
(* prefix of array k + 1, which nothing is written to once it is sent.      *)

\* b is one of the batches sent, with its array and its length.
Labelled(b) ==
  /\ b.seq \in 0..(Len(formed) - 1)
  /\ b.array = b.seq + 1 /\ b.len = Len(formed[b.seq + 1])

\* The arrays hold what was received.
Written ==
  /\ Len(heap) = Len(formed) + 1 /\ array = Len(formed) + 1
  /\ \A i \in 1..Len(ops) : heap[array][i] = ops[i]
  /\ \A k \in 1..Len(formed) : \A i \in 1..Len(formed[k]) : heap[k][i] = formed[k][i]

Slices ==
  /\ Written
  /\ \A i \in 1..Len(jobs) : Labelled(jobs[i])
  /\ \A w \in Workers : job[w] # NoBatch => Labelled(job[w])

\* An operation is written behind those in the last array.
LEMMA ReceivesWrites ==
  ASSUME IInv, Slices, ProducerReceives
  PROVE  Slices'
<1>1. /\ ops' = Append(ops, offer) /\ producer = "select"
      /\ heap' = [heap EXCEPT ![array] = [@ EXCEPT ![Len(ops) + 1] = offer]]
      /\ UNCHANGED <<array, formed, jobs, job>>
  BY DEF ProducerReceives
<1>2. /\ ops \in Seq(Nat) /\ offer \in Nat /\ Len(ops) \in Nat /\ Len(ops) < BatchSize
      /\ formed \in Seq(Seq(Nat)) /\ Len(formed) \in Nat /\ BatchSize \in Nat
      /\ heap \in Seq([1..BatchSize -> Nat]) /\ array \in DOMAIN heap
  BY <1>1, StreamAssumption
  DEF IInv, Types, BatchTypes, BatchInProgress, SliceTypes, ControlTypes
<1>3. Len(ops') = Len(ops) + 1 /\ Len(heap') = Len(heap)
  BY <1>1, <1>2
<1>4. ASSUME NEW i \in 1..Len(ops') PROVE heap'[array][i] = ops'[i]
  <2>1. heap[array] \in [1..BatchSize -> Nat] /\ i \in 1..BatchSize
    BY <1>2, <1>3
  <2>2. heap'[array][i] = IF i = Len(ops) + 1 THEN offer ELSE heap[array][i]
    BY <1>1, <1>2, <2>1
  <2>3. ops'[i] = IF i = Len(ops) + 1 THEN offer ELSE ops[i]
    BY <1>1, <1>2, <1>3
  <2>4. CASE i = Len(ops) + 1
    BY <2>2, <2>3, <2>4
  <2>5. CASE i \in 1..Len(ops)
    BY <1>2, <2>2, <2>3, <2>5 DEF Slices, Written
  <2> QED
    BY <1>2, <1>3, <2>4, <2>5
<1>5. ASSUME NEW k \in 1..Len(formed) PROVE heap'[k] = heap[k]
  BY <1>1, <1>2 DEF Slices, Written
<1> QED
  BY <1>1, <1>3, <1>4, <1>5 DEF Slices, Written, Labelled

\* The batch sent keeps its array, and the producer has another.
LEMMA SendsSlices ==
  ASSUME IInv, Slices, ProducerSends
  PROVE  Slices'
<1>1. /\ ops' = <<>> /\ formed' = Append(formed, ops) /\ job' = job
      /\ heap' = Append(heap, EmptyArray) /\ array' = Len(heap')
      /\ jobs' = Append(jobs, [seq |-> seq, array |-> array, len |-> Len(ops)])
  BY DEF ProducerSends, NewSlice, NewArray
<1>2. /\ ops \in Seq(Nat) /\ formed \in Seq(Seq(Nat)) /\ Len(formed) \in Nat
      /\ heap \in Seq([1..BatchSize -> Nat]) /\ jobs \in Seq(Batch) /\ Len(jobs) \in Nat
      /\ seq = Len(formed)
  BY DEF IInv, Types, BatchTypes, SliceTypes, JobTypes, BatchesCoverInput
<1>3. EmptyArray \in [1..BatchSize -> Nat]
  BY DEF EmptyArray, NoOp
<1>4. /\ Len(formed') = Len(formed) + 1 /\ formed'[Len(formed) + 1] = ops
      /\ \A k \in 1..Len(formed) : formed'[k] = formed[k]
  BY <1>1, <1>2
<1>5. /\ Len(heap') = Len(heap) + 1
      /\ \A k \in 1..Len(heap) : heap'[k] = heap[k]
  BY <1>1, <1>2, <1>3
<1>6. Len(heap) = Len(formed) + 1 /\ array = Len(formed) + 1
  BY DEF Slices, Written
<1>7. Written'
  <2>1. Len(ops') = 0 /\ Len(heap') = Len(formed') + 1 /\ array' = Len(formed') + 1
    BY <1>1, <1>4, <1>5, <1>6
  <2>2. ASSUME NEW k \in 1..Len(formed'), NEW i \in 1..Len(formed'[k])
        PROVE  heap'[k][i] = formed'[k][i]
    <3>1. CASE k \in 1..Len(formed)
      BY <1>2, <1>4, <1>5, <1>6, <2>2, <3>1 DEF Slices, Written
    <3>2. CASE k = Len(formed) + 1
      BY <1>2, <1>4, <1>5, <1>6, <2>2, <3>2 DEF Slices, Written
    <3> QED
      BY <1>2, <1>4, <2>2, <3>1, <3>2
  <2> QED
    BY <2>1, <2>2 DEF Written
<1>8. ASSUME NEW b, Labelled(b) PROVE Labelled(b)'
  BY <1>2, <1>4, <1>8 DEF Labelled
<1>9. ASSUME NEW i \in 1..Len(jobs)' PROVE Labelled(jobs[i])'
  <2>1. PICK b \in Batch : /\ b.seq = seq /\ b.array = array /\ b.len = Len(ops)
                           /\ jobs' = Append(jobs, b)
    <3> DEFINE r == [seq |-> seq, array |-> array, len |-> Len(ops)]
    <3>1. r.seq = seq /\ r.array = array /\ r.len = Len(ops)
      OBVIOUS
    <3>2. r \in Batch
      BY DEF IInv, Types, BatchTypes, SliceTypes, Batch
    <3> QED
      BY <1>1, <3>1, <3>2
  <2>2. jobs[i]' = IF i = Len(jobs) + 1 THEN b ELSE jobs[i]
    BY <1>2, <2>1
  <2>3. Labelled(b)'
    BY <1>2, <1>4, <1>6, <2>1 DEF Labelled
  <2>4. CASE i = Len(jobs) + 1
    BY <2>2, <2>3, <2>4 DEF Labelled
  <2>5. CASE i \in 1..Len(jobs)
    <3>1. Labelled(jobs[i]) /\ jobs[i]' = jobs[i]
      BY <1>2, <2>2, <2>5 DEF Slices
    <3> QED
      BY <1>8, <3>1 DEF Labelled
  <2> QED
    BY <1>2, <2>1, <2>4, <2>5
<1> QED
  <2>1. \A w \in Workers : job[w]' = job[w]
    BY <1>1
  <2>2. \A w \in Workers : (job[w] # NoBatch => Labelled(job[w]))'
    BY <1>1, <1>8, <2>1 DEF Slices, Labelled
  <2> QED
    BY <1>7, <1>9, <2>2 DEF Slices

\* Every step keeps the batches sent apart from the array that is filled.
LEMMA SlicesStep ==
  ASSUME IInv, Slices, [Next]_vars
  PROVE  Slices'
<1>1. ASSUME NEW w \in Workers, WorkerTakes(w) PROVE Slices'
  <2>1. /\ jobs # <<>> /\ job' = [job EXCEPT ![w] = Head(jobs)] /\ jobs' = Tail(jobs)
        /\ UNCHANGED <<ops, array, heap, formed>>
    BY <1>1 DEF WorkerTakes
  <2>2. jobs \in Seq(Batch) /\ job \in [Workers -> Batch \union {NoBatch}]
    BY DEF IInv, Types, JobTypes, WorkerTypes
  <2>3. /\ Head(jobs) = jobs[1] /\ 1 \in 1..Len(jobs) /\ Len(jobs') = Len(jobs) - 1
        /\ \A i \in 1..Len(jobs') : jobs'[i] = jobs[i + 1] /\ i + 1 \in 1..Len(jobs)
    BY <2>1, <2>2
  <2>4. \A b : Labelled(b) <=> Labelled(b)'
    BY <2>1 DEF Labelled
  <2>5. Labelled(Head(jobs))
    BY <2>3 DEF Slices
  <2>6. \A v \in Workers : job'[v] = IF v = w THEN Head(jobs) ELSE job[v]
    BY <2>1, <2>2
  <2> QED
    BY <2>1, <2>3, <2>4, <2>5, <2>6 DEF Slices, Written
<1>2. ASSUME NEW w \in Workers, WorkerReports(w) \/ WorkerStops(w) PROVE Slices'
  <2>1. job' = [job EXCEPT ![w] = NoBatch] /\ UNCHANGED <<ops, array, heap, formed, jobs>>
    BY <1>2 DEF WorkerReports, WorkerStops, LetsGo
  <2>2. \A v \in Workers : job'[v] # NoBatch => job'[v] = job[v]
    BY <2>1 DEF IInv, Types, WorkerTypes
  <2> QED
    BY <2>1, <2>2 DEF Slices, Written, Labelled
<1>3. CASE UNCHANGED <<ops, array, heap, formed, jobs, job>>
  BY <1>3 DEF Slices, Written, Labelled
<1> QED
  BY <1>1, <1>2, <1>3, ReceivesWrites, SendsSlices
  DEF Next, Caller, CallerSends, CallerCloses, CallerCancels, Stream, Producer,
      ProducerTicks, ProducerSeesClose, ProducerStops, Worker, WorkerStarts,
      WorkerFinishes, Closer, Collector, CollectorReceives, CallbackReturns,
      CollectorReturns, vars

\* The operations of a batch stay as they were sent while it is queued or with a
\* worker, whatever the producer appends to its slice meanwhile.
THEOREM BatchesKeepTheirOpsAlways == Spec => []BatchesKeepTheirOps
<1>1. Init => Slices
  <2> SUFFICES ASSUME Init PROVE Slices
    OBVIOUS
  <2>1. /\ Len(ops) = 0 /\ Len(formed) = 0 /\ Len(jobs) = 0 /\ Len(heap) = 1 /\ array = 1
        /\ \A w \in Workers : job[w] = NoBatch
    BY DEF Init
  <2> QED
    BY <2>1 DEF Slices, Written
<1>2. IInv /\ Slices /\ [Next]_vars => Slices'
  BY SlicesStep
<1>3. IInv /\ Slices => BatchesKeepTheirOps
  <2> SUFFICES ASSUME IInv, Slices PROVE BatchesKeepTheirOps
    OBVIOUS
  <2>1. formed \in Seq(Seq(Nat)) /\ jobs \in Seq(Batch)
    BY DEF IInv, Types, BatchTypes, JobTypes
  <2>2. ASSUME NEW b, Labelled(b) PROVE Contents(b) = formed[b.seq + 1]
    <3>1. b.seq + 1 \in 1..Len(formed)
      BY <2>1, <2>2 DEF Labelled
    <3>2. formed[b.seq + 1] \in Seq(Nat)
      BY <2>1, <3>1
    <3>3. Contents(b) = [i \in 1..Len(formed[b.seq + 1]) |-> formed[b.seq + 1][i]]
      BY <2>2, <3>1 DEF Contents, Labelled, Slices, Written
    <3> QED
      BY <3>2, <3>3
  <2>3. \A i \in DOMAIN jobs : Contents(jobs[i]) = formed[jobs[i].seq + 1]
    BY <2>1, <2>2 DEF Slices
  <2>4. \A w \in Workers : job[w] # NoBatch => Contents(job[w]) = formed[job[w].seq + 1]
    BY <2>2 DEF Slices
  <2> QED
    BY <2>3, <2>4 DEF BatchesKeepTheirOps
<1> QED
  BY <1>1, <1>2, <1>3, Invariance, PTL DEF Spec
-----------------------------------------------------------------------------
(* Where each batch is.  The queue holds the last batches formed, in order; *)
(* those before them have been handed to workers, and each of these is with *)
(* one worker, in one result or delivered once, or was dropped.             *)

Handed == seq - Len(jobs)

Queued ==
  /\ Len(jobs) <= seq
  /\ \A i \in 1..Len(jobs) : jobs[i].seq = Handed + i - 1

Below ==
  /\ \A w \in Workers : job[w].seq < Handed
  /\ \A i \in 1..Len(results) : results[i].seq < Handed
  /\ \A i \in 1..Len(delivered) : delivered[i].seq < Handed
  /\ \A k \in submitted : k < Handed

Holds(w, k) == job[w].seq = k
Reported(k) == \E i \in 1..Len(results) : results[i].seq = k

Apart ==
  /\ \A v, w \in Workers : job[v].seq = job[w].seq /\ job[v] # NoBatch => v = w
  /\ \A i, j \in 1..Len(results) : results[i].seq = results[j].seq => i = j
  /\ \A i, j \in 1..Len(delivered) : delivered[i].seq = delivered[j].seq => i = j
  /\ \A w \in Workers, i \in 1..Len(results) : job[w].seq # results[i].seq
  /\ \A w \in Workers, i \in 1..Len(delivered) : job[w].seq # delivered[i].seq
  /\ \A i \in 1..Len(results), j \in 1..Len(delivered) : results[i].seq # delivered[j].seq

\* A worker that has not started its request has not been here before.
NotYetSent == \A w \in Workers : worker[w] = "took" => job[w].seq \notin submitted

\* A worker in its first select, or gone, holds nothing.
EmptyHanded == \A w \in Workers : worker[w] \in {"idle", "done"} => job[w] = NoBatch

\* Without a reason to stop, what was handed out is still somewhere.
Accounted ==
  ~CtxDone =>
    \A k \in 0..(Handed - 1) :
      (\E w \in Workers : Holds(w, k)) \/ Reported(k) \/ Delivered(k)

Placed == Queued /\ Below /\ Apart /\ NotYetSent /\ EmptyHanded /\ Accounted

\* What the collector's error says, and what the goroutines leave behind when
\* nothing has stopped them.
Endings ==
  /\ callbackFailed <=> first = "callback"
  /\ callbackFailed => cancelled
  /\ cancelled => callbackFailed \/ collector = "returned"
  /\ ~callbackFailed => (first = "nil" <=> \A i \in 1..Len(delivered) : delivered[i].ok)
  /\ jobsClosed => producer = "done"
  /\ producer = "last" => inputClosed
  /\ ~CtxDone /\ producer = "done" => inputClosed /\ ops = <<>>
  /\ ~CtxDone => \A w \in Workers : worker[w] = "done" => jobsClosed /\ jobs = <<>>

\* A finished context stays finished.
LEMMA ContextStays ==
  ASSUME [Next]_vars, CtxDone
  PROVE  CtxDone'
<1> USE DEF CtxDone
<1>1. CASE CallerCancels \/ CallbackReturns \/ CollectorReturns
  BY <1>1 DEF CallerCancels, CallbackReturns, CollectorReturns
<1>2. CASE UNCHANGED contextVars
  BY <1>2
<1> QED
  BY <1>1, <1>2
  DEF Next, Caller, CallerSends, CallerCloses, Stream, Producer, ProducerReceives,
      ProducerTicks, ProducerSeesClose, ProducerSends, ProducerStops, Worker, WorkerTakes,
      WorkerStarts, WorkerFinishes, WorkerReports, WorkerStops, Closer, Collector,
      CollectorReceives, vars

\* The numbers a worker, a result and the queue may hold.
LEMMA HolderTypes ==
  ASSUME Types
  PROVE  /\ \A w \in Workers : job[w].seq \in Int /\ (job[w] # NoBatch => job[w].seq \in Nat)
         /\ \A w \in Workers : job[w] = NoBatch => job[w].seq = -1
         /\ \A i \in 1..Len(results) : results[i].seq \in Nat /\ results[i].ok \in BOOLEAN
         /\ \A i \in 1..Len(delivered) : delivered[i].seq \in Nat /\ delivered[i].ok \in BOOLEAN
         /\ \A i \in 1..Len(jobs) : jobs[i].seq \in Nat
         /\ seq \in Nat /\ Len(jobs) \in Nat /\ Len(results) \in Nat /\ Len(delivered) \in Nat
<1> USE DEF Types
<1>1. \A w \in Workers : job[w] \in Batch \union {NoBatch}
  BY DEF WorkerTypes
<1>2. \A w \in Workers : job[w] # NoBatch => job[w].seq \in Nat
  BY <1>1 DEF Batch
<1>3. \A w \in Workers : job[w] = NoBatch => job[w].seq = -1
  BY DEF NoBatch
<1>4. \A i \in 1..Len(results) : results[i] \in Result
  BY DEF ResultTypes
<1>5. \A i \in 1..Len(delivered) : delivered[i] \in Result
  BY DEF ResultTypes
<1>6. \A i \in 1..Len(jobs) : jobs[i] \in Batch
  BY DEF JobTypes
<1>7. seq \in Nat /\ Len(jobs) \in Nat /\ Len(results) \in Nat /\ Len(delivered) \in Nat
  BY DEF BatchTypes, JobTypes, ResultTypes
<1> QED
  BY <1>2, <1>3, <1>4, <1>5, <1>6, <1>7 DEF Result, Batch

\* A batch sent is in the queue and nowhere else.
LEMMA SendsPlaces ==
  ASSUME Types, Placed, ProducerSends
  PROVE  Placed'
<1> USE DEF Placed
<1>1. /\ jobs' = Append(jobs, [seq |-> seq, array |-> array, len |-> Len(ops)])
      /\ seq' = seq + 1
      /\ UNCHANGED <<worker, job, results, delivered, submitted, contextVars>>
  BY DEF ProducerSends
<1>2. seq \in Nat /\ jobs \in Seq(Batch) /\ Len(jobs) \in Nat
  BY DEF Types, BatchTypes, JobTypes
<1>3. /\ Len(jobs') = Len(jobs) + 1
      /\ \A i \in 1..Len(jobs) : jobs'[i] = jobs[i]
      /\ jobs'[Len(jobs) + 1].seq = seq
  BY <1>1, <1>2
<1>4. Handed' = Handed
  BY <1>1, <1>2, <1>3 DEF Handed
<1>5. Queued'
  BY <1>1, <1>2, <1>3, <1>4, SMTT(30) DEF Queued, Handed
<1>6. Below' /\ Apart' /\ NotYetSent' /\ EmptyHanded' /\ Accounted'
  BY <1>1, <1>4
  DEF Below, Apart, NotYetSent, EmptyHanded, Accounted, Holds, Reported, Delivered, CtxDone
<1> QED
  BY <1>5, <1>6

\* A batch taken moves from the queue to its worker.
LEMMA TakesPlaces ==
  ASSUME Types, Placed, NEW u \in Workers, WorkerTakes(u)
  PROVE  Placed'
<1> USE DEF Placed
<1>1. /\ worker[u] = "idle" /\ jobs # <<>> /\ job' = [job EXCEPT ![u] = Head(jobs)]
      /\ jobs' = Tail(jobs) /\ worker' = [worker EXCEPT ![u] = "took"]
      /\ UNCHANGED <<seq, results, delivered, submitted, contextVars>>
  BY DEF WorkerTakes
<1>2. /\ seq \in Nat /\ jobs \in Seq(Batch) /\ Len(jobs) \in Nat
      /\ job \in [Workers -> Batch \union {NoBatch}] /\ DOMAIN worker = Workers
  BY DEF Types, BatchTypes, JobTypes, WorkerTypes
<1>3. /\ Len(jobs') = Len(jobs) - 1 /\ Len(jobs) >= 1 /\ Head(jobs) = jobs[1]
      /\ \A i \in 1..Len(jobs') : jobs'[i] = jobs[i + 1]
  BY <1>1, <1>2
<1>4. /\ Handed' = Handed + 1 /\ Handed \in Nat
      /\ job'[u].seq = Handed /\ \A w \in Workers \ {u} : job'[w] = job[w]
      /\ job[u] = NoBatch
  <2>1. Handed' = Handed + 1 /\ Handed \in Nat
    BY <1>1, <1>2, <1>3 DEF Handed, Queued
  <2>2. jobs[1].seq = Handed
    BY <1>2, <1>3, <2>1 DEF Queued
  <2>3. job[u] = NoBatch
    BY <1>1 DEF EmptyHanded
  <2> QED
    BY <1>1, <1>2, <1>3, <2>1, <2>2, <2>3
<1>5. Queued'
  <2>1. Len(jobs') <= seq'
    BY <1>1, <1>2, <1>3 DEF Queued
  <2>2. \A i \in 1..Len(jobs') : i + 1 \in 1..Len(jobs)
    BY <1>2, <1>3
  <2>3. \A i \in 1..Len(jobs') : jobs'[i].seq = Handed + (i + 1) - 1
    BY <1>3, <2>2 DEF Queued
  <2> QED
    BY <1>4, <2>1, <2>3, SMTT(30) DEF Queued
<1>6. Below'
  <2>1. \A w \in Workers : job'[w].seq < Handed + 1
    BY <1>4, HolderTypes DEF Below
  <2>2. /\ \A i \in 1..Len(results) : results[i].seq < Handed + 1
        /\ \A i \in 1..Len(delivered) : delivered[i].seq < Handed + 1
    BY <1>4, HolderTypes DEF Below
  <2>3. \A k \in submitted : k < Handed + 1
    BY <1>4 DEF Below, Types, BatchTypes
  <2> QED
    BY <1>1, <1>4, <2>1, <2>2, <2>3 DEF Below
<1>7. Apart'
  <2>1. \A w \in Workers \ {u} : job'[w].seq # job'[u].seq
    BY <1>4, HolderTypes DEF Below
  <2>2. /\ \A i \in 1..Len(results) : results[i].seq # job'[u].seq
        /\ \A i \in 1..Len(delivered) : delivered[i].seq # job'[u].seq
    BY <1>4, HolderTypes DEF Below
  <2>3. \A v, w \in Workers : job'[v].seq = job'[w].seq /\ job'[v] # NoBatch => v = w
    BY <1>4, <2>1 DEF Apart
  <2>4. /\ \A w \in Workers, i \in 1..Len(results) : job'[w].seq # results[i].seq
        /\ \A w \in Workers, i \in 1..Len(delivered) : job'[w].seq # delivered[i].seq
    BY <1>4, <2>2 DEF Apart
  <2> QED
    BY <1>1, <2>3, <2>4 DEF Apart
<1>8. NotYetSent'
  <2>1. job'[u].seq \notin submitted
    BY <1>4 DEF Below, Types, BatchTypes
  <2> QED
    BY <1>1, <1>2, <1>4, <2>1 DEF NotYetSent
<1>9. EmptyHanded'
  BY <1>1, <1>2, <1>4 DEF EmptyHanded
<1>10. Accounted'
  <2>1. SUFFICES ASSUME ~CtxDone', NEW k \in 0..(Handed' - 1)
                 PROVE  (\E w \in Workers : Holds(w, k))' \/ Reported(k)' \/ Delivered(k)'
    BY DEF Accounted
  <2>2. CASE k = Handed
    BY <1>4, <2>2 DEF Holds
  <2>3. CASE k # Handed
    <3>1. k \in 0..(Handed - 1) /\ ~CtxDone
      BY <1>1, <1>4, <2>1, <2>3 DEF CtxDone
    <3>2. CASE \E w \in Workers : Holds(w, k)
      <4>1. PICK w \in Workers : job[w].seq = k
        BY <3>2 DEF Holds
      <4>2. w # u
        BY <1>4, <3>1, <4>1, HolderTypes
      <4> QED
        BY <1>4, <4>1, <4>2 DEF Holds
    <3>3. CASE Reported(k) \/ Delivered(k)
      BY <1>1, <3>3 DEF Reported, Delivered
    <3> QED
      BY <3>1, <3>2, <3>3 DEF Accounted
  <2> QED
    BY <2>2, <2>3
<1> QED
  BY <1>5, <1>6, <1>7, <1>8, <1>9, <1>10

\* A worker that starts keeps its batch, or gives it up with the context.
LEMMA StartsPlaces ==
  ASSUME Types, Placed, NEW u \in Workers, WorkerStarts(u)
  PROVE  Placed'
<1> USE DEF Placed
<1>1. /\ worker[u] = "took"
      /\ worker' = [worker EXCEPT ![u] = IF CtxDone THEN "report" ELSE "sent"]
      /\ submitted' \in {submitted, submitted \union {job[u].seq}}
      /\ UNCHANGED <<seq, jobs, job, results, delivered, contextVars>>
  BY DEF WorkerStarts, Types, WorkerTypes
<1>2. DOMAIN worker = Workers /\ job[u] # NoBatch
  BY <1>1, HolderTypes DEF Types, WorkerTypes, WorkersHold, Batch, NoBatch
<1>3. Handed' = Handed
  BY <1>1 DEF Handed
<1>4. Below'
  BY <1>1, <1>3 DEF Below
<1>5. NotYetSent'
  <2>1. SUFFICES ASSUME NEW w \in Workers, worker'[w] = "took"
                 PROVE  job[w].seq \notin submitted'
    BY <1>1 DEF NotYetSent
  <2>2. w # u /\ worker[w] = "took"
    BY <1>1, <1>2, <2>1
  <2>3. job[w].seq # job[u].seq
    BY <1>2, <2>2 DEF Apart
  <2> QED
    BY <1>1, <2>2, <2>3 DEF NotYetSent
<1>6. EmptyHanded'
  BY <1>1, <1>2 DEF EmptyHanded
<1>7. Queued' /\ Apart' /\ Accounted'
  BY <1>1, <1>3 DEF Queued, Apart, Accounted, Holds, Reported, Delivered, CtxDone
<1> QED
  BY <1>4, <1>5, <1>6, <1>7

\* A result reported moves from its worker to the results.
LEMMA ReportsPlaces ==
  ASSUME Types, Placed, NEW u \in Workers, WorkerReports(u)
  PROVE  Placed'
<1> USE DEF Placed
<1>1. /\ worker[u] = "report"
      /\ results' = results \o <<[seq |-> job[u].seq, ok |-> succeeded[u]]>>
      /\ worker' = [worker EXCEPT ![u] = "idle"] /\ job' = [job EXCEPT ![u] = NoBatch]
      /\ UNCHANGED <<seq, jobs, delivered, submitted, contextVars>>
  BY DEF WorkerReports, Report, LetsGo
<1>2. /\ job \in [Workers -> Batch \union {NoBatch}] /\ DOMAIN worker = Workers
      /\ job[u] \in Batch /\ job[u] # NoBatch /\ results \in Seq(Result)
      /\ Len(results) \in Nat /\ succeeded[u] \in BOOLEAN
  <2>1. job[u] \in Batch /\ job[u] # NoBatch
    BY <1>1 DEF Types, WorkersHold, Batch, NoBatch
  <2> QED
    BY <2>1 DEF Types, WorkerTypes, ResultTypes
<1>3. /\ Len(results') = Len(results) + 1
      /\ \A i \in 1..Len(results) : results'[i] = results[i]
      /\ results'[Len(results) + 1].seq = job[u].seq
  <2>1. [seq |-> job[u].seq, ok |-> succeeded[u]] \in Result
    BY <1>2 DEF Batch, Result
  <2> DEFINE r == [seq |-> job[u].seq, ok |-> succeeded[u]]
  <2>2. r \in Result /\ r.seq = job[u].seq
    BY <2>1
  <2> HIDE DEF r
  <2>3. <<r>> \in Seq(Result) /\ Len(<<r>>) = 1 /\ <<r>>[1] = r
    BY <2>2
  <2>4. results' = results \o <<r>>
    BY <1>1 DEF r
  <2>5. /\ Len(results \o <<r>>) = Len(results) + Len(<<r>>)
        /\ \A i \in 1..(Len(results) + Len(<<r>>)) : (results \o <<r>>)[i] =
             IF i <= Len(results) THEN results[i] ELSE <<r>>[i - Len(results)]
    BY <1>2, <2>3, ConcatProperties
  <2>6. results'[Len(results) + 1] = r
    BY <1>2, <2>3, <2>4, <2>5
  <2>7. \A i \in 1..Len(results) : results'[i] = results[i]
    BY <1>2, <2>3, <2>4, <2>5
  <2> QED
    BY <2>2, <2>3, <2>4, <2>5, <2>6, <2>7
<1>4. job'[u] = NoBatch /\ job'[u].seq = -1 /\ \A w \in Workers \ {u} : job'[w] = job[w]
  BY <1>1, <1>2 DEF NoBatch
<1>5. Handed' = Handed /\ Handed \in Nat
  BY <1>1, HolderTypes DEF Handed, Queued
<1>6. Below'
  <2>1. \A w \in Workers : job'[w].seq < Handed
    BY <1>4, <1>5 DEF Below
  <2>2. \A i \in 1..Len(results') : results'[i].seq < Handed
    BY <1>2, <1>3 DEF Below
  <2> QED
    BY <1>1, <1>5, <2>1, <2>2 DEF Below
<1>7. Apart'
  <2>1. \A v, w \in Workers : job'[v].seq = job'[w].seq /\ job'[v] # NoBatch => v = w
    BY <1>4, HolderTypes DEF Apart
  <2>2. \A i, j \in 1..Len(results') : results'[i].seq = results'[j].seq => i = j
    <3>1. \A i \in 1..Len(results) : results[i].seq # job[u].seq
      BY DEF Apart
    <3>2. \A i \in 1..Len(results') : i \in 1..Len(results) \/ i = Len(results) + 1
      BY <1>2, <1>3
    <3> QED
      BY <1>3, <3>1, <3>2 DEF Apart
  <2>3. \A w \in Workers, i \in 1..Len(results') : job'[w].seq # results'[i].seq
    <3>1. \A w \in Workers \ {u} : job[w].seq # job[u].seq
      BY <1>2 DEF Apart
    <3>2. \A i \in 1..Len(results') : results'[i].seq # -1
      BY <1>2, <1>3, HolderTypes
    <3> QED
      BY <1>2, <1>3, <1>4, <3>1, <3>2 DEF Apart
  <2>4. \A w \in Workers, i \in 1..Len(delivered) : job'[w].seq # delivered[i].seq
    BY <1>4, HolderTypes, SMTT(30) DEF Apart
  <2>5. \A i \in 1..Len(results'), j \in 1..Len(delivered) : results'[i].seq # delivered[j].seq
    <3>1. ASSUME NEW i \in 1..Len(results'), NEW j \in 1..Len(delivered)
          PROVE  results'[i].seq # delivered[j].seq
      <4>1. CASE i \in 1..Len(results)
        BY <1>3, <3>1, <4>1 DEF Apart
      <4>2. CASE i = Len(results) + 1
        BY <1>3, <3>1, <4>2 DEF Apart
      <4> QED
        BY <1>2, <1>3, <3>1, <4>1, <4>2
    <3> QED
      BY <3>1
  <2> QED
    BY <1>1, <2>1, <2>2, <2>3, <2>4, <2>5 DEF Apart
<1>8. NotYetSent' /\ EmptyHanded'
  BY <1>1, <1>2, <1>4 DEF NotYetSent, EmptyHanded
<1>9. Accounted'
  <2>1. SUFFICES ASSUME ~CtxDone, NEW k \in 0..(Handed - 1)
                 PROVE  (\E w \in Workers : Holds(w, k))' \/ Reported(k)' \/ Delivered(k)'
    BY <1>1, <1>5 DEF Accounted, CtxDone
  <2>2. CASE \E w \in Workers : Holds(w, k)
    <3>1. PICK w \in Workers : job[w].seq = k
      BY <2>2 DEF Holds
    <3>2. CASE w = u
      <4>1. Len(results) + 1 \in 1..Len(results')
        BY <1>2, <1>3
      <4> QED
        BY <1>3, <3>1, <3>2, <4>1 DEF Reported
    <3>3. CASE w # u
      BY <1>4, <3>1, <3>3 DEF Holds
    <3> QED
      BY <3>2, <3>3
  <2>3. CASE Reported(k)
    BY <1>2, <1>3, <2>3 DEF Reported
  <2>4. CASE Delivered(k)
    BY <1>1, <2>4 DEF Delivered
  <2> QED
    BY <2>1, <2>2, <2>3, <2>4 DEF Accounted
<1>10. Queued'
  BY <1>1, <1>5 DEF Queued
<1> QED
  BY <1>6, <1>7, <1>8, <1>9, <1>10

\* A worker stops between batches or after the context has ended.
LEMMA StopsPlaces ==
  ASSUME Types, Placed, Endings, NEW u \in Workers, WorkerStops(u)
  PROVE  Placed'
<1> USE DEF Placed
<1>1. /\ worker[u] \in {"idle", "report"} /\ (worker[u] = "report" => CtxDone)
      /\ worker' = [worker EXCEPT ![u] = "done"] /\ job' = [job EXCEPT ![u] = NoBatch]
      /\ UNCHANGED <<seq, jobs, results, delivered, submitted, contextVars>>
  BY DEF WorkerStops
<1>2. DOMAIN job = Workers /\ DOMAIN worker = Workers
  BY DEF Types, WorkerTypes
<1>3. job'[u] = NoBatch /\ job'[u].seq = -1 /\ \A w \in Workers \ {u} : job'[w] = job[w]
  BY <1>1, <1>2 DEF NoBatch
<1>4. Handed' = Handed /\ Handed \in Nat
  BY <1>1, HolderTypes DEF Handed, Queued
<1>5. Below' /\ Queued'
  BY <1>1, <1>3, <1>4 DEF Below, Queued
<1>6. Apart'
  <2>0. /\ \A w \in Workers : job[w] # NoBatch => job[w].seq # -1
        /\ \A i \in 1..Len(results) : results[i].seq # -1
        /\ \A i \in 1..Len(delivered) : delivered[i].seq # -1
    BY HolderTypes
  <2>1. \A v, w \in Workers : job'[v].seq = job'[w].seq /\ job'[v] # NoBatch => v = w
    BY <1>3, <2>0 DEF Apart
  <2>2. /\ \A w \in Workers, i \in 1..Len(results) : job'[w].seq # results[i].seq
        /\ \A w \in Workers, i \in 1..Len(delivered) : job'[w].seq # delivered[i].seq
    BY <1>3, <2>0 DEF Apart
  <2> QED
    BY <1>1, <2>1, <2>2 DEF Apart
<1>7. NotYetSent' /\ EmptyHanded'
  BY <1>1, <1>2, <1>3 DEF NotYetSent, EmptyHanded
<1>8. Accounted'
  <2>1. SUFFICES ASSUME ~CtxDone, NEW k \in 0..(Handed - 1)
                 PROVE  (\E w \in Workers : Holds(w, k))' \/ Reported(k)' \/ Delivered(k)'
    BY <1>1, <1>4 DEF Accounted, CtxDone
  <2>2. job[u].seq = -1
    BY <1>1, <2>1, HolderTypes DEF EmptyHanded
  <2>3. CASE \E w \in Workers : Holds(w, k)
    <3>1. PICK w \in Workers : job[w].seq = k
      BY <2>3 DEF Holds
    <3>2. w # u
      BY <2>2, <3>1
    <3> QED
      BY <1>3, <3>1, <3>2 DEF Holds
  <2>4. CASE Reported(k) \/ Delivered(k)
    BY <1>1, <2>4 DEF Reported, Delivered
  <2> QED
    BY <2>1, <2>3, <2>4 DEF Accounted
<1> QED
  BY <1>5, <1>6, <1>7, <1>8

\* A result received moves from the queue to the callback.
LEMMA ReceivesPlaces ==
  ASSUME Types, Placed, Endings, CollectorReceives
  PROVE  Placed'
<1> USE DEF Placed
<1>1. /\ results # <<>> /\ results' = Tail(results)
      /\ \/ delivered' = Append(delivered, Head(results))
         \/ CtxDone /\ delivered' = delivered
      /\ UNCHANGED <<seq, jobs, worker, job, submitted, contextVars>>
  BY DEF CollectorReceives, Calls, Endings, CtxDone
<1>2. /\ results \in Seq(Result) /\ delivered \in Seq(Result)
      /\ Len(results) \in Nat /\ Len(delivered) \in Nat
  BY DEF Types, ResultTypes
<1>3. /\ Len(results) >= 1 /\ Len(results') = Len(results) - 1 /\ Head(results) = results[1]
      /\ \A i \in 1..Len(results') : results'[i] = results[i + 1] /\ i + 1 \in 1..Len(results)
  BY <1>1, <1>2
<1>4. Handed' = Handed
  BY <1>1 DEF Handed
<1>5. \/ /\ Len(delivered') = Len(delivered) + 1
         /\ \A i \in 1..Len(delivered) : delivered'[i] = delivered[i]
         /\ delivered'[Len(delivered) + 1] = results[1]
      \/ CtxDone /\ delivered' = delivered
  BY <1>1, <1>2, <1>3, SMTT(30)
<1>6. Below'
  <2>1. \A i \in 1..Len(results') : results'[i].seq < Handed
    BY <1>3 DEF Below
  <2>2. \A i \in 1..Len(delivered') : delivered'[i].seq < Handed
    BY <1>2, <1>3, <1>5 DEF Below
  <2> QED
    BY <1>1, <1>4, <2>1, <2>2 DEF Below
<1>7. Apart'
  <2>1. \A i, j \in 1..Len(results') : results'[i].seq = results'[j].seq => i = j
    <3>1. \A i, j \in 1..Len(results') : results'[i].seq = results'[j].seq => i + 1 = j + 1
      BY <1>3 DEF Apart
    <3> QED
      BY <3>1
  <2>2. \A i, j \in 1..Len(delivered') : delivered'[i].seq = delivered'[j].seq => i = j
    <3>1. /\ \A i, j \in 1..Len(delivered) : delivered[i].seq = delivered[j].seq => i = j
          /\ \A i \in 1..Len(delivered) : results[1].seq # delivered[i].seq
      BY <1>3 DEF Apart
    <3>2. CASE delivered' = delivered
      BY <3>1, <3>2
    <3>3. CASE delivered' # delivered
      <4>1. \A i \in 1..Len(delivered') :
              \/ i \in 1..Len(delivered) /\ delivered'[i] = delivered[i]
              \/ i = Len(delivered) + 1 /\ delivered'[i] = results[1]
        BY <1>2, <1>5, <3>3
      <4> HIDE DEF Placed
      <4> QED
        BY <3>1, <4>1
    <3> QED
      BY <3>2, <3>3
  <2>3. \A w \in Workers, i \in 1..Len(results') : job[w].seq # results'[i].seq
    BY <1>3 DEF Apart
  <2>4. \A w \in Workers, i \in 1..Len(delivered') : job[w].seq # delivered'[i].seq
    BY <1>2, <1>3, <1>5 DEF Apart
  <2>5. \A i \in 1..Len(results'), j \in 1..Len(delivered') : results'[i].seq # delivered'[j].seq
    <3>1. \A i \in 1..Len(results') : results'[i].seq # results[1].seq
      <4>1. \A i \in 1..Len(results') : results'[i].seq = results[1].seq => i + 1 = 1
        BY <1>2, <1>3 DEF Apart
      <4> QED
        BY <4>1
    <3> QED
      BY <1>2, <1>3, <1>5, <3>1, SMTT(30) DEF Apart
  <2> QED
    BY <1>1, <2>1, <2>2, <2>3, <2>4, <2>5 DEF Apart
<1>8. Queued' /\ NotYetSent' /\ EmptyHanded'
  BY <1>1, <1>4 DEF Queued, NotYetSent, EmptyHanded
<1>9. Accounted'
  <2>1. SUFFICES ASSUME ~CtxDone, NEW k \in 0..(Handed - 1)
                 PROVE  (\E w \in Workers : Holds(w, k))' \/ Reported(k)' \/ Delivered(k)'
    BY <1>1, <1>4 DEF Accounted, CtxDone
  <2>2. CASE \E w \in Workers : Holds(w, k)
    BY <1>1, <2>2 DEF Holds
  <2>3. /\ Len(delivered) + 1 \in 1..Len(delivered') /\ delivered'[Len(delivered) + 1] = results[1]
        /\ DOMAIN delivered' = 1..Len(delivered')
        /\ \A i \in 1..Len(delivered) : i \in 1..Len(delivered') /\ delivered'[i] = delivered[i]
    BY <1>1, <1>2, <1>3, <2>1
  <2>4. CASE Reported(k)
    <3>1. PICK i \in 1..Len(results) : results[i].seq = k
      BY <2>4 DEF Reported
    <3>2. CASE i = 1
      BY <2>3, <3>1, <3>2 DEF Delivered
    <3>3. CASE i # 1
      <4>1. i - 1 \in 1..Len(results') /\ results'[i - 1] = results[i]
        BY <1>2, <1>3, <3>3
      <4> QED
        BY <3>1, <4>1 DEF Reported
    <3> QED
      BY <3>2, <3>3
  <2>5. CASE Delivered(k)
    BY <1>2, <2>3, <2>5 DEF Delivered
  <2> QED
    BY <2>1, <2>2, <2>4, <2>5 DEF Accounted
<1> QED
  BY <1>6, <1>7, <1>8, <1>9

\* Every step keeps each batch in one place.
LEMMA PlacedStep ==
  ASSUME Types, Placed, Endings, [Next]_vars
  PROVE  Placed'
<1>1. ASSUME UNCHANGED <<seq, jobs, job, results, delivered, submitted>>,
             \A w \in Workers : worker'[w] = worker[w] \/ worker'[w] = "report"
      PROVE  Placed'
  <2>1. CtxDone => CtxDone'
    BY ContextStays
  <2>2. Handed' = Handed
    BY <1>1 DEF Handed
  <2>3. Queued' /\ Below' /\ Apart'
    BY <1>1, <2>2 DEF Placed, Queued, Below, Apart
  <2>4. NotYetSent' /\ EmptyHanded'
    BY <1>1 DEF Placed, NotYetSent, EmptyHanded
  <2>5. Accounted'
    BY <1>1, <2>1, <2>2 DEF Placed, Accounted, Holds, Reported, Delivered
  <2> QED
    BY <2>3, <2>4, <2>5 DEF Placed
<1>2. ASSUME NEW w \in Workers, WorkerFinishes(w) PROVE Placed'
  <2>1. \A v \in Workers : worker'[v] = worker[v] \/ worker'[v] = "report"
    BY <1>2 DEF WorkerFinishes, Types, WorkerTypes
  <2> QED
    BY <1>1, <1>2, <2>1 DEF WorkerFinishes
<1>3. ASSUME NEW w \in Workers, Worker(w) PROVE Placed'
  BY <1>2, <1>3, TakesPlaces, StartsPlaces, ReportsPlaces, StopsPlaces DEF Worker
<1>4. CASE UNCHANGED <<seq, jobs, worker, job, results, delivered, submitted>>
  BY <1>1, <1>4
<1> QED
  BY <1>3, <1>4, SendsPlaces, ReceivesPlaces
  DEF Next, Caller, CallerSends, CallerCloses, CallerCancels, Stream, Producer,
      ProducerReceives, ProducerTicks, ProducerSeesClose, ProducerStops, Closer, Collector,
      CallbackReturns, CollectorReturns, vars

\* The collector keeps the first error, and a callback's over any other.
LEMMA ReceivesEnds ==
  ASSUME Types, Endings, CollectorReceives
  PROVE  Endings'
<1>1. /\ results \in Seq(Result) /\ results # <<>> /\ delivered \in Seq(Result)
      /\ first' = FirstError(Head(results))
      /\ callbackFailed \/ delivered' = Append(delivered, Head(results))
      /\ collector = "range"
      /\ UNCHANGED <<callbackFailed, cancelled, parentDone, producer, jobsClosed, jobs,
                     inputClosed, ops, worker>>
  BY DEF CollectorReceives, Calls, Types, ResultTypes
<1>2. Head(results).ok \in BOOLEAN
  <2>1. Head(results) \in Result
    BY <1>1
  <2> QED
    BY <2>1 DEF Result
<1>3. callbackFailed' <=> first' = "callback"
  BY <1>1 DEF Endings, FirstError
<1>4. ~callbackFailed' => (first' = "nil" <=> \A i \in 1..Len(delivered') : delivered'[i].ok)
  <2>1. SUFFICES ASSUME ~callbackFailed
                 PROVE  first' = "nil" <=> \A i \in 1..Len(delivered') : delivered'[i].ok
    BY <1>1
  <2>2. /\ Len(delivered') = Len(delivered) + 1 /\ Len(delivered) \in Nat
        /\ \A i \in 1..Len(delivered) : delivered'[i] = delivered[i]
        /\ delivered'[Len(delivered) + 1] = Head(results)
    <3>1. Head(results) \in Result
      BY <1>1
    <3> QED
      BY <1>1, <2>1, <3>1
  <2>3. (\A i \in 1..Len(delivered') : delivered'[i].ok)
          <=> (\A i \in 1..Len(delivered) : delivered[i].ok) /\ Head(results).ok
    BY <2>2
  <2>4. first' = "nil" <=> first = "nil" /\ Head(results).ok
    BY <1>1, <1>2 DEF FirstError
  <2> QED
    BY <2>1, <2>3, <2>4 DEF Endings
<1> QED
  BY <1>1, <1>3, <1>4 DEF Endings, CtxDone

\* Every step keeps the reasons for which the goroutines have ended.
LEMMA EndingsStep ==
  ASSUME Types, ClosingOrder, Endings, [Next]_vars
  PROVE  Endings'
<1> USE DEF Endings, CtxDone
<1>1. CASE CallerCloses \/ CallerCancels
  BY <1>1 DEF CallerCloses, CallerCancels
<1>2. CASE CallbackReturns
  <2>1. UNCHANGED <<inputVars, parentDone, producerVars, jobVars, worker, delivered>>
        /\ collector = "callback" /\ collector' = "range"
    BY <1>2 DEF CallbackReturns
  <2>2. CASE UNCHANGED <<first, callbackFailed, cancelled>>
    BY <2>1, <2>2
  <2>3. CASE first' = "callback" /\ callbackFailed' = TRUE /\ cancelled' = TRUE
    BY <2>1, <2>3
  <2> QED
    BY <1>2, <2>2, <2>3 DEF CallbackReturns
<1>3. CASE CollectorReturns
  BY <1>3 DEF CollectorReturns
<1>4. CASE ProducerReceives \/ ProducerTicks
  BY <1>4 DEF ProducerReceives, ProducerTicks
<1>5. CASE ProducerSeesClose
  <2>1. CASE ops # <<>> /\ producer' = "last" /\ UNCHANGED jobsClosed
    BY <1>5, <2>1 DEF ProducerSeesClose
  <2>2. CASE ops = <<>> /\ ProducerReturns
    BY <1>5, <2>2 DEF ProducerSeesClose, ProducerReturns
  <2> QED
    BY <1>5, <2>1, <2>2 DEF ProducerSeesClose
<1>6. CASE ProducerSends
  <2>1. producer # "done"
    BY <1>6 DEF ProducerSends, Sending
  <2>2. CASE producer = "last" /\ ProducerReturns
    BY <1>6, <2>1, <2>2 DEF ProducerSends, ProducerReturns, NewSlice
  <2>3. CASE producer # "last" /\ producer' = "select" /\ UNCHANGED jobsClosed
    BY <1>6, <2>1, <2>3 DEF ProducerSends
  <2> QED
    BY <1>6, <2>2, <2>3 DEF ProducerSends
<1>7. CASE ProducerStops
  BY <1>7 DEF ProducerStops, ProducerReturns
<1>8. ASSUME NEW u \in Workers, WorkerTakes(u) PROVE Endings'
  <2>1. ~CtxDone => \A w \in Workers : worker[w] # "done"
    BY <1>8 DEF WorkerTakes
  <2> QED
    BY <1>8, <2>1 DEF WorkerTakes, Types, WorkerTypes
<1>9. ASSUME NEW u \in Workers, WorkerStarts(u) \/ WorkerFinishes(u) PROVE Endings'
  BY <1>9 DEF WorkerStarts, WorkerFinishes, Types, WorkerTypes
<1>10. ASSUME NEW u \in Workers, WorkerReports(u) PROVE Endings'
  BY <1>10 DEF WorkerReports, LetsGo, Types, WorkerTypes
<1>11. ASSUME NEW u \in Workers, WorkerStops(u) PROVE Endings'
  BY <1>11 DEF WorkerStops, Types, WorkerTypes
<1>12. CASE CallerSends \/ Closer
  BY <1>12 DEF CallerSends, Closer
<1>13. CASE UNCHANGED vars
  BY <1>13 DEF vars
<1> QED
  BY <1>1, <1>2, <1>3, <1>4, <1>5, <1>6, <1>7, <1>8, <1>9, <1>10, <1>11, <1>12, <1>13,
     ReceivesEnds
  DEF Next, Caller, Stream, Producer, Worker, Collector

\* No batch is anywhere at the start.
LEMMA InitPlaced == Init => Placed /\ Endings
<1> SUFFICES ASSUME Init PROVE Placed /\ Endings
  OBVIOUS
<1>1. Handed = 0
  <2>1. seq = 0 /\ Len(jobs) \in Nat /\ Len(jobs) = 0
    BY DEF Init
  <2>2. seq - Len(jobs) = 0
    BY <2>1
  <2> QED
    BY <2>2 DEF Handed
<1> USE DEF Init
<1>2. Queued /\ Below
  BY <1>1 DEF Queued, Below, NoBatch
<1>3. Apart /\ NotYetSent /\ EmptyHanded
  BY DEF Apart, NotYetSent, EmptyHanded
<1>4. Accounted
  BY <1>1 DEF Accounted
<1>5. Endings
  BY DEF Endings
<1> QED
  BY <1>2, <1>3, <1>4, <1>5 DEF Placed

\* When the call returns without having been stopped, all of it is done.
LEMMA ReturnsTruth ==
  ASSUME IInv, Placed, Endings, CollectorReturns, ret' \in {"nil", "batch"}
  PROVE  ReturnTellsTruth'
<1> USE DEF IInv
<1>1. /\ collector = "range" /\ results = <<>> /\ resultsClosed /\ ~parentDone /\ ret' = first
      /\ UNCHANGED <<inputClosed, taken, formed, delivered>>
  BY DEF CollectorReturns
<1>2. ~CtxDone /\ ~callbackFailed
  BY <1>1 DEF Endings, CtxDone
<1>3. producer = "done" /\ inputClosed /\ ops = <<>> /\ \A w \in Workers : worker[w] = "done"
  BY <1>1, <1>2 DEF ClosingOrder, Endings
<1>4. jobs = <<>>
  BY <1>2, <1>3, StreamAssumption DEF Endings
<1>5. Handed = Len(formed) /\ Len(formed) \in Nat
  BY <1>4, HolderTypes DEF Handed, Types, BatchTypes, BatchesCoverInput
<1>6. taken = LastOf(Len(formed))
  <2>1. LastOf(Len(formed)) \in Nat
    BY <1>5, LastOfType
  <2> QED
    BY <1>3, <2>1 DEF BatchesCoverInput
<1>7. \A k \in 0..(Len(formed) - 1) : Delivered(k)
  <2>1. TAKE k \in 0..(Len(formed) - 1)
  <2>2. ~Reported(k)
    BY <1>1 DEF Reported
  <2>3. ~\E w \in Workers : Holds(w, k)
    BY <1>3, HolderTypes DEF Placed, EmptyHanded, Holds
  <2> QED
    BY <1>2, <1>5, <2>2, <2>3 DEF Placed, Accounted
<1>8. first = "nil" <=> \A i \in DOMAIN delivered : delivered[i].ok
  <2>1. DOMAIN delivered = 1..Len(delivered)
    BY DEF Types, ResultTypes
  <2> QED
    BY <1>2, <2>1 DEF Endings
<1>9. ~callbackFailed'
  BY <1>2 DEF CollectorReturns
<1> QED
  BY <1>1, <1>3, <1>6, <1>7, <1>8, <1>9 DEF ReturnTellsTruth, LastOf, Delivered

\* The error that the collector returns is true when it returns it.
LEMMA TruthStep ==
  ASSUME IInv, Placed, Endings, ReturnTellsTruth, [Next]_vars
  PROVE  ReturnTellsTruth'
<1>1. CASE CollectorReturns
  <2>1. CASE ret' \in {"nil", "batch"}
    BY <1>1, <2>1, ReturnsTruth
  <2>2. CASE ret' \notin {"nil", "batch"}
    <3>1. ret' \in {"parent", first} /\ callbackFailed' = callbackFailed
      BY <1>1 DEF CollectorReturns
    <3>2. first = "callback" <=> callbackFailed
      BY DEF Endings
    <3>3. first \in {"nil", "batch", "callback"}
      BY DEF IInv, Types, ControlTypes
    <3> QED
      BY <2>2, <3>1, <3>2, <3>3 DEF ReturnTellsTruth
  <2> QED
    BY <2>1, <2>2
<1>2. CASE ~CollectorReturns
  <2>1. SUFFICES ASSUME ret' # "running" PROVE ReturnTellsTruth'
    BY DEF ReturnTellsTruth
  <2>2. ret' = ret
    BY <1>2 DEF Next, Caller, CallerSends, CallerCloses, CallerCancels, Stream, Producer,
       ProducerReceives, ProducerTicks, ProducerSeesClose, ProducerSends, ProducerStops,
       Worker, WorkerTakes, WorkerStarts, WorkerFinishes, WorkerReports, WorkerStops,
       Closer, Collector, CollectorReceives, CallbackReturns, vars
  <2>3. collector = "returned" /\ producer = "done"
    BY <2>1, <2>2 DEF IInv, ClosingOrder
  <2>4. UNCHANGED <<taken, formed, delivered, callbackFailed>> /\ (inputClosed => inputClosed')
    BY <2>3 DEF Next, Caller, CallerSends, CallerCloses, CallerCancels, Stream, Producer,
       ProducerReceives, ProducerTicks, ProducerSeesClose, ProducerSends, ProducerStops,
       Sending, Worker, WorkerTakes, WorkerStarts, WorkerFinishes, WorkerReports,
       WorkerStops, Closer, Collector, CollectorReceives, CallbackReturns,
       CollectorReturns, vars
  <2> QED
    BY <2>1, <2>2, <2>4 DEF ReturnTellsTruth, LastOf, Delivered
<1> QED
  BY <1>1, <1>2

\* The invariants about places and endings hold in every behaviour.
LEMMA PlacedInvariance == Spec => [](IInv /\ Placed /\ Endings /\ ReturnTellsTruth)
<1>1. Init => IInv /\ Placed /\ Endings /\ ReturnTellsTruth
  <2>1. Init => ReturnTellsTruth
    BY DEF Init, ReturnTellsTruth
  <2> QED
    BY <2>1, InitIInv, InitPlaced
<1>2. /\ IInv /\ Placed /\ Endings /\ ReturnTellsTruth
      /\ [Next]_vars
      => (IInv /\ Placed /\ Endings /\ ReturnTellsTruth)'
  BY TypesStep, ClosingStep, CallbackStep, OfferStep, CoverStep, PlacedStep, EndingsStep,
     TruthStep DEF IInv
<1> QED
  BY <1>1, <1>2, PTL DEF Spec

\* A batch is queued, or with one worker, or in one result, or delivered once:
\* no two workers send the same batch and no callback sees one twice, for any
\* number of workers and any queue capacity.
THEOREM NoBatchTwiceAlways == Spec => []NoBatchTwice
<1>1. ASSUME IInv, Placed PROVE NoBatchTwice
  <2> USE DEF Placed
  <2>1. Types
    BY <1>1 DEF IInv
  <2>2. /\ DOMAIN jobs = 1..Len(jobs) /\ DOMAIN results = 1..Len(results)
        /\ DOMAIN delivered = 1..Len(delivered)
    BY <2>1 DEF Types, JobTypes, ResultTypes
  <2>3. ASSUME NEW k \in 0..(seq - 1), NEW p \in Holders(k), NEW q \in Holders(k)
        PROVE  p = q
    <3>1. ASSUME NEW h \in Holders(k)
          PROVE  \/ \E i \in 1..Len(jobs) : h = <<"jobs", i>> /\ jobs[i].seq = k
                 \/ \E w \in Workers : h = <<"worker", w>> /\ job[w].seq = k
                 \/ \E i \in 1..Len(results) : h = <<"results", i>> /\ results[i].seq = k
                 \/ \E i \in 1..Len(delivered) : h = <<"delivered", i>> /\ delivered[i].seq = k
      BY <2>2, <3>1 DEF Holders
    <3>2. \A i \in 1..Len(jobs) : jobs[i].seq = k => i = k + 1 - Handed /\ k >= Handed
      BY <1>1, <2>1, HolderTypes DEF Queued, Handed
    <3>3. CASE k >= Handed
      <4>1. /\ \A w \in Workers : job[w].seq # k
            /\ \A i \in 1..Len(results) : results[i].seq # k
            /\ \A i \in 1..Len(delivered) : delivered[i].seq # k
        <5>1. Handed \in Int /\ k \in Int
          BY <2>1, HolderTypes DEF Handed
        <5> QED
          BY <1>1, <2>1, <3>3, <5>1, HolderTypes DEF Below
      <4>2. \A h \in Holders(k) : h = <<"jobs", k + 1 - Handed>>
        BY <3>1, <3>2, <4>1
      <4> QED
        BY <4>2
    <3>4. CASE ~(k >= Handed)
      <4>1. ASSUME NEW h \in Holders(k)
            PROVE  \/ \E w \in Workers : h = <<"worker", w>> /\ job[w].seq = k
                   \/ \E i \in 1..Len(results) : h = <<"results", i>> /\ results[i].seq = k
                   \/ \E i \in 1..Len(delivered) :
                        h = <<"delivered", i>> /\ delivered[i].seq = k
        BY <3>1, <3>2, <3>4
      <4>2. \A v, w \in Workers : job[v].seq = k /\ job[w].seq = k => v = w
        BY <1>1, <2>1, HolderTypes DEF Apart
      <4> QED
        BY <1>1, <4>1, <4>2 DEF Apart
    <3> QED
      BY <3>3, <3>4
  <2>4. \A i \in 1..Len(jobs) : jobs[i].seq \notin submitted
    BY <1>1, <2>1, HolderTypes DEF Queued, Below, Handed, Types, BatchTypes
  <2>5. \A w \in Workers : worker[w] = "took" => job[w].seq \notin submitted
    BY <1>1 DEF NotYetSent
  <2> QED
    BY <2>2, <2>3, <2>4, <2>5 DEF NoBatchTwice
<1> QED
  BY <1>1, PlacedInvariance, PTL

\* Until the context ends or the callback fails, every batch formed is in the
\* queue, with a worker, in a result or delivered.
THEOREM NoBatchLostAlways == Spec => []NoBatchLost
<1>1. ASSUME IInv, Placed PROVE NoBatchLost
  <2>1. SUFFICES ASSUME ~CtxDone, NEW k \in 0..(seq - 1) PROVE Holders(k) # {}
    BY DEF NoBatchLost
  <2>2. Types
    BY <1>1 DEF IInv
  <2>3. /\ DOMAIN jobs = 1..Len(jobs) /\ DOMAIN results = 1..Len(results)
        /\ DOMAIN delivered = 1..Len(delivered)
    BY <2>2 DEF Types, JobTypes, ResultTypes
  <2>4. Handed \in Nat /\ Handed = seq - Len(jobs) /\ seq \in Nat /\ Len(jobs) \in Nat
    BY <1>1, <2>2, HolderTypes DEF Handed, Placed, Queued
  <2>5. CASE k >= Handed
    <3>1. k - Handed + 1 \in 1..Len(jobs)
      BY <2>4, <2>5
    <3>2. jobs[k - Handed + 1].seq = k
      <4>1. jobs[k - Handed + 1].seq = Handed + (k - Handed + 1) - 1
        BY <1>1, <3>1 DEF Placed, Queued
      <4> QED
        BY <2>4, <4>1
    <3>3. <<"jobs", k - Handed + 1>> \in Holders(k)
      BY <2>3, <3>1, <3>2 DEF Holders
    <3> QED
      BY <3>3
  <2>6. CASE ~(k >= Handed)
    <3>1. k \in 0..(Handed - 1)
      BY <2>4, <2>6
    <3>2. (\E w \in Workers : Holds(w, k)) \/ Reported(k) \/ Delivered(k)
      BY <1>1, <2>1, <3>1 DEF Placed, Accounted
    <3>3. CASE \E w \in Workers : Holds(w, k)
      <4>1. PICK w \in Workers : job[w].seq = k
        BY <3>3 DEF Holds
      <4>2. <<"worker", w>> \in Holders(k)
        BY <4>1 DEF Holders
      <4> QED
        BY <4>2
    <3>4. CASE Reported(k)
      <4>1. PICK i \in DOMAIN results : results[i].seq = k
        BY <2>3, <3>4 DEF Reported
      <4>2. <<"results", i>> \in Holders(k)
        BY <4>1 DEF Holders
      <4> QED
        BY <4>2
    <3>5. CASE Delivered(k)
      <4>1. PICK i \in DOMAIN delivered : delivered[i].seq = k
        BY <3>5 DEF Delivered
      <4>2. <<"delivered", i>> \in Holders(k)
        BY <4>1 DEF Holders
      <4> QED
        BY <4>2
    <3> QED
      BY <3>2, <3>3, <3>4, <3>5
  <2> QED
    BY <2>5, <2>6
<1> QED
  BY <1>1, PlacedInvariance, PTL

\* What BulkStream returns vouches for everything the caller sent: nil, or the
\* error of a batch, only after the input was closed and every batch delivered;
\* and an error of onResult is what is returned, unless the caller has cancelled.
THEOREM ReturnTellsTruthAlways == Spec => []ReturnTellsTruth
  BY PlacedInvariance, PTL
-----------------------------------------------------------------------------
(* BulkSequence: BulkStream fed by the bridge goroutine implements the      *)
(* delivery contract of BulkDelivery.  To BulkStream the bridge is its      *)
(* caller, but for one step no caller of BulkStream is modelled to take: it *)
(* gives up the operation it is blocked on.  So the invariants above hold   *)
(* here too; what is added is the order in which the bridge, BulkStream and *)
(* streamSequence end.                                                      *)

\* The bridge closes the input when it exits, and only then; it has offered an
\* operation only while it is blocked on it; a context ends it, which
\* streamSequence cancels once BulkStream has returned.
BridgeOrder ==
  /\ bridge \in {"next", "yielded", "send", "done"}
  /\ exit \in {"none", "end", "error", "context"}
  /\ caller \in {"stream", "join", "returned"}
  /\ bridge = "done" <=> inputClosed
  /\ bridge = "done" <=> exit # "none"
  /\ offer # NoOp => bridge = "send"
  /\ bridge = "yielded" => taken < MaxOps
  /\ exit = "context" => parentDone
  /\ caller # "stream" => ret # "running"
  /\ caller = "returned" => bridge = "done"

\* What BulkStream returns is what its collector has found, and it is not nil or
\* a batch's error when a context has ended the bridge.
Answered ==
  /\ collector = "returned" => ret \in {"parent", first}
  /\ ret \in {"nil", "batch"} => exit # "context"
  /\ collector = "callback" => delivered # <<>>

SeqInv == IInv /\ Placed /\ Endings /\ ReturnTellsTruth /\ BridgeOrder /\ Answered

\* The bridge gives up the operation it offers.
Withdraws ==
  /\ offer' = NoOp /\ inputClosed' = TRUE
  /\ UNCHANGED <<taken, contextVars, runVars>>
-----------------------------------------------------------------------------
\* To BulkStream, a step of the bridge or of streamSequence is one of its caller.
LEMMA BridgeIsCaller ==
  ASSUME Types, BridgeOrder, [SequenceNext]_allVars
  PROVE  [Next]_vars \/ Withdraws
<1> USE DEF vars, Next, Caller
<1>1. parentDone \in BOOLEAN
  BY DEF Types, ControlTypes
<1>2. CASE StreamSteps
  BY <1>2 DEF StreamSteps
<1>3. CASE OuterCancels \/ CallerCancelsBridge
  BY <1>1, <1>3 DEF OuterCancels, CallerCancelsBridge, Cancels, CallerCancels
<1>4. CASE BridgeNext
  BY <1>4 DEF BridgeNext, BridgeExits, BridgeOrder, CallerCloses
<1>5. CASE BridgeChecks
  BY <1>5 DEF BridgeChecks, BridgeExits, BridgeOrder, CallerCloses, CallerSends
<1>6. CASE BridgeSends
  BY <1>6 DEF BridgeSends, BridgeExits, Withdraws
<1>7. CASE CallerJoins \/ UNCHANGED allVars
  BY <1>7 DEF CallerJoins, allVars
<1> QED
  BY <1>2, <1>3, <1>4, <1>5, <1>6, <1>7 DEF SequenceNext, Bridge

\* Nothing of BulkStream rests on who its caller is.
LEMMA StreamKeeps ==
  ASSUME IInv, Placed, Endings, ReturnTellsTruth, [Next]_vars \/ Withdraws
  PROVE  (IInv /\ Placed /\ Endings /\ ReturnTellsTruth)'
<1>1. CASE [Next]_vars
  BY <1>1, TypesStep, ClosingStep, CallbackStep, OfferStep, CoverStep, PlacedStep,
     EndingsStep, TruthStep DEF IInv
<1>2. CASE Withdraws
  <2> USE <1>2 DEF Withdraws
  <2>1. Types'
    BY DEF IInv, Types, ControlTypes, BatchTypes, BatchInProgress, SliceTypes, JobTypes,
       WorkerTypes, WorkersHold, ResultTypes, NoOp
  <2>2. (ClosingOrder /\ CallbackOver /\ OfferIsNext /\ BatchesCoverInput)'
    BY DEF IInv, ClosingOrder, CallbackOver, OfferIsNext, BatchesCoverInput, Follows, LastOf
  <2>3. Placed'
    BY DEF Placed, Queued, Below, Apart, NotYetSent, EmptyHanded, Accounted, Handed, Holds,
       Reported, Delivered, CtxDone
  <2>4. Endings' /\ ReturnTellsTruth'
    BY DEF Endings, ReturnTellsTruth, LastOf, Delivered, CtxDone
  <2> QED
    BY <2>1, <2>2, <2>3, <2>4 DEF IInv
<1> QED
  BY <1>1, <1>2

\* What a step of BulkStream's goroutines may change of what the bridge and
\* streamSequence look at.
LEMMA StreamMoves ==
  ASSUME Types, Stream
  PROVE  /\ UNCHANGED <<inputClosed, parentDone>>
         /\ \/ UNCHANGED <<offer, taken>>
            \/ offer # NoOp /\ offer' = NoOp /\ taken' = taken + 1
         /\ \/ ret' = ret
            \/ collector = "range" /\ ret' # "running"
<1> USE DEF Types, ControlTypes
<1> QED
  BY DEF Stream, Producer, ProducerReceives, ProducerTicks, ProducerSeesClose, ProducerSends,
     ProducerStops, Worker, WorkerTakes, WorkerStarts, WorkerFinishes, WorkerReports,
     WorkerStops, Closer, Collector, CollectorReceives, CallbackReturns, CollectorReturns

\* Every step keeps the order of the bridge, its channel and its producer.
LEMMA BridgeStep ==
  ASSUME SeqInv, [SequenceNext]_allVars
  PROVE  BridgeOrder'
<1> USE DEF SeqInv, BridgeOrder
<1>1. CASE StreamSteps
  <2>1. ret # "running" => ret' # "running"
    BY <1>1, StreamMoves DEF StreamSteps, IInv, ClosingOrder
  <2> QED
    BY <1>1, <2>1, StreamMoves DEF StreamSteps, sequenceVars, IInv
<1>2. CASE OuterCancels \/ CallerCancelsBridge \/ CallerJoins \/ UNCHANGED allVars
  BY <1>2 DEF OuterCancels, CallerCancelsBridge, Cancels, CallerJoins, allVars, vars,
     sequenceVars
<1>3. CASE BridgeNext
  BY <1>3 DEF BridgeNext, BridgeExits
<1>4. CASE BridgeChecks
  BY <1>4 DEF BridgeChecks, BridgeExits
<1>5. CASE BridgeSends
  BY <1>5 DEF BridgeSends, BridgeExits
<1> QED
  BY <1>1, <1>2, <1>3, <1>4, <1>5 DEF SequenceNext, Bridge

\* Every step keeps what the sequence has answered for.
LEMMA AnsweredStep ==
  ASSUME SeqInv, [SequenceNext]_allVars
  PROVE  Answered'
<1> USE DEF SeqInv, Answered
<1>1. Types
  BY DEF IInv
<1>2. CASE CollectorReceives /\ UNCHANGED sequenceVars
  <2>1. /\ collector = "range" /\ UNCHANGED <<ret, exit>>
        /\ collector' = "range" \/ delivered' = Append(delivered, Head(results))
    BY <1>2 DEF CollectorReceives, sequenceVars
  <2>2. delivered \in Seq(Result)
    BY <1>1 DEF Types, ResultTypes
  <2>3. delivered' = Append(delivered, Head(results)) => delivered' # <<>>
    BY <2>2
  <2>4. collector' # "returned"
    BY <1>2 DEF CollectorReceives
  <2> QED
    BY <2>1, <2>3, <2>4
<1>3. CASE CallbackReturns /\ UNCHANGED sequenceVars
  BY <1>3 DEF CallbackReturns, sequenceVars
<1>4. CASE CollectorReturns /\ UNCHANGED sequenceVars
  BY <1>1, <1>4 DEF CollectorReturns, sequenceVars, BridgeOrder, Types, ControlTypes
<1>5. CASE UNCHANGED <<collector, ret, first, delivered, exit>>
  BY <1>5
<1>6. CASE UNCHANGED <<collector, ret, first, delivered>> /\ bridge # "done"
  BY <1>6 DEF BridgeOrder, ReturnTellsTruth
<1>7. CASE Bridge
  BY <1>5, <1>6, <1>7 DEF Bridge, BridgeNext, BridgeChecks, BridgeSends
<1>8. CASE StreamSteps
  <2>1. CASE CollectorReceives \/ CallbackReturns \/ CollectorReturns
    BY <1>2, <1>3, <1>4, <1>8, <2>1 DEF StreamSteps
  <2>2. CASE Producer \/ (\E w \in Workers : Worker(w)) \/ Closer
    BY <1>5, <1>8, <2>2
    DEF StreamSteps, sequenceVars, Producer, ProducerReceives, ProducerTicks,
        ProducerSeesClose, ProducerSends, ProducerStops, Worker, WorkerTakes, WorkerStarts,
        WorkerFinishes, WorkerReports, WorkerStops, Closer
  <2> QED
    BY <1>8, <2>1, <2>2 DEF StreamSteps, Stream, Collector
<1>9. CASE OuterCancels \/ CallerCancelsBridge \/ CallerJoins \/ UNCHANGED allVars
  BY <1>5, <1>9 DEF OuterCancels, CallerCancelsBridge, Cancels, CallerJoins, allVars, vars,
     sequenceVars
<1> QED
  BY <1>7, <1>8, <1>9 DEF SequenceNext

\* The invariant of the sequence holds in every behaviour.
LEMMA SequenceInvariance == SequenceSpec => []SeqInv
<1>1. SequenceInit => SeqInv
  <2> SUFFICES ASSUME SequenceInit PROVE SeqInv
    OBVIOUS
  <2>1. IInv /\ Placed /\ Endings
    BY InitIInv, InitPlaced DEF SequenceInit
  <2>2. ReturnTellsTruth
    BY DEF SequenceInit, Init, ReturnTellsTruth
  <2>3. BridgeOrder /\ Answered
    BY DEF SequenceInit, Init, BridgeOrder, Answered, NoOp
  <2> QED
    BY <2>1, <2>2, <2>3 DEF SeqInv
<1>2. SeqInv /\ [SequenceNext]_allVars => SeqInv'
  <2> SUFFICES ASSUME SeqInv, [SequenceNext]_allVars PROVE SeqInv'
    OBVIOUS
  <2>1. [Next]_vars \/ Withdraws
    BY BridgeIsCaller DEF SeqInv, IInv
  <2>2. (IInv /\ Placed /\ Endings /\ ReturnTellsTruth)'
    BY <2>1, StreamKeeps DEF SeqInv
  <2> QED
    BY <2>2, BridgeStep, AnsweredStep DEF SeqInv
<1> QED
  BY <1>1, <1>2, PTL DEF SequenceSpec
-----------------------------------------------------------------------------
(* The refinement: each step of the two modules is one of the contract, or  *)
(* changes nothing the contract speaks of.                                  *)

\* The call starts where the contract does.
LEMMA ContractInit == SequenceInit => Contract!Init
<1> SUFFICES ASSUME SequenceInit PROVE Contract!Init
  OBVIOUS
<1>1. /\ formed = <<>> /\ taken = 0 /\ delivered = <<>> /\ callbackFailed = FALSE
      /\ exit = "none" /\ caller = "stream"
  BY DEF SequenceInit, Init
<1>2. [k \in DOMAIN formed |-> Len(formed[k])] = <<>>
  BY <1>1
<1>3. LastOf(Len(formed)) = 0
  BY <1>1 DEF LastOf
<1> QED
  BY <1>1, <1>2, <1>3 DEF Contract!Init

\* When the call has returned, nothing of BulkStream can run.
LEMMA NothingRuns ==
  ASSUME SeqInv, Stream
  PROVE  caller # "returned"
<1> SUFFICES ASSUME caller = "returned" PROVE FALSE
  OBVIOUS
<1>1. collector = "returned"
  BY DEF SeqInv, BridgeOrder, IInv, ClosingOrder
<1>2. /\ producer = "done" /\ resultsClosed
      /\ \A w \in Workers : worker[w] = "done"
  BY <1>1 DEF SeqInv, IInv, ClosingOrder
<1> QED
  BY <1>1, <1>2
  DEF Stream, Producer, ProducerReceives, ProducerTicks, ProducerSeesClose, ProducerSends,
      ProducerStops, InSelect, Sending, Worker, WorkerTakes, WorkerStarts, WorkerFinishes,
      WorkerReports, WorkerStops, Closer, Collector, CollectorReceives, CallbackReturns,
      CollectorReturns

\* An operation is received: the sequence has not ended.
LEMMA ReceiveAccepts ==
  ASSUME SeqInv, StreamSteps, ProducerReceives
  PROVE  Contract!Accept
<1>1. caller # "returned" /\ exit = "none"
  BY NothingRuns DEF StreamSteps, SeqInv, BridgeOrder, ProducerReceives
<1>2. /\ taken' = taken + 1
      /\ UNCHANGED <<formed, delivered, callbackFailed, exit, caller, final>>
  BY DEF StreamSteps, sequenceVars, ProducerReceives
<1> QED
  BY <1>1, <1>2 DEF Contract!Accept, Contract!Running, LastOf

\* A batch is sent: the operations received since the last one.
LEMMA SendCuts ==
  ASSUME SeqInv, StreamSteps, ProducerSends
  PROVE  Contract!Cut
<1>1. caller # "returned"
  BY NothingRuns DEF StreamSteps
<1>2. /\ formed' = Append(formed, ops)
      /\ UNCHANGED <<taken, delivered, callbackFailed, exit, caller, final>>
  BY DEF StreamSteps, sequenceVars, ProducerSends
<1>3. /\ formed \in Seq(Seq(Nat)) /\ ops \in Seq(Nat) /\ Len(ops) \in 1..BatchSize
  BY DEF SeqInv, IInv, Types, BatchTypes, BatchInProgress, ProducerSends
<1>4. [k \in DOMAIN formed |-> Len(formed[k])]'
        = Append([k \in DOMAIN formed |-> Len(formed[k])], Len(ops))
  <2> DEFINE sizes == [k \in DOMAIN formed |-> Len(formed[k])]
  <2>1. /\ Len(formed') = Len(formed) + 1 /\ formed'[Len(formed) + 1] = ops
        /\ \A k \in 1..Len(formed) : formed'[k] = formed[k]
        /\ DOMAIN formed' = 1..Len(formed') /\ DOMAIN formed = 1..Len(formed)
        /\ Len(formed) \in Nat
    BY <1>2, <1>3
  <2>2. sizes \in Seq(Nat) /\ Len(sizes) = Len(formed)
    BY <1>3, <2>1
  <2>3. Append(sizes, Len(ops)) = [k \in 1..(Len(sizes) + 1) |->
                                     IF k <= Len(sizes) THEN sizes[k] ELSE Len(ops)]
    BY <1>3, <2>2
  <2>4. [k \in DOMAIN formed |-> Len(formed[k])]'
          = [k \in 1..(Len(formed) + 1) |-> IF k <= Len(formed) THEN sizes[k] ELSE Len(ops)]
    BY <2>1
  <2> QED
    BY <2>2, <2>3, <2>4
<1>5. LastOf(Len(formed)) \in Nat /\ taken = LastOf(Len(formed)) + Len(ops)
  <2>1. LastOf(Len(formed)) \in Nat
    BY <1>3, LastOfType DEF SeqInv, IInv
  <2> QED
    BY <2>1 DEF SeqInv, IInv, BatchesCoverInput
<1>6. LastOf(Len(formed))' = taken
  <2>1. (BatchesCoverInput)' /\ ops' = <<>>
    BY SendsCovers DEF SeqInv, IInv, ProducerSends, NewSlice
  <2>2. LastOf(Len(formed))' \in Nat
    <3>1. formed'[Len(formed')] = ops /\ Len(formed') # 0
      BY <1>2, <1>3
    <3>2. ops[Len(ops)] \in Nat
      BY <1>3
    <3> QED
      BY <3>1, <3>2 DEF LastOf
  <2>3. taken' = LastOf(Len(formed))' + 0
    BY <2>1 DEF BatchesCoverInput
  <2> QED
    BY <1>2, <2>2, <2>3
<1>7. \E n \in 1..BatchSize :
        /\ LastOf(Len(formed)) + n <= taken
        /\ [k \in DOMAIN formed |-> Len(formed[k])]'
             = Append([k \in DOMAIN formed |-> Len(formed[k])], n)
        /\ LastOf(Len(formed))' = LastOf(Len(formed)) + n
  <2>1. /\ LastOf(Len(formed)) + Len(ops) <= taken
        /\ LastOf(Len(formed))' = LastOf(Len(formed)) + Len(ops)
    BY <1>3, <1>5, <1>6
  <2> QED
    BY <1>3, <1>4, <2>1
<1> QED
  BY <1>1, <1>2, <1>7 DEF Contract!Cut, Contract!Running

\* A result is handed to onResult: of a batch that was formed, and the first of it.
LEMMA ReceiveDelivers ==
  ASSUME SeqInv, StreamSteps, CollectorReceives
  PROVE  Contract!Deliver \/ UNCHANGED Contract!vars
<1>1. caller # "returned"
  BY NothingRuns DEF StreamSteps
<1>2. UNCHANGED <<taken, formed, callbackFailed, exit, caller, final>>
  BY DEF StreamSteps, sequenceVars, CollectorReceives
<1>3. CASE UNCHANGED delivered
  BY <1>2, <1>3 DEF Contract!vars, LastOf
<1>4. CASE ~callbackFailed /\ delivered' = Append(delivered, Head(results))
  <2>1. /\ results \in Seq(Result) /\ results # <<>> /\ delivered \in Seq(Result)
        /\ Types /\ seq = Len(formed) /\ Len(jobs) <= seq
    BY DEF SeqInv, IInv, Types, ResultTypes, CollectorReceives, BatchesCoverInput, Placed,
       Queued
  <2>2. Head(results) = results[1] /\ 1 \in 1..Len(results) /\ Head(results) \in Result
    BY <2>1
  <2>3. PICK k \in Nat, ok \in BOOLEAN : Head(results) = [seq |-> k, ok |-> ok]
    BY <2>2 DEF Result
  <2>4. k \in 0..(Len(formed) - 1)
    <3>1. results[1].seq < Handed /\ results[1].seq = k
      BY <2>2, <2>3 DEF SeqInv, Placed, Below
    <3> QED
      BY <2>1, <3>1, HolderTypes DEF Handed
  <2>5. ~\E i \in DOMAIN delivered : delivered[i].seq = k
    BY <2>1, <2>2, <2>3 DEF SeqInv, Placed, Apart
  <2>6. Len([j \in DOMAIN formed |-> Len(formed[j])]) = Len(formed)
    BY DEF SeqInv, IInv, Types, BatchTypes
  <2> QED
    BY <1>1, <1>2, <1>4, <2>3, <2>4, <2>5, <2>6
    DEF Contract!Deliver, Contract!Running, Contract!DeliveredBatch, LastOf
<1> QED
  BY <1>3, <1>4 DEF CollectorReceives, Calls

\* onResult fails, which it cannot before it was called.
LEMMA CallbackFails ==
  ASSUME SeqInv, StreamSteps, CallbackReturns
  PROVE  Contract!CallbackFails \/ UNCHANGED Contract!vars
<1>1. caller # "returned" /\ delivered # <<>> /\ ~callbackFailed
  BY NothingRuns
  DEF StreamSteps, SeqInv, Answered, CallbackReturns, IInv, CallbackOver
<1>2. UNCHANGED <<taken, formed, delivered, exit, caller, final>>
  BY DEF StreamSteps, sequenceVars, CallbackReturns
<1>3. callbackFailed' = callbackFailed \/ callbackFailed' = TRUE
  BY DEF CallbackReturns
<1>4. callbackFailed \in BOOLEAN
  BY DEF SeqInv, IInv, Types, ControlTypes
<1> QED
  BY <1>1, <1>2, <1>3, <1>4
  DEF Contract!CallbackFails, Contract!Running, Contract!vars, LastOf

\* The sequence ends, or the bridge before it.
LEMMA BridgeEnds ==
  ASSUME SeqInv, Bridge
  PROVE  Contract!SourceEnds \/ UNCHANGED Contract!vars
<1>1. UNCHANGED <<taken, formed, delivered, callbackFailed, caller, final>>
  BY DEF Bridge, BridgeNext, BridgeChecks, BridgeSends
<1>2. bridge # "done"
  BY DEF Bridge, BridgeNext, BridgeChecks, BridgeSends
<1>3. caller # "returned" /\ exit = "none"
  BY <1>2 DEF SeqInv, BridgeOrder
<1>4. exit' = exit \/ exit' \in {"end", "error", "context"}
  BY DEF Bridge, BridgeNext, BridgeChecks, BridgeSends, BridgeExits
<1> QED
  BY <1>1, <1>3, <1>4 DEF Contract!SourceEnds, Contract!Running, Contract!vars, LastOf

\* The call returns the errors of both, which what was delivered justifies.
LEMMA JoinReturns ==
  ASSUME SeqInv, CallerJoins
  PROVE  Contract!Return
<1> DEFINE errors == {IF e = "parent" THEN "context" ELSE e : e \in final'}
<1>1. /\ caller = "join" /\ caller' = "returned" /\ bridge = "done" /\ ret # "running"
      /\ UNCHANGED <<taken, formed, delivered, callbackFailed, exit>>
      /\ final' = ({ret} \ {"nil"}) \union ProducerError
  BY DEF CallerJoins, SeqInv, BridgeOrder
<1>2. /\ exit \in {"end", "error", "context"} /\ collector = "returned"
      /\ ret \in {"nil", "batch", "callback", "parent"} /\ ret \in {"parent", first}
  BY <1>1 DEF SeqInv, BridgeOrder, IInv, ClosingOrder, Types, ControlTypes, Answered
<1>3. errors = (CASE ret = "nil" -> {} [] ret = "parent" -> {"context"} [] OTHER -> {ret})
                 \union ProducerError
  BY <1>1, <1>2 DEF ProducerError
<1>4. errors \in SUBSET Contract!Errors
  BY <1>2, <1>3 DEF ProducerError, Contract!Errors
<1>5. "callback" \in errors <=> ret = "callback"
  BY <1>2, <1>3 DEF ProducerError
<1>6. "producer" \in errors <=> exit = "error"
  BY <1>2, <1>3 DEF ProducerError
<1>7. "batch" \in errors <=> ret = "batch"
  BY <1>2, <1>3 DEF ProducerError
<1>8. "context" \in errors <=> ret = "parent"
  BY <1>2, <1>3 DEF ProducerError
<1>9. ret = "callback" <=> callbackFailed /\ ret # "parent"
  BY <1>2 DEF SeqInv, Endings
<1>10. ret \in {"nil", "batch"} =>
         /\ taken = LastOf(Len(formed)) /\ exit # "context"
         /\ \A k \in 0..(Len(formed) - 1) : Delivered(k)
         /\ ret = "nil" <=> ~\E i \in DOMAIN delivered : ~delivered[i].ok
  BY DEF SeqInv, ReturnTellsTruth, Answered
<1>11. Len([j \in DOMAIN formed |-> Len(formed[j])]) = Len(formed)
  BY DEF SeqInv, IInv, Types, BatchTypes
<1> HIDE DEF errors
<1>12. /\ "callback" \in errors => callbackFailed
       /\ "producer" \in errors => exit = "error"
       /\ "batch" \in errors => Contract!SomeFailed
  BY <1>5, <1>6, <1>7, <1>9, <1>10 DEF Contract!SomeFailed
<1>13. ASSUME errors \intersect {"callback", "context"} = {}
       PROVE  /\ ~callbackFailed /\ Contract!AllDelivered
              /\ Contract!SomeFailed => "batch" \in errors
              /\ exit = "error" => "producer" \in errors
  <2>1. ret \in {"nil", "batch"}
    BY <1>2, <1>5, <1>8, <1>13
  <2>2. Contract!AllDelivered
    BY <1>2, <1>10, <1>11, <2>1
    DEF Contract!AllDelivered, Contract!DeliveredBatch, Delivered
  <2> QED
    BY <1>6, <1>7, <1>9, <1>10, <2>1, <2>2 DEF Contract!SomeFailed
<1>14. caller # "returned"
  BY <1>1
<1> QED
  BY <1>1, <1>4, <1>12, <1>13, <1>14 DEF Contract!Return, Contract!Running, LastOf, errors

\* Every step is one of the contract or changes nothing it sees.
LEMMA ContractStep ==
  ASSUME SeqInv, [SequenceNext]_allVars
  PROVE  [Contract!Next]_(Contract!vars)
<1> USE DEF Contract!Next
<1>1. CASE UNCHANGED <<taken, formed, delivered, callbackFailed, exit, caller, final>>
  BY <1>1 DEF Contract!vars, LastOf
<1>2. CASE StreamSteps
  <2>1. CASE ProducerReceives \/ ProducerSends
    BY <1>2, <2>1, ReceiveAccepts, SendCuts
  <2>2. CASE CollectorReceives \/ CallbackReturns
    BY <1>2, <2>2, ReceiveDelivers, CallbackFails
  <2>3. CASE ~(ProducerReceives \/ ProducerSends \/ CollectorReceives \/ CallbackReturns)
    <3>1. UNCHANGED <<taken, formed, delivered, callbackFailed>>
      BY <1>2, <2>3
      DEF StreamSteps, Stream, Producer, ProducerTicks, ProducerSeesClose, ProducerStops,
          Worker, WorkerTakes, WorkerStarts, WorkerFinishes, WorkerReports, WorkerStops,
          Closer, Collector, CollectorReturns
    <3> QED
      BY <1>1, <1>2, <3>1 DEF StreamSteps, sequenceVars
  <2> QED
    BY <2>1, <2>2, <2>3
<1>3. CASE Bridge
  BY <1>3, BridgeEnds
<1>4. CASE CallerJoins
  BY <1>4, JoinReturns
<1>5. CASE OuterCancels \/ UNCHANGED allVars
  BY <1>1, <1>5 DEF OuterCancels, allVars, vars, sequenceVars
<1>6. CASE CallerCancelsBridge
  <2>1. /\ UNCHANGED <<taken, formed, delivered, callbackFailed, exit, final>>
        /\ caller = "stream" /\ caller' = "join"
    BY <1>6 DEF CallerCancelsBridge
  <2> QED
    BY <2>1 DEF Contract!vars, LastOf
<1> QED
  BY <1>2, <1>3, <1>4, <1>5, <1>6 DEF SequenceNext

\* BulkSeq and BulkSeq2 over BulkStream keep the delivery contract, whatever the
\* producer, the workers, the collector, the bridge and the two contexts do.
THEOREM DeliveryContractAlways == SequenceSpec => DeliveryContract
<1>1. SeqInv /\ [SequenceNext]_allVars => [Contract!Next]_(Contract!vars)
  BY ContractStep
<1> QED
  BY <1>1, ContractInit, SequenceInvariance, PTL
  DEF SequenceSpec, DeliveryContract, Contract!Spec
=============================================================================
