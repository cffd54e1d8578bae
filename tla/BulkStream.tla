----------------------------- MODULE BulkStream -----------------------------
(***************************************************************************)
(* Repository.BulkStream (src/bulk.go): one producer goroutine cuts the    *)
(* caller's input channel into batches, a bounded queue hands them to a    *)
(* pool of workers, a closer closes the result channel when all of them    *)
(* have exited, and the calling goroutine collects the results and runs    *)
(* the caller's onResult.  One action per blocking point of a goroutine.   *)
(*                                                                         *)
(* Operations are numbered 1, 2, ... in the order the caller sends them.   *)
(* What a batch request does inside is module BulkRetry; here it starts,   *)
(* and it ends with or without an error.                                   *)
(***************************************************************************)
EXTENDS Integers, Sequences, FiniteSets

CONSTANTS
  Workers,     \* the worker goroutines
  BatchSize,   \* BulkStreamOptions.BatchSize, after its default
  QueueSize,   \* BulkStreamOptions.QueueSize, after its default
  Ticker,      \* whether FlushInterval > 0
  MaxOps       \* bound of the model: operations the caller has to send

\* The ranges the option checks at the top of BulkStream enforce.
ASSUME StreamAssumption ==
  /\ IsFiniteSet(Workers) /\ Workers # {}
  /\ BatchSize \in Nat \ {0}
  /\ QueueSize \in Nat \ {0}
  /\ Ticker \in BOOLEAN
  /\ MaxOps \in Nat

VARIABLES
  offer,          \* the operation the caller is blocked sending, or NoOp
  inputClosed,    \* the caller has closed the input channel
  taken,          \* operations received from the input channel
  parentDone,     \* the caller's context is done
  cancelled,      \* cancel() was called on the derived context
  producer,       \* where the producer goroutine is
  ops,            \* its batch under construction, as it reads it
  array,          \* the array it appends to, an index of heap
  heap,           \* the arrays it has made, BatchSize places each
  seq,            \* its next batch number
  jobs,           \* the job channel
  jobsClosed,
  worker,         \* where each worker is
  job,            \* the batch each worker holds
  succeeded,      \* whether each worker's request returned a nil error
  results,        \* the result channel
  resultsClosed,
  collector,      \* where the calling goroutine is
  current,        \* the result it passes to onResult
  first,          \* its variable first: which error it holds
  callbackFailed,
  ret,            \* what BulkStream has returned
  formed,         \* history: the batches sent on the job channel
  submitted,      \* history: the numbers of the batches sent to the server
  delivered       \* history: the results onResult was called with, in order

inputVars     == <<offer, inputClosed, taken>>
contextVars   == <<parentDone, cancelled>>
sliceVars     == <<ops, array, heap>>
producerVars  == <<producer, seq, sliceVars>>
jobVars       == <<jobs, jobsClosed>>
workerVars    == <<worker, job, succeeded>>
resultVars    == <<results, resultsClosed>>
collectorVars == <<collector, current, first, callbackFailed, ret>>
historyVars   == <<formed, submitted, delivered>>
runVars == <<producerVars, jobVars, workerVars, resultVars, collectorVars, historyVars>>
vars    == <<inputVars, contextVars, runVars>>

NoOp    == 0
NoBatch == [seq |-> -1, array |-> 1, len |-> 0]
NoResult == [seq |-> -1, ok |-> TRUE]

\* A batch on its way is a slice: an array, which others may reach, and a length.
Batch  == [seq : Nat, array : Nat \ {0}, len : Nat]
Result == [seq : Nat, ok : BOOLEAN]

\* make() returns an array of zero values.
EmptyArray == [i \in 1..BatchSize |-> NoOp]

\* The derived context ends with its parent or by cancel().
CtxDone == parentDone \/ cancelled

\* The three places the producer calls send() from.
Sending == {"tick", "full", "last"}
-----------------------------------------------------------------------------
Init ==
  /\ offer = NoOp /\ inputClosed = FALSE /\ taken = 0
  /\ parentDone = FALSE /\ cancelled = FALSE
  /\ producer = "select" /\ seq = 0
  /\ ops = <<>> /\ array = 1 /\ heap = <<EmptyArray>>
  /\ jobs = <<>> /\ jobsClosed = FALSE
  /\ worker = [w \in Workers |-> "idle"]
  /\ job = [w \in Workers |-> NoBatch]
  /\ succeeded = [w \in Workers |-> FALSE]
  /\ results = <<>> /\ resultsClosed = FALSE
  /\ collector = "range" /\ current = NoResult
  /\ first = "nil" /\ callbackFailed = FALSE /\ ret = "running"
  /\ formed = <<>> /\ submitted = {} /\ delivered = <<>>
-----------------------------------------------------------------------------
(* The caller: it sends operations, closes its channel, ends its context.  *)

CallerSends ==
  /\ ~inputClosed /\ offer = NoOp /\ taken < MaxOps
  /\ offer' = taken + 1
  /\ UNCHANGED <<inputClosed, taken, contextVars, runVars>>

CallerCloses ==
  /\ ~inputClosed /\ offer = NoOp
  /\ inputClosed' = TRUE
  /\ UNCHANGED <<offer, taken, contextVars, runVars>>

CallerCancels ==
  /\ ~parentDone
  /\ parentDone' = TRUE
  /\ UNCHANGED <<inputVars, cancelled, runVars>>
-----------------------------------------------------------------------------
(* The producer goroutine.                                                 *)

\* The deferred close(jobs) runs whichever way the goroutine returns.
ProducerReturns == producer' = "done" /\ jobsClosed' = TRUE

Full(s) == Len(s) = BatchSize

ProducerReceives ==
  /\ producer = "select" /\ offer # NoOp
  /\ ops' = Append(ops, offer)
  /\ heap' = [heap EXCEPT ![array] = [@ EXCEPT ![Len(ops) + 1] = offer]]
  /\ producer' = IF Full(Append(ops, offer)) THEN "full" ELSE "select"
  /\ taken' = taken + 1
  /\ offer' = NoOp
  /\ UNCHANGED <<inputClosed, contextVars, seq, array, jobVars, workerVars, resultVars,
                 collectorVars, historyVars>>

BufferFull == Full(ops)   \* Mutant: a tick flushes full batches only.
Buffered == ops # <<>>

\* A tick with nothing buffered changes nothing: send() returns at once.
ProducerTicks ==
  /\ producer = "select" /\ Ticker /\ Buffered
  /\ producer' = "tick"
  /\ UNCHANGED <<inputVars, contextVars, sliceVars, seq, jobVars, workerVars, resultVars,
                 collectorVars, historyVars>>

ProducerSeesClose ==
  /\ producer = "select" /\ inputClosed
  /\ \/ ops # <<>> /\ producer' = "last" /\ UNCHANGED jobsClosed
     \/ ops = <<>> /\ ProducerReturns
  /\ UNCHANGED <<inputVars, contextVars, sliceVars, seq, jobs, workerVars, resultVars,
                 collectorVars, historyVars>>

SameSlice == ops   \* Mutant: the slice sent is filled on.
NewSlice  == <<>>

SameArray == UNCHANGED <<array, heap>>   \* Mutant: ops is emptied, not made anew.
NewArray  == heap' = Append(heap, EmptyArray) /\ array' = Len(heap')

\* send(), which the producer returns after when its input is closed.
ProducerSends ==
  /\ producer \in Sending /\ Len(jobs) < QueueSize
  /\ jobs' = Append(jobs, [seq |-> seq, array |-> array, len |-> Len(ops)])
  /\ formed' = Append(formed, ops)
  /\ seq' = seq + 1
  /\ ops' = NewSlice /\ NewArray
  /\ \/ producer = "last" /\ ProducerReturns
     \/ producer # "last" /\ producer' = "select" /\ UNCHANGED jobsClosed
  /\ UNCHANGED <<inputVars, contextVars, workerVars, resultVars, collectorVars,
                 submitted, delivered>>

InMainSelect == producer = "select"   \* Mutant: send() ignores the context.
InSelect     == producer # "done"

\* ctx.Done() is a case of both selects, the main one and the one in send().
ProducerStops ==
  /\ InSelect /\ CtxDone
  /\ ProducerReturns
  /\ UNCHANGED <<inputVars, contextVars, sliceVars, seq, jobs, workerVars, resultVars,
                 collectorVars, historyVars>>

Producer ==
  \/ ProducerReceives \/ ProducerTicks \/ ProducerSeesClose
  \/ ProducerSends \/ ProducerStops
-----------------------------------------------------------------------------
(* A worker goroutine.                                                     *)

WorkerTakes(w) ==
  /\ worker[w] = "idle" /\ jobs # <<>>
  /\ job' = [job EXCEPT ![w] = Head(jobs)]
  /\ jobs' = Tail(jobs)
  /\ worker' = [worker EXCEPT ![w] = "took"]
  /\ UNCHANGED <<inputVars, contextVars, producerVars, jobsClosed, succeeded,
                 resultVars, collectorVars, historyVars>>

\* BulkWithOptions checks the context before it prepares an operation: under
\* a finished context nothing reaches the server.
WorkerStarts(w) ==
  /\ worker[w] = "took"
  /\ \/ /\ ~CtxDone
        /\ submitted' = submitted \union {job[w].seq}
        /\ worker' = [worker EXCEPT ![w] = "sent"]
        /\ UNCHANGED succeeded
     \/ /\ CtxDone
        /\ worker' = [worker EXCEPT ![w] = "report"]
        /\ succeeded' = [succeeded EXCEPT ![w] = FALSE]
        /\ UNCHANGED submitted
  /\ UNCHANGED <<inputVars, contextVars, producerVars, jobVars, job, resultVars,
                 collectorVars, formed, delivered>>

WorkerFinishes(w) ==
  /\ worker[w] = "sent"
  /\ \E ok \in BOOLEAN : succeeded' = [succeeded EXCEPT ![w] = ok]
  /\ worker' = [worker EXCEPT ![w] = "report"]
  /\ UNCHANGED <<inputVars, contextVars, producerVars, jobVars, job, resultVars,
                 collectorVars, historyVars>>

\* Mutant: a failed batch is tried again after it was reported.
LetsGoOfSuccess(w) ==
  /\ worker' = [worker EXCEPT ![w] = IF succeeded[w] THEN "idle" ELSE "took"]
  /\ job' = [job EXCEPT ![w] = IF succeeded[w] THEN NoBatch ELSE @]

\* The worker is done with its batch.
LetsGo(w) ==
  /\ worker' = [worker EXCEPT ![w] = "idle"]
  /\ job' = [job EXCEPT ![w] = NoBatch]

\* Mutant: only successes are reported.
ReportOfSuccess(w) == IF succeeded[w] THEN <<[seq |-> job[w].seq, ok |-> TRUE]>> ELSE <<>>

Report(w) == <<[seq |-> job[w].seq, ok |-> succeeded[w]]>>

WorkerReports(w) ==
  /\ worker[w] = "report" /\ Len(results) < Cardinality(Workers)
  /\ results' = results \o Report(w)
  /\ LetsGo(w)
  /\ UNCHANGED <<inputVars, contextVars, producerVars, jobVars, succeeded,
                 resultsClosed, collectorVars, historyVars>>

\* A worker returns at ctx.Done(), in either of its selects (a result it holds
\* is dropped), or when the job channel is closed and empty.
WorkerStops(w) ==
  /\ \/ worker[w] \in {"idle", "report"} /\ CtxDone
     \/ worker[w] = "idle" /\ jobsClosed /\ jobs = <<>>
  /\ worker' = [worker EXCEPT ![w] = "done"]
  /\ job' = [job EXCEPT ![w] = NoBatch]
  /\ UNCHANGED <<inputVars, contextVars, producerVars, jobVars, succeeded, resultVars,
                 collectorVars, historyVars>>

Worker(w) ==
  \/ WorkerTakes(w) \/ WorkerStarts(w) \/ WorkerFinishes(w)
  \/ WorkerReports(w) \/ WorkerStops(w)
-----------------------------------------------------------------------------
(* The closer goroutine and the collector, which is BulkStream's caller.   *)

ProducerJoined == producer = "done"   \* Mutant: it counts the producer only.
\* What the wait group counts.
Joined == producer = "done" /\ \A w \in Workers : worker[w] = "done"

Closer ==
  /\ ~resultsClosed /\ Joined
  /\ resultsClosed' = TRUE
  /\ UNCHANGED <<inputVars, contextVars, producerVars, jobVars, workerVars, results,
                 collectorVars, historyVars>>

\* Mutant: the last result decides.
LastError(result) == IF result.ok THEN "nil" ELSE "batch"

FirstError(result) == IF first = "nil" /\ ~result.ok THEN "batch" ELSE first

Calls == ~callbackFailed

CollectorReceives ==
  /\ collector = "range" /\ results # <<>>
  /\ first' = FirstError(Head(results))
  /\ \/ /\ Calls
        /\ collector' = "callback" /\ current' = Head(results)
        /\ delivered' = Append(delivered, Head(results))
     \/ ~Calls /\ UNCHANGED <<collector, current, delivered>>
  /\ results' = Tail(results)
  /\ UNCHANGED <<inputVars, contextVars, producerVars, jobVars, workerVars,
                 resultsClosed, callbackFailed, ret, formed, submitted>>

CallbackReturns ==
  /\ collector = "callback"
  /\ collector' = "range" /\ current' = NoResult
  /\ \/ UNCHANGED <<first, callbackFailed, cancelled>>
     \/ first' = "callback" /\ callbackFailed' = TRUE /\ cancelled' = TRUE
  /\ UNCHANGED <<inputVars, parentDone, producerVars, jobVars, workerVars, resultVars,
                 ret, historyVars>>

\* The deferred cancel() runs after the result is chosen.
CollectorReturns ==
  /\ collector = "range" /\ results = <<>> /\ resultsClosed
  /\ collector' = "returned"
  /\ ret' = IF parentDone THEN "parent" ELSE first
  /\ cancelled' = TRUE
  /\ UNCHANGED <<inputVars, parentDone, producerVars, jobVars, workerVars, resultVars,
                 current, first, callbackFailed, historyVars>>

Collector == CollectorReceives \/ CallbackReturns \/ CollectorReturns
-----------------------------------------------------------------------------
Caller == CallerSends \/ CallerCloses \/ CallerCancels

\* The steps of the goroutines BulkStream runs in.
Stream == Producer \/ (\E w \in Workers : Worker(w)) \/ Closer \/ Collector

Next == Caller \/ Stream

Spec == Init /\ [][Next]_vars

\* The scheduler runs every goroutine that can run; a request ends (the client
\* and its context bound it) and onResult returns.  Nothing is assumed of the
\* caller's channel or context.  ctx.Done() stays ready once it is.
Fairness ==
  /\ WF_vars(Producer) /\ WF_vars(ProducerStops)
  /\ \A w \in Workers : WF_vars(Worker(w))
  /\ WF_vars(Closer) /\ WF_vars(Collector)

FairSpec == Spec /\ Fairness
-----------------------------------------------------------------------------
(* Properties.                                                             *)

\* Types.  Channels never hold more than their capacity, and a batch never more
\* than BatchSize operations: with the worker's and the producer's own batches
\* that is the (QueueSize + Workers + 1) x BatchSize memory bound the docs give.
TypeOK ==
  /\ offer \in Nat /\ inputClosed \in BOOLEAN /\ taken \in Nat
  /\ parentDone \in BOOLEAN /\ cancelled \in BOOLEAN
  /\ producer \in {"select", "done"} \union Sending
  /\ ops \in Seq(Nat) /\ Len(ops) <= BatchSize /\ seq \in Nat
  /\ heap \in Seq([1..BatchSize -> Nat]) /\ array \in DOMAIN heap
  /\ jobs \in Seq(Batch) /\ Len(jobs) <= QueueSize /\ jobsClosed \in BOOLEAN
  /\ worker \in [Workers -> {"idle", "took", "sent", "report", "done"}]
  /\ job \in [Workers -> Batch \union {NoBatch}]
  /\ succeeded \in [Workers -> BOOLEAN]
  /\ results \in Seq(Result) /\ Len(results) <= Cardinality(Workers)
  /\ resultsClosed \in BOOLEAN
  /\ collector \in {"range", "callback", "returned"}
  /\ current \in Result \union {NoResult}
  /\ first \in {"nil", "batch", "callback"} /\ callbackFailed \in BOOLEAN
  /\ ret \in {"running", "nil", "batch", "callback", "parent"}
  /\ formed \in Seq(Seq(Nat)) /\ submitted \subseteq Nat
  /\ delivered \in Seq(Result)

\* The last operation of the first k batches.
LastOf(k) == IF k = 0 THEN 0 ELSE formed[k][Len(formed[k])]

\* s lists the operations from + 1, from + 2, ...
Follows(s, from) == \A i \in DOMAIN s : s[i] = from + i

\* The batches and the batch under construction split the operations received
\* into consecutive runs, none empty and none longer than BatchSize, whatever
\* mixture of full batches, ticks and the final flush cut them, and batches are
\* numbered in that order (BulkBatchResult.Sequence: "producer order").
BatchesCoverInput ==
  /\ seq = Len(formed)
  /\ \A k \in DOMAIN formed :
        /\ Len(formed[k]) \in 1..BatchSize
        /\ Follows(formed[k], LastOf(k - 1))
  /\ Follows(ops, LastOf(Len(formed)))
  /\ taken = LastOf(Len(formed)) + Len(ops)

\* What a worker reads, at the first attempt and at every retry.
Contents(batch) == [i \in 1..batch.len |-> heap[batch.array][i]]

\* The operations of a batch stay as they were sent for as long as it is queued or
\* a worker holds it, although the producer goes on filling its slice meanwhile.
BatchesKeepTheirOps ==
  /\ \A i \in DOMAIN jobs : Contents(jobs[i]) = formed[jobs[i].seq + 1]
  /\ \A w \in Workers : job[w] # NoBatch => Contents(job[w]) = formed[job[w].seq + 1]

\* Where batch number k is: queued, with a worker, reported or delivered.
Holders(k) ==
  {<<"jobs", i>> : i \in {j \in DOMAIN jobs : jobs[j].seq = k}}
  \union {<<"worker", w>> : w \in {v \in Workers : job[v].seq = k}}
  \union {<<"results", i>> : i \in {j \in DOMAIN results : results[j].seq = k}}
  \union {<<"delivered", i>> :
             i \in {j \in DOMAIN delivered : delivered[j].seq = k}}

\* No batch is in two places: none is sent to the server by two workers, and
\* onResult sees no batch twice.  A batch still queued or just taken has not
\* been sent.
NoBatchTwice ==
  /\ \A k \in 0..(seq - 1) : \A p, q \in Holders(k) : p = q
  /\ \A i \in DOMAIN jobs : jobs[i].seq \notin submitted
  /\ \A w \in Workers : worker[w] = "took" => job[w].seq \notin submitted

\* Until the context ends or onResult fails, no batch is dropped between the
\* producer and onResult.
NoBatchLost ==
  ~CtxDone => \A k \in 0..(seq - 1) : Holders(k) # {}

\* A batch number onResult was called with.
Delivered(k) == \E i \in DOMAIN delivered : delivered[i].seq = k

\* What is returned vouches for everything: nil, or a batch error ("also returned
\* after all accepted batches finish"), means that the caller closed its channel,
\* every operation it sent is in a batch, and every batch was delivered, whether
\* or not others failed; and nil means that none did.  An error of onResult is
\* what is returned, over any batch error before or after it, unless the caller
\* has cancelled.
ReturnTellsTruth ==
  /\ ret \in {"nil", "batch"} =>
       /\ inputClosed /\ taken = LastOf(Len(formed))
       /\ \A k \in 0..(Len(formed) - 1) : Delivered(k)
       /\ ret = "nil" <=> \A i \in DOMAIN delivered : delivered[i].ok
  /\ ret = "callback" => callbackFailed
  /\ callbackFailed /\ ret # "running" => ret \in {"callback", "parent"}

\* When BulkStream returns, every goroutine it started has exited and nothing
\* can run on behalf of the call: no request is in flight, no result is queued.
JoinedOnReturn ==
  ret # "running" =>
    /\ producer = "done" /\ jobsClosed /\ results = <<>>
    /\ \A w \in Workers : worker[w] = "done"

\* The call returns once the caller closes its input, ends its context, or
\* fails a callback, also when its producer never sends or closes again.
Returns ==
  (inputClosed \/ CtxDone) ~> (ret # "running")

\* Every operation received is delivered, unless the call is cancelled: with a
\* flush interval even when the input then stays silent, else once it is closed.
ReceivedIsDelivered ==
  \A n \in 1..MaxOps :
    (taken >= n /\ (Ticker \/ inputClosed)) ~>
      \/ CtxDone
      \/ \E i \in DOMAIN delivered :
           \E j \in DOMAIN formed[delivered[i].seq + 1] :
             formed[delivered[i].seq + 1][j] = n
=============================================================================
