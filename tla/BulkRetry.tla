------------------------------ MODULE BulkRetry ------------------------------
(***************************************************************************)
(* Repository.BulkWithOptions and sendBulk (src/bulk_retry.go, src/bulk.go):*)
(* one batch, sent to a server that answers item by item, and sent again   *)
(* for the items that failed transiently.  The network may lose or delay a *)
(* request, lose its answer, and the answer may be malformed from some     *)
(* item on; the caller's context may end at any time.                      *)
(*                                                                         *)
(* An operation is its index in the batch.  The server is external: all    *)
(* that is assumed of it is that an item it answers as rejected was not    *)
(* applied.  The transport does not repeat requests of its own accord.     *)
(***************************************************************************)
EXTENDS Integers, Sequences, FiniteSets

CONSTANTS
  NumOps,      \* operations in the batch
  MaxRetries   \* RetryPolicy.MaxRetries

ASSUME RetryAssumption == NumOps \in Nat \ {0} /\ MaxRetries \in Nat

Ops == 1..NumOps

\* BulkItem, as far as a caller can tell outcomes apart.  A hook's error may
\* itself wrap a retryable server error: hook429.
Unknown == "unknown"
Committed == {"hook", "hook429"}
Acknowledged == {"ok"} \union Committed
Items == {Unknown, "transient", "permanent"} \union Acknowledged

\* Per-item answers: applied, or rejected with 429/502/503/504 or otherwise.
Answers == {"applied", "transient", "permanent"}
HookResults == {"ok", "hook", "hook429"}

VARIABLES
  at,          \* where the call is
  ctxDone,
  attempt,     \* the loop variable of the attempt loop
  pending,     \* the indexes sent in this attempt, in order
  items,       \* out.Items; <<>> until it is allocated
  err,         \* the error returned, or "running"
  request,     \* the indexes the server has still to process
  answer,      \* its answer to the current attempt, by position; <<>> before
  applied,     \* how often the server applied each operation
  hooks        \* history: AfterWrite calls for each operation

vars == <<at, ctxDone, attempt, pending, items, err, request, answer, applied,
          hooks>>

Init ==
  /\ at = "prepare" /\ ctxDone = FALSE
  /\ attempt = 0 /\ pending = <<>> /\ items = <<>> /\ err = "running"
  /\ request = {} /\ answer = <<>>
  /\ applied = [i \in Ops |-> 0] /\ hooks = [i \in Ops |-> 0]

ContextEnds ==
  /\ ~ctxDone
  /\ ctxDone' = TRUE
  /\ UNCHANGED <<at, attempt, pending, items, err, request, answer, applied, hooks>>

Return(e) == at' = "returned" /\ err' = e

\* Every operation is encoded before any is sent.  A context that ends, a
\* hook that refuses an operation, or too large a body ends the call here.
Prepare ==
  /\ at = "prepare"
  /\ \/ /\ Return("invalid")
        /\ UNCHANGED <<pending, items>>
     \/ /\ ~ctxDone
        /\ at' = "send"
        /\ pending' = [i \in Ops |-> i]
        /\ items' = [i \in Ops |-> Unknown]
        /\ UNCHANGED err
  /\ UNCHANGED <<ctxDone, attempt, request, answer, applied, hooks>>

\* The indexes in a sequence, which keeps them in the order of the batch.
Indexes(s) == {s[j] : j \in DOMAIN s}
InOrder(s) == \A j, k \in DOMAIN s : j < k => s[j] < s[k]

\* The operations of this attempt.
Sent == Indexes(pending)

Send ==
  /\ at = "send"
  /\ at' = "flight"
  /\ request' = Sent
  /\ answer' = <<>>
  /\ UNCHANGED <<ctxDone, attempt, pending, items, err, applied, hooks>>

\* The server answers each item on its own.  A request the client has given up
\* may still arrive.
ServerProcesses ==
  /\ request # {}
  /\ \E verdict \in [DOMAIN pending -> Answers] :
       /\ answer' = verdict
       /\ applied' = [i \in Ops |->
            IF \E j \in DOMAIN pending : pending[j] = i /\ verdict[j] = "applied"
            THEN applied[i] + 1 ELSE applied[i]]
  /\ request' = {}
  /\ UNCHANGED <<at, ctxDone, attempt, pending, items, err, hooks>>

\* A request the server never sees.
RequestLost ==
  /\ request # {}
  /\ request' = {}
  /\ UNCHANGED <<at, ctxDone, attempt, pending, items, err, answer, applied, hooks>>

\* Mutant: an ambiguous attempt is repeated.
RequestRepeats ==
  /\ at = "flight" /\ attempt < MaxRetries
  /\ at' = "send" /\ attempt' = attempt + 1
  /\ UNCHANGED <<ctxDone, pending, items, err, request, answer, applied, hooks>>

\* sendBulk without a usable answer: no connection, no response, a status of
\* its own for the whole request, or another number of items.
RequestFails ==
  /\ at = "flight"
  /\ Return("request")
  /\ UNCHANGED <<ctxDone, attempt, pending, items, request, answer, applied, hooks>>

\* The BulkItem sendBulk makes of the answer at position j.
Decode(j, hook) ==
  IF answer[j] = "applied" THEN hook[j] ELSE answer[j]

\* Mutant: position and index are taken for the same.
StoresByPosition(n, hook) ==
  /\ items' = [i \in Ops |-> IF i <= n THEN Decode(i, hook) ELSE items[i]]
  /\ hooks' = [i \in Ops |->
       IF \E j \in 1..n : pending[j] = i /\ answer[j] = "applied"
       THEN hooks[i] + 1 ELSE hooks[i]]

\* The first n answers stored at the indexes they belong to, their hooks run.
Store(n, hook) ==
  /\ items' = [i \in Ops |->
       IF \E j \in 1..n : pending[j] = i
       THEN Decode(CHOOSE j \in 1..n : pending[j] = i, hook)
       ELSE items[i]]
  /\ hooks' = [i \in Ops |->
       IF \E j \in 1..n : pending[j] = i /\ answer[j] = "applied"
       THEN hooks[i] + 1 ELSE hooks[i]]

\* The answer has the wrong action at some item: the earlier ones are kept.
AnswerMalformed ==
  /\ at = "flight" /\ answer # <<>>
  /\ \E n \in 0..(Len(pending) - 1), hook \in [DOMAIN pending -> HookResults] :
       Store(n, hook)
  /\ Return("request")
  /\ UNCHANGED <<ctxDone, attempt, pending, request, answer, applied>>

\* Mutant: without the CommittedError test, a failed hook is retried.
RetriesCommitted(item) ==
  /\ attempt < MaxRetries
  /\ item \in {"transient", "hook429"}

\* attempt < MaxRetries && !As(CommittedError) && As(*Error) && Retryable():
\* errors.As also finds the *Error a hook's error wraps.
Retry(item) ==
  /\ attempt < MaxRetries
  /\ item \notin Committed
  /\ item \in {"transient", "hook429"}

\* Mutant: only the last attempt's items decide the error.
LastAttempt == Sent
\* The items that decide it.
Judged == Ops

AnswerReceived ==
  /\ at = "flight" /\ answer # <<>>
  /\ \E hook \in [DOMAIN pending -> HookResults] : Store(Len(pending), hook)
  /\ LET retry == {i \in Sent : Retry(items'[i])} IN
       \/ /\ retry # {}
          /\ at' = "wait"
          /\ \E n \in 1..Len(pending) : \E indexes \in [1..n -> Ops] :
               InOrder(indexes) /\ Indexes(indexes) = retry /\ pending' = indexes
          /\ UNCHANGED err
       \/ /\ retry = {}
          /\ Return(IF \A i \in Judged : items'[i] = "ok" THEN "nil" ELSE "bulk")
          /\ UNCHANGED pending
  /\ UNCHANGED <<ctxDone, attempt, request, answer, applied>>

\* waitContext: the delay, or the end of the context.
Wait ==
  /\ at = "wait"
  /\ \/ /\ ctxDone
        /\ Return("context")
        /\ UNCHANGED attempt
     \/ /\ at' = "send"
        /\ attempt' = attempt + 1
        /\ UNCHANGED err
  /\ UNCHANGED <<ctxDone, pending, items, request, answer, applied, hooks>>

Next ==
  \/ ContextEnds \/ Prepare \/ Send
  \/ ServerProcesses \/ RequestLost
  \/ RequestFails \/ AnswerMalformed \/ AnswerReceived \/ Wait

Spec == Init /\ [][Next]_vars

-----------------------------------------------------------------------------
Returned == at = "returned"

\* Types; the indexes pending are in input order, without repetition.
TypeOK ==
  /\ at \in {"prepare", "send", "flight", "wait", "returned"}
  /\ ctxDone \in BOOLEAN /\ attempt \in 0..MaxRetries
  /\ pending \in Seq(Ops)
  /\ InOrder(pending)
  /\ items \in [Ops -> Items] \union {<<>>}
  /\ err \in {"running", "invalid", "request", "context", "bulk", "nil"}
  /\ request \subseteq Ops
  /\ answer \in Seq(Answers)
  /\ applied \in [Ops -> Nat] /\ hooks \in [Ops -> Nat]

\* No interleaving of retries, lost answers and delayed requests makes the
\* server apply an operation twice: a retry carries only operations the server
\* has rejected, and an ambiguous attempt is never followed by another.
AppliedAtMostOnce == \A i \in Ops : applied[i] <= 1

\* "Successful items and AfterWrite failures are never replayed": an
\* acknowledged item is neither sent again nor does its outcome change.
AcknowledgedIsFinal ==
  [][items # <<>> =>
       \A i \in Ops : items[i] \in Acknowledged =>
         items'[i] = items[i] /\ i \notin request']_vars

\* AfterWrite has run exactly once for the items the caller sees as written,
\* and for no other, and the server has applied those.
HookOncePerWrite ==
  items # <<>> =>
    \A i \in Ops :
      /\ hooks[i] = (IF items[i] \in Acknowledged THEN 1 ELSE 0)
      /\ items[i] \in Acknowledged => applied[i] = 1

\* The error tells the truth: nil means every operation was applied, with its
\* hook; a BulkError means every operation has an outcome that agrees with the
\* server, with no transient failure unless the retries are used up; an error
\* without items, that nothing was sent.
ErrorMatchesServer ==
  /\ err = "nil" => \A i \in Ops : items[i] = "ok" /\ applied[i] = 1
  /\ err \in {"bulk", "context"} =>
       \A i \in Ops : /\ items[i] # Unknown
                      /\ applied[i] = (IF items[i] \in Acknowledged THEN 1 ELSE 0)
  /\ err = "bulk" /\ (\E i \in Ops : items[i] = "transient") => attempt = MaxRetries
  /\ err = "invalid" => items = <<>> /\ \A i \in Ops : applied[i] = 0

\* BulkItem.Status: "zero means no definitive server outcome was decoded", so
\* an item that carries a rejection was rejected.
RejectedIsNotApplied ==
  Returned /\ items # <<>> =>
    \A i \in Ops : items[i] \in {"transient", "permanent"} => applied[i] = 0

=============================================================================
