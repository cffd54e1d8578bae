---------------------------- MODULE BulkDelivery ----------------------------
(***************************************************************************)
(* What every streaming bulk call of the ODM promises, whichever way it    *)
(* schedules the work (BulkStream, BulkSeq2 synchronous, BulkSeq2 over     *)
(* BulkStream): the source's operations are cut into consecutive numbered  *)
(* batches, onResult sees each batch at most once and nothing after it     *)
(* failed, and what the call returns is justified by what was delivered.   *)
(* Concurrency, channels, contexts and goroutines do not appear here.      *)
(***************************************************************************)
EXTENDS Integers, Sequences

CONSTANTS BatchSize   \* at least 1

VARIABLES
  accepted,   \* operations taken from the source
  source,     \* "open", or how it ended: "end", "error", "cut" short
  batches,    \* the size of each batch, by number
  cut,        \* operations that are in a batch
  delivered,  \* the results given to onResult: [seq, ok]
  stopped,    \* onResult has failed
  outcome     \* {} until the call returns <<errors>>

vars == <<accepted, source, batches, cut, delivered, stopped, outcome>>

Errors == {"batch", "producer", "callback", "context"}

Init ==
  /\ accepted = 0 /\ source = "open"
  /\ batches = <<>> /\ cut = 0
  /\ delivered = <<>> /\ stopped = FALSE
  /\ outcome = <<>>

Running == outcome = <<>>

Accept ==
  /\ Running /\ source = "open"
  /\ accepted' = accepted + 1
  /\ UNCHANGED <<source, batches, cut, delivered, stopped, outcome>>

SourceEnds ==
  /\ Running /\ source = "open"
  /\ source' \in {"end", "error", "cut"}
  /\ UNCHANGED <<accepted, batches, cut, delivered, stopped, outcome>>

Cut ==
  /\ Running
  /\ \E n \in 1..BatchSize :
       /\ cut + n <= accepted
       /\ batches' = Append(batches, n)
       /\ cut' = cut + n
  /\ UNCHANGED <<accepted, source, delivered, stopped, outcome>>

DeliveredBatch(k) == \E i \in DOMAIN delivered : delivered[i].seq = k

Deliver ==
  /\ Running /\ ~stopped
  /\ \E k \in 0..(Len(batches) - 1), ok \in BOOLEAN :
       /\ ~DeliveredBatch(k)
       /\ delivered' = Append(delivered, [seq |-> k, ok |-> ok])
  /\ UNCHANGED <<accepted, source, batches, cut, stopped, outcome>>

CallbackFails ==
  /\ Running /\ ~stopped /\ delivered # <<>>
  /\ stopped' = TRUE
  /\ UNCHANGED <<accepted, source, batches, cut, delivered, outcome>>

AllDelivered ==
  /\ source \in {"end", "error"} /\ cut = accepted
  /\ \A k \in 0..(Len(batches) - 1) : DeliveredBatch(k)

SomeFailed == \E i \in DOMAIN delivered : ~delivered[i].ok

Return ==
  /\ Running
  /\ \E errors \in SUBSET Errors :
       /\ "callback" \in errors => stopped
       /\ "producer" \in errors => source = "error"
       /\ "batch" \in errors => SomeFailed
       /\ errors \intersect {"callback", "context"} = {} =>
            /\ ~stopped /\ AllDelivered
            /\ SomeFailed => "batch" \in errors
            /\ source = "error" => "producer" \in errors
       /\ outcome' = <<errors>>
  /\ UNCHANGED <<accepted, source, batches, cut, delivered, stopped>>

Next == Accept \/ SourceEnds \/ Cut \/ Deliver \/ CallbackFails \/ Return

Spec == Init /\ [][Next]_vars
=============================================================================
