---------------------------- MODULE BulkSeqProofs ----------------------------
(***************************************************************************)
(* Proofs about BulkSeq: the synchronous path of BulkSeq2 keeps the        *)
(* delivery contract the asynchronous path keeps, wherever its context     *)
(* ends, for any batch size and any number of operations.                  *)
(*                                                                         *)
(* With one goroutine the invariant says where the call is: which batches  *)
(* it has formed (Cutting), how far their delivery has got (Numbering) and *)
(* which errors it has seen (Errors).                                      *)
(***************************************************************************)
EXTENDS BulkSeq, SequenceTheorems, TLAPS

Result == [seq : Nat, ok : BOOLEAN]

Types ==
  /\ at \in {"loop", "ended", "request", "result", "callback", "returning", "returned"}
  /\ taken \in Nat /\ batch \in Seq(Nat)
  /\ why \in {"none", "full", "error", "end"}
  /\ sequence \in Nat /\ formed \in Seq(Seq(Nat)) /\ delivered \in Seq(Result)

Flags ==
  /\ ctxDone \in BOOLEAN /\ short \in BOOLEAN /\ result \in BOOLEAN /\ stopped \in BOOLEAN

\* The batches and the one under construction are the operations yielded, none
\* of them empty; the buffer is empty once flush() has returned.
Cutting ==
  /\ LastOf(Len(formed)) \in Nat
  /\ \A i \in 1..Len(batch) : batch[i] = LastOf(Len(formed)) + i
  /\ taken = LastOf(Len(formed)) + Len(batch)
  /\ at \in {"loop", "ended"} => Len(batch) < BatchSize
  /\ at = "request" => Len(batch) \in 1..BatchSize
  /\ at \in {"result", "callback", "returning"} => batch = <<>>

\* Batches are delivered in order, each before the next is formed.
Numbering ==
  /\ Len(formed) = IF at \in {"result", "callback"} THEN sequence + 1 ELSE sequence
  /\ Len(delivered) = IF at = "callback" THEN sequence + 1 ELSE sequence
  /\ \A i \in 1..Len(delivered) : delivered[i].seq = i - 1

\* The first batch that fails leaves its error, and the callback's takes its place.
Errors ==
  /\ stopped => first = {"callback"} /\ at \in {"returning", "returned"}
  /\ ~stopped =>
       first = IF \/ at = "result" /\ ~result
                  \/ \E i \in 1..Len(delivered) : ~delivered[i].ok
               THEN {"batch"} ELSE {}
  /\ at = "loop" => why \notin {"error", "end"}
  /\ at = "ended" => why = "end"
  /\ at \in {"request", "result", "callback"} => why # "none"
  /\ at = "returning" /\ ~stopped => why \in {"error", "end"}

\* A sequence that ended under a finished context is answered with the context's
\* error, and nothing more is flushed for it.
Shortness == short => ctxDone /\ at \in {"ended", "returned"}

IInv == Types /\ Flags /\ Cutting /\ Numbering /\ Errors /\ Shortness
-----------------------------------------------------------------------------
\* The invariant holds before the sequence yields.
LEMMA InitIInv == Init => IInv
<1> SUFFICES ASSUME Init PROVE IInv
  OBVIOUS
<1>1. /\ formed = <<>> /\ batch = <<>> /\ delivered = <<>> /\ taken = 0 /\ sequence = 0
      /\ at = "loop" /\ why = "none" /\ first = {} /\ stopped = FALSE
      /\ ctxDone = FALSE /\ short = FALSE /\ result = FALSE
  BY DEF Init
<1>2. Types /\ Flags
  <2>1. Types
    BY <1>1 DEF Types
  <2>2. Flags
    BY <1>1 DEF Flags
  <2> QED
    BY <2>1, <2>2
<1>3. LastOf(Len(formed)) = 0
  BY <1>1 DEF LastOf
<1>4. Len(batch) = 0 /\ Len(formed) = 0 /\ Len(delivered) = 0
  BY <1>1
<1>5. Cutting
  BY <1>1, <1>3, <1>4, SeqAssumption DEF Cutting
<1>6. Numbering /\ Errors /\ Shortness
  BY <1>1, <1>4 DEF Numbering, Errors, Shortness
<1> QED
  BY <1>2, <1>5, <1>6 DEF IInv

\* An operation is appended to the buffer.
LEMMA YieldKeeps ==
  ASSUME IInv, YieldOp
  PROVE  IInv'
<1> USE DEF IInv
<1>1. /\ at = "loop" /\ taken' = taken + 1 /\ batch' = Append(batch, taken + 1)
      /\ UNCHANGED <<ctxDone, short, sequence, result, first, formed, delivered, stopped>>
  BY DEF YieldOp
<1>2. /\ taken \in Nat /\ batch \in Seq(Nat) /\ BatchSize \in Nat \ {0}
      /\ LastOf(Len(formed)) \in Nat /\ Len(batch) < BatchSize
      /\ taken = LastOf(Len(formed)) + Len(batch)
  BY <1>1, SeqAssumption DEF Types, Cutting
<1>3. /\ Len(batch') = Len(batch) + 1 /\ batch'[Len(batch) + 1] = taken + 1
      /\ \A i \in 1..Len(batch) : batch'[i] = batch[i]
      /\ batch' \in Seq(Nat) /\ batch' # <<>> /\ Len(batch) \in Nat
  BY <1>1, <1>2
<1>4. \/ Len(batch') = BatchSize /\ why' = "full" /\ at' = "request"
      \/ Len(batch') # BatchSize /\ UNCHANGED <<at, why>>
  BY <1>3 DEF YieldOp, Flush
<1>5. Types'
  BY <1>1, <1>2, <1>3, <1>4 DEF Types
<1>6. Cutting'
  <2>1. LastOf(Len(formed))' = LastOf(Len(formed))
    BY <1>1 DEF LastOf
  <2>2. \A i \in 1..Len(batch') : batch'[i] = LastOf(Len(formed)) + i
    <3>1. TAKE i \in 1..Len(batch')
    <3>2. CASE i \in 1..Len(batch)
      BY <1>3, <3>2 DEF Cutting
    <3>3. CASE i = Len(batch) + 1
      BY <1>2, <1>3, <3>3
    <3> QED
      BY <1>3, <3>1, <3>2, <3>3
  <2>3. taken' = LastOf(Len(formed)) + Len(batch')
    BY <1>1, <1>2, <1>3
  <2>4. at' = "loop" => Len(batch') < BatchSize
    BY <1>1, <1>2, <1>3, <1>4
  <2> QED
    BY <1>1, <1>2, <1>3, <1>4, <2>1, <2>2, <2>3, <2>4, SMTT(30) DEF Cutting
<1>7. Numbering' /\ Errors'
  BY <1>1, <1>4 DEF Numbering, Errors
<1>8. Flags' /\ Shortness'
  BY <1>1, <1>4 DEF Flags, Shortness
<1> QED
  BY <1>5, <1>6, <1>7, <1>8

\* The sequence fails: what is buffered is flushed.
LEMMA ErrorKeeps ==
  ASSUME IInv, YieldError
  PROVE  IInv'
<1> USE DEF IInv
<1>1. /\ at = "loop" /\ why' = "error"
      /\ at' = IF batch = <<>> THEN "returning" ELSE "request"
      /\ UNCHANGED <<ctxDone, taken, batch, short, sequence, result, first, formed,
                     delivered, stopped>>
  BY DEF YieldError, Flush
<1>2. Types'
  BY <1>1 DEF Types
<1>3. Cutting'
  <2>1. LastOf(Len(formed))' = LastOf(Len(formed))
    BY <1>1 DEF LastOf
  <2>2. batch # <<>> => Len(batch) \in 1..BatchSize
    BY <1>1, SeqAssumption DEF Types, Cutting
  <2> QED
    BY <1>1, <2>1, <2>2 DEF Cutting
<1>4. Numbering' /\ Errors'
  BY <1>1 DEF Numbering, Errors
<1>5. Flags' /\ Shortness'
  BY <1>1 DEF Flags, Shortness
<1> QED
  BY <1>2, <1>3, <1>4, <1>5

\* The sequence ends, and whether the context was done then is noted.
LEMMA EndKeeps ==
  ASSUME IInv, SequenceEnds
  PROVE  IInv'
<1> USE DEF IInv
<1>1. /\ at = "loop" /\ at' = "ended" /\ why' = "end" /\ short' = ctxDone
      /\ UNCHANGED <<ctxDone, taken, batch, sequence, result, first, formed, delivered,
                     stopped>>
  BY DEF SequenceEnds
<1>2. Types'
  BY <1>1 DEF Types
<1>3. Cutting'
  BY <1>1 DEF Cutting, LastOf
<1>4. Numbering' /\ Errors'
  BY <1>1 DEF Numbering, Errors
<1>5. Flags' /\ Shortness'
  BY <1>1 DEF Flags, Shortness
<1> QED
  BY <1>2, <1>3, <1>4, <1>5

\* Behind the loop the call returns, or flushes what is buffered.
LEMMA CheckKeeps ==
  ASSUME IInv, ChecksEnd
  PROVE  IInv'
<1> USE DEF IInv
<1>1. /\ at = "ended" /\ why = "end" /\ why' = why
      /\ \/ ctxDone /\ at' = "returned"
         \/ ~ctxDone /\ at' = IF batch = <<>> THEN "returning" ELSE "request"
      /\ UNCHANGED <<ctxDone, taken, batch, short, sequence, result, first, formed,
                     delivered, stopped>>
  BY DEF ChecksEnd, ContextErr, Returns, Flush, Errors
<1>2. Types'
  BY <1>1 DEF Types
<1>3. Cutting'
  <2>1. LastOf(Len(formed))' = LastOf(Len(formed))
    BY <1>1 DEF LastOf
  <2>2. batch # <<>> => Len(batch) \in 1..BatchSize
    BY <1>1, SeqAssumption DEF Types, Cutting
  <2> QED
    BY <1>1, <2>1, <2>2 DEF Cutting
<1>4. Numbering' /\ Errors'
  BY <1>1 DEF Numbering, Errors
<1>5. Flags' /\ Shortness'
  BY <1>1 DEF Flags, Shortness
<1> QED
  BY <1>2, <1>3, <1>4, <1>5

\* The effect of a request: the buffer becomes a batch.
LEMMA Formed ==
  ASSUME IInv, Request
  PROVE  /\ Len(formed') = Len(formed) + 1 /\ Len(formed) \in Nat
         /\ formed' \in Seq(Seq(Nat)) /\ Len(batch) \in 1..BatchSize
         /\ \A k \in 1..Len(formed) : formed'[k] = formed[k]
         /\ formed'[Len(formed) + 1] = batch
         /\ LastOf(Len(formed))' = LastOf(Len(formed)) + Len(batch)
<1>1. formed' = Append(formed, batch) /\ at = "request"
  BY DEF Request
<1>2. formed \in Seq(Seq(Nat)) /\ batch \in Seq(Nat) /\ Len(batch) \in 1..BatchSize
  BY <1>1 DEF IInv, Types, Cutting
<1>3. /\ Len(formed') = Len(formed) + 1 /\ Len(formed) \in Nat
      /\ formed' \in Seq(Seq(Nat)) /\ formed'[Len(formed) + 1] = batch
      /\ \A k \in 1..Len(formed) : formed'[k] = formed[k]
  BY <1>1, <1>2
<1>4. LastOf(Len(formed))' = batch[Len(batch)]
  BY <1>3 DEF LastOf
<1>5. Len(batch) \in 1..Len(batch)
  BY <1>2
<1>6. batch[Len(batch)] = LastOf(Len(formed)) + Len(batch)
  BY <1>5 DEF IInv, Cutting
<1> QED
  BY <1>2, <1>3, <1>4, <1>6

\* Forming a batch continues the batches before it.
LEMMA RequestKeeps ==
  ASSUME IInv, Request
  PROVE  IInv'
<1> USE DEF IInv
<1>1. /\ at = "request" /\ at' = "result" /\ batch' = <<>>
      /\ result' \in BOOLEAN /\ first' = FirstError(result')
      /\ UNCHANGED <<ctxDone, taken, why, short, sequence, delivered, stopped>>
  BY DEF Request
<1>2. Types'
  BY <1>1, Formed DEF Types
<1>3. Cutting'
  <2>1. Len(batch') = 0
    BY <1>1
  <2>2. LastOf(Len(formed))' = taken /\ taken \in Nat
    BY Formed DEF Cutting, Types
  <2> QED
    BY <1>1, <2>1, <2>2 DEF Cutting
<1>4. Numbering'
  BY <1>1, Formed DEF Numbering
<1>5. Errors'
  <2>1. first = IF \E i \in 1..Len(delivered) : ~delivered[i].ok THEN {"batch"} ELSE {}
    BY <1>1 DEF Errors
  <2>2. first' = IF first = {} /\ ~result' THEN {"batch"} ELSE first
    BY <1>1 DEF FirstError
  <2> QED
    BY <1>1, <2>1, <2>2 DEF Errors
<1>6. Flags' /\ Shortness'
  BY <1>1 DEF Flags, Shortness
<1> QED
  BY <1>2, <1>3, <1>4, <1>5, <1>6

\* The effect of handing a result to the callback.
LEMMA Handed ==
  ASSUME IInv, CallbackStarts
  PROVE  /\ Len(delivered') = Len(delivered) + 1 /\ Len(delivered) = sequence
         /\ delivered' \in Seq(Result)
         /\ \A i \in 1..Len(delivered) : delivered'[i] = delivered[i]
         /\ delivered'[sequence + 1].seq = sequence
         /\ delivered'[sequence + 1].ok <=> result
<1>1. /\ delivered' = Append(delivered, [seq |-> sequence, ok |-> result])
      /\ Len(delivered) = sequence
  BY DEF CallbackStarts, IInv, Numbering
<1>2. [seq |-> sequence, ok |-> result] \in Result /\ delivered \in Seq(Result)
  BY DEF IInv, Types, Flags, Result
<1> DEFINE r == [seq |-> sequence, ok |-> result]
<1>3. r.seq = sequence /\ r.ok = result
  OBVIOUS
<1> HIDE DEF r
<1>4. /\ Len(delivered') = Len(delivered) + 1 /\ delivered' \in Seq(Result)
      /\ \A i \in 1..Len(delivered) : delivered'[i] = delivered[i]
      /\ delivered'[Len(delivered) + 1] = r
  BY <1>1, <1>2 DEF r
<1> QED
  BY <1>1, <1>3, <1>4

\* Handing a result to the callback delivers the batch just formed.
LEMMA StartsKeeps ==
  ASSUME IInv, CallbackStarts
  PROVE  IInv'
<1> USE DEF IInv
<1>1. /\ at = "result" /\ at' = "callback"
      /\ UNCHANGED <<ctxDone, taken, batch, why, short, sequence, result, first, formed,
                     stopped>>
  BY DEF CallbackStarts
<1>2. Types'
  BY <1>1, Handed DEF Types
<1>3. Cutting'
  BY <1>1 DEF Cutting, LastOf
<1>4. sequence \in Nat /\ \A i \in 1..Len(delivered') : i \in 1..sequence \/ i = sequence + 1
  BY Handed DEF Types
<1>5. Numbering'
  BY <1>1, <1>4, Handed DEF Numbering
<1>6. Errors'
  <2>1. (\E i \in 1..Len(delivered') : ~delivered'[i].ok)
          <=> ~result \/ \E i \in 1..Len(delivered) : ~delivered[i].ok
    <3>1. sequence + 1 \in 1..Len(delivered') /\ \A i \in 1..Len(delivered) : i \in 1..Len(delivered')
      BY <1>4, Handed
    <3> QED
      BY <1>4, <3>1, Handed
  <2> QED
    BY <1>1, <2>1 DEF Errors
<1>7. Flags' /\ Shortness'
  BY <1>1 DEF Flags, Shortness
<1> QED
  BY <1>2, <1>3, <1>5, <1>6, <1>7

\* What the callback returns becomes the error of the call.
LEMMA ReturnsKeeps ==
  ASSUME IInv, CallbackReturns
  PROVE  IInv'
<1> USE DEF IInv
<1>1. /\ at = "callback" /\ sequence' = sequence + 1
      /\ UNCHANGED <<ctxDone, taken, batch, why, short, result, formed, delivered>>
      /\ \/ /\ at' = IF why = "full" THEN "loop" ELSE "returning"
            /\ UNCHANGED <<first, stopped>>
         \/ at' = "returning" /\ first' = {"callback"} /\ stopped' = TRUE
  BY DEF CallbackReturns, NextNumber
<1>2. Types'
  BY <1>1 DEF Types
<1>3. Cutting'
  <2>1. Len(batch) = 0 /\ BatchSize \in Nat \ {0}
    BY <1>1, SeqAssumption DEF Cutting
  <2> QED
    BY <1>1, <2>1 DEF Cutting, LastOf
<1>4. Numbering'
  BY <1>1 DEF Numbering, Types
<1>5. Errors'
  <2>1. ~stopped /\ why \in {"full", "error", "end"}
    BY <1>1 DEF Errors, Types
  <2>2. CASE UNCHANGED <<first, stopped>>
    BY <1>1, <2>1, <2>2 DEF Errors
  <2>3. CASE at' = "returning" /\ first' = {"callback"} /\ stopped' = TRUE
    BY <2>3 DEF Errors
  <2> QED
    BY <1>1, <2>2, <2>3
<1>6. Flags' /\ Shortness'
  BY <1>1 DEF Flags, Shortness
<1> QED
  BY <1>2, <1>3, <1>4, <1>5, <1>6

\* The context ends, or the call returns: neither touches what was formed.
LEMMA RestKeeps ==
  ASSUME IInv, ContextEnds \/ ContextReturns \/ SeqReturns \/ UNCHANGED vars
  PROVE  IInv'
<1> USE DEF IInv
<1>1. /\ UNCHANGED <<taken, batch, why, short, sequence, result, first, formed, delivered,
                     stopped>>
      /\ at' = at \/ at' = "returned"
      /\ ctxDone' = ctxDone \/ ctxDone' = TRUE
  BY DEF ContextEnds, ContextReturns, SeqReturns, Returns, vars
<1>2. Types'
  BY <1>1 DEF Types
<1>3. Flags' /\ Shortness'
  <2>1. Flags'
    BY <1>1 DEF Flags
  <2>2. short' => short /\ ctxDone /\ at \in {"ended", "returned"}
    BY <1>1 DEF Shortness
  <2>3. ctxDone => ctxDone'
    BY <1>1
  <2> QED
    BY <1>1, <2>1, <2>2, <2>3 DEF Shortness
<1>4. at' = at \/ (at \in {"loop", "returning"} /\ at' = "returned")
  BY DEF ContextEnds, ContextReturns, SeqReturns, Returns, vars
<1>5. Cutting'
  BY <1>1, <1>4 DEF Cutting, LastOf
<1>6. Numbering'
  BY <1>1, <1>4 DEF Numbering
<1>7. Errors'
  BY <1>1, <1>4 DEF Errors
<1> QED
  BY <1>2, <1>3, <1>5, <1>6, <1>7

\* The invariant holds in every behaviour.
LEMMA Invariance == Spec => []IInv
<1>1. IInv /\ [Next]_vars => IInv'
  BY YieldKeeps, ErrorKeeps, EndKeeps, CheckKeeps, RequestKeeps, StartsKeeps, ReturnsKeeps,
     RestKeeps
  DEF Next
<1> QED
  BY <1>1, InitIInv, PTL DEF Spec
-----------------------------------------------------------------------------
(* The refinement.                                                         *)

\* The call starts where the contract does.
LEMMA ContractInit == Init => Contract!Init
<1> SUFFICES ASSUME Init PROVE Contract!Init
  OBVIOUS
<1>1. /\ formed = <<>> /\ taken = 0 /\ delivered = <<>> /\ stopped = FALSE
      /\ why = "none" /\ at = "loop"
  BY DEF Init
<1>2. [k \in DOMAIN formed |-> Len(formed[k])] = <<>>
  BY <1>1
<1>3. LastOf(Len(formed)) = 0
  BY <1>1 DEF LastOf
<1> QED
  BY <1>1, <1>2, <1>3 DEF Contract!Init

\* An operation yielded is one accepted.
LEMMA YieldAccepts ==
  ASSUME IInv, YieldOp
  PROVE  Contract!Accept
<1>1. /\ at = "loop" /\ at' # "returned" /\ taken' = taken + 1
      /\ why' \in {why, "full"} /\ short' = short
      /\ UNCHANGED <<formed, delivered, stopped, final>>
  BY DEF YieldOp, Flush
<1>2. why \notin {"error", "end"}
  BY <1>1 DEF IInv, Errors
<1> QED
  BY <1>1, <1>2 DEF Contract!Accept, Contract!Running, LastOf

\* The end of the sequence, or its error, is the end of the source.
LEMMA EndEnds ==
  ASSUME IInv, YieldError \/ SequenceEnds
  PROVE  Contract!SourceEnds
<1>1. /\ at = "loop" /\ at' # "returned" /\ why' \in {"error", "end"} /\ short' \in BOOLEAN
      /\ UNCHANGED <<taken, formed, delivered, stopped, final>>
  BY DEF YieldError, SequenceEnds, Flush, IInv, Flags
<1>2. why \notin {"error", "end"}
  BY <1>1 DEF IInv, Errors
<1> QED
  BY <1>1, <1>2 DEF Contract!SourceEnds, Contract!Running, LastOf

\* Forming a batch is cutting one.
LEMMA RequestCuts ==
  ASSUME IInv, Request
  PROVE  Contract!Cut
<1>1. /\ at = "request" /\ at' = "result" /\ formed' = Append(formed, batch)
      /\ UNCHANGED <<taken, why, short, delivered, stopped, final>>
  BY DEF Request
<1>2. [k \in DOMAIN formed |-> Len(formed[k])]'
        = Append([k \in DOMAIN formed |-> Len(formed[k])], Len(batch))
  <2> DEFINE sizes == [k \in DOMAIN formed |-> Len(formed[k])]
  <2>1. /\ formed \in Seq(Seq(Nat)) /\ Len(batch) \in Nat
        /\ DOMAIN formed' = 1..(Len(formed) + 1) /\ DOMAIN formed = 1..Len(formed)
    BY Formed DEF IInv, Types
  <2>2. sizes \in Seq(Nat) /\ Len(sizes) = Len(formed)
    BY <2>1
  <2>3. Append(sizes, Len(batch)) = [k \in 1..(Len(sizes) + 1) |->
                                       IF k <= Len(sizes) THEN sizes[k] ELSE Len(batch)]
    BY <2>1, <2>2
  <2>4. [k \in DOMAIN formed |-> Len(formed[k])]'
          = [k \in 1..(Len(formed) + 1) |-> IF k <= Len(formed) THEN sizes[k] ELSE Len(batch)]
    BY <2>1, Formed
  <2> QED
    BY <2>2, <2>3, <2>4
<1>3. \E n \in 1..BatchSize :
        /\ LastOf(Len(formed)) + n <= taken
        /\ [k \in DOMAIN formed |-> Len(formed[k])]'
             = Append([k \in DOMAIN formed |-> Len(formed[k])], n)
        /\ LastOf(Len(formed))' = LastOf(Len(formed)) + n
  <2>1. LastOf(Len(formed)) + Len(batch) <= taken
    BY <1>1, SeqAssumption DEF IInv, Cutting, Types
  <2> QED
    BY <1>2, <2>1, Formed
<1> QED
  BY <1>1, <1>3 DEF Contract!Cut, Contract!Running

\* Starting the callback is the delivery.
LEMMA StartDelivers ==
  ASSUME IInv, CallbackStarts
  PROVE  Contract!Deliver
<1>1. /\ at = "result" /\ at' = "callback" /\ ~stopped
      /\ delivered' = Append(delivered, [seq |-> sequence, ok |-> result])
      /\ UNCHANGED <<taken, why, short, formed, stopped, final>>
  BY DEF CallbackStarts, IInv, Errors
<1>2. Len([k \in DOMAIN formed |-> Len(formed[k])]) = Len(formed)
  BY DEF IInv, Types
<1>3. sequence \in 0..(Len(formed) - 1) /\ result \in BOOLEAN
  BY <1>1 DEF IInv, Types, Flags, Numbering
<1>4. ~\E i \in DOMAIN delivered : delivered[i].seq = sequence
  BY <1>1 DEF IInv, Types, Numbering
<1> QED
  BY <1>1, <1>2, <1>3, <1>4
  DEF Contract!Deliver, Contract!Running, Contract!DeliveredBatch, LastOf

\* A callback that fails ends delivery; one that does not changes nothing.
LEMMA CallbackFails ==
  ASSUME IInv, CallbackReturns
  PROVE  Contract!CallbackFails \/ UNCHANGED Contract!vars
<1>1. /\ at = "callback" /\ at' # "returned"
      /\ UNCHANGED <<taken, why, short, formed, delivered, final>>
      /\ stopped' = stopped \/ stopped' = TRUE
  BY DEF CallbackReturns
<1>2. ~stopped /\ delivered # <<>>
  BY <1>1 DEF IInv, Types, Numbering, Errors
<1> QED
  BY <1>1, <1>2 DEF Contract!CallbackFails, Contract!Running, Contract!vars, LastOf

\* A return for the context is one the contract allows.
LEMMA ContextAnswers ==
  ASSUME IInv, ContextReturns \/ (ChecksEnd /\ ctxDone)
  PROVE  Contract!Return
<1>1. /\ at # "returned" /\ at' = "returned" /\ final' = {"context"}
      /\ UNCHANGED <<taken, why, short, formed, delivered, stopped>>
  BY DEF ContextReturns, ChecksEnd, ContextErr, Returns
<1> QED
  BY <1>1 DEF Contract!Return, Contract!Running, Contract!Errors, LastOf

\* The last flush is no step of the contract.
LEMMA FlushStutters ==
  ASSUME IInv, ChecksEnd, ~ctxDone
  PROVE  UNCHANGED Contract!vars
<1>1. /\ at = "ended" /\ at' # "returned" /\ why = "end" /\ why' = "end"
      /\ UNCHANGED <<taken, short, formed, delivered, stopped>>
  BY DEF ChecksEnd, ContextErr, Flush, IInv, Errors
<1> QED
  BY <1>1 DEF Contract!vars, LastOf

\* The errors returned at the end are justified by what was delivered.
LEMMA EndAnswers ==
  ASSUME IInv, SeqReturns
  PROVE  Contract!Return
<1>1. /\ at = "returning" /\ at' = "returned"
      /\ final' = first \union (IF why = "error" /\ ~stopped THEN {"producer"} ELSE {})
      /\ UNCHANGED <<taken, why, short, formed, delivered, stopped>>
  BY DEF SeqReturns, Returns
<1>2. DOMAIN delivered = 1..Len(delivered)
  BY DEF IInv, Types
<1>3. /\ stopped => first = {"callback"}
      /\ ~stopped => first = IF Contract!SomeFailed THEN {"batch"} ELSE {}
      /\ ~stopped => why \in {"error", "end"}
      /\ ~short
  BY <1>1, <1>2 DEF IInv, Errors, Shortness, Contract!SomeFailed
<1>4. Len([k \in DOMAIN formed |-> Len(formed[k])]) = Len(formed)
  BY DEF IInv, Types
<1>5. ~stopped => Contract!AllDelivered
  <2>1. LastOf(Len(formed)) = taken
    BY <1>1 DEF IInv, Cutting
  <2>2. ASSUME NEW k \in 0..(Len(formed) - 1) PROVE Contract!DeliveredBatch(k)
    <3>1. k + 1 \in DOMAIN delivered
      BY <1>1, <1>2 DEF IInv, Types, Numbering
    <3>2. delivered[k + 1].seq = k
      BY <1>2, <3>1 DEF IInv, Numbering
    <3> QED
      BY <3>1, <3>2 DEF Contract!DeliveredBatch
  <2> QED
    BY <1>3, <1>4, <2>1, <2>2 DEF Contract!AllDelivered
<1>6. final' \in SUBSET Contract!Errors
  BY <1>1, <1>3 DEF Contract!Errors
<1>7. /\ "callback" \in final' <=> stopped
      /\ "producer" \in final' <=> why = "error" /\ ~stopped
      /\ "batch" \in final' <=> ~stopped /\ Contract!SomeFailed
  BY <1>1, <1>3
<1> QED
  BY <1>1, <1>3, <1>5, <1>6, <1>7 DEF Contract!Return, Contract!Running, LastOf

\* The synchronous path keeps the delivery contract, wherever the context ends
\* and whichever batch, callback or sequence fails.
THEOREM DeliveryContractAlways == Spec => DeliveryContract
<1>1. IInv /\ [Next]_vars => [Contract!Next]_(Contract!vars)
  <2> SUFFICES ASSUME IInv, [Next]_vars PROVE [Contract!Next]_(Contract!vars)
    OBVIOUS
  <2>1. CASE ContextEnds \/ UNCHANGED vars
    BY <2>1 DEF ContextEnds, vars, Contract!vars, LastOf
  <2>2. CASE CallbackReturns
    BY <2>2, CallbackFails DEF Contract!Next
  <2>3. CASE YieldOp \/ YieldError \/ SequenceEnds
    BY <2>3, YieldAccepts, EndEnds DEF Contract!Next
  <2>4. CASE Request \/ CallbackStarts
    BY <2>4, RequestCuts, StartDelivers DEF Contract!Next
  <2>5. CASE ContextReturns \/ ChecksEnd \/ SeqReturns
    BY <2>5, ContextAnswers, FlushStutters, EndAnswers DEF Contract!Next
  <2> QED
    BY <2>1, <2>2, <2>3, <2>4, <2>5 DEF Next
<1> QED
  BY <1>1, ContractInit, Invariance, PTL DEF Spec, DeliveryContract, Contract!Spec
=============================================================================
