--------------------------- MODULE BulkRetryProofs ---------------------------
(***************************************************************************)
(* Proofs about BulkRetry, for a batch of any size and any number of       *)
(* retries.                                                                *)
(*                                                                         *)
(* The properties are about the moments a call returns; what makes them    *)
(* inductive is what holds of each operation in between: one that is not   *)
(* in the current attempt is settled, its item and the server agree; one   *)
(* that is has not been applied until the server has handled the attempt,  *)
(* and from then on exactly if its answer says so.                         *)
(***************************************************************************)
EXTENDS BulkRetry, SequenceTheorems, TLAPS

\* Where a call is while it has items and can still change them.
Working == at \in {"send", "flight", "wait"}

\* Before the operations are encoded, and if that fails, nothing has happened.
Untouched ==
  /\ err # "running" <=> at = "returned"
  /\ at = "prepare" \/ err = "invalid" =>
       /\ items = <<>> /\ pending = <<>> /\ request = {} /\ answer = <<>>
       /\ \A i \in Ops : applied[i] = 0 /\ hooks[i] = 0
  /\ at # "prepare" /\ err # "invalid" => items \in [Ops -> Items]

\* A request still on its way is the whole attempt, and nothing of it has been
\* applied or decoded, also if its call has returned.
Outstanding ==
  request # {} =>
    /\ at = "flight" \/ err = "request"
    /\ answer = <<>> /\ request = Sent
    /\ \A i \in Sent : applied[i] = 0 /\ items[i] \in {Unknown, "transient"}

\* The operations of the attempt under way.
Attempt ==
  /\ Working => \A i \in Sent : items[i] \in {Unknown, "transient"}
  /\ at \in {"send", "wait"} => request = {} /\ \A i \in Sent : applied[i] = 0
  /\ at = "wait" => attempt < MaxRetries /\ \A i \in Sent : items[i] = "transient"
  /\ at = "flight" /\ answer = <<>> => \A i \in Sent : applied[i] = 0
  /\ at = "flight" /\ answer # <<>> =>
       /\ DOMAIN answer = DOMAIN pending
       /\ \A j \in DOMAIN pending :
            applied[pending[j]] = (IF answer[j] = "applied" THEN 1 ELSE 0)

\* Item and server agree about operation i.
Agree(i) ==
  items[i] # Unknown /\ applied[i] = (IF items[i] \in Acknowledged THEN 1 ELSE 0)

\* The operations no longer sent are settled.
Settled == Working => \A i \in Ops \ Sent : Agree(i) /\ items[i] # "transient"

IInv ==
  /\ TypeOK /\ Untouched /\ Outstanding /\ Attempt /\ Settled
  /\ HookOncePerWrite /\ ErrorMatchesServer /\ AppliedAtMostOnce
-----------------------------------------------------------------------------
\* No operation is in an attempt twice.
LEMMA Distinct ==
  ASSUME NEW s \in Seq(Ops), InOrder(s), NEW j \in DOMAIN s, NEW k \in DOMAIN s, s[j] = s[k]
  PROVE  j = k
<1>1. j \in Int /\ k \in Int /\ s[j] \in Int /\ s[k] \in Int
  BY RetryAssumption DEF Ops
<1> QED
  BY <1>1 DEF InOrder

\* What Store does to each operation: the first n of the attempt get the item
\* made of their answer, and their hook if the server applied them.
LEMMA Stores ==
  ASSUME pending \in Seq(Ops), InOrder(pending),
         items \in [Ops -> Items], hooks \in [Ops -> Nat],
         answer \in Seq(Answers), DOMAIN answer = DOMAIN pending,
         NEW n \in 0..Len(pending), NEW hook \in [DOMAIN pending -> HookResults],
         Store(n, hook)
  PROVE  /\ items' \in [Ops -> Items] /\ hooks' \in [Ops -> Nat]
         /\ \A i \in Ops : (\A j \in 1..n : pending[j] # i) =>
              items'[i] = items[i] /\ hooks'[i] = hooks[i]
         /\ \A j \in 1..n :
              /\ items'[pending[j]] = Decode(j, hook)
              /\ hooks'[pending[j]] =
                   hooks[pending[j]] + (IF answer[j] = "applied" THEN 1 ELSE 0)
<1>1. 1..n \subseteq DOMAIN pending
  OBVIOUS
<1>2. \A j \in DOMAIN pending : Decode(j, hook) \in Items
  <2> TAKE j \in DOMAIN pending
  <2>1. answer[j] \in Answers /\ hook[j] \in HookResults
    OBVIOUS
  <2> QED
    BY <2>1 DEF Decode, Answers, HookResults, Items, Acknowledged, Committed
<1>3. ASSUME NEW j \in 1..n
      PROVE  (CHOOSE k \in 1..n : pending[k] = pending[j]) = j
  <2>1. \A k \in 1..n : pending[k] = pending[j] => k = j
    BY <1>1, Distinct
  <2> QED
    BY <2>1
<1>4. \A i \in Ops : (\E j \in 1..n : pending[j] = i) =>
        (CHOOSE j \in 1..n : pending[j] = i) \in DOMAIN pending
  BY <1>1
<1>5. items' \in [Ops -> Items]
  <2>1. \A i \in Ops : items'[i] \in Items
    BY <1>2, <1>4 DEF Store
  <2> QED
    BY <2>1 DEF Store
<1>6. hooks' \in [Ops -> Nat]
  BY DEF Store
<1>7. \A i \in Ops : (\A j \in 1..n : pending[j] # i) =>
        items'[i] = items[i] /\ hooks'[i] = hooks[i]
  BY DEF Store
<1>8. ASSUME NEW j \in 1..n
      PROVE  /\ items'[pending[j]] = Decode(j, hook)
             /\ hooks'[pending[j]] =
                  hooks[pending[j]] + (IF answer[j] = "applied" THEN 1 ELSE 0)
  <2>1. pending[j] \in Ops
    BY <1>1
  <2>2. items'[pending[j]] = Decode(j, hook)
    BY <1>3, <2>1 DEF Store
  <2>3. (\E k \in 1..n : pending[k] = pending[j] /\ answer[k] = "applied")
        <=> answer[j] = "applied"
    BY <1>1, Distinct
  <2> QED
    BY <2>1, <2>2, <2>3 DEF Store
<1> QED
  BY <1>5, <1>6, <1>7, <1>8
-----------------------------------------------------------------------------
\* The invariant holds of a call that has not started.
LEMMA InitIInv == Init => IInv
<1> SUFFICES ASSUME Init PROVE IInv
  OBVIOUS
<1>1. TypeOK
  <2>1. pending \in Seq(Ops) /\ InOrder(pending) /\ answer \in Seq(Answers)
    BY DEF Init, InOrder
  <2>2. applied \in [Ops -> Nat] /\ hooks \in [Ops -> Nat]
    BY DEF Init
  <2>3. at = "prepare" /\ err = "running" /\ request \subseteq Ops
    BY DEF Init
  <2>5. attempt \in 0..MaxRetries
    BY RetryAssumption DEF Init
  <2>6. ctxDone \in BOOLEAN
    BY DEF Init
  <2>4. items \in [Ops -> Items] \union {<<>>}
    BY DEF Init
  <2> QED
    BY <2>1, <2>2, <2>3, <2>4, <2>5, <2>6 DEF TypeOK
<1>2. Untouched /\ Outstanding /\ Attempt /\ Settled
  BY DEF Init, Untouched, Outstanding, Attempt, Settled, Working
<1>3. HookOncePerWrite /\ ErrorMatchesServer /\ AppliedAtMostOnce
  BY DEF Init, HookOncePerWrite, ErrorMatchesServer, AppliedAtMostOnce
<1> QED
  BY <1>1, <1>2, <1>3 DEF IInv

\* The end of the context changes no item and no request.
LEMMA ContextStep ==
  ASSUME IInv, ContextEnds \/ UNCHANGED vars
  PROVE  IInv'
<1> USE DEF IInv
<1>1. /\ ctxDone' \in {ctxDone, TRUE}
      /\ UNCHANGED <<at, attempt, pending, items, err, request, answer, applied, hooks>>
  BY DEF ContextEnds, vars
<1>2. Sent' = Sent
  BY <1>1 DEF Sent
<1>3. TypeOK'
  BY <1>1 DEF TypeOK
<1>4. Untouched' /\ Outstanding' /\ Attempt' /\ Settled'
  BY <1>1, <1>2 DEF Untouched, Outstanding, Attempt, Settled, Agree, Working
<1>5. HookOncePerWrite' /\ ErrorMatchesServer' /\ AppliedAtMostOnce'
  BY <1>1 DEF HookOncePerWrite, ErrorMatchesServer, AppliedAtMostOnce
<1> QED
  BY <1>3, <1>4, <1>5

\* Encoding the batch settles nothing, whether or not it fails.
LEMMA PrepareStep ==
  ASSUME IInv, Prepare
  PROVE  IInv'
<1> USE DEF IInv, Return
<1>1. /\ items = <<>> /\ pending = <<>> /\ request = {} /\ answer = <<>> /\ err = "running"
      /\ \A i \in Ops : applied[i] = 0 /\ hooks[i] = 0
  BY DEF Prepare, Untouched
<1>2. UNCHANGED <<ctxDone, attempt, request, answer, applied, hooks>>
  BY DEF Prepare
<1>3. CASE at' = "returned"
  <2>1. err' = "invalid" /\ UNCHANGED <<pending, items>>
    BY <1>3 DEF Prepare
  <2> QED
    BY <1>1, <1>2, <1>3, <2>1
    DEF TypeOK, Untouched, Outstanding, Attempt, Settled, Working, HookOncePerWrite,
        ErrorMatchesServer, AppliedAtMostOnce
<1>4. CASE at' = "send"
  <2>1. /\ pending' = [i \in Ops |-> i] /\ items' = [i \in Ops |-> Unknown]
        /\ err' = "running"
    BY <1>1, <1>4 DEF Prepare
  <2>2. pending' \in Seq(Ops) /\ InOrder(pending)'
    <3>1. pending' \in [1..NumOps -> Ops]
      BY <2>1 DEF Ops
    <3>2. NumOps \in Nat
      BY RetryAssumption
    <3> QED
      BY <2>1, <3>1, <3>2 DEF InOrder, Ops
  <2>3. Sent' = Ops
    BY <2>1 DEF Sent, Indexes, Ops
  <2>4. items' \in [Ops -> Items]
    BY <2>1 DEF Items
  <2>5. TypeOK'
    BY <1>1, <1>2, <1>4, <2>1, <2>2, <2>4 DEF TypeOK
  <2>6. Untouched' /\ Outstanding' /\ Settled'
    BY <1>1, <1>2, <1>4, <2>1, <2>3, <2>4 DEF Untouched, Outstanding, Settled
  <2>7. Attempt'
    BY <1>1, <1>2, <1>4, <2>1, <2>3 DEF Attempt
  <2>8. HookOncePerWrite'
    BY <1>1, <1>2, <2>1 DEF HookOncePerWrite, Unknown, Acknowledged, Committed
  <2>9. ErrorMatchesServer' /\ AppliedAtMostOnce'
    BY <1>1, <1>2, <2>1 DEF ErrorMatchesServer, AppliedAtMostOnce
  <2> QED
    BY <2>5, <2>6, <2>7, <2>8, <2>9
<1> QED
  BY <1>3, <1>4 DEF Prepare

\* A request carries exactly the positions that are still outstanding.
LEMMA SendStep ==
  ASSUME IInv, Send
  PROVE  IInv'
<1> USE DEF IInv
<1>1. /\ at = "send" /\ at' = "flight" /\ request' = Sent /\ answer' = <<>>
      /\ UNCHANGED <<ctxDone, attempt, pending, items, err, applied, hooks>>
  BY DEF Send
<1>2. Sent' = Sent /\ Sent \subseteq Ops
  BY <1>1 DEF TypeOK, Sent, Indexes
<1>3. \A i \in Sent : applied[i] = 0 /\ items[i] \in {Unknown, "transient"}
  BY <1>1 DEF Attempt, Working
<1>4. TypeOK'
  BY <1>1, <1>2 DEF TypeOK
<1>5. Untouched' /\ Outstanding' /\ Attempt' /\ Settled'
  BY <1>1, <1>2, <1>3
  DEF Untouched, Outstanding, Attempt, Settled, Agree, Working
<1>6. HookOncePerWrite' /\ ErrorMatchesServer' /\ AppliedAtMostOnce'
  BY <1>1 DEF HookOncePerWrite, ErrorMatchesServer, AppliedAtMostOnce
<1> QED
  BY <1>4, <1>5, <1>6

\* The server handles an attempt at most once, also one whose call is over.
LEMMA ServerStep ==
  ASSUME IInv, ServerProcesses
  PROVE  IInv'
<1> USE DEF IInv
<1>1. PICK verdict \in [DOMAIN pending -> Answers] :
        /\ answer' = verdict
        /\ applied' = [i \in Ops |->
             IF \E j \in DOMAIN pending : pending[j] = i /\ verdict[j] = "applied"
             THEN applied[i] + 1 ELSE applied[i]]
  BY DEF ServerProcesses
<1>2. /\ request # {} /\ request' = {}
      /\ UNCHANGED <<at, ctxDone, attempt, pending, items, err, hooks>>
  BY DEF ServerProcesses
<1>3. /\ at = "flight" \/ err = "request"
      /\ \A i \in Sent : applied[i] = 0 /\ items[i] \in {Unknown, "transient"}
  BY <1>2 DEF Outstanding
<1>4. Sent' = Sent /\ \A j \in DOMAIN pending : pending[j] \in Ops /\ pending[j] \in Sent
  BY <1>2 DEF TypeOK, Sent, Indexes
<1>5. \A i \in Ops \ Sent : applied'[i] = applied[i]
  BY <1>1 DEF Sent, Indexes
<1>6. \A j \in DOMAIN pending :
        applied'[pending[j]] = (IF verdict[j] = "applied" THEN 1 ELSE 0)
  <2> TAKE j \in DOMAIN pending
  <2>1. (\E k \in DOMAIN pending : pending[k] = pending[j] /\ verdict[k] = "applied")
        <=> verdict[j] = "applied"
    BY Distinct DEF TypeOK
  <2> QED
    BY <1>1, <1>3, <1>4, <2>1
<1>7. \A i \in Sent : applied'[i] \in {0, 1} /\ items[i] \notin Acknowledged
  <2>1. \A i \in Sent : applied'[i] \in {0, 1}
    BY <1>6 DEF Sent, Indexes
  <2> QED
    BY <1>3, <2>1 DEF Acknowledged, Committed, Unknown
<1>8. TypeOK'
  <2>1. answer' \in Seq(Answers)
    <3>1. DOMAIN pending = 1..Len(pending) /\ Len(pending) \in Nat
      BY DEF TypeOK
    <3> QED
      BY <1>1, <3>1
  <2>2. applied' \in [Ops -> Nat]
    BY <1>1 DEF TypeOK
  <2> QED
    BY <1>2, <2>1, <2>2 DEF TypeOK
<1>9. Untouched' /\ Outstanding'
  BY <1>2, <1>3 DEF Untouched, Outstanding
<1>10. Attempt'
  <2>1. at \notin {"send", "wait"}
    BY <1>2, <1>3 DEF Untouched, Attempt
  <2>2. answer' = <<>> => Sent = {}
    BY <1>1 DEF Sent, Indexes
  <2>3. DOMAIN answer' = DOMAIN pending
    BY <1>1
  <2>4. \A j \in DOMAIN pending :
          applied'[pending[j]] = (IF answer'[j] = "applied" THEN 1 ELSE 0)
    BY <1>1, <1>6
  <2> QED
    BY <1>2, <1>3, <1>4, <2>1, <2>2, <2>3, <2>4 DEF Attempt, Working
<1>11. Settled'
  BY <1>2, <1>4, <1>5 DEF Settled, Working, Agree
<1>12. HookOncePerWrite'
  <2>1. items # <<>> => items \in [Ops -> Items]
    BY DEF TypeOK
  <2> QED
    BY <1>2, <1>5, <1>7 DEF HookOncePerWrite
<1>13. ErrorMatchesServer' /\ AppliedAtMostOnce'
  <2>1. err \in {"running", "request"}
    BY <1>3 DEF Untouched
  <2> QED
    BY <1>2, <1>5, <1>7, <2>1 DEF ErrorMatchesServer, AppliedAtMostOnce
<1> QED
  BY <1>8, <1>9, <1>10, <1>11, <1>12, <1>13

\* An attempt that is lost or fails leaves its items as they were.
LEMMA LossStep ==
  ASSUME IInv, RequestLost \/ RequestFails
  PROVE  IInv'
<1> USE DEF IInv
<1>1. /\ request' \in {request, {}} /\ at' \in {at, "returned"}
      /\ UNCHANGED <<ctxDone, attempt, pending, items, answer, applied, hooks>>
      /\ \/ at' = at /\ err' = err
         \/ at = "flight" /\ at' = "returned" /\ err' = "request"
  BY DEF RequestLost, RequestFails, Return
<1>2. Sent' = Sent
  BY <1>1 DEF Sent, Indexes
<1>3. TypeOK' /\ Untouched' /\ Outstanding' /\ Settled'
  BY <1>1, <1>2
  DEF TypeOK, Untouched, Outstanding, Settled, Agree, Working
<1>4. Attempt'
  BY <1>1, <1>2 DEF Attempt, Working, Outstanding
<1>5. HookOncePerWrite' /\ ErrorMatchesServer' /\ AppliedAtMostOnce'
  BY <1>1 DEF HookOncePerWrite, ErrorMatchesServer, AppliedAtMostOnce
<1> QED
  BY <1>3, <1>4, <1>5

\* Only what was rejected and not applied is put into the next attempt.
LEMMA WaitStep ==
  ASSUME IInv, Wait
  PROVE  IInv'
<1> USE DEF IInv
<1>1. /\ at = "wait"
      /\ UNCHANGED <<ctxDone, pending, items, request, answer, applied, hooks>>
      /\ \/ at' = "returned" /\ err' = "context" /\ attempt' = attempt
         \/ at' = "send" /\ attempt' = attempt + 1 /\ err' = err
  BY DEF Wait, Return
<1>2. Sent' = Sent
  BY <1>1 DEF Sent, Indexes
<1>3. request = {} /\ attempt < MaxRetries /\ err = "running"
      /\ \A i \in Sent : applied[i] = 0 /\ items[i] = "transient"
  BY <1>1 DEF Attempt, Untouched
<1>4. TypeOK'
  BY <1>1, <1>3, RetryAssumption DEF TypeOK
<1>5. Untouched' /\ Outstanding' /\ Attempt' /\ Settled'
  BY <1>1, <1>2, <1>3 DEF Untouched, Outstanding, Attempt, Settled, Agree, Working
<1>6. HookOncePerWrite' /\ AppliedAtMostOnce'
  BY <1>1 DEF HookOncePerWrite, AppliedAtMostOnce
<1>7. ErrorMatchesServer'
  BY <1>1, <1>3
  DEF ErrorMatchesServer, Settled, Working, Agree, Acknowledged, Committed, Unknown
<1> QED
  BY <1>4, <1>5, <1>6, <1>7
-----------------------------------------------------------------------------
(* The answer to an attempt.                                               *)

\* Whatever part of an answer is stored, every item stored agrees with the
\* server, and the hooks with the items.
LEMMA StoredAgree ==
  ASSUME IInv, at = "flight", answer # <<>>, UNCHANGED <<answer, applied>>,
         NEW n \in 0..Len(pending), NEW hook \in [DOMAIN pending -> HookResults],
         Store(n, hook)
  PROVE  /\ items' \in [Ops -> Items] /\ hooks' \in [Ops -> Nat]
         /\ \A i \in Ops : (\A j \in 1..n : pending[j] # i) => items'[i] = items[i]
         /\ \A i \in Ops : (\E j \in 1..n : pending[j] = i) => Agree(i)'
         /\ HookOncePerWrite'
<1> USE DEF IInv
<1>1. /\ DOMAIN answer = DOMAIN pending /\ 1..n \subseteq DOMAIN pending
      /\ \A j \in DOMAIN pending :
           /\ pending[j] \in Ops /\ items[pending[j]] \in {Unknown, "transient"}
           /\ applied[pending[j]] = (IF answer[j] = "applied" THEN 1 ELSE 0)
           /\ answer[j] \in Answers /\ hook[j] \in HookResults
  <2>1. DOMAIN answer = DOMAIN pending /\ 1..n \subseteq DOMAIN pending
    BY DEF Attempt, TypeOK
  <2>2. \A j \in DOMAIN pending : pending[j] \in Ops /\ pending[j] \in Sent
    BY DEF TypeOK, Sent, Indexes
  <2>3. \A j \in DOMAIN pending : answer[j] \in Answers /\ hook[j] \in HookResults
    BY <2>1 DEF TypeOK
  <2> QED
    BY <2>1, <2>2, <2>3 DEF Attempt, Working
<1>2. items \in [Ops -> Items]
  BY DEF Untouched
<1>3. /\ items' \in [Ops -> Items] /\ hooks' \in [Ops -> Nat]
      /\ \A i \in Ops : (\A j \in 1..n : pending[j] # i) =>
           items'[i] = items[i] /\ hooks'[i] = hooks[i]
      /\ \A j \in 1..n :
           /\ items'[pending[j]] = Decode(j, hook)
           /\ hooks'[pending[j]] =
                hooks[pending[j]] + (IF answer[j] = "applied" THEN 1 ELSE 0)
  BY <1>1, <1>2, Stores DEF TypeOK
<1>4. \A j \in 1..n : /\ Decode(j, hook) # Unknown
                      /\ Decode(j, hook) \in Acknowledged <=> answer[j] = "applied"
  BY <1>1 DEF Decode, Answers, HookResults, Acknowledged, Committed, Unknown
<1>5. \A i \in Ops : (\E j \in 1..n : pending[j] = i) => Agree(i)'
  BY <1>1, <1>3, <1>4 DEF Agree
<1>6. items # <<>>
  <2>1. 1 \in Ops
    BY RetryAssumption DEF Ops
  <2> QED
    BY <1>2, <2>1
<1>7. HookOncePerWrite'
  <2> SUFFICES ASSUME NEW i \in Ops
               PROVE  /\ hooks'[i] = (IF items'[i] \in Acknowledged THEN 1 ELSE 0)
                      /\ items'[i] \in Acknowledged => applied'[i] = 1
    BY DEF HookOncePerWrite
  <2>1. CASE \A j \in 1..n : pending[j] # i
    BY <1>3, <1>6, <2>1 DEF HookOncePerWrite
  <2>2. ASSUME NEW j \in 1..n, pending[j] = i
        PROVE  /\ hooks'[i] = (IF items'[i] \in Acknowledged THEN 1 ELSE 0)
               /\ items'[i] \in Acknowledged => applied'[i] = 1
    <3>1. items[i] \notin Acknowledged
      BY <1>1, <2>2 DEF Unknown, Acknowledged, Committed
    <3>2. hooks[i] = 0
      BY <1>6, <3>1 DEF HookOncePerWrite
    <3>3. items'[i] \in Acknowledged <=> answer[j] = "applied"
      BY <1>3, <1>4, <2>2
    <3>4. hooks'[i] = (IF answer[j] = "applied" THEN 1 ELSE 0)
      BY <1>3, <2>2, <3>2, SMTT(30)
    <3>5. applied'[i] = (IF answer[j] = "applied" THEN 1 ELSE 0)
      BY <1>1, <2>2
    <3> QED
      BY <3>3, <3>4, <3>5
  <2> QED
    BY <2>1, <2>2
<1> QED
  BY <1>3, <1>5, <1>7

\* An answer that cannot be decoded settles the items before the bad one.
LEMMA MalformedStep ==
  ASSUME IInv, AnswerMalformed
  PROVE  IInv'
<1> USE DEF IInv
<1>1. /\ at = "flight" /\ answer # <<>> /\ at' = "returned" /\ err' = "request"
      /\ UNCHANGED <<ctxDone, attempt, pending, request, answer, applied>>
  BY DEF AnswerMalformed, Return
<1>2. PICK n \in 0..(Len(pending) - 1), hook \in [DOMAIN pending -> HookResults] :
        Store(n, hook)
  BY DEF AnswerMalformed
<1>3. n \in 0..Len(pending)
  BY DEF TypeOK
<1>4. items' \in [Ops -> Items] /\ hooks' \in [Ops -> Nat] /\ HookOncePerWrite'
  BY <1>1, <1>2, <1>3, StoredAgree
<1>5. request = {}
  BY <1>1 DEF Outstanding
<1>6. TypeOK'
  BY <1>1, <1>4 DEF TypeOK
<1>7. Untouched' /\ Outstanding' /\ Attempt' /\ Settled'
  BY <1>1, <1>4, <1>5 DEF Untouched, Outstanding, Attempt, Settled, Working
<1>8. ErrorMatchesServer' /\ AppliedAtMostOnce'
  BY <1>1 DEF ErrorMatchesServer, AppliedAtMostOnce
<1> QED
  BY <1>4, <1>6, <1>7, <1>8

\* An answer settles the items it accepts or rejects for good.
LEMMA ReceivedStep ==
  ASSUME IInv, AnswerReceived
  PROVE  IInv'
<1> USE DEF IInv
<1>1. /\ at = "flight" /\ answer # <<>>
      /\ UNCHANGED <<ctxDone, attempt, request, answer, applied>>
  BY DEF AnswerReceived
<1>2. PICK hook \in [DOMAIN pending -> HookResults] : Store(Len(pending), hook)
  BY DEF AnswerReceived
<1> DEFINE retry == {i \in Sent : Retry(items'[i])}
<1>3. \/ /\ retry # {} /\ at' = "wait" /\ err' = err
         /\ \E n \in 1..Len(pending) : \E indexes \in [1..n -> Ops] :
              InOrder(indexes) /\ Indexes(indexes) = retry /\ pending' = indexes
      \/ /\ retry = {} /\ at' = "returned" /\ pending' = pending
         /\ err' = IF \A i \in Ops : items'[i] = "ok" THEN "nil" ELSE "bulk"
  BY DEF AnswerReceived, Return, Judged
<1>4. /\ items' \in [Ops -> Items] /\ hooks' \in [Ops -> Nat]
      /\ \A i \in Ops \ Sent : items'[i] = items[i]
      /\ \A i \in Sent : Agree(i)'
      /\ HookOncePerWrite'
  <2> DEFINE n == Len(pending)
  <2>1. n \in 0..Len(pending) /\ DOMAIN pending = 1..n
    BY DEF TypeOK
  <2>2. /\ items' \in [Ops -> Items] /\ hooks' \in [Ops -> Nat]
        /\ \A i \in Ops : (\A j \in 1..n : pending[j] # i) => items'[i] = items[i]
        /\ \A i \in Ops : (\E j \in 1..n : pending[j] = i) => Agree(i)'
        /\ HookOncePerWrite'
    BY <1>1, <1>2, <2>1, StoredAgree
  <2>3. \A i \in Sent : i \in Ops /\ \E j \in 1..n : pending[j] = i
    BY <2>1 DEF Sent, Indexes, TypeOK
  <2>4. \A i \in Ops \ Sent, j \in 1..n : pending[j] # i
    BY <2>1 DEF Sent, Indexes
  <2> QED
    BY <2>2, <2>3, <2>4
<1>5. request = {}
  BY <1>1 DEF Outstanding
<1>6. \A i \in Sent : Agree(i)' /\ (items'[i] = "transient" => i \in retry \/ attempt = MaxRetries)
  BY <1>4, RetryAssumption DEF Retry, Committed, TypeOK
<1>7. \A i \in retry : items'[i] = "transient" /\ attempt < MaxRetries
  BY DEF Retry, Committed
<1>8. \A i \in Ops \ Sent : Agree(i)' /\ items'[i] # "transient"
  BY <1>1, <1>4 DEF Settled, Working, Agree
<1>9. AppliedAtMostOnce'
  BY <1>1 DEF AppliedAtMostOnce
<1>10. CASE retry # {}
  <2>1. at' = "wait" /\ err' = "running"
    BY <1>1, <1>3, <1>10 DEF Untouched
  <2>2. PICK n \in 1..Len(pending) : \E indexes \in [1..n -> Ops] :
          InOrder(indexes) /\ Indexes(indexes) = retry /\ pending' = indexes
    BY <1>3, <1>10
  <2>3. Sent' = retry /\ retry \subseteq Ops
    BY <2>2 DEF Sent, Indexes, TypeOK
  <2>4. pending' \in Seq(Ops) /\ InOrder(pending)'
    BY <2>2 DEF InOrder, TypeOK
  <2>5. TypeOK'
    BY <1>1, <1>4, <2>1, <2>4 DEF TypeOK
  <2>6. Untouched' /\ Outstanding'
    BY <1>1, <1>4, <1>5, <2>1 DEF Untouched, Outstanding
  <2>7. Attempt'
    <3>1. attempt < MaxRetries
      BY <1>7, <1>10
    <3>2. \A i \in retry : applied[i] = 0
      BY <1>1, <1>6, <1>7 DEF Agree, Acknowledged, Committed
    <3> QED
      BY <1>1, <1>5, <1>7, <2>1, <2>3, <3>1, <3>2 DEF Attempt, Working
  <2>8. Settled'
    <3> SUFFICES ASSUME NEW i \in Ops, i \notin retry
                 PROVE  Agree(i)' /\ items'[i] # "transient"
      BY <2>3 DEF Settled
    <3>1. attempt # MaxRetries
      BY <1>7, <1>10 DEF TypeOK
    <3> QED
      BY <1>6, <1>8, <3>1
  <2>9. ErrorMatchesServer'
    BY <2>1 DEF ErrorMatchesServer
  <2> QED
    BY <1>4, <1>9, <2>5, <2>6, <2>7, <2>8, <2>9
<1>11. CASE retry = {}
  <2>1. /\ at' = "returned" /\ pending' = pending
        /\ err' = IF \A i \in Ops : items'[i] = "ok" THEN "nil" ELSE "bulk"
    BY <1>3, <1>11
  <2>2. TypeOK'
    BY <1>1, <1>4, <2>1 DEF TypeOK
  <2>3. Untouched' /\ Outstanding' /\ Attempt' /\ Settled'
    BY <1>1, <1>4, <1>5, <2>1 DEF Untouched, Outstanding, Attempt, Settled, Working
  <2>4. \A i \in Ops : Agree(i)' /\ (items'[i] = "transient" => attempt' = MaxRetries)
    BY <1>1, <1>6, <1>8, <1>11
  <2>5. ErrorMatchesServer'
    BY <2>1, <2>4 DEF ErrorMatchesServer, Agree, Acknowledged
  <2> QED
    BY <1>4, <1>9, <2>2, <2>3, <2>5
<1> QED
  BY <1>10, <1>11
-----------------------------------------------------------------------------
\* Every step keeps the invariant.
LEMMA StepIInv ==
  ASSUME IInv, [Next]_vars
  PROVE  IInv'
  BY ContextStep, PrepareStep, SendStep, ServerStep, LossStep, MalformedStep, ReceivedStep,
     WaitStep DEF Next

\* The invariant holds in every behaviour.
LEMMA Invariance == Spec => []IInv
<1>1. IInv /\ [Next]_vars => IInv'
  BY StepIInv
<1> QED
  BY <1>1, InitIInv, PTL DEF Spec

\* The counters, items and positions stay within their types; in particular the
\* indexes of an attempt stay in the order of the batch.
THEOREM TypeCorrect == Spec => []TypeOK
<1>1. IInv => TypeOK
  BY DEF IInv
<1> QED
  BY <1>1, Invariance, PTL

\* No operation of a batch is applied twice by BulkWithOptions, for any number
\* of attempts and any loss or delay of requests and answers.
THEOREM AppliedAtMostOnceAlways == Spec => []AppliedAtMostOnce
<1>1. IInv => AppliedAtMostOnce
  BY DEF IInv
<1> QED
  BY <1>1, Invariance, PTL

\* AfterWrite runs once for each item the caller sees as written and never else.
THEOREM HookOncePerWriteAlways == Spec => []HookOncePerWrite
<1>1. IInv => HookOncePerWrite
  BY DEF IInv
<1> QED
  BY <1>1, Invariance, PTL

\* A nil error, a BulkError and an error without items are true of the server.
THEOREM ErrorMatchesServerAlways == Spec => []ErrorMatchesServer
<1>1. IInv => ErrorMatchesServer
  BY DEF IInv
<1> QED
  BY <1>1, Invariance, PTL

\* An acknowledged item is neither sent again nor changed.
THEOREM AcknowledgedIsFinalAlways == Spec => AcknowledgedIsFinal
<1>1. ASSUME IInv, [Next]_vars
      PROVE  items # <<>> =>
               \A i \in Ops : items[i] \in Acknowledged =>
                 items'[i] = items[i] /\ i \notin request'
  <2> SUFFICES ASSUME items # <<>>, NEW i \in Ops, items[i] \in Acknowledged
               PROVE  items'[i] = items[i] /\ i \notin request'
    OBVIOUS
  <2>1. items'[i] = items[i] => i \notin request'
    <3>1. IInv'
      BY <1>1, StepIInv
    <3> QED
      BY <3>1 DEF IInv, Outstanding, Acknowledged, Committed, Unknown
  <2>2. at = "flight" => i \notin Sent
    BY <1>1 DEF IInv, Attempt, Working, Acknowledged, Committed, Unknown
  <2>3. ASSUME at = "flight", NEW n \in 0..Len(pending), NEW hook, Store(n, hook)
        PROVE  items'[i] = items[i]
    <3>1. \A j \in 1..n : pending[j] # i
      BY <1>1, <2>2, <2>3 DEF IInv, TypeOK, Sent, Indexes
    <3> QED
      BY <2>3, <3>1 DEF Store
  <2>4. CASE AnswerMalformed
    <3>1. PICK n \in 0..(Len(pending) - 1), hook \in [DOMAIN pending -> HookResults] : Store(n, hook)
      BY <2>4 DEF AnswerMalformed
    <3>2. n \in 0..Len(pending) /\ at = "flight"
      BY <1>1, <2>4 DEF AnswerMalformed, IInv, TypeOK
    <3> QED
      BY <2>1, <2>3, <3>1, <3>2
  <2>5. CASE AnswerReceived
    <3>1. PICK hook \in [DOMAIN pending -> HookResults] : Store(Len(pending), hook)
      BY <2>5 DEF AnswerReceived
    <3>2. Len(pending) \in 0..Len(pending) /\ at = "flight"
      BY <1>1, <2>5 DEF AnswerReceived, IInv, TypeOK
    <3> QED
      BY <2>1, <2>3, <3>1, <3>2
  <2>6. CASE Prepare
    BY <1>1, <2>6 DEF Prepare, IInv, Untouched
  <2>7. CASE UNCHANGED items
    BY <2>1, <2>7
  <2> QED
    BY <1>1, <2>4, <2>5, <2>6, <2>7
    DEF Next, ContextEnds, Send, ServerProcesses, RequestLost, RequestFails, Wait, vars
<1>2. IInv /\ [Next]_vars =>
        [items # <<>> =>
           \A i \in Ops : items[i] \in Acknowledged =>
             items'[i] = items[i] /\ i \notin request']_vars
  BY <1>1
<1> QED
  BY <1>2, Invariance, PTL DEF Spec, AcknowledgedIsFinal
=============================================================================
