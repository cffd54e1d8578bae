--------------------------- MODULE DocumentsProofs ---------------------------
(***************************************************************************)
(* Proofs about Documents, for any number of calls, any number of tries    *)
(* and either version of the server.                                       *)
(*                                                                         *)
(* What a conditional write relies on is an invariant of every copy of a   *)
(* hit, wherever it is: as long as its sequence number is the document's,  *)
(* its value holds all the document does (Known).  The rest relates the    *)
(* requests on the network to the call they were made for (Traced) and     *)
(* what a call has been told to what the server has done (Told).           *)
(***************************************************************************)
EXTENDS Documents, TLAPS

ValueTypes ==
  /\ doc \in Versions
  /\ hit \in [Calls -> Hits \union {None}]
  /\ call \in [Calls -> Options \union {None}]
  /\ net \subseteq Requests

CountTypes ==
  /\ at \in [Calls -> {"idle", "prepared", "flight", "over"}]
  /\ tries \in [Calls -> 0..MaxTries]
  /\ reply \in [Calls -> Nat \union {None}]
  /\ applied \in [Calls -> Nat]
  /\ hooks \in [Calls -> {0, 1}]
  /\ outcome \in [Calls -> {"none", "nil", "committed", "invalid", "hook", "unknown"}
                             \union Refusals]

Types == ValueTypes /\ CountTypes

\* b's value and creation date are those of the document, if its number is.
Current(b) ==
  /\ b.seq \in Nat /\ b.seq <= doc.seq
  /\ doc.live /\ b.seq = doc.seq => doc.edits \subseteq b.edits /\ doc.born = b.born

\* Every hit, and every conditional call and request made from one.
Known ==
  /\ doc.live => doc.born # None
  /\ \A c \in Calls : hit[c] # None => Current(hit[c])
  /\ \A c \in Calls : call[c] # None /\ call[c].conditional => Current(call[c])
  /\ \A r \in net : r.conditional => Current(r) /\ r.op \notin {"create", "insert"}
  /\ \A r \in net : r.born # None

\* A call's requests are alike, and a conditional one that has been applied has
\* left the version behind that its other requests are for.
Traced ==
  /\ \A c \in Calls : at[c] = "idle" => call[c] = None /\ tries[c] = 0
  /\ \A c \in Calls : at[c] \in {"prepared", "flight"} => call[c] # None
  /\ \A c \in Calls : at[c] = "over" /\ outcome[c] = "unknown" => call[c] # None
  /\ \A c \in Calls : tries[c] = 0 => applied[c] = 0
  /\ \A r \in net : r.try < tries[r.call]
  /\ \A r \in net : call[r.call] # None => r.conditional = call[r.call].conditional
  /\ \A r, s \in net : r.call = s.call => r.conditional = s.conditional

Passed ==
  /\ \A r \in net : r.conditional /\ applied[r.call] > 0 => r.seq < doc.seq
  /\ \A c \in Calls : call[c] # None /\ call[c].conditional /\ applied[c] > 0 =>
       call[c].seq < doc.seq

\* Until a call is over nothing has been said of it; an answer in time, and the
\* fate of a request that is its call's only one, are the server's word.
Told ==
  /\ \A c \in Calls : at[c] # "over" => outcome[c] = "none" /\ hooks[c] = 0
  /\ \A c \in Calls : at[c] # "flight" => reply[c] = None
  /\ \A c \in Calls : reply[c] # None =>
       /\ reply[c] \in 200..299 => applied[c] > 0
       /\ tries[c] = 1 => \A r \in net : r.call # c
       /\ tries[c] = 1 /\ reply[c] \notin 200..299 => applied[c] = 0
  /\ \A r \in net : tries[r.call] = 1 => applied[r.call] = 0
  /\ \A r, s \in net : r.call = s.call /\ r.try = s.try => r = s

IInv == Types /\ Known /\ Traced /\ Passed /\ Told /\ OutcomeTellsTruth
-----------------------------------------------------------------------------
\* No way of reading leaves out the vectors.
LEMMA ReadsAll ==
  ASSUME NEW asks \in {Get, Load} \union {Search(source) : source \in Sources}, NEW e
  PROVE  Returned(e, asks) = e
<1>1. Major = 9 => asks
  BY DEF Get, Load, Search, IncludeSourceVectors, Sources
<1> QED
  BY <1>1 DEF Returned

\* Create and Insert have no conditional form.
LEMMA ConditionalOps ==
  ASSUME NEW o \in Options, o.conditional, Acceptable(o)
  PROVE  o.op \notin {"create", "insert"}
<1>1. PICK m \in Methods, flaw \in Flaws : o.op \in Op(m) /\ ~Refuses(m, o, flaw)
  BY DEF Acceptable
<1>2. SUFFICES ASSUME o.op \in {"create", "insert"} PROVE FALSE
  OBVIOUS
<1>3. m \in {"Create", "Insert"}
  BY <1>1, <1>2 DEF Methods, Op
<1>4. WriteRefuses(o, flaw)
  BY <1>2 DEF WriteRefuses
<1> QED
  BY <1>1, <1>3, <1>4 DEF Refuses

\* A conditional write is accepted only for the version it is for.
LEMMA AcceptedIsCurrent ==
  ASSUME Types, Known, NEW r \in net, r.conditional,
         NEW status \in Statuses(r), status \in 200..299
  PROVE  doc.live /\ r.seq = doc.seq /\ r.op \in {"index", "update", "delete"}
<1>1. r.op \in Ops \ {"create", "insert"} /\ r.seq \in Nat /\ r.seq # None
  BY DocumentsAssumption DEF Known, Current, Types, ValueTypes, Requests
<1>2. CASE r.op = "index"
  BY <1>1, <1>2 DEF Statuses
<1>3. CASE r.op = "delete"
  BY <1>1, <1>3 DEF Statuses
<1>4. CASE r.op = "upsert"
  BY <1>1, <1>4 DEF Statuses
<1>5. CASE r.op = "update"
  BY <1>1, <1>5 DEF Statuses
<1> QED
  BY <1>1, <1>2, <1>3, <1>4, <1>5 DEF Ops

\* What the server may answer is a status.
LEMMA StatusTypes ==
  ASSUME Types, NEW r \in net
  PROVE  Statuses(r) \subseteq Nat
<1>1. r.op \in Ops
  BY DEF Types, ValueTypes, Requests
<1> QED
  BY <1>1 DEF Statuses, Ops

\* A write numbers the document anew; an insert writes another document.
LEMMA WrittenVersion ==
  ASSUME Types, Known, NEW r \in net
  PROVE  /\ Written(r) \in Versions
         /\ Written(r).live => Written(r).born # None
         /\ \/ r.op = "insert" /\ Written(r) = doc
            \/ r.op # "insert" /\ Written(r).seq = doc.seq + 1
<1>1. r \in Requests /\ r.born # None /\ doc \in Versions /\ (doc.live => doc.born # None)
  BY DEF Types, ValueTypes, Known
<1>2. CASE r.op = "insert"
  BY <1>1, <1>2 DEF Written
<1>3. CASE r.op = "delete"
  <2>1. Written(r) = [live |-> FALSE, seq |-> doc.seq + 1, edits |-> {}, born |-> None]
    BY <1>3 DEF Written
  <2> QED
    BY <1>1, <1>3, <2>1 DEF Versions, Edits, Dates
<1>4. CASE r.op \in {"update", "upsert"} /\ doc.live
  <2>1. Written(r) = [doc EXCEPT !.seq = @ + 1, !.edits = @ \union {r.call}]
    BY <1>4 DEF Written
  <2>2. doc.edits \union {r.call} \in Edits /\ doc.seq + 1 \in Nat
    BY <1>1 DEF Versions, Requests, Edits
  <2> QED
    BY <1>1, <1>4, <2>1, <2>2 DEF Versions
<1>5. CASE r.op \notin {"insert", "delete"} /\ ~(r.op \in {"update", "upsert"} /\ doc.live)
  <2>1. Written(r) = [live |-> TRUE, seq |-> doc.seq + 1, edits |-> r.edits \union {r.call},
                      born |-> r.born]
    BY <1>5 DEF Written
  <2>2. r.edits \union {r.call} \in Edits /\ doc.seq + 1 \in Nat /\ r.born \in Dates
    BY <1>1 DEF Versions, Requests, Edits
  <2> QED
    BY <1>1, <1>5, <2>1, <2>2 DEF Versions
<1> QED
  BY <1>2, <1>3, <1>4, <1>5

\* The server's step: it refuses the request and changes nothing, or it accepts
\* it and writes.
LEMMA HandleEffect ==
  ASSUME Types, NEW r \in net, Handle(r)
  PROVE  /\ net' = net \ {r} /\ r \in Requests
         /\ UNCHANGED <<hit, at, hooks, call, tries, outcome>>
         /\ \E status \in Statuses(r) :
              /\ status \in Nat
              /\ \/ /\ status \in 200..299
                    /\ doc' = Written(r) /\ applied' = [applied EXCEPT ![r.call] = @ + 1]
                 \/ status \notin 200..299 /\ UNCHANGED <<doc, applied>>
              /\ \/ /\ at[r.call] = "flight" /\ r.try = tries[r.call] - 1
                    /\ reply' = [reply EXCEPT ![r.call] = status]
                 \/ UNCHANGED reply
<1>1. r \in Requests /\ Statuses(r) \subseteq Nat
  BY StatusTypes DEF Types, ValueTypes
<1> QED
  BY <1>1 DEF Handle, caller

\* The step by which a call ends without an answer to look at.
LEMMA OverEffect ==
  ASSUME Types, NEW c \in Calls, NEW err, Over(c, err)
  PROVE  /\ at' = [at EXCEPT ![c] = "over"] /\ outcome' = [outcome EXCEPT ![c] = err]
         /\ \A d \in Calls : call'[d] = call[d] \/ call'[d] = None
         /\ call' \in [Calls -> Options \union {None}]
         /\ err = "unknown" => call' = call
         /\ \A d \in Calls \ {c} : call'[d] = call[d]
BY DEF Over, Types, ValueTypes

\* What a call returns that has had an answer, or none.
LEMMA ReturnEffect ==
  ASSUME Types, NEW c \in Calls, AnswerReceived(c) \/ CallFails(c)
  PROVE  /\ at[c] = "flight" /\ reply' = [reply EXCEPT ![c] = None]
         /\ UNCHANGED <<doc, hit, tries, net, applied>>
         /\ \/ /\ reply[c] # None /\ reply[c] \in 200..299
               /\ hooks' = [hooks EXCEPT ![c] = @ + 1]
               /\ Over(c, "nil") \/ Over(c, "committed")
            \/ /\ UNCHANGED hooks
               /\ \/ Over(c, "unknown")
                  \/ /\ reply[c] # None /\ reply[c] \notin 200..299
                     /\ \E err \in Refusals : Over(c, err)
<1>1. ASSUME NEW body \in Bodies, reply[c] # None, at[c] = "flight",
             Return(c, Perform(Response(reply[c], body), TRUE))
      PROVE  \/ /\ reply[c] \in 200..299
                /\ Perform(Response(reply[c], body), TRUE) = "nil"
             \/ /\ reply[c] \in 200..299
                /\ Perform(Response(reply[c], body), TRUE) \notin Refusals \union {"nil"}
             \/ /\ reply[c] \notin 200..299
                /\ Perform(Response(reply[c], body), TRUE) # "nil"
  BY DEF Perform, Response, Refusals, Class
<1>2. /\ Perform(TransportError, TRUE) = "transport"
      /\ Perform(NoResponse, TRUE) = "transport"
      /\ Perform(Response(503, "json"), TRUE) = "unavailable"
  BY DEF Perform, Response, TransportError, NoResponse, Class
<1>3. "nil" \notin Refusals
  BY DEF Refusals
<1>4. ASSUME NEW err, Return(c, err)
      PROVE  /\ reply' = [reply EXCEPT ![c] = None]
             /\ UNCHANGED <<doc, hit, tries, net, applied>>
             /\ err = "nil" => /\ hooks' = [hooks EXCEPT ![c] = @ + 1]
                               /\ Over(c, "nil") \/ Over(c, "committed")
             /\ err # "nil" /\ err \in Refusals => UNCHANGED hooks /\ Over(c, err)
             /\ err \notin Refusals \union {"nil"} => UNCHANGED hooks /\ Over(c, "unknown")
  BY <1>3, <1>4 DEF Return, RunsAfterWrite, Outcome
<1>5. CASE AnswerReceived(c)
  <2>1. PICK body \in Bodies : Return(c, Perform(Response(reply[c], body), TRUE))
    BY <1>5 DEF AnswerReceived
  <2>2. at[c] = "flight" /\ reply[c] # None
    BY <1>5 DEF AnswerReceived
  <2>3. PICK err : /\ Return(c, err)
                   /\ \/ reply[c] \in 200..299 /\ err = "nil"
                      \/ err \notin Refusals \union {"nil"}
                      \/ reply[c] \notin 200..299 /\ err # "nil"
    BY <1>1, <2>1, <2>2
  <2>4. CASE err = "nil"
    BY <1>3, <1>4, <2>2, <2>3, <2>4
  <2>5. CASE err \in Refusals
    <3>1. reply[c] # None /\ reply[c] \notin 200..299 /\ at[c] = "flight"
      BY <1>3, <2>2, <2>3, <2>5
    <3>2. /\ UNCHANGED hooks /\ Over(c, err)
          /\ reply' = [reply EXCEPT ![c] = None] /\ UNCHANGED <<doc, hit, tries, net, applied>>
      BY <1>3, <1>4, <2>3, <2>5
    <3>3. \E e \in Refusals : Over(c, e)
      BY <2>5, <3>2
    <3> QED
      BY <3>1, <3>2, <3>3
  <2>6. CASE err \notin Refusals \union {"nil"}
    <3>1. /\ UNCHANGED hooks /\ Over(c, "unknown")
          /\ reply' = [reply EXCEPT ![c] = None] /\ UNCHANGED <<doc, hit, tries, net, applied>>
      BY <1>4, <2>3, <2>6
    <3> QED
      BY <2>2, <3>1
  <2> QED
    BY <2>4, <2>5, <2>6
<1>6. CASE CallFails(c)
  <2>1. Return(c, "transport") \/ Return(c, "unavailable")
    <3>1. PICK answer \in {TransportError, NoResponse, Response(503, "json")} :
            Return(c, Perform(answer, TRUE))
      BY <1>6 DEF CallFails
    <3>2. CASE answer = Response(503, "json")
      BY <1>2, <3>1, <3>2, ZenonT(60)
    <3>3. CASE answer = TransportError
      BY <1>2, <3>1, <3>3, ZenonT(60)
    <3>4. CASE answer = NoResponse
      BY <1>2, <3>1, <3>4, ZenonT(60)
    <3> QED
      BY <3>1, <3>2, <3>3, <3>4
  <2>2. /\ UNCHANGED hooks /\ Over(c, "unknown")
        /\ reply' = [reply EXCEPT ![c] = None] /\ UNCHANGED <<doc, hit, tries, net, applied>>
    BY <1>4, <2>1 DEF Refusals
  <2> QED
    BY <1>6, <2>2 DEF CallFails
<1> QED
  BY <1>5, <1>6

\* A read shows all of the document.
LEMMA ReadEffect ==
  ASSUME Types, NEW c \in Calls, Read(c)
  PROVE  /\ doc.live
         /\ hit' = [hit EXCEPT ![c] = [seq |-> doc.seq, born |-> doc.born, edits |-> doc.edits]]
         /\ UNCHANGED <<doc, at, net, reply, applied, hooks, call, tries, outcome>>
<1>1. PICK asks \in {Get, Load} \union {Search(source) : source \in Sources} :
        hit' = [hit EXCEPT ![c] = [seq |-> doc.seq, born |-> doc.born,
                                   edits |-> Returned(doc.edits, asks)]]
  BY DEF Read
<1>2. Returned(doc.edits, asks) = doc.edits
  BY ReadsAll
<1> QED
  BY <1>1, <1>2 DEF Read, caller

\* A call is made from a new value, or from the last hit with its tokens.
LEMMA PrepareEffect ==
  ASSUME Types, NEW c \in Calls, Prepare(c)
  PROVE  /\ at[c] = "idle" /\ at' = [at EXCEPT ![c] = "prepared"]
         /\ UNCHANGED <<doc, hit, tries, net, reply, outcome, applied, hooks>>
         /\ \E o \in Options :
              /\ call' = [call EXCEPT ![c] = o]
              /\ o.conditional => /\ hit[c] # None /\ o.seq = hit[c].seq
                                  /\ o.edits = hit[c].edits /\ o.born = hit[c].born
<1>1. PICK op \in UNION {Op(m) : m \in Methods}, base \in {Fresh, hit[c]} \ {None},
           conditional \in BOOLEAN :
        /\ conditional => base # Fresh
        /\ call' = [call EXCEPT ![c] =
             [op |-> op, conditional |-> conditional, born |-> base.born,
              edits |-> base.edits, seq |-> IF conditional THEN base.seq ELSE None]]
  BY DEF Prepare
<1>2. op \in Ops
  BY <1>1 DEF Methods, Op, Ops
<1>3. base.born \in Dates /\ base.edits \in Edits
  BY <1>1 DEF Types, ValueTypes, Hits, Fresh, Dates, Edits
<1>4. conditional => base = hit[c] /\ hit[c] # None /\ base.seq \in Nat
  BY <1>1 DEF Types, ValueTypes, Hits
<1>5. [op |-> op, conditional |-> conditional, born |-> base.born,
       edits |-> base.edits, seq |-> IF conditional THEN base.seq ELSE None] \in Options
  BY <1>2, <1>3, <1>4 DEF Options
<1> QED
  BY <1>1, <1>4, <1>5 DEF Prepare

\* A call is refused, or one request of it goes out.
LEMMA SendEffect ==
  ASSUME Types, Traced, NEW c \in Calls, Send(c)
  PROVE  /\ at[c] = "prepared" /\ call[c] \in Options
         /\ UNCHANGED <<doc, hit, reply, applied, hooks>>
         /\ \/ UNCHANGED <<tries, net>> /\ (Over(c, "invalid") \/ Over(c, "hook"))
            \/ /\ UNCHANGED <<outcome, call>>
               /\ tries[c] < MaxTries
               /\ tries' = [tries EXCEPT ![c] = @ + 1] /\ at' = [at EXCEPT ![c] = "flight"]
               /\ \E r \in Requests :
                    /\ net' = net \union {r} /\ r.call = c /\ r.try = tries[c]
                    /\ r.conditional = call[c].conditional /\ r.seq = call[c].seq
                    /\ r.edits = call[c].edits /\ r.born = Stamp(call[c].born, c)
                    /\ r.born # None
                    /\ r.conditional => r.op \notin {"create", "insert"}
<1>1. call[c] \in Options /\ tries[c] \in Nat /\ at[c] = "prepared"
  BY DEF Send, Traced, Types, ValueTypes, CountTypes
<1>2. CASE UNCHANGED <<tries, net>> /\ (Over(c, "invalid") \/ Over(c, "hook"))
  BY <1>1, <1>2 DEF Send
<1>3. CASE /\ Acceptable(call[c])
           /\ net' = net \union {Request(c)}
           /\ tries' = [tries EXCEPT ![c] = @ + 1]
           /\ at' = [at EXCEPT ![c] = "flight"]
           /\ UNCHANGED <<outcome, call>>
  <2>1. Stamp(call[c].born, c) \in Dates \ {None}
    BY <1>1, DocumentsAssumption DEF Stamp, Options, Dates
  <2>2. Request(c) \in Requests
    BY <1>1, <2>1 DEF Request, Tokens, Requests, Options
  <2>3. call[c].conditional => call[c].op \notin {"create", "insert"}
    BY <1>1, <1>3, ConditionalOps
  <2>4. /\ Request(c).call = c /\ Request(c).try = tries[c]
        /\ Request(c).op = call[c].op /\ Request(c).conditional = call[c].conditional
        /\ Request(c).seq = call[c].seq /\ Request(c).edits = call[c].edits
        /\ Request(c).born = Stamp(call[c].born, c)
    BY DEF Request, Tokens
  <2> QED
    BY <1>1, <1>3, <2>1, <2>2, <2>3, <2>4 DEF Send
<1> QED
  BY <1>2, <1>3 DEF Send
-----------------------------------------------------------------------------
\* Initially there is no hit, no call and no request.
LEMMA InitIInv == Init => IInv
<1> SUFFICES ASSUME Init PROVE IInv
  OBVIOUS
<1>1. doc \in Versions /\ (doc.live => doc.born # None)
  <2>1. CASE doc = Absent
    BY <2>1 DEF Absent, Versions, Edits, Dates
  <2>2. CASE doc = Original
    BY <2>2, DocumentsAssumption DEF Original, Versions, Edits, Dates
  <2> QED
    BY <2>1, <2>2 DEF Init
<1>2. Types
  <2>1. ValueTypes
    BY <1>1 DEF Init, ValueTypes
  <2>2. CountTypes
    BY DocumentsAssumption DEF Init, CountTypes
  <2> QED
    BY <2>1, <2>2 DEF Types
<1>3. Known /\ Traced /\ Passed
  BY <1>1 DEF Init, Known, Traced, Passed
<1>4. Told /\ OutcomeTellsTruth
  BY DEF Init, Told, OutcomeTellsTruth, Refusals
<1> QED
  BY <1>2, <1>3, <1>4 DEF IInv

\* A read gives its caller a copy of the document as it is.
LEMMA ReadKeeps ==
  ASSUME IInv, NEW c \in Calls, Read(c)
  PROVE  IInv'
<1> USE DEF IInv
<1>1. /\ doc.live
      /\ hit' = [hit EXCEPT ![c] = [seq |-> doc.seq, born |-> doc.born, edits |-> doc.edits]]
      /\ UNCHANGED <<doc, at, net, reply, applied, hooks, call, tries, outcome>>
  BY ReadEffect
<1>2. [seq |-> doc.seq, born |-> doc.born, edits |-> doc.edits] \in Hits
  BY DEF Types, ValueTypes, Versions, Hits
<1>3. Types'
  BY <1>1, <1>2 DEF Types, ValueTypes, CountTypes
<1>4. Known'
  <2>1. \A d \in Calls \ {c} : hit'[d] = hit[d]
    BY <1>1 DEF Types, ValueTypes
  <2>2. /\ hit'[c].seq = doc.seq /\ hit'[c].born = doc.born /\ hit'[c].edits = doc.edits
        /\ doc.seq \in Nat
    BY <1>1 DEF Types, ValueTypes, Versions
  <2> QED
    BY <1>1, <2>1, <2>2 DEF Known, Current
<1>5. Traced' /\ Passed' /\ Told' /\ OutcomeTellsTruth'
  BY <1>1 DEF Traced, Passed, Told, OutcomeTellsTruth
<1> QED
  BY <1>3, <1>4, <1>5

\* A call is prepared once, before any of its requests exists.
LEMMA PrepareKeeps ==
  ASSUME IInv, NEW c \in Calls, Prepare(c)
  PROVE  IInv'
<1> USE DEF IInv
<1>1. /\ at[c] = "idle" /\ at' = [at EXCEPT ![c] = "prepared"]
      /\ UNCHANGED <<doc, hit, tries, net, reply, outcome, applied, hooks>>
  BY PrepareEffect
<1>2. PICK o \in Options :
        /\ call' = [call EXCEPT ![c] = o]
        /\ o.conditional => /\ hit[c] # None /\ o.seq = hit[c].seq
                            /\ o.edits = hit[c].edits /\ o.born = hit[c].born
  BY PrepareEffect
<1>3. /\ call'[c] = o /\ at'[c] = "prepared"
      /\ \A d \in Calls \ {c} : call'[d] = call[d] /\ at'[d] = at[d]
  BY <1>1, <1>2 DEF Types, ValueTypes, CountTypes
<1>4. /\ tries[c] = 0 /\ applied[c] = 0 /\ call[c] = None
      /\ \A r \in net : r.call # c /\ r.call \in Calls
  <2>1. tries[c] = 0 /\ applied[c] = 0 /\ call[c] = None
    BY <1>1 DEF Traced
  <2>2. \A r \in net : r.call \in Calls /\ r.try \in Nat /\ r.try < tries[r.call]
    BY DEF Traced, Types, ValueTypes, Requests
  <2> QED
    BY <2>1, <2>2
<1>5. Types'
  BY <1>1, <1>2 DEF Types, ValueTypes, CountTypes
<1>6. Known'
  BY <1>1, <1>2, <1>3 DEF Known, Current
<1>7. Traced'
  BY <1>1, <1>3, <1>4, NoneAssumption DEF Traced
<1>8. Passed'
  BY <1>1, <1>3, <1>4 DEF Passed
<1>9. Told' /\ OutcomeTellsTruth'
  BY <1>1, <1>3 DEF Told, OutcomeTellsTruth
<1> QED
  BY <1>5, <1>6, <1>7, <1>8, <1>9

\* A call that has failed before it was sent, and one whose answer is in: only a
\* call whose outcome is not known is remembered.
LEMMA OverKeeps ==
  ASSUME IInv, NEW c \in Calls, NEW err, Over(c, err), at[c] # "over",
         at[c] # "idle", UNCHANGED <<doc, hit, tries, net, applied>>
  PROVE  /\ Known' /\ Passed' /\ Traced'
         /\ at'[c] = "over" /\ outcome'[c] = err
         /\ \A d \in Calls \ {c} : at'[d] = at[d] /\ outcome'[d] = outcome[d]
<1> USE DEF IInv
<1>1. /\ at' = [at EXCEPT ![c] = "over"] /\ outcome' = [outcome EXCEPT ![c] = err]
      /\ \A d \in Calls : call'[d] = call[d] \/ call'[d] = None
      /\ err = "unknown" => call' = call
      /\ \A d \in Calls \ {c} : call'[d] = call[d]
  BY OverEffect
<1>2. Known'
  BY <1>1 DEF Known, Current
<1>3. Passed'
  BY <1>1 DEF Passed
<1>4. /\ at'[c] = "over" /\ outcome'[c] = err
      /\ \A d \in Calls \ {c} : at'[d] = at[d] /\ outcome'[d] = outcome[d]
  BY <1>1 DEF Types, CountTypes
<1>5. Traced'
  <2>1. \A r \in net : r.call \in Calls
    BY DEF Types, ValueTypes, Requests
  <2>2. err = "unknown" => call'[c] # None
    BY <1>1 DEF Traced, Types, CountTypes
  <2> QED
    BY <1>1, <1>4, <2>1, <2>2 DEF Traced
<1> QED
  BY <1>2, <1>3, <1>4, <1>5

\* A call is told of its request what the server has made of it.
LEMMA ReturnKeeps ==
  ASSUME IInv, NEW c \in Calls, AnswerReceived(c) \/ CallFails(c)
  PROVE  IInv'
<1> USE DEF IInv
<1>1. /\ at[c] = "flight" /\ reply' = [reply EXCEPT ![c] = None]
      /\ UNCHANGED <<doc, hit, tries, net, applied>>
  BY ReturnEffect
<1>2. PICK err : /\ Over(c, err)
                 /\ \/ /\ reply[c] # None /\ reply[c] \in 200..299
                       /\ hooks' = [hooks EXCEPT ![c] = @ + 1]
                       /\ err \in {"nil", "committed"}
                    \/ UNCHANGED hooks /\ err = "unknown"
                    \/ /\ UNCHANGED hooks /\ err \in Refusals
                       /\ reply[c] # None /\ reply[c] \notin 200..299
  BY ReturnEffect
<1>3. /\ Known' /\ Passed' /\ Traced'
      /\ at'[c] = "over" /\ outcome'[c] = err
      /\ \A d \in Calls \ {c} : at'[d] = at[d] /\ outcome'[d] = outcome[d]
  BY <1>1, <1>2, OverKeeps
<1>4. hooks[c] = 0 /\ outcome[c] = "none"
  BY <1>1 DEF Told
<1>5. /\ hooks'[c] = (IF err \in {"nil", "committed"} THEN 1 ELSE 0)
      /\ \A d \in Calls \ {c} : hooks'[d] = hooks[d] /\ reply'[d] = reply[d]
      /\ reply'[c] = None
  BY <1>1, <1>2, <1>4 DEF Types, CountTypes, Refusals
<1>6. Types'
  <2>1. ValueTypes'
    BY <1>1, <1>2, OverEffect DEF Types, ValueTypes
  <2>2. /\ at' \in [Calls -> {"idle", "prepared", "flight", "over"}]
        /\ outcome' \in [Calls -> {"none", "nil", "committed", "invalid", "hook", "unknown"}
                                   \union Refusals]
    BY <1>2, OverEffect DEF Types, CountTypes
  <2>3. hooks' \in [Calls -> {0, 1}]
    BY <1>2, <1>5 DEF Types, CountTypes
  <2> QED
    BY <1>1, <2>1, <2>2, <2>3 DEF Types, CountTypes
<1>7. Told'
  <2>1. \A r \in net : r.call \in Calls
    BY DEF Types, ValueTypes, Requests
  <2> QED
    BY <1>1, <1>3, <1>5, <2>1 DEF Told
<1>8. OutcomeTellsTruth'
  <2>1. err \in {"nil", "committed"} => applied[c] > 0
    BY <1>2 DEF Told, Refusals
  <2>2. err \in Refusals /\ tries[c] = 1 => applied[c] = 0 /\ \A r \in net : r.call # c
    BY <1>2 DEF Told, Refusals
  <2> QED
    BY <1>1, <1>3, <1>5, <2>1, <2>2 DEF OutcomeTellsTruth
<1> QED
  BY <1>3, <1>6, <1>7, <1>8

\* A call that is made again has not been told anything.
LEMMA RepeatKeeps ==
  ASSUME IInv, NEW c \in Calls, Repeat(c)
  PROVE  IInv'
<1> USE DEF IInv
<1>1. /\ at[c] = "over" /\ outcome[c] = "unknown"
      /\ at' = [at EXCEPT ![c] = "prepared"] /\ outcome' = [outcome EXCEPT ![c] = "none"]
      /\ UNCHANGED <<doc, hit, call, tries, net, reply, applied, hooks>>
  BY DEF Repeat
<1>2. /\ at'[c] = "prepared" /\ outcome'[c] = "none"
      /\ \A d \in Calls \ {c} : at'[d] = at[d] /\ outcome'[d] = outcome[d]
  BY <1>1 DEF Types, CountTypes
<1>3. hooks[c] = 0 /\ call[c] # None
  BY <1>1 DEF OutcomeTellsTruth, Traced
<1>4. Types'
  BY <1>1 DEF Types, ValueTypes, CountTypes
<1>5. Known' /\ Passed'
  BY <1>1 DEF Known, Current, Passed
<1>6. Traced'
  BY <1>1, <1>2, <1>3 DEF Traced
<1>7. Told' /\ OutcomeTellsTruth'
  BY <1>1, <1>2, <1>3 DEF Told, OutcomeTellsTruth, Refusals
<1> QED
  BY <1>4, <1>5, <1>6, <1>7

\* A request goes out with the tokens of its call and a number of its own.
LEMMA RequestKeeps ==
  ASSUME IInv, NEW c \in Calls, at[c] = "prepared", call[c] \in Options,
         UNCHANGED <<doc, hit, reply, applied, hooks, outcome, call>>, tries[c] < MaxTries,
         tries' = [tries EXCEPT ![c] = @ + 1], at' = [at EXCEPT ![c] = "flight"],
         NEW q \in Requests, net' = net \union {q}, q.call = c, q.try = tries[c],
         q.conditional = call[c].conditional, q.seq = call[c].seq, q.edits = call[c].edits,
         q.born = Stamp(call[c].born, c), q.born # None,
         q.conditional => q.op \notin {"create", "insert"}
  PROVE  IInv'
<1> USE DEF IInv
<1>1. /\ at'[c] = "flight" /\ tries'[c] = tries[c] + 1 /\ tries[c] \in Nat
      /\ \A d \in Calls \ {c} : at'[d] = at[d] /\ tries'[d] = tries[d]
  BY DocumentsAssumption DEF Types, CountTypes
<1>2. call[c] # None /\ reply[c] = None
  BY NoneAssumption DEF Told
<1>3. \A r \in net : r.call \in Calls /\ r.try \in Nat /\ r.try < tries[r.call]
  BY DEF Types, ValueTypes, Requests, Traced
<1>4. Types'
  <2>1. ValueTypes'
    BY DEF Types, ValueTypes
  <2>2. tries' \in [Calls -> 0..MaxTries] /\ at' \in [Calls -> {"idle", "prepared", "flight", "over"}]
    BY <1>1, DocumentsAssumption DEF Types, CountTypes
  <2> QED
    BY <2>1, <2>2 DEF Types, CountTypes
<1>5. Known'
  <2>1. ASSUME q.conditional PROVE Current(q)
    <3>1. Current(call[c])
      BY <1>2, <2>1 DEF Known
    <3>2. doc.live /\ q.seq = doc.seq => q.born = doc.born
      BY <3>1 DEF Current, Known, Stamp
    <3> QED
      BY <3>1, <3>2 DEF Current
  <2> QED
    BY <2>1 DEF Known, Current
<1>6. Traced'
  <2>1. \A d \in Calls : tries'[d] = 0 => applied[d] = 0
    BY <1>1 DEF Traced
  <2>2. \A r \in net' : r.try < tries'[r.call]
    BY <1>1, <1>3
  <2>3. \A r \in net' : call[r.call] # None => r.conditional = call[r.call].conditional
    BY DEF Traced
  <2>4. \A r, s \in net' : r.call = s.call => r.conditional = s.conditional
    BY <1>2, <2>3 DEF Traced
  <2> QED
    BY <1>1, <1>2, <2>1, <2>2, <2>3, <2>4 DEF Traced
<1>7. Passed'
  BY <1>2 DEF Passed
<1>8. Told'
  <2>1. \A d \in Calls : at'[d] # "over" => outcome'[d] = "none" /\ hooks'[d] = 0
    BY <1>1 DEF Told
  <2>2. \A d \in Calls : at'[d] # "flight" => reply'[d] = None
    BY <1>1 DEF Told
  <2>3. \A d \in Calls : reply'[d] # None =>
          /\ reply'[d] \in 200..299 => applied'[d] > 0
          /\ tries'[d] = 1 => \A r \in net' : r.call # d
          /\ tries'[d] = 1 /\ reply'[d] \notin 200..299 => applied'[d] = 0
    BY <1>1, <1>2 DEF Told
  <2>4. \A r \in net' : tries'[r.call] = 1 => applied'[r.call] = 0
    BY <1>1, <1>3 DEF Told, Traced
  <2>5. \A r, s \in net' : r.call = s.call /\ r.try = s.try => r = s
    BY <1>1, <1>3 DEF Told
  <2> QED
    BY <2>1, <2>2, <2>3, <2>4, <2>5 DEF Told
<1>9. OutcomeTellsTruth'
  <2>1. outcome[c] = "none" /\ hooks[c] = 0
    BY DEF Told
  <2> QED
    BY <1>1, <2>1 DEF OutcomeTellsTruth, Refusals
<1> QED
  BY <1>4, <1>5, <1>6, <1>7, <1>8, <1>9

\* A request sent carries the tokens and the value of its call.
LEMMA SendKeeps ==
  ASSUME IInv, NEW c \in Calls, Send(c)
  PROVE  IInv'
<1> USE DEF IInv
<1>1. /\ at[c] = "prepared" /\ call[c] \in Options
      /\ UNCHANGED <<doc, hit, reply, applied, hooks>>
  BY SendEffect
<1>2. ASSUME NEW err \in {"invalid", "hook"}, Over(c, err), UNCHANGED <<tries, net>>
      PROVE  IInv'
  <2>1. /\ Known' /\ Passed' /\ Traced'
        /\ at'[c] = "over" /\ outcome'[c] = err
        /\ \A d \in Calls \ {c} : at'[d] = at[d] /\ outcome'[d] = outcome[d]
    BY <1>1, <1>2, OverKeeps
  <2>2. hooks[c] = 0 /\ reply[c] = None
    BY <1>1 DEF Told
  <2>3. Types'
    <3>1. call' \in [Calls -> Options \union {None}]
      BY <1>2, OverEffect
    <3>2. at' \in [Calls -> {"idle", "prepared", "flight", "over"}]
          /\ outcome' \in [Calls -> {"none", "nil", "committed", "invalid", "hook", "unknown"}
                                     \union Refusals]
      BY <1>2, OverEffect DEF Types, CountTypes
    <3> QED
      BY <1>1, <1>2, <3>1, <3>2 DEF Types, ValueTypes, CountTypes
  <2>4. Told' /\ OutcomeTellsTruth'
    BY <1>1, <1>2, <2>1, <2>2 DEF Told, OutcomeTellsTruth, Refusals
  <2> QED
    BY <2>1, <2>3, <2>4
<1>3. CASE UNCHANGED <<tries, net>> /\ (Over(c, "invalid") \/ Over(c, "hook"))
  BY <1>2, <1>3
<1>4. CASE ~(UNCHANGED <<tries, net>> /\ (Over(c, "invalid") \/ Over(c, "hook")))
  <2>1. /\ UNCHANGED <<outcome, call>> /\ tries[c] < MaxTries
        /\ tries' = [tries EXCEPT ![c] = @ + 1] /\ at' = [at EXCEPT ![c] = "flight"]
        /\ \E r \in Requests :
             /\ net' = net \union {r} /\ r.call = c /\ r.try = tries[c]
             /\ r.conditional = call[c].conditional /\ r.seq = call[c].seq
             /\ r.edits = call[c].edits /\ r.born = Stamp(call[c].born, c)
             /\ r.born # None
             /\ r.conditional => r.op \notin {"create", "insert"}
    BY <1>4, SendEffect
  <2> QED
    BY <1>1, <2>1, RequestKeeps
<1> QED
  BY <1>3, <1>4

\* The server's step.  A request that is applied leaves every version behind
\* that another hit, call or request was made for, unless it inserts another
\* document, which no conditional one does.
LEMMA HandleKeeps ==
  ASSUME IInv, NEW r \in net, Handle(r)
  PROVE  IInv'
<1> USE DEF IInv
<1> DEFINE c == r.call
<1>1. /\ net' = net \ {r} /\ r \in Requests /\ c \in Calls
      /\ UNCHANGED <<hit, at, hooks, call, tries, outcome>>
  BY HandleEffect DEF Requests
<1>2. PICK status \in Statuses(r) :
        /\ status \in Nat
        /\ \/ /\ status \in 200..299
              /\ doc' = Written(r) /\ applied' = [applied EXCEPT ![c] = @ + 1]
           \/ status \notin 200..299 /\ UNCHANGED <<doc, applied>>
        /\ \/ /\ at[c] = "flight" /\ r.try = tries[c] - 1
              /\ reply' = [reply EXCEPT ![c] = status]
           \/ UNCHANGED reply
  BY HandleEffect
<1>3. /\ \A d \in Calls : applied[d] \in Nat /\ tries[d] \in Nat
      /\ \A s \in net : s.call \in Calls /\ s.try \in Nat
      /\ doc \in Versions /\ doc.seq \in Nat
  BY DocumentsAssumption DEF Types, ValueTypes, CountTypes, Requests, Versions
<1>4. \/ /\ doc' = doc /\ applied' = applied /\ status \notin 200..299
      \/ /\ doc' = doc /\ ~r.conditional
         /\ applied' = [applied EXCEPT ![c] = @ + 1] /\ status \in 200..299
      \/ /\ doc' \in Versions /\ doc'.seq = doc.seq + 1 /\ (doc'.live => doc'.born # None)
         /\ applied' = [applied EXCEPT ![c] = @ + 1] /\ status \in 200..299
  BY <1>2, WrittenVersion DEF Known
<1>5. /\ \A d \in Calls \ {c} : applied'[d] = applied[d] /\ reply'[d] = reply[d]
      /\ status \in 200..299 => applied'[c] > 0
      /\ status \notin 200..299 => applied'[c] = applied[c]
      /\ \A d \in Calls : applied'[d] \in Nat
  BY <1>1, <1>2, <1>3, <1>4 DEF Types, CountTypes
<1>6. Types'
  <2>1. applied' \in [Calls -> Nat] /\ reply' \in [Calls -> Nat \union {None}]
    BY <1>1, <1>2, <1>4 DEF Types, CountTypes
  <2>2. doc' \in Versions
    BY <1>3, <1>4
  <2> QED
    BY <1>1, <2>1, <2>2 DEF Types, ValueTypes, CountTypes
<1>7. Known'
  <2>1. CASE doc' = doc
    BY <1>1, <2>1 DEF Known, Current
  <2>2. CASE doc'.seq = doc.seq + 1 /\ (doc'.live => doc'.born # None)
    <3>1. ASSUME NEW b, Current(b) PROVE Current(b)'
      BY <1>3, <2>2, <3>1 DEF Current
    <3> QED
      BY <1>1, <2>2, <3>1 DEF Known, Current
  <2> QED
    BY <1>4, <2>1, <2>2
<1>8. Traced'
  <2>1. tries[c] # 0
    BY <1>3 DEF Traced
  <2> QED
    BY <1>1, <1>5, <2>1 DEF Traced
<1>9. Passed'
  <2>1. CASE doc' = doc /\ applied' = applied
    BY <1>1, <2>1 DEF Passed
  <2>2. CASE doc' = doc /\ ~r.conditional
    <3>1. \A s \in net : s.conditional => s.call # c
      BY <2>2 DEF Traced
    <3>2. call[c] # None => ~call[c].conditional
      BY <2>2 DEF Traced
    <3> QED
      BY <1>1, <1>3, <1>5, <2>2, <3>1, <3>2 DEF Passed
  <2>3. CASE doc'.seq = doc.seq + 1
    <3>1. \A s \in net : s.conditional => s.seq < doc'.seq
      BY <1>3, <2>3 DEF Known, Current
    <3>2. \A d \in Calls : call[d] # None /\ call[d].conditional => call[d].seq < doc'.seq
      BY <1>3, <2>3 DEF Known, Current
    <3> QED
      BY <1>1, <3>1, <3>2 DEF Passed
  <2> QED
    BY <1>4, <2>1, <2>2, <2>3
<1>10. tries[c] = 1 => applied[c] = 0 /\ \A s \in net' : s.call # c
  <2>1. SUFFICES ASSUME tries[c] = 1 PROVE applied[c] = 0 /\ \A s \in net' : s.call # c
    OBVIOUS
  <2>2. \A s \in net : s.call = c => s.try = 0
    BY <1>3, <2>1 DEF Traced
  <2> QED
    BY <1>1, <2>1, <2>2 DEF Told
<1>11. Told'
  <2>1. \A d \in Calls : reply'[d] # None =>
          /\ reply'[d] \in 200..299 => applied'[d] > 0
          /\ tries'[d] = 1 => \A s \in net' : s.call # d
          /\ tries'[d] = 1 /\ reply'[d] \notin 200..299 => applied'[d] = 0
    <3>1. CASE reply' = [reply EXCEPT ![c] = status]
      <4>1. reply'[c] = status
        BY <1>1, <3>1 DEF Types, CountTypes
      <4> QED
        BY <1>1, <1>5, <1>10, <4>1 DEF Told
    <3>2. CASE reply' = reply
      <4>1. reply[c] # None /\ tries[c] = 1 => FALSE
        BY <1>1 DEF Told
      <4>2. reply[c] # None /\ reply[c] \in 200..299 => applied'[c] > 0
        BY <1>2, <1>3, <1>5 DEF Told
      <4> QED
        BY <1>1, <1>5, <3>2, <4>1, <4>2 DEF Told
    <3> QED
      BY <1>2, <3>1, <3>2
  <2>2. \A d \in Calls : at'[d] # "flight" => reply'[d] = None
    BY <1>1, <1>2, <1>5 DEF Told
  <2>3. \A s \in net' : tries'[s.call] = 1 => applied'[s.call] = 0
    BY <1>1, <1>3, <1>5, <1>10 DEF Told
  <2> QED
    BY <1>1, <2>1, <2>2, <2>3 DEF Told
<1>12. OutcomeTellsTruth'
  <2>1. \A d \in Calls : applied[d] > 0 => applied'[d] > 0
    BY <1>3, <1>4, <1>5 DEF Types, CountTypes
  <2>2. outcome[c] \in Refusals => tries[c] # 1
    BY <1>1 DEF OutcomeTellsTruth
  <2> QED
    BY <1>1, <1>5, <2>1, <2>2 DEF OutcomeTellsTruth
<1> QED
  BY <1>6, <1>7, <1>8, <1>9, <1>11, <1>12

\* Each action keeps the invariant.
LEMMA Invariance == Spec => []IInv
<1>1. IInv /\ [Next]_vars => IInv'
  <2>1. SUFFICES ASSUME IInv, [Next]_vars PROVE IInv'
    OBVIOUS
  <2>2. CASE UNCHANGED vars
    BY <2>1, <2>2
    DEF IInv, Types, ValueTypes, CountTypes, Known, Current, Traced, Passed, Told,
        OutcomeTellsTruth, vars
  <2>3. ASSUME NEW c \in Calls,
               \/ Read(c) \/ Prepare(c) \/ Send(c) \/ AnswerReceived(c) \/ CallFails(c)
               \/ Repeat(c)
        PROVE  IInv'
    BY <2>1, <2>3, ReadKeeps, PrepareKeeps, SendKeeps, ReturnKeeps, RepeatKeeps
  <2>4. CASE ServerHandles
    BY <2>1, <2>4, HandleKeeps DEF ServerHandles
  <2> QED
    BY <2>1, <2>2, <2>3, <2>4 DEF Next
<1> QED
  BY <1>1, InitIInv, PTL DEF Spec

\* Every variable keeps its type; an AfterWrite hook runs at most once a call.
THEOREM TypeCorrect == Spec => []TypeOK
<1>1. IInv => TypeOK
  BY DEF IInv, Types, ValueTypes, CountTypes, TypeOK
<1> QED
  BY <1>1, Invariance, PTL

\* What a call returns is true of the document, for any number of calls, each
\* made again as often as its caller likes.
THEOREM OutcomeTellsTruthAlways == Spec => []OutcomeTellsTruth
<1>1. IInv => OutcomeTellsTruth
  BY DEF IInv
<1> QED
  BY <1>1, Invariance, PTL

\* The step in which the server applies a conditional request finds the document
\* as the caller read it.
LEMMA AppliesCurrent ==
  ASSUME IInv, [Next]_vars, NEW r \in net, Applies(r), r.conditional
  PROVE  /\ doc.live /\ r.seq = doc.seq /\ Current(r) /\ r.born # None
         /\ r.op \in {"index", "update", "delete"} /\ doc' = Written(r)
<1> USE DEF IInv
<1>1. PICK s \in net : Handle(s)
  <2>1. net' # net
    BY DEF Applies
  <2>2. ASSUME NEW c \in Calls,
               \/ Read(c) \/ Prepare(c) \/ Send(c) \/ AnswerReceived(c) \/ CallFails(c)
               \/ Repeat(c)
        PROVE  net \subseteq net'
    BY <2>2, ReadEffect, PrepareEffect, SendEffect, ReturnEffect DEF Repeat
  <2> QED
    BY <2>1, <2>2 DEF Next, vars, ServerHandles, Applies
<1>2. s = r
  BY <1>1, HandleEffect DEF Applies
<1>3. PICK status \in Statuses(r) :
        \/ status \in 200..299 /\ doc' = Written(r)
        \/ UNCHANGED applied
  BY <1>1, <1>2, HandleEffect
<1>4. applied[r.call] \in Nat
  BY DEF Types, ValueTypes, CountTypes, Requests
<1>5. status \in 200..299 /\ doc' = Written(r)
  BY <1>3, <1>4 DEF Applies
<1> QED
  BY <1>5, AcceptedIsCurrent DEF Known

\* A conditional write overwrites no edit, vector or creation date its writer
\* had not read.
THEOREM NoLostUpdateAlways == Spec => NoLostUpdate
<1>1. ASSUME IInv, [Next]_vars, NEW r \in net, Applies(r), r.conditional
      PROVE  /\ doc.edits \subseteq r.edits
             /\ r.op # "delete" => doc.edits \subseteq doc'.edits /\ doc'.born = doc.born
  <2>1. /\ doc.live /\ r.seq = doc.seq /\ Current(r) /\ r.born # None
        /\ r.op \in {"index", "update", "delete"} /\ doc' = Written(r)
    BY <1>1, AppliesCurrent
  <2>2. doc.edits \subseteq r.edits /\ r.born = doc.born
    BY <2>1 DEF Current
  <2>3. CASE r.op = "index"
    <3>1. doc' = [live |-> TRUE, seq |-> doc.seq + 1, edits |-> r.edits \union {r.call},
                  born |-> r.born]
      BY <2>1, <2>3 DEF Written
    <3> QED
      BY <2>2, <3>1
  <2>4. CASE r.op = "update"
    <3>1. doc' = [doc EXCEPT !.seq = @ + 1, !.edits = @ \union {r.call}]
      BY <2>1, <2>4 DEF Written
    <3>2. doc \in Versions
      BY <1>1 DEF IInv, Types, ValueTypes
    <3>3. doc'.edits = doc.edits \union {r.call} /\ doc'.born = doc.born
      BY <3>1, <3>2 DEF Versions
    <3> QED
      BY <2>2, <3>3
  <2> QED
    BY <2>1, <2>2, <2>3, <2>4
<1>2. IInv /\ [Next]_vars =>
        [\A r \in net : Applies(r) /\ r.conditional =>
           /\ doc.edits \subseteq r.edits
           /\ r.op # "delete" => doc.edits \subseteq doc'.edits /\ doc'.born = doc.born]_vars
  BY <1>1
<1> QED
  BY <1>2, Invariance, PTL DEF Spec, NoLostUpdate

\* A conditional write is applied once, however often it is sent.
THEOREM AppliedOnceAlways == Spec => AppliedOnce
<1>1. ASSUME IInv, [Next]_vars, NEW r \in net, Applies(r), r.conditional
      PROVE  applied[r.call] = 0
  <2>1. r.seq = doc.seq /\ doc.seq \in Nat /\ applied[r.call] \in Nat
    BY <1>1, AppliesCurrent
    DEF IInv, Types, ValueTypes, CountTypes, Requests, Versions
  <2> QED
    BY <1>1, <2>1 DEF IInv, Passed
<1>2. IInv /\ [Next]_vars =>
        [\A r \in net : Applies(r) /\ r.conditional => applied[r.call] = 0]_vars
  BY <1>1
<1> QED
  BY <1>2, Invariance, PTL DEF Spec, AppliedOnce
=============================================================================
