------------------------------ MODULE Documents ------------------------------
(***************************************************************************)
(* One document and the writers that read and write it through a           *)
(* Repository (src/repository.go, src/operations.go, src/model.go,         *)
(* src/options.go): create, replace or save, insert, update, upsert and    *)
(* delete, plain or conditional on the tokens of a hit, over a network     *)
(* that loses and delays requests and answers, with callers that repeat a  *)
(* call whose outcome they do not know.                                    *)
(*                                                                         *)
(* A call is made by a goroutine of its own.  A document's value is the set *)
(* of calls whose edits it carries, with Embedding for its vector fields,  *)
(* which Elasticsearch 9 leaves out of what it returns unless it is asked  *)
(* for them.  Its creation date is the call that stamped it.               *)
(***************************************************************************)
EXTENDS Integers, FiniteSets, Client

CONSTANTS
  Calls,
  MaxTries,    \* times a caller sends one call
  Major,       \* Client.version.Major
  Embedding, Creation, None

ASSUME DocumentsAssumption ==
  /\ MaxTries \in Nat \ {0} /\ Major \in {8, 9}
  /\ None \notin Nat /\ None \notin Calls /\ None # Creation

\* The values of documents, hits, calls and requests.
Ops   == {"create", "index", "insert", "update", "upsert", "delete"}
Edits == SUBSET (Calls \union {Embedding})
Dates == Calls \union {Creation, None}
Versions == [live : BOOLEAN, seq : Nat, edits : Edits, born : Dates]
Hits     == [seq : Nat, born : Dates, edits : Edits]
Options  == [op : Ops, conditional : BOOLEAN, born : Dates, edits : Edits,
             seq : Nat \union {None}]
Requests == [call : Calls, try : Nat, op : Ops, conditional : BOOLEAN,
             seq : Nat \union {None}, edits : Edits, born : Dates]
ASSUME NoneAssumption == None \notin Options

\* The methods of Repository, and the request each makes.
Methods == {"Create", "Replace", "Save", "Insert", "Update", "Upsert", "UpdateWith", "Delete"}
Op(method) ==
  CASE method = "Create" -> {"create"}
    [] method \in {"Replace", "Save"} -> {"index"}
    [] method = "Insert" -> {"insert"}
    [] method = "Update" -> {"update"}
    [] method = "Upsert" -> {"upsert"}
    [] method = "UpdateWith" -> {"update", "upsert"}
    [] method = "Delete" -> {"delete"}

VARIABLES
  doc,         \* the document on the server; its sequence number outlives it
  hit,         \* what the caller read last: a value and its tokens, or None
  at,          \* where each call is: "idle", "prepared", "flight" or "over"
  call,        \* the value and the options it has prepared, or None
  tries,       \* times it was sent
  net,         \* requests the server has still to handle
  reply,       \* the status of the answer to the current request, or None
  outcome,     \* the error it returned, "nil" for none
  applied,     \* history: times the server applied each call
  hooks        \* history: AfterWrite calls for each call

vars == <<doc, hit, at, call, tries, net, reply, outcome, applied, hooks>>
caller == <<call, tries, outcome>>

\* The document may exist already, written and stamped by Creation.
Absent == [live |-> FALSE, seq |-> 0, edits |-> {}, born |-> None]
Original == [live |-> TRUE, seq |-> 1, edits |-> {Embedding}, born |-> Creation]

Init ==
  /\ doc \in {Absent, Original}
  /\ hit = [c \in Calls |-> None]
  /\ at = [c \in Calls |-> "idle"]
  /\ call = [c \in Calls |-> None] /\ tries = [c \in Calls |-> 0]
  /\ net = {} /\ reply = [c \in Calls |-> None]
  /\ outcome = [c \in Calls |-> "none"]
  /\ applied = [c \in Calls |-> 0] /\ hooks = [c \in Calls |-> 0]

-----------------------------------------------------------------------------
\* Reading.

\* The _source of a search, as far as vectors go: it has none, it is true, an
\* object that does not mention them, or one that asks for them.  Whoever
\* excludes fields does not write back what it gets, so no hit of a search
\* that excludes some is a base here.
Sources == {"absent", "true", "object", "asks"}

\* includeSourceVectors
IncludeSourceVectors(source) ==
  IF Major = 9 /\ source \in {"absent", "true", "object"} THEN "asks" ELSE source

\* Whether each way of reading asks for the vectors: GetWith and loadWith by a
\* parameter, a search by its _source.
Get == Major = 9
Load == Major = 9
Search(source) == IncludeSourceVectors(source) = "asks"

\* What the server returns of a value.
Returned(edits, asks) ==
  IF Major = 9 /\ ~asks THEN edits \ {Embedding} ELSE edits

\* The server answers a read: a hit carries the tokens of the version it shows.
Read(c) ==
  /\ at[c] \in {"idle", "prepared"}
  /\ doc.live
  /\ \E asks \in {Get, Load} \union {Search(source) : source \in Sources} :
       hit' = [hit EXCEPT ![c] = [seq |-> doc.seq, born |-> doc.born,
                                  edits |-> Returned(doc.edits, asks)]]
  /\ hit' # hit
  /\ UNCHANGED <<doc, at, net, reply, applied, hooks>> /\ UNCHANGED caller

-----------------------------------------------------------------------------
\* Calling.

\* The value a call is made from: a new one, or that of the last hit.
Fresh == [seq |-> None, born |-> None, edits |-> {Embedding}]

\* Mutant: the option keeps the pointers of the hit it was made from.
SharesTokens(c) == IF call[c].conditional THEN hit[c].seq ELSE None
\* Mutant: the tokens are left out of the request.
LeavesTokensOut(c) == None
\* IfMatches copies the tokens when the option is made; values sends them.
Tokens(c) == call[c].seq

\* The caller builds the value and the options of its next call: any write
\* from a new value or from a hit, conditional only on the hit it is from.
Prepare(c) ==
  /\ at[c] = "idle"
  /\ \E op \in UNION {Op(m) : m \in Methods}, base \in {Fresh, hit[c]} \ {None},
        conditional \in BOOLEAN :
       /\ conditional => base # Fresh
       /\ op # "index" => (base # Fresh <=> conditional)
       /\ call' = [call EXCEPT ![c] =
            [op |-> op, conditional |-> conditional, born |-> base.born,
             edits |-> base.edits, seq |-> IF conditional THEN base.seq ELSE None]]
  /\ at' = [at EXCEPT ![c] = "prepared"]
  /\ UNCHANGED <<doc, hit, tries, net, reply, outcome, applied, hooks>>

\* What may be wrong with a call: a nil option, an unknown refresh value, one
\* token without the other, a bad ID, a join without routing or parent, a model
\* that Validate or the encoder refuses or whose identity does not fit Save or
\* Insert, a stamp field that is no name, an update body that is ambiguous; or
\* a pipeline or a retry count where there can be none.
Flaws == {"none", "option", "refresh", "half", "id", "join", "model", "identity",
          "stampField", "body", "pipeline", "retry"}

\* The calls each function returns an error for before it sends anything.
\* Hooks apart, it returns none for any other.
ValuesRefuses(flaw) == flaw \in {"refresh", "half"}
WriteRefuses(o, flaw) ==
  \/ flaw = "id" /\ o.op # "insert"
  \/ ValuesRefuses(flaw)
  \/ o.op \in {"create", "insert"} /\ o.conditional
  \/ flaw \in {"model", "join"}
PreparePatchRefuses(flaw) == flaw \in {"id", "stampField"}
UpdateRefuses(flaw) ==
  PreparePatchRefuses(flaw) \/ ValuesRefuses(flaw) \/ flaw \in {"pipeline", "join"}
UpsertRefuses(flaw) == flaw = "model" \/ UpdateRefuses(flaw)
UpdateWithRefuses(o, flaw) ==
  \/ flaw = "retry" /\ o.conditional
  \/ flaw = "body"
  \/ IF o.op = "upsert" THEN UpsertRefuses(flaw) ELSE UpdateRefuses(flaw)
DeleteRefuses(flaw) == ValuesRefuses(flaw) \/ flaw \in {"id", "pipeline", "join"}

Refuses(method, o, flaw) ==
  CASE method \in {"Create", "Replace"} -> flaw = "option" \/ WriteRefuses(o, flaw)
    [] method \in {"Save", "Insert"} ->
         flaw \in {"option", "identity"} \/ WriteRefuses(o, flaw)
    [] method = "Update" -> flaw = "option" \/ UpdateRefuses(flaw)
    [] method = "Upsert" -> flaw = "option" \/ UpsertRefuses(flaw)
    [] method = "UpdateWith" -> UpdateWithRefuses(o, flaw)
    [] method = "Delete" -> flaw = "option" \/ DeleteRefuses(flaw)

\* Whether some call with these options is refused, and whether some is not.
Refusable(o) ==
  \E m \in Methods, flaw \in Flaws : o.op \in Op(m) /\ Refuses(m, o, flaw)
Acceptable(o) ==
  \E m \in Methods, flaw \in Flaws : o.op \in Op(m) /\ ~Refuses(m, o, flaw)

\* Timestamps.Stamp keeps a creation date that is set.
Stamp(born, c) == IF born = None THEN c ELSE born

\* The call is over; a caller that knows its outcome forgets it.
Over(c, err) ==
  /\ at' = [at EXCEPT ![c] = "over"]
  /\ outcome' = [outcome EXCEPT ![c] = err]
  /\ call' = IF err = "unknown" THEN call ELSE [call EXCEPT ![c] = None]

\* The request a call makes, its document stamped.
Request(c) ==
  [call |-> c, try |-> tries[c], op |-> call[c].op, conditional |-> call[c].conditional,
   seq |-> Tokens(c), edits |-> call[c].edits, born |-> Stamp(call[c].born, c)]

\* One request for the call, after the hooks that may refuse it.
Send(c) ==
  /\ at[c] = "prepared" /\ tries[c] < MaxTries
  /\ \/ /\ Refusable(call[c])
        /\ Over(c, "invalid")
        /\ UNCHANGED <<tries, net>>
     \/ /\ Over(c, "hook")
        /\ UNCHANGED <<tries, net>>
     \/ /\ Acceptable(call[c])
        /\ net' = net \union {Request(c)}
        /\ tries' = [tries EXCEPT ![c] = @ + 1]
        /\ at' = [at EXCEPT ![c] = "flight"]
        /\ UNCHANGED <<outcome, call>>
  /\ UNCHANGED <<doc, hit, reply, applied, hooks>>

-----------------------------------------------------------------------------
\* The server.

\* The status it answers a request with.
Statuses(r) ==
  LET stale == r.seq # None /\ (~doc.live \/ r.seq # doc.seq) IN
  CASE r.op = "insert" -> {201}
    [] r.op = "create" -> {IF doc.live THEN 409 ELSE 201}
    [] r.op = "index" -> {IF stale THEN 409 ELSE 200}
    [] r.op = "delete" -> {IF stale THEN 409 ELSE IF doc.live THEN 200 ELSE 404}
    [] r.op = "upsert" /\ r.seq # None -> {400}
    [] r.op = "upsert" /\ r.seq = None /\ ~doc.live -> {201}
    [] r.op = "update" /\ ~doc.live -> {404}
    \* An update reads and indexes in two steps, and another may come between.
    [] OTHER -> IF stale THEN {409} ELSE IF r.seq = None THEN {200, 409} ELSE {200}

\* What an accepted request makes of the document.
Written(r) ==
  CASE r.op = "insert" -> doc
    [] r.op = "delete" ->
         [live |-> FALSE, seq |-> doc.seq + 1, edits |-> {}, born |-> None]
    [] r.op \in {"update", "upsert"} /\ doc.live ->
         [doc EXCEPT !.seq = @ + 1, !.edits = @ \union {r.call}]
    [] OTHER ->
         [live |-> TRUE, seq |-> doc.seq + 1, edits |-> r.edits \union {r.call},
          born |-> r.born]

\* A request is handled, also one whose caller has given up; one that is lost
\* never is.
Handle(r) ==
  /\ net' = net \ {r}
  /\ \E status \in Statuses(r) :
       LET c == r.call done == status \in 200..299 IN
       /\ doc' = IF done THEN Written(r) ELSE doc
       /\ applied' = IF done THEN [applied EXCEPT ![c] = @ + 1] ELSE applied
       /\ reply' = IF at[c] = "flight" /\ r.try = tries[c] - 1
                   THEN [reply EXCEPT ![c] = status] ELSE reply
  /\ UNCHANGED <<hit, at, hooks>> /\ UNCHANGED caller
ServerHandles == \E r \in net : Handle(r)

-----------------------------------------------------------------------------
\* Returning.

\* Mutant: the hook runs whenever the server has answered.
AfterAnyAnswer(err) == err # "transport"
\* afterWrite: the hook runs if the request has succeeded.
RunsAfterWrite(err) == err = "nil"

\* The errors that leave open what has become of the call are told apart no
\* further.
Outcome(err) == IF err \in {"nil"} \union Refusals THEN err ELSE "unknown"

Return(c, err) ==
  /\ \/ Over(c, Outcome(err))
     \/ RunsAfterWrite(err) /\ Over(c, "committed")
  /\ hooks' = IF RunsAfterWrite(err) THEN [hooks EXCEPT ![c] = @ + 1] ELSE hooks
  /\ reply' = [reply EXCEPT ![c] = None]
  /\ UNCHANGED <<doc, hit, tries, net, applied>>

AnswerReceived(c) ==
  /\ at[c] = "flight" /\ reply[c] # None
  /\ \E body \in Bodies : Return(c, Perform(Response(reply[c], body), TRUE))

\* No answer: the transport fails, the context ends, or a proxy answers.
CallFails(c) ==
  /\ at[c] = "flight"
  /\ \E answer \in {TransportError, NoResponse, Response(503, "json")} :
       Return(c, Perform(answer, TRUE))

\* The caller makes its call again when it does not know what became of it.
Repeat(c) ==
  /\ at[c] = "over" /\ outcome[c] = "unknown" /\ tries[c] < MaxTries
  /\ at' = [at EXCEPT ![c] = "prepared"]
  /\ outcome' = [outcome EXCEPT ![c] = "none"]
  /\ UNCHANGED <<doc, hit, call, tries, net, reply, applied, hooks>>

Next ==
  \/ \E c \in Calls :
       \/ Read(c) \/ Prepare(c) \/ Send(c) \/ AnswerReceived(c) \/ CallFails(c)
       \/ Repeat(c)
  \/ ServerHandles

Spec == Init /\ [][Next]_vars

-----------------------------------------------------------------------------
TypeOK ==
  /\ doc \in Versions
  /\ hit \in [Calls -> Hits \union {None}]
  /\ call \in [Calls -> Options \union {None}]
  /\ at \in [Calls -> {"idle", "prepared", "flight", "over"}]
  /\ tries \in [Calls -> 0..MaxTries]
  /\ net \subseteq Requests
  /\ reply \in [Calls -> Nat \union {None}]
  /\ outcome \in [Calls -> {"none", "nil", "committed", "invalid", "hook", "unknown"}
                             \union Refusals]
  /\ applied \in [Calls -> Nat]
  /\ hooks \in [Calls -> {0, 1}]

\* The server applies r in this step.
Applies(r) == r \in net \ net' /\ applied'[r.call] > applied[r.call]

\* A conditional write, whatever happens between the read it is based on and
\* the moment the server handles it, overwrites nothing its writer had not
\* read: no edit, no vector and no creation date is lost.
NoLostUpdate ==
  [][\A r \in net : Applies(r) /\ r.conditional =>
       /\ doc.edits \subseteq r.edits
       /\ r.op # "delete" => doc.edits \subseteq doc'.edits /\ doc'.born = doc.born]_vars

\* A conditional write is applied once however often its caller sends it and
\* however late the requests arrive ("use Create or conditional writes when
\* idempotency matters", docs/documents.md).
AppliedOnce ==
  [][\A r \in net : Applies(r) /\ r.conditional => applied[r.call] = 0]_vars

\* What a call returns is true of the document: success means it was applied,
\* with its hook run once, and a refusal of its only request that it was not
\* applied and never will be.
OutcomeTellsTruth ==
  \A c \in Calls :
    /\ outcome[c] \in {"nil", "committed"} => applied[c] > 0
    /\ hooks[c] = (IF outcome[c] \in {"nil", "committed"} THEN 1 ELSE 0)
    /\ outcome[c] \in Refusals /\ tries[c] = 1 =>
         applied[c] = 0 /\ \A r \in net : r.call # c
=============================================================================
