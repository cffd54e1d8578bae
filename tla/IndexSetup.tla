----------------------------- MODULE IndexSetup -----------------------------
(***************************************************************************)
(* How a program starts: it connects (src/client.go), registers its        *)
(* repositories (Registry, src/model.go), creates the indices that are     *)
(* missing (EnsureAll and EnsureIndex, src/repository.go) and compares     *)
(* their mappings with its schemas (VerifyAll, src/index.go), while other  *)
(* goroutines register more, other programs create the same indices, and   *)
(* writers make them or add fields to them by writing.  Nothing deletes an *)
(* index meanwhile.                                                        *)
(*                                                                         *)
(* Every index has the same schema.  A mapping is a function from its      *)
(* fields to their types, with its other options under "options".          *)
(***************************************************************************)
EXTENDS Integers, Sequences, FiniteSets, Functions, Client

CONSTANTS
  Indices,
  MaxAdds,     \* calls of Add, by any goroutine
  Nil          \* no repository, no mapping, no answer

VARIABLES
  entries,     \* Registry.entries
  adds,        \* calls of Add so far
  mapping,     \* the mapping of each index, Nil while there is none
  at,          \* where the starting goroutine is
  todo,        \* the snapshot of the registry it works on
  pos,         \* and how far it has got in it
  err,         \* what the last call of it returned, "none" before
  put,         \* an index whose PUT the server has still to handle, or Nil
  answer,      \* the answer to the current request, or Nil
  drift,       \* the drifts VerifyAll has found so far
  faults       \* history: a request has failed, or was not acknowledged

vars == <<entries, adds, mapping, at, todo, pos, err, put, answer, drift, faults>>
cluster == <<mapping, put>>
registry == <<entries, adds>>

Schema == [title |-> "text", options |-> "strict"]
\* What a write makes of an index, and what it adds to one.
Guessed == [title |-> "keyword", options |-> "dynamic"]
Extended(m) ==
  [f \in DOMAIN m \union {"extra"} |-> IF f = "extra" THEN "text" ELSE m[f]]

Mappings == {Schema, Guessed, Extended(Schema), Extended(Guessed)}

Init ==
  /\ entries = <<>> /\ adds = 0
  /\ mapping \in [Indices -> {Nil, Schema, Guessed}]
  /\ at = "connect" /\ todo = <<>> /\ pos = 1 /\ err = "none"
  /\ put = Nil /\ answer = Nil /\ drift = <<>> /\ faults = FALSE

-----------------------------------------------------------------------------
\* Registry.Add is atomic: it holds the lock, and appends all or nothing.
Accepts(batch) ==
  /\ \A i \in DOMAIN batch : batch[i] # Nil
  /\ IsInjective(entries \o batch)

Add ==
  /\ adds < MaxAdds /\ adds' = adds + 1
  /\ \E batch \in UNION {[1..k -> Indices \union {Nil}] : k \in 1..2} :
       entries' = IF Accepts(batch) THEN entries \o batch ELSE entries
  /\ UNCHANGED <<at, todo, pos, err, answer, drift, faults>> /\ UNCHANGED cluster

\* Connect, with any answer of the server to GET /, or ConnectVersion.
Connects ==
  /\ at = "connect"
  /\ \E ctx \in BOOLEAN, limit \in {"default", "outOfRange"},
        number \in {<<8, 18, 0>>, <<8, 18, 1>>, <<9, 4, 5>>, <<9, 5, -1>>, <<10, 0, 0>>, <<9, 4>>} :
       \/ \E reply \in {TransportError, Response(401, "json"), Response(200, "json"),
                        Response(200, "empty")} :
            err' = Connect(ctx, limit, reply, number)
       \/ Len(number) = 3 /\ err' = ConnectVersion(ctx, limit, number)
  /\ at' = IF err' = "nil" THEN "ready" ELSE "failed"
  /\ UNCHANGED <<todo, pos, answer, drift, faults>> /\ UNCHANGED registry /\ UNCHANGED cluster

Fail(where, e) == at' = where /\ err' = e

-----------------------------------------------------------------------------
\* EnsureAll and EnsureIndex.

\* EnsureAll works on a snapshot of the registry.
EnsureAll ==
  /\ at = "ready"
  /\ at' = "ensure" /\ todo' = entries /\ pos' = 1
  /\ UNCHANGED <<err, answer, drift, faults>> /\ UNCHANGED registry /\ UNCHANGED cluster

\* It stops when the context is over or at the first error.
EnsureNext ==
  /\ at = "ensure"
  /\ \/ pos <= Len(todo) /\ at' = "head" /\ UNCHANGED <<err, faults>>
     \/ pos <= Len(todo) /\ Fail("unready", "context") /\ faults' = TRUE
     \/ pos > Len(todo) /\ at' = "ensured" /\ err' = "nil" /\ UNCHANGED faults
  /\ UNCHANGED <<todo, pos, answer, drift>> /\ UNCHANGED registry /\ UNCHANGED cluster

EnsureReturns == at' = "ensure" /\ pos' = pos + 1 /\ UNCHANGED <<err, faults>>

\* EnsureIndex asks whether the index exists ...
HeadIndex ==
  /\ at = "head"
  /\ \E reply \in {Response(IF mapping[todo[pos]] = Nil THEN 404 ELSE 200, "empty"),
                   Response(503, "empty"), TransportError} :
       LET e == Perform(reply, FALSE) IN
       \/ e = "nil" /\ EnsureReturns
       \/ e = "notFound" /\ at' = "put" /\ UNCHANGED <<pos, err, faults>>
       \/ e \notin {"nil", "notFound"} /\ Fail("unready", e) /\ faults' = TRUE /\ UNCHANGED pos
  /\ UNCHANGED <<todo, answer, drift>> /\ UNCHANGED registry /\ UNCHANGED cluster

\* ... creates it if not ...
PutIndex ==
  /\ at = "put"
  /\ at' = "flight" /\ put' = todo[pos] /\ answer' = Nil
  /\ UNCHANGED <<mapping, todo, pos, err, drift, faults>> /\ UNCHANGED registry

\* Mutant: an index that appeared meanwhile is an error.
NothingExcused(reply) == FALSE
\* ... and takes it for success if another has done so meanwhile.
AlreadyExists(reply) == reply.status = 400 /\ reply.type = "resource_already_exists_exception"

\* Admin.ack: an answer that does not acknowledge is an error.
Ack(reply) ==
  LET e == Perform(Response(reply.status, reply.body), TRUE) IN
  IF e = "nil" /\ ~reply.acknowledged THEN "unacknowledged" ELSE e

PutReturns ==
  /\ at = "flight"
  /\ \/ /\ answer # Nil
        /\ IF AlreadyExists(answer) \/ Ack(answer) = "nil"
           THEN EnsureReturns
           ELSE /\ Fail("unready", Ack(answer)) /\ UNCHANGED pos
                /\ faults' = (faults \/ answer.status # 400)
     \/ Fail("unready", "transport") /\ faults' = TRUE /\ UNCHANGED pos
  /\ UNCHANGED <<todo, answer, drift>> /\ UNCHANGED registry /\ UNCHANGED cluster

\* The server handles the PUT, also one whose caller has given up.
ServerCreates ==
  /\ put # Nil
  /\ put' = Nil
  /\ IF mapping[put] = Nil
     THEN /\ mapping' = [mapping EXCEPT ![put] = Schema]
          /\ \E body \in {"json", "garbage"}, acknowledged \in BOOLEAN :
               answer' = [status |-> 200, type |-> "", body |-> body, acknowledged |-> acknowledged]
     ELSE /\ answer' = [status |-> 400, type |-> "resource_already_exists_exception",
                        body |-> "json", acknowledged |-> FALSE]
          /\ UNCHANGED mapping
  /\ UNCHANGED <<at, todo, pos, err, drift, faults>> /\ UNCHANGED registry

\* Other programs: a rival starts, or a writer writes.
Interferes ==
  /\ \E i \in Indices :
       \/ /\ mapping[i] = Nil
          /\ \E m \in {Schema, Guessed} : mapping' = [mapping EXCEPT ![i] = m]
       \/ /\ mapping[i] # Nil
          /\ mapping' = [mapping EXCEPT ![i] = Extended(@)]
  /\ mapping' # mapping
  /\ UNCHANGED <<put, at, todo, pos, err, answer, drift, faults>> /\ UNCHANGED registry

-----------------------------------------------------------------------------
\* VerifyAll and VerifyIndex.

\* Another snapshot: what was registered meanwhile is verified too.  An entry
\* that cannot be verified ends the call before any request.
VerifyAll ==
  /\ at = "ensured"
  /\ todo' = entries /\ pos' = 1
  /\ \/ at' = "verify" /\ UNCHANGED err
     \/ Fail("unverified", "unsupported") /\ entries # <<>>
  /\ UNCHANGED <<answer, drift, faults>> /\ UNCHANGED registry /\ UNCHANGED cluster

\* MappingDrift, field by field, and its Matches.
Drift(want, got) ==
  LET Fields(m) == DOMAIN m \ {"options"} IN
  [missing |-> Fields(want) \ Fields(got),
   changed |-> {f \in Fields(want) \intersect Fields(got) : want[f] # got[f]},
   extra |-> Fields(got) \ Fields(want),
   options |-> IF want["options"] = got["options"] THEN {} ELSE {"options"}]
Matches(d) == \A part \in DOMAIN d : d[part] = {}

\* The mapping is read; an index that does not exist, or an alias of several,
\* has none to compare.
VerifyIndex ==
  /\ at = "verify"
  /\ \/ /\ pos <= Len(todo) /\ mapping[todo[pos]] # Nil
        /\ drift' = Append(drift, Drift(Schema, mapping[todo[pos]]))
        /\ pos' = pos + 1
        /\ UNCHANGED <<at, err>>
     \/ /\ pos <= Len(todo)
        /\ Fail("unverified", IF mapping[todo[pos]] = Nil THEN "notFound" ELSE "transport")
        /\ UNCHANGED <<pos, drift>>
     \/ /\ pos > Len(todo)
        /\ at' = "verified" /\ err' = "nil"
        /\ UNCHANGED <<pos, drift>>
  /\ UNCHANGED <<todo, answer, faults>> /\ UNCHANGED registry /\ UNCHANGED cluster

Next ==
  \/ Add \/ Connects \/ EnsureAll \/ EnsureNext \/ HeadIndex \/ PutIndex \/ PutReturns
  \/ ServerCreates \/ Interferes \/ VerifyAll \/ VerifyIndex

Spec == Init /\ [][Next]_vars

-----------------------------------------------------------------------------
\* What a start may rely on.  Every index EnsureIndex was content with exists,
\* whoever made it, and a race with other creators alone never fails it; the
\* registry names no index twice, whatever goroutines add at once; and if no
\* index drifts, each has the fields of the schema, with no other type or
\* option, however it was made.
StartedIsReady ==
  /\ IsInjective(entries)
  /\ \A i \in 1..(pos - 1) : mapping[todo[i]] # Nil
  /\ at = "unready" => faults
  /\ at = "verified" /\ (\A i \in DOMAIN drift : Matches(drift[i])) =>
       \A i \in DOMAIN todo, f \in DOMAIN Schema : mapping[todo[i]][f] = Schema[f]

=============================================================================
