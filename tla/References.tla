----------------------------- MODULE References -----------------------------
(***************************************************************************)
(* Loading references (src/relations.go): MGet and Load answer every       *)
(* reference in its place with batched mget requests, and Preload follows  *)
(* references level by level, each document once, within limits on depth   *)
(* and on the number of documents.                                         *)
(*                                                                         *)
(* The documents and their references are any small graph, with cycles,    *)
(* shared and missing documents; it does not change meanwhile.             *)
(***************************************************************************)
EXTENDS Integers, SequencesExt

CONSTANTS
  Refs,
  Roots,       \* the sequences of references a caller starts from
  BatchSize,   \* references in one mget: 500
  Depths,      \* values of PreloadOptions.MaxDepth ...
  Limits       \* ... and MaxDocuments

VARIABLES
  children,    \* the references in each document, in order
  status,      \* what the server has to say of each, or that it is no reference
  roots, maxDepth, maxDocuments,
  loading,     \* where the call is
  depth, seen, pending, batch,  \* the local variables of Preload
  nodes,       \* Graph.Nodes, or the results of MGet
  truncated,   \* Graph.Truncated
  failed       \* the error of the call, "none" before it returns

vars == <<children, status, roots, maxDepth, maxDocuments, loading, depth, seen, pending, batch,
          nodes, truncated, failed>>
input == <<children, status, roots, maxDepth, maxDocuments>>

Init ==
  /\ children \in [Refs -> {SetToSeq(s) : s \in SUBSET Refs}]
  /\ status \in {s \in [Refs -> {"found", "missing", "failed", "invalid"}] :
                   Cardinality({r \in Refs : s[r] # "found"}) <= 1}
  /\ roots \in Roots /\ maxDepth \in Depths /\ maxDocuments \in Limits
  /\ loading = "called"
  /\ depth = 0 /\ seen = {} /\ pending = <<>> /\ batch = <<>>
  /\ nodes = <<>> /\ truncated = FALSE /\ failed = "none"

-----------------------------------------------------------------------------
\* The references that a loop over refs meets for the first time, in order.
Fresh(refs, met) ==
  LET fresh[n \in 0..Len(refs)] ==
        IF n = 0 THEN <<>>
        ELSE IF refs[n] \in met \union Range(fresh[n - 1]) THEN fresh[n - 1]
        ELSE Append(fresh[n - 1], refs[n])
  IN  fresh[Len(refs)]

\* loadWith: distinct references, in order, cut into batches.
Distinct(refs) == Fresh(refs, {})
Batches(refs) ==
  LET unique == Distinct(refs) IN
  [k \in 1..((Len(unique) + BatchSize - 1) \div BatchSize) |->
     SubSeq(unique, (k - 1) * BatchSize + 1, Min({k * BatchSize, Len(unique)}))]

\* The server answers a batch by position.
Answer(refs) == [j \in DOMAIN refs |-> status[refs[j]]]

\* The answer that belongs to a reference.
AnswerTo(refs, answers, ref) ==
  LET k == CHOOSE k \in DOMAIN answers : Contains(Batches(refs)[k], ref)
  IN  answers[k][CHOOSE j \in DOMAIN answers[k] : Batches(refs)[k][j] = ref]

\* Every reference gets the answer that belongs to it, duplicates included.
LoadWith(refs) ==
  LET answers == [k \in DOMAIN Batches(refs) |-> Answer(Batches(refs)[k])] IN
  [i \in DOMAIN refs |-> <<refs[i], AnswerTo(refs, answers, refs[i])>>]

\* No request is sent when one of the references is none.  A request may fail,
\* or be answered for another number of documents, at any time.
LoadSucceeds(refs) == \A i \in DOMAIN refs : status[refs[i]] # "invalid"

Return(e) == loading' = "returned" /\ failed' = e

\* The hook that MGetWith runs over each document found, duplicates included,
\* refuses those at some positions: their outcome is its error, the call's not.
AfterRead(results, refused) ==
  [i \in DOMAIN results |-> IF i \in refused THEN <<results[i][1], "hook">> ELSE results[i]]

\* Repository.MGetWith
MGet ==
  /\ loading = "called"
  /\ \/ /\ LoadSucceeds(roots) /\ Return("nil")
        /\ \E refused \in SUBSET {i \in DOMAIN roots : status[roots[i]] = "found"} :
             nodes' = AfterRead(LoadWith(roots), refused)
     \/ Return("request") /\ UNCHANGED nodes
  /\ UNCHANGED <<depth, seen, pending, batch, truncated>> /\ UNCHANGED input

-----------------------------------------------------------------------------
\* Preload.

Preload ==
  /\ loading = "called"
  /\ loading' = "level" /\ pending' = roots
  /\ UNCHANGED <<depth, seen, batch, nodes, truncated, failed>> /\ UNCHANGED input

\* Mutant: a level may name a reference twice.
UnseenRefs(refs) == SelectSeq(refs, LAMBDA r : r \notin seen)
\* The references of a level that no earlier level has had.
NewRefs(refs) == Fresh(refs, seen)

\* One level: what is new in it is loaded unless a limit ends the call.
Level ==
  /\ loading = "level"
  /\ LET new == NewRefs(pending) IN
     \/ /\ pending = <<>> /\ Return("nil")
        /\ UNCHANGED <<seen, batch, truncated>>
     \/ /\ pending # <<>> /\ Return("context")
        /\ UNCHANGED <<seen, batch, truncated>>
     \/ /\ pending # <<>>
        /\ seen' = seen \union Range(new) /\ batch' = new
        /\ \/ new = <<>> /\ Return("nil") /\ UNCHANGED truncated
           \/ new # <<>> /\ depth >= maxDepth /\ Return("nil") /\ truncated' = TRUE
           \/ /\ new # <<>> /\ depth < maxDepth
              /\ IF Len(nodes) + Len(new) > maxDocuments
                 THEN Return("limit") ELSE loading' = "load" /\ UNCHANGED failed
              /\ UNCHANGED truncated
  /\ UNCHANGED <<depth, pending, nodes>> /\ UNCHANGED input

\* Load, and the children of what was found.
LoadLevel ==
  /\ loading = "load"
  /\ \/ /\ Return("request")
        /\ UNCHANGED <<depth, pending, nodes>>
     \/ /\ LoadSucceeds(batch)
        /\ LET results == LoadWith(batch)
               Found(n) == IF n[2] = "found" THEN children[n[1]] ELSE <<>>
           IN /\ nodes' = nodes \o results
              /\ pending' = FlattenSeq([i \in DOMAIN results |-> Found(results[i])])
        /\ depth' = depth + 1 /\ loading' = "level" /\ UNCHANGED failed
  /\ UNCHANGED <<seen, batch, truncated>> /\ UNCHANGED input

Next == MGet \/ Preload \/ Level \/ LoadLevel

Spec == Init /\ [][Next]_vars

-----------------------------------------------------------------------------
\* Reachability, stated without traversal order: the references at distance k
\* of the roots along documents that exist.
Children(refs) == UNION {Range(children[r]) : r \in {r \in refs : status[r] = "found"}}
Layer[k \in Nat] ==
  IF k = 0 THEN Range(roots)
  ELSE Children(Layer[k - 1]) \ UNION {Layer[j] : j \in 0..(k - 1)}

Preloaded == loading = "returned" /\ depth + Len(pending) > 0
Complete == UNION {Layer[k] : k \in 0..(depth - 1)}

\* The graph is whole levels of the breadth-first tree, in order and without
\* repetition, however references repeat and cycle; the limit on documents is
\* never exceeded and only a level that would exceed it reports it; Truncated
\* says exactly whether references are left beyond the depth limit; without
\* either, everything reachable is there.  MGet answers each reference in its
\* place, with what the server has to say of it or, for a document that was
\* found, the error of the hook.
PreloadIsBreadthFirst ==
  /\ loading = "returned" /\ ~Preloaded /\ failed = "nil" =>
       /\ DOMAIN nodes = DOMAIN roots
       /\ \A i \in DOMAIN roots :
            \/ nodes[i] = <<roots[i], status[roots[i]]>>
            \/ nodes[i] = <<roots[i], "hook">> /\ status[roots[i]] = "found"
  /\ Preloaded =>
       LET loaded == [i \in DOMAIN nodes |-> nodes[i][1]] IN
       /\ IsInjective(loaded) /\ Range(loaded) = Complete
       /\ \A i \in DOMAIN nodes : nodes[i][2] = status[loaded[i]]
       /\ \A i, j \in DOMAIN nodes, k, l \in 0..(depth - 1) :
            loaded[i] \in Layer[k] /\ loaded[j] \in Layer[l] /\ i < j => k <= l
       /\ Len(nodes) <= maxDocuments
       /\ failed = "limit" <=>
            failed # "context" /\ failed # "request" /\ depth < maxDepth
            /\ Layer[depth] # {} /\ Len(nodes) + Cardinality(Layer[depth]) > maxDocuments
       /\ truncated => failed = "nil" /\ depth = maxDepth /\ Layer[depth] # {}
       /\ failed = "nil" /\ ~truncated =>
            \A k \in 0..Cardinality(Refs) : Layer[k] \subseteq Complete
=============================================================================
