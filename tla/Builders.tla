------------------------------ MODULE Builders ------------------------------
(***************************************************************************)
(* Search and Finder (src/search.go, src/finder.go) as values that are     *)
(* derived from one another and used by many goroutines at once.  They are *)
(* structs with slices, maps and a deferred error, so copies share arrays  *)
(* and maps of the heap; this module keeps the heap as Go has it.          *)
(*                                                                         *)
(* Queries and option values are tokens.  A value is a Finder; a Search is *)
(* one without clauses.                                                    *)
(***************************************************************************)
EXTENDS Integers, Sequences, FiniteSets
LOCAL INSTANCE SequencesExt
LOCAL INSTANCE Functions

CONSTANTS
  MaxValues,   \* searches derived
  Free         \* an array cell beyond the length of a slice

Clauses == {"must", "filter", "should", "mustNot"}
\* Body options a caller may set, aggregations among them.
Options == {<<"query", 1>>, <<"size", 1>>, <<"size", 2>>, <<"aggregations", {"c"}>>}
Names == {"a", "b"}             \* aggregations

VARIABLES
  arrays,      \* the arrays behind slices; the first is its caller's
  maps,        \* the maps
  values,      \* Finders: slices and maps by reference, and the error
  meaning      \* history: what the caller of each has asked for

vars == <<arrays, maps, values, meaning>>

Slice(array, length) == [array |-> array, len |-> length]
Cells(s) == SubSeq(arrays[s.array], 1, s.len)
NoCells == Slice(2, 0)

Init ==
  /\ arrays = << <<"q">>, <<>> >>
  /\ maps = <<>> /\ values = <<>> /\ meaning = <<>>

Derive(value, means) ==
  /\ Len(values) < MaxValues
  /\ values' = Append(values, value) /\ meaning' = Append(meaning, means)

-----------------------------------------------------------------------------
\* maps.Clone, then changes: a map of its own.
NewMap == Len(maps) + 1
Cloned(m) == maps' = Append(maps, m)
Set(m, key, x) == [k \in DOMAIN m \union {key} |-> IF k = key THEN x ELSE m[k]]
Without(m, keys) == Restrict(m, DOMAIN m \ keys)

\* Find: the caller's queries are cloned, and NewSearch's defaults set.
Defaults == [track_total_hits |-> 1, seq_no_primary_term |-> 1]
Find ==
  /\ \E n \in 0..1 :
       /\ arrays' = Append(arrays, SubSeq(arrays[1], 1, n) \o <<Free>>)
       /\ Derive([clauses |-> [c \in Clauses |->
                    IF c = "must" THEN Slice(Len(arrays) + 1, n) ELSE NoCells],
                  fields |-> NewMap, params |-> NewMap + 1, err |-> FALSE],
                 [clauses |-> [c \in Clauses |->
                    IF c = "must" THEN SubSeq(arrays[1], 1, n) ELSE <<>>],
                  fields |-> Defaults, params |-> <<>>, err |-> FALSE])
  /\ maps' = maps \o <<Defaults, <<>> >>

\* The caller goes on using its own slice of queries.
CallerWrites ==
  /\ \E q \in {"q", "r"} : arrays' = [arrays EXCEPT ![1] = <<q>>]
  /\ UNCHANGED <<maps, values, meaning>>

\* Mutant: append without Clone writes into spare capacity it shares.
AppendInPlace(s, q) ==
  IF s.len < Len(arrays[s.array])
  THEN [arrays |-> [arrays EXCEPT ![s.array][s.len + 1] = q],
        slice |-> Slice(s.array, s.len + 1)]
  ELSE [arrays |-> Append(arrays, Cells(s) \o <<q, Free>>),
        slice |-> Slice(Len(arrays) + 1, s.len + 1)]
\* append(slices.Clone(s), q): an array of its own, with room for more.
AppendToClone(s, q) ==
  [arrays |-> Append(arrays, Cells(s) \o <<q, Free>>),
   slice |-> Slice(Len(arrays) + 1, s.len + 1)]

\* Must, Filter, Should and Not.
AddClause(v) ==
  /\ \E c \in Clauses, q \in {"x", "y"} :
       LET appended == AppendToClone(values[v].clauses[c], q) IN
       /\ arrays' = appended.arrays
       /\ Derive([values[v] EXCEPT !.clauses[c] = appended.slice],
                 [meaning[v] EXCEPT !.clauses[c] = Append(@, q)])
  /\ UNCHANGED maps

\* Search.With, and all that only call it.  An error stays.
With(v) ==
  /\ \E option \in Options : LET key == option[1] x == option[2] IN
       IF values[v].err
       THEN Derive(values[v], meaning[v]) /\ UNCHANGED maps
       ELSE /\ Cloned(Set(maps[values[v].fields], key, x))
            /\ Derive([values[v] EXCEPT !.fields = NewMap],
                      [meaning[v] EXCEPT !.fields = Set(@, key, x)])
  /\ UNCHANGED arrays

\* An argument that is refused: the error is kept in the value derived.
Refuse(v) ==
  /\ Derive([values[v] EXCEPT !.err = TRUE], [meaning[v] EXCEPT !.err = TRUE])
  /\ UNCHANGED <<arrays, maps>>

\* Search.Param: the parameters are copied too.
Param(v) ==
  /\ IF values[v].err
     THEN Derive(values[v], meaning[v]) /\ UNCHANGED maps
     ELSE \E x \in 1..2 :
            /\ Cloned(Set(maps[values[v].params], "routing", x))
            /\ Derive([values[v] EXCEPT !.params = NewMap],
                      [meaning[v] EXCEPT !.params = Set(@, "routing", x)])
  /\ UNCHANGED arrays

\* The aggregations a body has, under either key.
Aggregations(fields) ==
  IF "aggs" \in DOMAIN fields THEN fields["aggs"]
  ELSE IF "aggregations" \in DOMAIN fields THEN fields["aggregations"]
  ELSE {}
Aggregated(fields, name) ==
  Set(Without(fields, {"aggregations"}), "aggs", Aggregations(fields) \union {name})

\* Finder.Aggregate: what is there is kept, under one key.
Aggregate(v) ==
  /\ ~values[v].err
  /\ \E name \in Names :
       /\ Cloned(Aggregated(maps[values[v].fields], name))
       /\ Derive([values[v] EXCEPT !.fields = NewMap],
                 [meaning[v] EXCEPT !.fields = Aggregated(@, name)])
  /\ UNCHANGED arrays

\* Search.HybridRRF: a retriever replaces the query and the kNN search.
HybridRRF(v) ==
  /\ ~values[v].err
  /\ LET Combined(fields) == Set(Without(fields, {"query", "knn"}), "retriever", 1) IN
       /\ Cloned(Combined(maps[values[v].fields]))
       /\ Derive([values[v] EXCEPT !.fields = NewMap],
                 [meaning[v] EXCEPT !.fields = Combined(@)])
  /\ UNCHANGED arrays

Next ==
  \/ Find \/ CallerWrites
  \/ \E v \in DOMAIN values :
       \/ AddClause(v) \/ With(v) \/ Refuse(v) \/ Param(v) \/ Aggregate(v) \/ HybridRRF(v)

Spec == Init /\ [][Next]_vars

-----------------------------------------------------------------------------
\* Every search derived is what its caller asked for and stays so, whatever
\* others derive from it or from what it was derived from, and whatever the
\* caller does with its own slices: no array or map is written once another
\* value may read it.
BuildersIndependent ==
  \A v \in DOMAIN values :
    /\ \A c \in Clauses : Cells(values[v].clauses[c]) = meaning[v].clauses[c]
    /\ maps[values[v].fields] = meaning[v].fields
    /\ maps[values[v].params] = meaning[v].params
    /\ values[v].err = meaning[v].err
=============================================================================
