----------------------------- MODULE MCLibrary -----------------------------
(***************************************************************************)
(* Library on small instances of its parts: two indices, three documents   *)
(* with any references among them, two documents selected by a query,      *)
(* three documents on two shards to search, and integers of six bits.      *)
(***************************************************************************)
EXTENDS Library

\* A caller preloads from one reference, or from all, repeating one.
StartingPoints == {<<"a">>, <<"c", "a", "c", "b">>}

\* Three documents on two shards.
ShardOf == [d \in AllDocs |-> IF d = 3 THEN "b" ELSE "a"]

\* Finders with and without clauses of each kind, base query, kNN search,
\* post_filter and offset; compositions of up to two queries; facets under
\* every selection; and multi-searches of up to two, with what they refuse.
BodyOf(query, knn, post, from, size) ==
  [query |-> query, knn |-> knn, post |-> post, from |-> from, size |-> size,
   terminate |-> FALSE]
Cases ==
  [kind : {"find"}, must : {<<>>, <<{1, 2}>>, << {1, 3}, {1, 2} >>},
   filter : {<<>>, << {1, 3} >>, <<Bad>>}, should : {<<>>, << {2} >>, << {2}, {3} >>},
   mustNot : {<<>>, << {1} >>},
   base : {BodyOf(q, k, p, f, 2) : q \in {Nil, {1, 3}, {}}, k \in {Nil, {2}},
                                   p \in {Nil, {2, 3}}, f \in 0..1}]
  \union
  [kind : {"must", "filter", "should", "must_not"},
   queries : {<<>>} \union {<<q>> : q \in {{}, {1, 2}}} \union
             {<<{1, 2}, q>> : q \in {{2, 3}, {3}, Bad}}]
  \union
  [kind : {"facets"}, base : {BodyOf({1, 2, 3}, Nil, p, 0, 3) : p \in {Nil, {1}}},
   aggs : {{}, {"x"}, {"a"}}, names : SUBSET {"a", "b"},
   selection : {s \in [AggNames -> {Nil, {1}, {2, 3}, Bad}] : s["x"] = Nil}, typed : BOOLEAN]
  \union
  [kind : {"msearch"},
   searches : {<<>>} \union [1..2 -> [query : {{1}, {2, 3}}, pit : BOOLEAN, bad : {FALSE},
                                      params : {{}, {"routing"}, {"typed_keys"}, {"version"}}]]
              \union [1..1 -> [query : {{1}}, pit : {FALSE}, bad : {TRUE}, params : {{}}]]]
=============================================================================
