------------------------------- MODULE Queries -------------------------------
(***************************************************************************)
(* What a search selects: queries composed with And, Or and Not            *)
(* (src/query.go), a Finder's clauses and what its methods send            *)
(* (src/finder.go), facets (src/facets.go), and how Search, MultiSearch    *)
(* and Count answer (src/search.go, src/repository.go) when shards fail.   *)
(*                                                                         *)
(* These are functions: a caller's case is given, and one step computes    *)
(* its result.  A query is the set of documents it matches; Bad stands for *)
(* one whose construction has failed.  Documents sort by their number.     *)
(***************************************************************************)
EXTENDS Integers, SequencesExt, Client

CONSTANTS
  AllDocs,     \* the documents of an index, numbers
  Shards, Shard,   \* its shards, and the one each document is on
  AggNames,    \* of aggregations and facets
  Calls,       \* the cases
  Bad, Nil

VARIABLES
  given,       \* the case
  result       \* what the call returns, Nil before

\* A search body: its query, kNN search and post_filter, if it has them.
Query == SUBSET AllDocs
Body ==
  [query : {Nil} \union Query, knn : {Nil} \union Query, post : {Nil} \union Query,
   from : Nat, size : Nat, terminate : {FALSE}]

Finders ==
  [kind : {"find"}, must : Seq({Bad} \union Query), filter : Seq({Bad} \union Query),
   should : Seq({Bad} \union Query), mustNot : Seq({Bad} \union Query), base : Body]
Compositions ==
  [kind : {"must", "filter", "should", "must_not"}, queries : Seq({Bad} \union Query)]
\* Facets of a search that shows all its hits.
Selections == {Nil, Bad} \union Query
Faceted ==
  [kind : {"facets"},
   base : [query : Query, knn : {Nil}, post : {Nil} \union Query, from : {0},
           size : {Cardinality(AllDocs)}, terminate : {FALSE}],
   aggs : SUBSET AggNames, names : SUBSET AggNames, selection : [AggNames -> Selections],
   typed : BOOLEAN]
MultiSearches ==
  [kind : {"msearch"},
   searches : Seq([query : Query, pit : BOOLEAN, bad : BOOLEAN,
                   params : SUBSET {"routing", "typed_keys", "version"}])]

Init == given \in Calls /\ result = Nil

-----------------------------------------------------------------------------
\* The server.

\* The bool query.
Bool(must, filter, should, mustNot, minimum) ==
  {d \in AllDocs :
     /\ \A i \in DOMAIN must : d \in must[i]
     /\ \A i \in DOMAIN filter : d \in filter[i]
     /\ \A i \in DOMAIN mustNot : d \notin mustNot[i]
     /\ Cardinality({i \in DOMAIN should : d \in should[i]}) >= minimum}
\* minimum_should_match when it is left out.
Default(must, filter, should) == IF must \o filter = <<>> /\ should # <<>> THEN 1 ELSE 0

\* What a body selects, before its post_filter.
Selected(s) ==
  IF s.query = Nil /\ s.knn = Nil THEN AllDocs
  ELSE UNION ({s.query, s.knn} \ {Nil})

\* Each shard collects all it finds, or stops at its first document.
Collected(s) ==
  IF ~s.terminate THEN {Selected(s)}
  ELSE {c \in SUBSET Selected(s) :
          \A shard \in {Shard[d] : d \in Selected(s)} :
             Cardinality({d \in c : Shard[d] = shard}) = 1}

\* A window of documents, in order, which may lie beyond the last.
Before(docs, d) == {e \in docs : e < d}
Window(docs, from, size) ==
  [i \in 1..Min({size, Max({0, Cardinality(docs) - from})}) |->
     CHOOSE d \in docs : Cardinality(Before(docs, d)) = from + i - 1]

\* The hits of a window, from the shards that answer.
Hits(s, collected, shards) ==
  Window({d \in collected : Shard[d] \in shards /\ (s.post = Nil \/ d \in s.post)},
         s.from, s.size)

-----------------------------------------------------------------------------
\* Queries composed.

\* boolean, and And, Filter, Or and Not, which call it.
Boolean(kind, queries) ==
  IF queries = <<>> THEN IF kind = "should" THEN {} ELSE AllDocs
  ELSE IF Contains(queries, Bad) THEN Bad
  ELSE CASE kind = "must" -> Bool(queries, <<>>, <<>>, <<>>, 0)
         [] kind = "filter" -> Bool(<<>>, queries, <<>>, <<>>, 0)
         [] kind = "should" -> Bool(<<>>, <<>>, queries, <<>>, 1)
         [] kind = "must_not" -> Bool(<<>>, <<>>, <<>>, queries, 0)

Compose ==
  /\ given.kind \in {"must", "filter", "should", "must_not"} /\ result = Nil
  /\ result' = [docs |-> Boolean(given.kind, given.queries)]
  /\ UNCHANGED given

-----------------------------------------------------------------------------
\* Searching.

Answered(hits) == [hits |-> hits, err |-> "nil"]
Failed(e) == [hits |-> <<>>, err |-> e]

\* What a request that gets no good answer returns.
Failures ==
  {Failed(Perform(reply, TRUE)) :
     reply \in {TransportError, Response(503, "json"), Response(404, "json"),
               Response(200, "garbage")}}

\* validatePITParams
PITRefuses(s) == s.bad \/ (s.pit /\ "routing" \in s.params)

\* Repository.Search: a result that is not complete comes with an error, and
\* so does a hit the AfterRead hook refuses.
Search(s, ctx) ==
  IF ~SendsTyped(ctx, [built |-> TRUE, host |-> FALSE, compatible |-> {0, 9}], 9)
  THEN {Failed("validation")}
  ELSE Failures
       \union {[hits |-> Hits(s, c, shards),
                err |-> IF shards = Shards THEN "nil" ELSE "partial"] :
                 c \in Collected(s), shards \in SUBSET Shards}
       \union {[hits |-> Hits(s, c, Shards), err |-> "hook"] : c \in Collected(s)}

-----------------------------------------------------------------------------
\* Finder.

\* Mutant: the base's own query does not count as a required clause.
AtLeastForClauses(f) == IF f.must \o f.filter = <<>> /\ f.should # <<>> THEN 1 ELSE 0
\* The clauses with the base's query, which is required too.
Must(f) == IF f.base.query = Nil THEN f.must ELSE <<f.base.query>> \o f.must
\* Finder.compile asks for one should clause only if nothing is required.
AtLeast(f) ==
  IF f.should # <<>> /\ Must(f) \o f.filter = <<>> THEN 1
  ELSE Default(Must(f), f.filter, f.should)

Compile(f) ==
  LET must == Must(f) clauses == f.filter \o f.should \o f.mustNot IN
  IF clauses = <<>> /\ must = <<>> THEN AllDocs
  ELSE IF clauses = <<>> /\ Len(must) = 1 THEN must[1]
  ELSE IF Contains(must \o clauses, Bad) THEN Bad
  ELSE Bool(must, f.filter, f.should, f.mustNot, AtLeast(f))

\* Finder.Search: a kNN search alone stays one.
SearchOf(f) ==
  IF f.must \o f.filter \o f.should \o f.mustNot = <<>> /\ f.base.query = Nil /\ f.base.knn # Nil
  THEN f.base
  ELSE [f.base EXCEPT !.query = Compile(f)]

\* Finder.Result and All
Result(f, ctx) ==
  IF SearchOf(f).query = Bad THEN {Failed("validation")} ELSE Search(SearchOf(f), ctx)

\* Finder.First
First(f, ctx) ==
  {IF r.hits = <<>> /\ r.err = "nil" THEN Failed("notFound") ELSE r :
     r \in Result([f EXCEPT !.base.size = 1], ctx)}

\* Finder.Exists: it may stop at the first document of a shard, unless a
\* post_filter could throw that one away.
Exists(f, ctx) ==
  {[exists |-> r.hits # <<>>, err |-> r.err] :
     r \in Result([f EXCEPT !.base.from = 0, !.base.size = 1,
                            !.base.terminate = f.base.post = Nil], ctx)}

\* Repository.CountWith: a count that lacks shards comes with an error.
CountWith(query, ctx) ==
  {[count |-> 0, err |-> r.err] : r \in Failures}
  \union {[count |-> Cardinality({d \in query : Shard[d] \in shards}),
           err |-> IF shards = Shards THEN "nil" ELSE "partial"] :
            shards \in SUBSET Shards}

\* Finder.Count: the query alone.
Count(f, ctx) ==
  IF Compile(f) = Bad THEN {[count |-> 0, err |-> "validation"]}
  ELSE CountWith(Compile(f), ctx)

Returns(method, r) == result' = [method |-> method, err |-> r.err, returned |-> r]

Find ==
  /\ given.kind = "find" /\ result = Nil
  /\ \E ctx \in BOOLEAN :
       \/ \E r \in Result(given, ctx) : Returns("All", r)
       \/ \E r \in First(given, ctx) : Returns("First", r)
       \/ \E r \in Exists(given, ctx) : Returns("Exists", r)
       \/ \E r \in Count(given, ctx) : Returns("Count", r)
  /\ UNCHANGED given

-----------------------------------------------------------------------------
\* Facets.

\* WithFacets: the post_filter and a filter for each facet, or an error.
Selecting(c) == {n \in c.names : c.selection[n] # Nil}
SelectionsOf(c, names) == SetToSeq({c.selection[n] : n \in names})
WithFacets(c) ==
  IF c.base.post # Nil THEN [err |-> "validation"]
  ELSE IF c.names = {} THEN [err |-> "nil", post |-> Nil, filter |-> <<>>]
  ELSE IF c.names \intersect c.aggs # {} \/ \E n \in c.names : c.selection[n] = Bad
       THEN [err |-> "validation"]
  ELSE [err |-> "nil",
        post |-> IF Selecting(c) = {} THEN Nil ELSE Boolean("must", SelectionsOf(c, Selecting(c))),
        filter |-> [n \in c.names |->
                      Boolean("must", SelectionsOf(c, Selecting(c) \ {n}))]]

\* The server's aggregations, under names it may prefix with their types, as
\* pairs of a key and a value.
Aggregated(c, s) ==
  {<< <<IF c.typed THEN "filter" ELSE "", n>>, s.filter[n] \intersect c.base.query>> :
     n \in c.names}
  \union {<< <<IF c.typed THEN "terms" ELSE "", n>>, c.base.query>> : n \in c.aggs}

\* DecodeAgg: the name as it is, or behind one type.
DecodeAgg(aggs, name) ==
  LET Of(keys) == {a \in aggs : a[1] \in keys}
      plain == Of({<<"", name>>})
      typed == Of({a[1] : a \in {a \in aggs : a[1][1] # "" /\ a[1][2] = name}})
  IN  IF plain # {} THEN (CHOOSE a \in plain : TRUE)[2]
      ELSE IF Cardinality(typed) = 1 THEN (CHOOSE a \in typed : TRUE)[2]
      ELSE IF typed = {} THEN "notFound" ELSE "ambiguous"

Facets ==
  /\ given.kind = "facets" /\ result = Nil
  /\ LET s == WithFacets(given) IN
     result' = IF s.err # "nil" THEN s
               ELSE [err |-> "nil",
                     hits |-> Range(Hits([given.base EXCEPT !.post = s.post],
                                         given.base.query, Shards)),
                     aggs |-> [n \in given.names \union given.aggs |->
                                 DecodeAgg(Aggregated(given, s), n)]]
  /\ UNCHANGED given

-----------------------------------------------------------------------------
\* MultiSearch: one request for all searches; each has its own error.
Refused(searches) ==
  \E i \in DOMAIN searches :
    \/ PITRefuses(searches[i])
    \/ ("typed_keys" \in searches[i].params) # ("typed_keys" \in searches[1].params)
    \/ "version" \in searches[i].params

\* What the server may say of one search, and what becomes of it.
Responses(s) ==
  {[error |-> e, shards |-> Shards, docs |-> {}] : e \in {"item", "malformed"}}
  \union {[error |-> "", shards |-> shards, docs |-> {d \in s.query : Shard[d] \in shards}] :
            shards \in SUBSET Shards}
\* Its answers to the first n searches, in order.
Batches(searches, n) ==
  {r \in [1..n -> UNION {Responses(searches[i]) : i \in DOMAIN searches}] :
     \A i \in 1..n : r[i] \in Responses(searches[i])}
Item(response) ==
  IF response.error # "" THEN {Failed(response.error)}
  ELSE {[hits |-> Window(response.docs, 0, Cardinality(AllDocs)), err |-> e] :
          e \in IF response.shards = Shards THEN {"nil", "hook"} ELSE {"partial"}}

MultiSearch ==
  /\ given.kind = "msearch" /\ result = Nil
  /\ LET searches == given.searches IN
     \/ searches = <<>> /\ result' = [err |-> "nil", results |-> <<>>]
     \/ Refused(searches) /\ result' = [err |-> "validation", results |-> <<>>]
     \/ /\ searches # <<>> /\ ~Refused(searches)
        /\ \/ \E r \in Failures :
                result' = [err |-> r.err, results |-> <<>>]
           \/ \E n \in {Len(searches) - 1, Len(searches)} :
              \E responses \in Batches(searches, n) :
                IF Len(responses) # Len(searches)
                THEN result' = [err |-> "mismatch", results |-> <<>>]
                ELSE \E results \in [DOMAIN searches -> UNION {Item(r) : r \in Range(responses)}] :
                       /\ \A i \in DOMAIN searches : results[i] \in Item(responses[i])
                       /\ result' = [err |-> "nil", results |-> results]
  /\ UNCHANGED given

Next == Compose \/ Find \/ Facets \/ MultiSearch

Spec == Init /\ [][Next]_<<given, result>>

-----------------------------------------------------------------------------
\* What a caller of a Finder has asked for, said document by document.
Clauses(f) == f.must \o f.filter \o f.should \o f.mustNot
Wanted(f) ==
  LET required == (Range(f.must \o f.filter) \union {f.base.query}) \ {Nil}
      Lexical(d) ==
        /\ \A q \in required : d \in q
        /\ \A q \in Range(f.mustNot) : d \notin q
        /\ required = {} /\ f.should # <<>> => \E q \in Range(f.should) : d \in q
      near == IF f.base.knn = Nil THEN {} ELSE f.base.knn
  IN  IF Clauses(f) = <<>> /\ f.base.query = Nil /\ f.base.knn # Nil
      THEN near ELSE {d \in AllDocs : Lexical(d)} \union near

FinderSelects(f, r) ==
  LET shown == {d \in Wanted(f) : f.base.post = Nil \/ d \in f.base.post}
      After(n) == Window(shown, f.base.from, n)
      without == [f EXCEPT !.base.knn = Nil, !.base.post = Nil]
  IN  CASE r.method = "All" -> r.returned.hits = After(f.base.size)
        [] r.method = "First" -> r.returned.hits = After(1) /\ r.returned.hits # <<>>
        [] r.method = "Exists" -> r.returned.exists = (shown # {})
        [] r.method = "Count" -> r.returned.count = Cardinality(Wanted(without))

\* A call that returns no error has the documents its caller asked for, all of
\* them and no others, whatever shards fail or stop early: the clauses of a
\* Finder with its base query, kNN search, post_filter and offset; And, Or and
\* Not of any number of queries; the hits of faceted searches under every
\* selection, and each facet's counts under all but its own; and each search of
\* a multi-search in its place.  A query that could not be built is never sent.
QueriesSelect ==
  result # Nil =>
    CASE given.kind = "find" ->
           IF Contains(Clauses(given), Bad) THEN result.err # "nil"
           ELSE result.err = "nil" => FinderSelects(given, result)
      [] given.kind = "facets" -> result.err = "nil" =>
           LET Under(names) ==
                 {d \in given.base.query : \A n \in names :
                    given.selection[n] = Nil \/ d \in given.selection[n]} IN
           /\ result.hits = Under(given.names)
           /\ \A n \in given.names : result.aggs[n] = Under(given.names \ {n})
           /\ \A n \in given.aggs : result.aggs[n] = given.base.query
      [] given.kind = "msearch" -> result.err = "nil" =>
           /\ Len(result.results) = Len(given.searches)
           /\ \A i \in DOMAIN given.searches : result.results[i].err = "nil" =>
                Range(result.results[i].hits) = given.searches[i].query
      [] OTHER ->
           LET In(d, q) == Cardinality({i \in DOMAIN q : d \in q[i]})
           IN  IF Contains(given.queries, Bad) THEN result.docs = Bad
               ELSE result.docs =
                 {d \in AllDocs : CASE given.kind \in {"must", "filter"} ->
                                      In(d, given.queries) = Len(given.queries)
                                 [] given.kind = "should" -> In(d, given.queries) > 0
                                 [] given.kind = "must_not" -> In(d, given.queries) = 0}
=============================================================================
