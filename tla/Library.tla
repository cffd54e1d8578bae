------------------------------- MODULE Library -------------------------------
(***************************************************************************)
(* The parts of the library that share nothing but the client: starting a  *)
(* program, loading references, deriving searches, operations by query,    *)
(* and the computations over queries, numbers and schemas.  A call of one  *)
(* reads no state of another, so the library is their sum and not their    *)
(* product: a behaviour follows one part, and the state of the others      *)
(* stays absent.                                                           *)
(***************************************************************************)
EXTENDS Integers, Sequences, FiniteSets

CONSTANTS
  Nil, Bad, Free,
  Indices, MaxAdds,                             \* IndexSetup
  Refs, Roots, BatchSize, Depths, Limits,       \* References
  MaxValues,                                    \* Builders
  Docs, MaxWrites,                              \* ByQuery
  AllDocs, Shards, Shard, AggNames, Calls,         \* Queries
  W, DefaultInitial, DefaultMaximum, Millisecond   \* Numbers

ASSUME LibraryAssumption ==
  /\ {MaxAdds, MaxValues, MaxWrites} \subseteq Nat
  /\ BatchSize \in Nat \ {0} /\ Depths \subseteq Nat \ {0} /\ Limits \subseteq Nat \ {0}
  /\ IsFiniteSet(Refs) /\ Roots \subseteq Seq(Refs)
  /\ W \in Nat \ {0, 1} /\ Millisecond \in Nat \ {0}

VARIABLES
  part,        \* the part this behaviour follows
  entries, adds, mapping, at, todo, pos, err, put, answer, drift, faults,
  children, status, roots, maxDepth, maxDocuments, loading, depth, seen, pending, batch,
  nodes, truncated, failed,
  arrays, maps, values, meaning,
  version, writes, task, options, calling, returned, polled, waited,
  given, result

Setup == INSTANCE IndexSetup
Graph == INSTANCE References
Derived == INSTANCE Builders
Bulk == INSTANCE ByQuery
Select == INSTANCE Queries
Count == INSTANCE Numbers
Map == INSTANCE Schemas

\* A query is a set of documents, which neither a missing one nor a bad one is.
ASSUME QueriesAssumption ==
  /\ AllDocs \subseteq Nat /\ IsFiniteSet(AllDocs) /\ Shard \in [AllDocs -> Shards]
  /\ IsFiniteSet(AggNames)
  /\ Calls \subseteq Select!Finders \union Select!Compositions \union Select!Faceted
                     \union Select!MultiSearches
  /\ Nil # Bad /\ \A q \in Select!Query : q \notin {Nil, Bad}
ASSUME NumbersAssumption == {DefaultInitial, DefaultMaximum} \subseteq 1..Count!MaxInt
ASSUME NilAssumption ==
  /\ IsFiniteSet(Docs)
  /\ \A matching \in SUBSET Docs : Nil \notin Bulk!Tasks(matching)
  /\ Nil \notin Setup!Mappings

setup == <<entries, adds, mapping, at, todo, pos, err, put, answer, drift, faults>>
graph == <<children, status, roots, maxDepth, maxDocuments, loading, depth, seen, pending,
           batch, nodes, truncated, failed>>
derived == <<arrays, maps, values, meaning>>
bulk == <<version, writes, task, options, calling, returned, polled, waited>>
case == <<given, result>>

NoSetup ==
  /\ entries = Nil /\ adds = Nil /\ mapping = Nil /\ at = Nil /\ todo = Nil /\ pos = Nil
  /\ err = Nil /\ put = Nil /\ answer = Nil /\ drift = Nil /\ faults = Nil
NoGraph ==
  /\ children = Nil /\ status = Nil /\ roots = Nil /\ maxDepth = Nil /\ maxDocuments = Nil
  /\ loading = Nil /\ depth = Nil /\ seen = Nil /\ pending = Nil /\ batch = Nil
  /\ nodes = Nil /\ truncated = Nil /\ failed = Nil
NoSearch == arrays = Nil /\ maps = Nil /\ values = Nil /\ meaning = Nil
NoBulk ==
  /\ version = Nil /\ writes = Nil /\ task = Nil /\ options = Nil
  /\ calling = Nil /\ returned = Nil /\ polled = Nil /\ waited = Nil
NoCase == given = Nil /\ result = Nil

Init ==
  \/ part = "setup" /\ Setup!Init /\ NoGraph /\ NoSearch /\ NoBulk /\ NoCase
  \/ part = "graph" /\ NoSetup /\ Graph!Init /\ NoSearch /\ NoBulk /\ NoCase
  \/ part = "search" /\ NoSetup /\ NoGraph /\ Derived!Init /\ NoBulk /\ NoCase
  \/ part = "bulk" /\ NoSetup /\ NoGraph /\ NoSearch /\ Bulk!Init /\ NoCase
  \/ /\ NoSetup /\ NoGraph /\ NoSearch /\ NoBulk
     /\ \/ part = "queries" /\ Select!Init
        \/ part = "numbers" /\ Count!Init
        \/ part = "schemas" /\ Map!Init

Next ==
  /\ part' = part
  /\ \/ part = "setup" /\ Setup!Next /\ UNCHANGED <<graph, derived, bulk, case>>
     \/ part = "graph" /\ Graph!Next /\ UNCHANGED <<setup, derived, bulk, case>>
     \/ part = "search" /\ Derived!Next /\ UNCHANGED <<setup, graph, bulk, case>>
     \/ part = "bulk" /\ Bulk!Next /\ UNCHANGED <<setup, graph, derived, case>>
     \/ /\ UNCHANGED <<setup, graph, derived, bulk>>
        /\ \/ part = "queries" /\ Select!Next
           \/ part = "numbers" /\ Count!Next
           \/ part = "schemas" /\ Map!Next

Spec == Init /\ [][Next]_<<part, setup, graph, derived, bulk, case>>

-----------------------------------------------------------------------------
\* The properties of the parts; each module says why its property is one.

\* EnsureAll and VerifyAll leave a program ready: every index exists, whoever
\* created it, and has the fields of its schema unless a drift says so.
StartedIsReady == part = "setup" => Setup!StartedIsReady
\* Preload returns whole levels of the breadth-first tree of references within
\* its limits, and MGet each answer in its reference's place.
PreloadIsBreadthFirst == part = "graph" => Graph!PreloadIsBreadthFirst
\* A Find or a Search means what its own calls said, whatever is derived from
\* it or done with the slices and maps it was given.
BuildersIndependent == part = "search" => Derived!BuildersIndependent
\* UpdateByQuery and DeleteByQuery that report success have written every
\* document the query selected.
SuccessIsComplete == part = "bulk" => Bulk!SuccessIsComplete
\* The queries the library composes select what their clauses say, and an
\* answer is decoded by what was asked.
QueriesSelect == part = "queries" => Select!QueriesSelect
\* Windows, delays and timeouts stay in range near the limits of int.
NumbersStayInRange == part = "numbers" => Count!NumbersStayInRange
\* A mapping made from a type fits the documents encoding/json makes of it.
SchemasFitDocuments == part = "schemas" => Map!SchemasFitDocuments
=============================================================================
