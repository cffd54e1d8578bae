------------------------------ MODULE Iterator ------------------------------
(***************************************************************************)
(* The PIT iterator of src/iterator.go: Iterate, Next, Close, Cursor,      *)
(* Detach and ResumeIterator, over a server that pages through a point in  *)
(* time, gives it a new id in place of the old one when it likes, lets it  *)
(* expire, fails a search, and answers badly or not at all.  An iterator   *)
(* is used by one goroutine; the context may end under it, and its process *)
(* may stop after any call and go on from a cursor it has kept.            *)
(*                                                                         *)
(* A hit is its position in the sort order of the PIT: the _shard_doc      *)
(* tiebreaker makes sort values unique.                                    *)
(***************************************************************************)
EXTENDS Integers, Sequences, FiniteSets

CONSTANTS
  NumHits,      \* hits of the search, at the point in time
  PageSize,
  MaxRotations, \* bound: ids the server gives out after the first one
  MaxResumes    \* bound: iterators that follow the first one

ASSUME IteratorAssumption ==
  /\ NumHits \in Nat /\ PageSize \in Nat \ {0}
  /\ MaxRotations \in Nat /\ MaxResumes \in Nat

VARIABLES
  pit, page, position, current, after, err, closed, started,
              \* the fields of the iterator in use; while there is none,
              \* pit is 0 and err says that Iterate has failed
  ctxDone,    \* its context is done
  cursor,     \* the last cursor the caller took, or NoCursor
  owner,      \* who must close the PIT: "nobody", "iterator", "caller"
  open,       \* the PIT ids the server knows
  expired,    \* those it has forgotten of its own accord
  ids,        \* the PIT ids given out so far
  resumes,
  emitted,    \* history: the hits Next has advanced to, over all iterators
  exhausted,  \* history: the iterator in use ended on an empty page
  failedDelete, \* history: the iterator in use could not delete its PIT
  stray,      \* history: PITs that calls before the iterator in use left
  lost        \* history: the PIT ids the server gave and no answer told

fields == <<pit, page, position, current, after, err, closed, started>>
serverVars  == <<open, expired, ids>>
historyVars == <<emitted, exhausted, stray, lost>>
vars == <<fields, ctxDone, cursor, owner, serverVars, resumes, historyVars, failedDelete>>

NoHit == 0
NoCursor == [pit |-> 0, sort |-> NoHit]

\* The page of hits after a sort value; a first search has none.
PageAfter(k) ==
  [i \in 1..(IF NumHits - k < PageSize THEN NumHits - k ELSE PageSize) |-> k + i]

Init ==
  /\ pit = 0 /\ page = <<>> /\ position = 0 /\ current = NoHit
  /\ after = NoHit /\ err = FALSE /\ closed = TRUE /\ started = FALSE
  /\ ctxDone = FALSE /\ cursor = NoCursor /\ owner = "nobody"
  /\ open = {} /\ expired = {} /\ ids = 0 /\ resumes = 0
  /\ emitted = <<>> /\ exhausted = FALSE /\ failedDelete = FALSE
  /\ stray = {} /\ lost = {}

\* A new iterator over PIT id, past sort value k.
NewIterator(id, k, begun) ==
  /\ pit' = id /\ page' = <<>> /\ position' = 0 /\ current' = NoHit
  /\ after' = k /\ err' = FALSE /\ closed' = FALSE /\ started' = begun
  /\ ctxDone' = FALSE
  /\ owner' = "iterator"
  /\ exhausted' = FALSE /\ failedDelete' = FALSE

\* The caller calls Iterate until it gives an iterator.
Unopened == owner = "nobody" /\ pit = 0

Iterate ==
  /\ Unopened /\ ids <= MaxRotations
  /\ NewIterator(ids + 1, NoHit, FALSE)
  /\ ids' = ids + 1 /\ open' = open \union {ids + 1}
  /\ stray' = stray \union open
  /\ UNCHANGED <<cursor, expired, resumes, emitted, lost>>

\* POST /_pit fails, or its answer is lost or has no id: Iterate returns an error
\* and no iterator, and the server may have opened a PIT all the same.
IterateFails ==
  /\ Unopened
  /\ err' = TRUE
  /\ \/ UNCHANGED <<ids, open, lost>>
     \/ /\ ids <= MaxRotations
        /\ ids' = ids + 1 /\ open' = open \union {ids + 1} /\ lost' = lost \union {ids + 1}
  /\ UNCHANGED <<pit, page, position, current, after, closed, started, ctxDone, cursor,
                 owner, expired, resumes, emitted, exhausted, stray, failedDelete>>

\* Close sends DELETE /_pit under a context of its own, once.  A PIT the server
\* does not know is as good as closed; another failure, or a lost answer, is
\* joined to err.
Closes(id, known, failed) ==
  /\ closed' = TRUE
  /\ owner' = (IF owner = "caller" THEN "caller" ELSE "nobody")
  /\ UNCHANGED expired
  /\ \/ open' = known \ {id} /\ err' = failed /\ failedDelete' = FALSE
     \/ open' \in {known, known \ {id}} /\ err' = TRUE /\ failedDelete' = TRUE

StillOpen == TRUE   \* Mutant: Close does not look at closed.
NotClosed == ~closed

Close ==
  /\ NotClosed
  /\ Closes(pit, open, err)
  /\ UNCHANGED <<pit, page, position, current, after, started, ctxDone, cursor, ids,
                 resumes, historyVars>>

\* What every successful Next ends with.
Advances(hits, at) ==
  /\ current' = hits[at + 1]
  /\ position' = at + 1
  /\ emitted' = Append(emitted, hits[at + 1])

NextFindsContextDone ==
  /\ ~closed /\ ~err /\ ctxDone
  /\ Closes(pit, open, TRUE)
  /\ UNCHANGED <<pit, page, position, current, after, started, ctxDone, cursor, ids,
                 resumes, historyVars>>

NextFromPage ==
  /\ ~closed /\ ~err /\ ~ctxDone /\ position < Len(page)
  /\ Advances(page, position)
  /\ UNCHANGED <<pit, page, after, err, closed, started, ctxDone, cursor, owner,
                 serverVars, resumes, exhausted, stray, lost, failedDelete>>

\* The id a search answers with, and the ids the server then knows: the same,
\* or a new one in its place.
Renamings ==
  {[id |-> pit, ids |-> ids, open |-> open]} \union
  (IF pit \in open /\ ids <= MaxRotations
   THEN {[id |-> ids + 1, ids |-> ids + 1, open |-> (open \ {pit}) \union {ids + 1}]}
   ELSE {})

\* search_after, which the first search of an iteration goes without.
SearchAfter == IF started THEN after ELSE NoHit

NeedsPage == ~closed /\ ~err /\ ~ctxDone /\ position = Len(page)

\* What a search may answer: the hits after SearchAfter; or, from a server that
\* ignores it, a page that ends with the hit the last page ended with; or a page
\* whose hits have no sort values.
Answers ==
  {[hits |-> PageAfter(SearchAfter), sorted |-> TRUE]} \union
  {a \in [hits : {PageAfter(k) : k \in 0..(NumHits - 1)}, sorted : BOOLEAN] :
     a.sorted => a.hits[Len(a.hits)] = after}

AnyPage(a)  == TRUE   \* Mutant: the iterator takes the page it is given.
Advanced(a) == a.sorted /\ a.hits[Len(a.hits)] # after

\* A page of hits that goes on after the last one.
NextFetches ==
  /\ NeedsPage /\ pit \in open
  /\ \E a \in Answers :
       /\ a.hits # <<>> /\ Advanced(a)
       /\ page' = a.hits /\ started' = TRUE
       /\ after' = a.hits[Len(a.hits)]
       /\ Advances(a.hits, 0)
  /\ \E r \in Renamings : pit' = r.id /\ ids' = r.ids /\ open' = r.open
  /\ UNCHANGED <<err, closed, ctxDone, cursor, owner, expired, resumes, exhausted, stray,
                 lost, failedDelete>>

OldPit(r, told)      == pit   \* Mutant: the id of a failed search is not adopted.
AnsweredPit(r, told) == IF told THEN r.id ELSE pit

\* The search fails, its answer is lost or unreadable, or the PIT has expired.
\* Only a partial result, or one a hook refuses, tells the id the PIT has now;
\* the iterator closes the PIT it knows.
NextFails ==
  /\ NeedsPage
  /\ \E r \in Renamings, told \in BOOLEAN :
       /\ pit' = AnsweredPit(r, told) /\ ids' = r.ids
       /\ Closes(AnsweredPit(r, told), r.open, TRUE)
       /\ lost' = IF told THEN lost ELSE lost \union ({r.id} \ {pit})
  /\ UNCHANGED <<page, position, current, after, started, ctxDone, cursor, resumes,
                 emitted, exhausted, stray>>

Start == 0

\* An empty page ends the iteration; it may carry a new id, too.
NextExhausts ==
  /\ NeedsPage /\ pit \in open
  /\ PageAfter(SearchAfter) = <<>>
  /\ page' = <<>> /\ position' = Start /\ started' = TRUE
  /\ \E r \in Renamings :
       /\ pit' = r.id /\ ids' = r.ids
       /\ Closes(r.id, r.open, FALSE)
  /\ exhausted' = TRUE
  /\ UNCHANGED <<current, after, ctxDone, cursor, resumes, emitted, stray, lost>>

\* A page that does not go on, or cannot be gone on from, is refused.
NextRefusesPage ==
  /\ NeedsPage /\ pit \in open
  /\ \E a \in Answers :
       /\ a.hits # <<>> /\ ~Advanced(a)
       /\ page' = a.hits
  /\ position' = Start /\ started' = TRUE
  /\ \E r \in Renamings :
       /\ pit' = r.id /\ ids' = r.ids
       /\ Closes(r.id, r.open, TRUE)
  /\ UNCHANGED <<current, after, ctxDone, cursor, resumes, historyVars>>

PageEnd == after   \* Mutant: the cursor carries the last hit of the page.
LastHit == current

\* Cursor: the latest id and the last hit emitted; the iterator goes on.
TakeCursor ==
  /\ ~closed /\ current # NoHit
  /\ cursor' = [pit |-> pit, sort |-> LastHit]
  /\ UNCHANGED <<fields, ctxDone, owner, serverVars, resumes, historyVars, failedDelete>>

\* Detach: the cursor, and with it the PIT, goes to the caller.
Detach ==
  /\ ~closed /\ current # NoHit
  /\ cursor' = [pit |-> pit, sort |-> LastHit]
  /\ closed' = TRUE
  /\ owner' = "caller"
  /\ UNCHANGED <<pit, page, position, current, after, err, started, ctxDone, serverVars,
                 resumes, historyVars, failedDelete>>

\* ResumeIterator over a cursor: a detached one, or one taken earlier by a
\* process that then stopped without closing its iterator.
ResumeIterator ==
  /\ cursor # NoCursor /\ resumes < MaxResumes
  /\ resumes' = resumes + 1
  /\ NewIterator(cursor.pit, cursor.sort, TRUE)
  /\ cursor' = NoCursor
  /\ stray' = stray \union (open \ {cursor.pit})
  /\ UNCHANGED <<serverVars, emitted, lost>>

ContextEnds ==
  /\ ~closed /\ ~ctxDone
  /\ ctxDone' = TRUE
  /\ UNCHANGED <<fields, cursor, owner, serverVars, resumes, historyVars, failedDelete>>

\* The keep-alive runs out between two calls.
PitExpires ==
  /\ open # {}
  /\ open' = {} /\ expired' = expired \union open
  /\ UNCHANGED <<fields, ctxDone, cursor, owner, ids, resumes, historyVars, failedDelete>>

Next ==
  \/ Iterate \/ IterateFails \/ Close
  \/ NextFindsContextDone \/ NextFromPage \/ NextFetches \/ NextFails
  \/ NextExhausts \/ NextRefusesPage
  \/ TakeCursor \/ Detach \/ ResumeIterator \/ ContextEnds \/ PitExpires

Spec == Init /\ [][Next]_vars
-----------------------------------------------------------------------------
Emitted == {emitted[i] : i \in DOMAIN emitted}

\* Types; the position stays within the page.
TypeOK ==
  /\ pit \in Nat /\ page \in Seq(1..NumHits) /\ position \in 0..Len(page)
  /\ Len(page) <= PageSize
  /\ current \in 0..NumHits /\ after \in 0..NumHits
  /\ {err, closed, started, ctxDone, exhausted, failedDelete} \subseteq BOOLEAN
  /\ cursor \in [pit : Nat, sort : 0..NumHits]
  /\ owner \in {"nobody", "iterator", "caller"}
  /\ open \union expired \union stray \union lost \subseteq 1..ids /\ ids \in 0..(MaxRotations + 1)
  /\ resumes \in 0..MaxResumes
  /\ emitted \in Seq(1..NumHits)

\* Every hit an iterator advances to is the successor of the one before it,
\* also across pages, new PIT ids and the cursor it was resumed from: nothing
\* is skipped and, but for a cursor older than the last hit, nothing repeated.
EmitsSuccessor ==
  [][emitted' # emitted =>
       current' = (IF current = NoHit THEN after ELSE current) + 1]_vars

\* An iteration that ended without an error, however often it was detached and
\* resumed, has emitted every hit of the point in time.
ExhaustedMeansAll == exhausted => Emitted = 1..NumHits

\* When nobody is to close a PIT any more, those the calls on this iterator have
\* left on the server are the one whose deletion has failed or was not answered
\* and one whose id no answer told, which the client cannot know; and the caller
\* has been given an error.  Rotation, failure, cancellation, a bad page and the
\* end of the hits leave no other.
NoSilentLeak ==
  owner = "nobody" =>
    LET left == open \ stray IN
      /\ left # {} => err
      /\ left \subseteq lost \union (IF failedDelete THEN {pit} ELSE {})

\* A detached PIT is the caller's: its cursor stays good until the keep-alive
\* runs out, whatever is still called on the iterator, a deferred Close above all.
DetachedPitIsKept == owner = "caller" => cursor.pit \in open \union expired
=============================================================================
