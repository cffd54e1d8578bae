--------------------------- MODULE IteratorProofs ---------------------------
(***************************************************************************)
(* Proofs about Iterator, for any number of hits and any page size, and    *)
(* however often the server renames the PIT and a cursor is resumed from.  *)
(*                                                                         *)
(* The inductive invariant relates the fields of the open iterator to each *)
(* other (Paging), to what has been emitted (Covered) and to the PITs the  *)
(* server keeps (Ownership).  Nothing is claimed of the fields of a closed *)
(* one: a page that was refused is left in them.                           *)
(***************************************************************************)
EXTENDS Iterator, SequenceTheorems, TLAPS

\* The hit the iterator goes on from.
LastSeen == IF current = NoHit THEN after ELSE current

\* The page is what follows the current hit, and before it the hits already
\* emitted from it; search_after is its last hit.
Paging ==
  ~closed =>
    /\ ~started => after = NoHit
    /\ \/ current = NoHit /\ page = <<>> /\ position = 0
       \/ /\ current # NoHit /\ page # <<>> /\ position > 0
          /\ started
          /\ \A i \in 1..Len(page) : page[i] = current + i - position
          /\ after = current + Len(page) - position

\* All hits up to the current one, and up to the one of a cursor, are emitted.
Covered ==
  /\ ~closed => 1..LastSeen \subseteq Emitted
  /\ 1..cursor.sort \subseteq Emitted
  /\ exhausted => closed /\ 1..NumHits \subseteq Emitted

\* Whose the PIT is.  An id that has been searched with is one the server knew.
Ownership ==
  /\ closed <=> owner # "iterator"
  /\ ~closed => /\ ~failedDelete
                /\ open \subseteq stray \union {pit}
                /\ current # NoHit => pit \in open \union expired
  /\ owner = "nobody" =>
       /\ open \subseteq stray \union lost \union (IF failedDelete THEN {pit} ELSE {})
       /\ ~err => open \subseteq stray
  /\ owner = "caller" => cursor.pit \in open \union expired

IInv == TypeOK /\ Paging /\ Covered /\ Ownership
-----------------------------------------------------------------------------
\* A page starts after the hit it was asked to start after, and is empty only
\* at the end.
LEMMA PageFollows ==
  ASSUME NEW k \in 0..NumHits
  PROVE  /\ PageAfter(k) \in Seq(1..NumHits) /\ Len(PageAfter(k)) <= PageSize
         /\ \A i \in 1..Len(PageAfter(k)) : PageAfter(k)[i] = k + i
         /\ PageAfter(k) = <<>> <=> k = NumHits
<1> DEFINE n == IF NumHits - k < PageSize THEN NumHits - k ELSE PageSize
<1>1. n \in Nat /\ n <= PageSize /\ (n = 0 <=> k = NumHits)
      /\ \A i \in 1..n : k + i \in 1..NumHits
  BY IteratorAssumption
<1>2. PageAfter(k) = [i \in 1..n |-> k + i]
  BY DEF PageAfter
<1> HIDE DEF n
<1>3. PageAfter(k) \in Seq(1..NumHits) /\ Len(PageAfter(k)) = n
  BY <1>1, <1>2
<1> QED
  BY <1>1, <1>2, <1>3

\* A renamed PIT takes the place of the old one.
LEMMA Renamed ==
  ASSUME TypeOK, NEW r \in Renamings
  PROVE  /\ r.id \in Nat /\ r.ids \in ids..(MaxRotations + 1)
         /\ r.open \subseteq 1..r.ids /\ r.open \ {r.id} \subseteq open \ {pit}
         /\ pit \in open => r.id \in r.open
         /\ r.id # pit => r.id \in 1..r.ids
<1>1. CASE r = [id |-> pit, ids |-> ids, open |-> open]
  BY <1>1, IteratorAssumption DEF TypeOK
<1>2. CASE /\ pit \in open /\ ids <= MaxRotations
           /\ r = [id |-> ids + 1, ids |-> ids + 1, open |-> (open \ {pit}) \union {ids + 1}]
  <2>1. r.id = ids + 1 /\ r.ids = ids + 1 /\ r.open = (open \ {pit}) \union {ids + 1}
    BY <1>2
  <2>2. ids \in Nat /\ MaxRotations \in Nat /\ open \subseteq 1..ids
    BY IteratorAssumption DEF TypeOK
  <2> QED
    BY <1>2, <2>1, <2>2
<1> QED
  BY <1>1, <1>2 DEF Renamings

\* Of the pages a server may answer with, the one it was asked for goes on.
LEMMA AdvancedPage ==
  ASSUME NEW a \in Answers, Advanced(a)
  PROVE  a.hits = PageAfter(SearchAfter)
<1>1. CASE a = [hits |-> PageAfter(SearchAfter), sorted |-> TRUE]
  BY <1>1
<1>2. CASE a \in {b \in [hits : {PageAfter(k) : k \in 0..(NumHits - 1)}, sorted : BOOLEAN] :
                   b.sorted => b.hits[Len(b.hits)] = after}
  BY <1>2 DEF Advanced
<1> QED
  BY <1>1, <1>2 DEF Answers

\* The effects of a page of hits that are not the last.
LEMMA Fetched ==
  ASSUME TypeOK, NextFetches
  PROVE  /\ SearchAfter \in 0..NumHits /\ SearchAfter < NumHits
         /\ page' = PageAfter(SearchAfter) /\ page' # <<>> /\ position' = 1
         /\ current' = SearchAfter + 1 /\ emitted' = Append(emitted, SearchAfter + 1)
         /\ after' = SearchAfter + Len(page') /\ Len(page') \in Nat \ {0}
<1>1. SearchAfter \in 0..NumHits
  BY IteratorAssumption DEF SearchAfter, TypeOK, NoHit
<1>2. /\ page' = PageAfter(SearchAfter) /\ page' # <<>> /\ position' = 0 + 1
      /\ current' = page'[0 + 1] /\ emitted' = Append(emitted, page'[0 + 1])
      /\ after' = page'[Len(page')]
  <2>1. PICK a \in Answers :
          /\ a.hits # <<>> /\ Advanced(a) /\ page' = a.hits
          /\ after' = a.hits[Len(a.hits)] /\ Advances(a.hits, 0)
    BY DEF NextFetches
  <2>2. a.hits = PageAfter(SearchAfter)
    BY <2>1, AdvancedPage
  <2> QED
    BY <2>1, <2>2 DEF Advances
<1>3. page' \in Seq(1..NumHits) /\ SearchAfter < NumHits
      /\ \A i \in 1..Len(page') : page'[i] = SearchAfter + i
  <2>1. /\ page' \in Seq(1..NumHits) /\ (page' = <<>> <=> SearchAfter = NumHits)
        /\ \A i \in 1..Len(page') : page'[i] = SearchAfter + i
    BY <1>1, <1>2, PageFollows
  <2> QED
    BY <1>1, <1>2, <2>1, IteratorAssumption
<1>4. Len(page') \in Nat \ {0}
  BY <1>2, <1>3
<1> QED
  BY <1>1, <1>2, <1>3, <1>4

\* A hit emitted joins those emitted.
LEMMA Appended ==
  ASSUME TypeOK, NEW k \in 1..NumHits, emitted' = Append(emitted, k)
  PROVE  Emitted' = Emitted \union {k} /\ emitted' \in Seq(1..NumHits)
<1>1. emitted \in Seq(1..NumHits)
  BY DEF TypeOK
<1>2. /\ DOMAIN emitted' = DOMAIN emitted \union {Len(emitted) + 1}
      /\ \A i \in DOMAIN emitted : emitted'[i] = emitted[i]
      /\ emitted'[Len(emitted) + 1] = k
  BY <1>1
<1> QED
  BY <1>1, <1>2 DEF Emitted

\* The steps that close the iterator.
Closing ==
  Close \/ NextFindsContextDone \/ NextFails \/ NextExhausts \/ NextRefusesPage

\* An iterator is closed once.
LEMMA Closed ==
  ASSUME TypeOK, Closing
  PROVE  /\ ~closed /\ closed'
         /\ UNCHANGED <<current, after, emitted, cursor, stray, ctxDone, resumes, expired>>
         /\ owner' = (IF owner = "caller" THEN "caller" ELSE "nobody")
         /\ pit' \in Nat /\ ids' \in 0..(MaxRotations + 1) /\ ids <= ids'
         /\ open' \subseteq 1..ids'
         /\ lost' \subseteq 1..ids'
         /\ open' \subseteq (open \ {pit}) \union lost'
                          \union (IF failedDelete' THEN {pit'} ELSE {})
         /\ ~err' => open' \subseteq open \ {pit}
<1>0. ids \in 0..(MaxRotations + 1) /\ pit \in Nat /\ open \subseteq 1..ids /\ err \in BOOLEAN
      /\ MaxRotations \in Nat /\ lost \subseteq 1..ids
  BY IteratorAssumption DEF TypeOK
<1>1. ASSUME Close \/ NextFindsContextDone
      PROVE  \E failed \in BOOLEAN : Closes(pit, open, failed) /\ UNCHANGED <<pit, ids, lost>>
  BY <1>0, <1>1 DEF Close, NextFindsContextDone, historyVars
<1>2. ASSUME NextFails \/ NextExhausts \/ NextRefusesPage
      PROVE  \E r \in Renamings : \E failed \in BOOLEAN :
               /\ ids' = r.ids /\ Closes(pit', r.open, failed)
               /\ \/ pit' = r.id /\ lost' = lost
                  \/ failed /\ pit' = pit /\ lost' = lost \union ({r.id} \ {pit})
  <2>1. CASE NextFails
    BY <2>1 DEF NextFails, AnsweredPit
  <2>2. CASE NextExhausts
    BY <2>2 DEF NextExhausts
  <2>3. CASE NextRefusesPage
    BY <2>3 DEF NextRefusesPage, historyVars
  <2> QED
    BY <1>2, <2>1, <2>2, <2>3
<1>3. \E known, given : \E failed \in BOOLEAN :
        /\ pit' \in Nat
        /\ \/ open' = known \ {pit'} /\ err' = failed /\ ~failedDelete'
           \/ open' \subseteq known /\ err' /\ failedDelete'
        /\ ids' = given /\ given \in ids..(MaxRotations + 1) /\ lost' \subseteq 1..given
        /\ known \subseteq 1..given /\ known \ {pit'} \subseteq (open \ {pit}) \union lost'
        /\ ~failed => known \ {pit'} \subseteq open \ {pit}
  <2>1. CASE Close \/ NextFindsContextDone
    <3>1. PICK failed \in BOOLEAN : Closes(pit, open, failed) /\ UNCHANGED <<pit, ids, lost>>
      BY <1>1, <2>1
    <3>2. /\ ids \in ids..(MaxRotations + 1) /\ pit' \in Nat /\ ids' = ids /\ lost' \subseteq 1..ids
          /\ open \ {pit'} \subseteq open \ {pit}
      BY <1>0, <3>1
    <3>3. \/ open' = open \ {pit'} /\ err' = failed /\ ~failedDelete'
          \/ open' \subseteq open /\ err' /\ failedDelete'
      BY <3>1 DEF Closes
    <3> QED
      BY <1>0, <3>2, <3>3
  <2>2. CASE NextFails \/ NextExhausts \/ NextRefusesPage
    <3>1. PICK r \in Renamings, failed \in BOOLEAN :
            /\ ids' = r.ids /\ Closes(pit', r.open, failed)
            /\ \/ pit' = r.id /\ lost' = lost
               \/ failed /\ pit' = pit /\ lost' = lost \union ({r.id} \ {pit})
      BY <1>2, <2>2
    <3>2. /\ r.id \in Nat /\ r.ids \in ids..(MaxRotations + 1) /\ r.open \subseteq 1..r.ids
          /\ r.open \ {r.id} \subseteq open \ {pit} /\ (r.id # pit => r.id \in 1..r.ids)
      BY Renamed
    <3>3. 1..ids \subseteq 1..r.ids
      BY <1>0, <3>2
    <3>4. pit' \in Nat /\ lost' \subseteq 1..r.ids
      BY <1>0, <3>1, <3>2, <3>3
    <3>5. /\ r.open \ {pit'} \subseteq (open \ {pit}) \union lost'
          /\ ~failed => r.open \ {pit'} \subseteq open \ {pit}
      BY <3>1, <3>2
    <3>6. \/ open' = r.open \ {pit'} /\ err' = failed /\ ~failedDelete'
          \/ open' \subseteq r.open /\ err' /\ failedDelete'
      BY <3>1 DEF Closes
    <3> QED
      BY <3>1, <3>2, <3>4, <3>5, <3>6
  <2> QED
    BY <2>1, <2>2 DEF Closing
<1>4. /\ ~closed
      /\ UNCHANGED <<current, after, emitted, cursor, stray, ctxDone, resumes>>
  BY DEF Closing, Close, NotClosed, NextFindsContextDone, NextFails, NextExhausts,
     NextRefusesPage, NeedsPage, historyVars
<1>5. /\ closed' /\ UNCHANGED expired
      /\ owner' = (IF owner = "caller" THEN "caller" ELSE "nobody")
  BY <1>1, <1>2 DEF Closing, Closes
<1>7. /\ pit' \in Nat /\ ids' \in 0..(MaxRotations + 1) /\ ids <= ids'
      /\ open' \subseteq 1..ids' /\ lost' \subseteq 1..ids'
  <2>1. PICK known, given :
          /\ pit' \in Nat /\ open' \subseteq known /\ known \subseteq 1..given
          /\ ids' = given /\ given \in ids..(MaxRotations + 1) /\ lost' \subseteq 1..given
    BY <1>3
  <2> QED
    BY <1>0, <2>1
<1>8. /\ open' \subseteq (open \ {pit}) \union lost'
                        \union (IF failedDelete' THEN {pit'} ELSE {})
      /\ ~err' => open' \subseteq open \ {pit}
  BY <1>3
<1> QED
  BY <1>4, <1>5, <1>7, <1>8
-----------------------------------------------------------------------------
\* The types of the flags, and of the rest: the provers take them apart better.
Flags == {err, closed, started, ctxDone, exhausted, failedDelete} \subseteq BOOLEAN

\* Types of the flags and of the error.
LEMMA FlagsStep ==
  ASSUME Flags, TypeOK, [Next]_vars
  PROVE  Flags'
<1> USE DEF Flags, fields, serverVars, historyVars
<1>1. CASE Closing
  <2>1. started' \in BOOLEAN /\ exhausted' \in BOOLEAN
    BY <1>1 DEF Closing, Close, NextFindsContextDone, NextFails, NextExhausts,
       NextRefusesPage
  <2>2. {err', closed', ctxDone', failedDelete'} \subseteq BOOLEAN
    <3>1. closed' = TRUE /\ ctxDone' = ctxDone /\ err' \in BOOLEAN /\ failedDelete' \in BOOLEAN
      BY <1>1 DEF Closing, Close, NextFindsContextDone, NextFails, NextExhausts,
         NextRefusesPage, Closes
    <3> QED
      BY <3>1
  <2> QED
    BY <2>1, <2>2
<1>2. CASE Iterate \/ ResumeIterator
  BY <1>2 DEF Iterate, ResumeIterator, NewIterator
<1>3. CASE NextFromPage \/ NextFetches
  BY <1>3 DEF NextFromPage, NextFetches
<1>4. CASE IterateFails \/ TakeCursor \/ Detach \/ ContextEnds \/ PitExpires
  BY <1>4 DEF IterateFails, TakeCursor, Detach, ContextEnds, PitExpires
<1>5. CASE UNCHANGED vars
  BY <1>5 DEF vars
<1> QED
  BY <1>1, <1>2, <1>3, <1>4, <1>5 DEF Next, Closing

\* What is left of the types.
Numbers ==
  /\ pit \in Nat /\ page \in Seq(1..NumHits) /\ position \in 0..Len(page)
  /\ Len(page) <= PageSize
  /\ current \in 0..NumHits /\ after \in 0..NumHits
  /\ cursor \in [pit : Nat, sort : 0..NumHits]
  /\ owner \in {"nobody", "iterator", "caller"}
  /\ open \subseteq 1..ids /\ expired \subseteq 1..ids
  /\ stray \subseteq 1..ids /\ lost \subseteq 1..ids
  /\ ids \in 0..(MaxRotations + 1) /\ resumes \in 0..MaxResumes
  /\ emitted \in Seq(1..NumHits)

\* TypeOK, in parts.
LEMMA TypeParts == TypeOK <=> Numbers /\ Flags
  BY DEF TypeOK, Numbers, Flags

\* Types of the positions, ids and counters.
LEMMA NumbersStep ==
  ASSUME TypeOK, [Next]_vars
  PROVE  Numbers'
<1> USE DEF fields, serverVars, historyVars
<1>0. NumHits \in Nat /\ PageSize \in Nat \ {0} /\ MaxRotations \in Nat /\ MaxResumes \in Nat
      /\ Numbers
  BY IteratorAssumption, TypeParts
<1>1. CASE Closing
  <2>1. page' \in Seq(1..NumHits) /\ position' \in 0..Len(page') /\ Len(page') <= PageSize
    <3>1. CASE Close \/ NextFindsContextDone \/ NextFails
      BY <1>0, <3>1 DEF Close, NextFindsContextDone, NextFails, Numbers
    <3>2. CASE NextExhausts
      BY <1>0, <3>2 DEF NextExhausts, Start
    <3>3. CASE NextRefusesPage
      <4>1. PICK a \in Answers : page' = a.hits /\ position' = 0
        BY <3>3 DEF NextRefusesPage, Start
      <4>2. SearchAfter \in 0..NumHits
        BY <1>0 DEF SearchAfter, Numbers, NoHit
      <4>3. \E k \in 0..NumHits : page' = PageAfter(k)
        BY <1>0, <4>1, <4>2 DEF Answers
      <4> QED
        BY <1>0, <4>1, <4>3, PageFollows
    <3> QED
      BY <1>1, <3>1, <3>2, <3>3 DEF Closing
  <2>2. owner' \in {"nobody", "iterator", "caller"}
    BY <1>1, Closed
  <2>3. expired' \subseteq 1..ids' /\ stray' \subseteq 1..ids'
    <3>1. ids \in Nat /\ ids' \in Nat /\ ids <= ids' /\ expired' = expired /\ stray' = stray
      BY <1>0, <1>1, Closed DEF Numbers
    <3> QED
      BY <1>0, <3>1 DEF Numbers
  <2> QED
    BY <1>0, <1>1, <2>1, <2>2, <2>3, Closed DEF Numbers
<1>2. CASE Iterate
  <2>1. /\ pit' = ids + 1 /\ page' = <<>> /\ position' = 0 /\ current' = 0 /\ after' = 0
        /\ owner' = "iterator" /\ ids' = ids + 1 /\ open' = open \union {ids + 1}
        /\ ids <= MaxRotations /\ stray' = stray \union open
        /\ UNCHANGED <<cursor, expired, resumes, emitted, lost>>
    BY <1>2 DEF Iterate, NewIterator, NoHit
  <2> QED
    BY <1>0, <2>1 DEF Numbers
<1>3. CASE NextFromPage
  <2>1. position + 1 \in 1..Len(page) /\ position' = position + 1
    BY <1>0, <1>3 DEF NextFromPage, Advances, Numbers
  <2>2. page[position + 1] \in 1..NumHits
    BY <1>0, <2>1 DEF Numbers
  <2>3. emitted' \in Seq(1..NumHits)
    BY <1>3, <2>2, Appended DEF NextFromPage, Advances
  <2> QED
    BY <1>0, <1>3, <2>1, <2>2, <2>3, SMTT(30) DEF NextFromPage, Advances, Numbers
<1>4. CASE NextFetches
  <2>1. PICK r \in Renamings : pit' = r.id /\ ids' = r.ids /\ open' = r.open
    BY <1>4 DEF NextFetches
  <2>2. pit' \in Nat /\ ids' \in ids..(MaxRotations + 1) /\ open' \subseteq 1..ids'
    BY <2>1, Renamed
  <2>3. /\ page' \in Seq(1..NumHits) /\ Len(page') <= PageSize /\ position' \in 0..Len(page')
        /\ current' \in 1..NumHits /\ after' \in 1..NumHits
    <3>1. page' \in Seq(1..NumHits) /\ Len(page') <= PageSize
      BY <1>4, Fetched, PageFollows
    <3>2. after' = page'[Len(page')]
      BY <1>4 DEF NextFetches
    <3> QED
      BY <1>0, <1>4, <3>1, <3>2, Fetched
  <2>4. emitted' \in Seq(1..NumHits)
    BY <1>0, <1>4, Fetched, Appended
  <2>5. UNCHANGED <<cursor, owner, resumes, stray, lost, expired>>
    BY <1>4 DEF NextFetches
  <2>6. /\ expired' \subseteq 1..ids' /\ stray' \subseteq 1..ids' /\ lost' \subseteq 1..ids'
        /\ ids' \in 0..(MaxRotations + 1)
    <3>1. ids \in Nat /\ ids' \in Nat /\ ids <= ids' /\ UNCHANGED <<expired, stray, lost>>
      BY <1>0, <2>2, <2>5 DEF Numbers
    <3> QED
      BY <1>0, <2>2, <3>1 DEF Numbers
  <2> QED
    BY <1>0, <2>2, <2>3, <2>4, <2>5, <2>6, SMTT(30) DEF Numbers
<1>5. CASE TakeCursor \/ Detach
  <2>1. /\ cursor' = [pit |-> pit, sort |-> current] /\ owner' \in {owner, "caller"}
        /\ UNCHANGED <<pit, page, position, current, after, open, expired, ids, resumes,
                       emitted, stray, lost>>
    BY <1>5 DEF TakeCursor, Detach, LastHit
  <2> QED
    BY <1>0, <2>1 DEF Numbers
<1>6. CASE ResumeIterator
  <2>1. /\ pit' = cursor.pit /\ page' = <<>> /\ position' = 0 /\ current' = 0
        /\ after' = cursor.sort /\ owner' = "iterator" /\ cursor' = [pit |-> 0, sort |-> 0]
        /\ resumes < MaxResumes /\ resumes' = resumes + 1
        /\ stray' \subseteq stray \union open /\ UNCHANGED <<open, expired, ids, emitted, lost>>
    BY <1>6 DEF ResumeIterator, NewIterator, NoHit, NoCursor
  <2>2. cursor.pit \in Nat /\ cursor.sort \in 0..NumHits
    BY <1>0 DEF Numbers
  <2>3. resumes' \in 0..MaxResumes /\ cursor' \in [pit : Nat, sort : 0..NumHits]
    BY <1>0, <2>1 DEF Numbers
  <2> QED
    BY <1>0, <2>1, <2>2, <2>3 DEF Numbers
<1>7. CASE ContextEnds \/ PitExpires
  BY <1>0, <1>7 DEF ContextEnds, PitExpires, Numbers
<1>8. CASE IterateFails
  <2>1. \/ UNCHANGED <<ids, open, lost>>
        \/ /\ ids <= MaxRotations /\ ids' = ids + 1
           /\ open' = open \union {ids + 1} /\ lost' = lost \union {ids + 1}
    BY <1>8 DEF IterateFails
  <2>2. /\ ids' \in 0..(MaxRotations + 1) /\ open' \subseteq 1..ids' /\ lost' \subseteq 1..ids'
        /\ expired \subseteq 1..ids' /\ stray \subseteq 1..ids'
    <3>1. ids \in Nat /\ ids + 1 \in Nat /\ 1..ids \subseteq 1..(ids + 1)
      BY <1>0 DEF Numbers
    <3>2. CASE UNCHANGED <<ids, open, lost>>
      BY <1>0, <3>2 DEF Numbers
    <3>3. CASE /\ ids <= MaxRotations /\ ids' = ids + 1
               /\ open' = open \union {ids + 1} /\ lost' = lost \union {ids + 1}
      BY <1>0, <3>1, <3>3 DEF Numbers
    <3> QED
      BY <2>1, <3>2, <3>3
  <2> QED
    BY <1>0, <1>8, <2>2 DEF IterateFails, Numbers
<1>9. CASE UNCHANGED vars
  BY <1>0, <1>9 DEF vars, Numbers
<1> QED
  BY <1>1, <1>2, <1>3, <1>4, <1>5, <1>6, <1>7, <1>8, <1>9 DEF Next, Closing

\* Every step keeps the types.
LEMMA TypeStep ==
  ASSUME TypeOK, [Next]_vars
  PROVE  TypeOK'
<1>1. Numbers' /\ Flags'
  BY NumbersStep, FlagsStep, TypeParts
<1> QED
  BY <1>1 DEF TypeOK, Numbers, Flags
-----------------------------------------------------------------------------
\* At the end of a page, search_after is the last hit emitted, if there is one
\* or the iterator was resumed.
LEMMA AtPageEnd ==
  ASSUME TypeOK, Paging, NeedsPage
  PROVE  SearchAfter = LastSeen
<1>1. position \in Nat /\ Len(page) \in Nat /\ current \in Nat /\ after \in Nat
      /\ position = Len(page) /\ ~closed
  BY IteratorAssumption DEF NeedsPage, TypeOK
<1>2. CASE current = NoHit
  BY <1>1, <1>2 DEF Paging, SearchAfter, LastSeen
<1>3. CASE current # NoHit
  BY <1>1, <1>3 DEF Paging, SearchAfter, LastSeen
<1> QED
  BY <1>2, <1>3

\* Every hit emitted is the one after the last.
LEMMA Advance ==
  ASSUME TypeOK, Paging, NextFromPage \/ NextFetches
  PROVE  /\ current' = LastSeen + 1 /\ emitted' = Append(emitted, LastSeen + 1)
         /\ LastSeen + 1 \in 1..NumHits /\ ~closed /\ UNCHANGED <<closed, cursor, exhausted>>
<1>1. NumHits \in Nat /\ current \in 0..NumHits /\ after \in 0..NumHits /\ position \in 0..Len(page)
      /\ page \in Seq(1..NumHits)
  BY IteratorAssumption DEF TypeOK
<1>2. CASE NextFromPage
  <2>1. /\ ~closed /\ position < Len(page) /\ current' = page[position + 1]
        /\ emitted' = Append(emitted, page[position + 1])
        /\ UNCHANGED <<closed, cursor, exhausted>>
    BY <1>2 DEF NextFromPage, Advances
  <2>2. position + 1 \in 1..Len(page) /\ page # <<>>
    BY <1>1, <2>1
  <2>3. current # NoHit /\ page[position + 1] = current + (position + 1) - position
    BY <2>1, <2>2 DEF Paging
  <2>4. page[position + 1] = LastSeen + 1 /\ page[position + 1] \in 1..NumHits
    BY <1>1, <2>2, <2>3 DEF LastSeen, NoHit
  <2> QED
    BY <2>1, <2>4
<1>3. CASE NextFetches
  <2>1. SearchAfter = LastSeen
    BY <1>3, AtPageEnd DEF NextFetches
  <2>2. ~closed /\ UNCHANGED <<closed, cursor, exhausted>>
    BY <1>3 DEF NextFetches, NeedsPage
  <2>3. LastSeen \in 0..NumHits /\ LastSeen < NumHits /\ current' = LastSeen + 1
        /\ emitted' = Append(emitted, LastSeen + 1)
    BY <1>3, <2>1, Fetched
  <2> QED
    BY <1>1, <2>2, <2>3
<1> QED
  BY <1>2, <1>3

\* Every step keeps the fields of the open iterator consistent.
LEMMA PagingStep ==
  ASSUME IInv, [Next]_vars
  PROVE  Paging'
<1> USE DEF fields, serverVars, historyVars
<1>0. TypeOK /\ Paging
  BY DEF IInv
<1>1. CASE Closing
  BY <1>0, <1>1, Closed DEF Paging
<1>2. CASE Iterate \/ ResumeIterator
  BY <1>2 DEF Iterate, ResumeIterator, NewIterator, Paging
<1>3. CASE NextFromPage
  <2>1. /\ ~closed /\ position < Len(page) /\ position' = position + 1
        /\ UNCHANGED <<page, after, started>>
    BY <1>3 DEF NextFromPage, Advances
  <2>2. position \in Nat /\ Len(page) \in Nat /\ current \in Nat /\ after \in Nat
        /\ page # <<>>
    BY <1>0, <2>1, IteratorAssumption DEF TypeOK
  <2>3. /\ current # NoHit /\ started /\ position > 0
        /\ \A i \in 1..Len(page) : page[i] = current + i - position
        /\ after = current + Len(page) - position
    BY <1>0, <2>1, <2>2 DEF Paging
  <2>4. current' = current + 1
    BY <1>0, <1>3, <2>3, Advance DEF LastSeen
  <2>5. /\ current' # NoHit /\ position' > 0
        /\ \A i \in 1..Len(page) : page[i] = current' + i - position'
        /\ after = current' + Len(page) - position'
    BY <2>1, <2>2, <2>3, <2>4 DEF NoHit
  <2> QED
    BY <2>1, <2>2, <2>3, <2>5 DEF Paging
<1>4. CASE NextFetches
  <2> DEFINE k == SearchAfter
  <2>1. /\ k \in 0..NumHits /\ k < NumHits
        /\ page' = PageAfter(k) /\ page' # <<>> /\ position' = 1
        /\ current' = k + 1 /\ after' = k + Len(page') /\ Len(page') \in Nat \ {0}
    BY <1>0, <1>4, Fetched
  <2>2. \A i \in 1..Len(page') : page'[i] = k + i
    BY <2>1, PageFollows
  <2>3. started'
    BY <1>4 DEF NextFetches
  <2> HIDE DEF k
  <2>4. /\ current' # NoHit /\ position' > 0
        /\ \A i \in 1..Len(page') : page'[i] = current' + i - position'
        /\ after' = current' + Len(page') - position'
    BY <2>1, <2>2 DEF NoHit
  <2> QED
    BY <2>1, <2>3, <2>4 DEF Paging
<1>5. CASE IterateFails \/ TakeCursor \/ Detach \/ ContextEnds \/ PitExpires
  BY <1>0, <1>5 DEF IterateFails, TakeCursor, Detach, ContextEnds, PitExpires, Paging
<1>6. CASE UNCHANGED vars
  BY <1>0, <1>6 DEF vars, Paging
<1> QED
  BY <1>1, <1>2, <1>3, <1>4, <1>5, <1>6 DEF Next, Closing

\* Every step leaves no hit out.
LEMMA CoveredStep ==
  ASSUME IInv, [Next]_vars
  PROVE  Covered'
<1> USE DEF fields, serverVars, historyVars
<1>0. TypeOK /\ Paging /\ Covered /\ NumHits \in Nat
  BY IteratorAssumption DEF IInv
<1>1. CASE Closing
  <2>1. closed' /\ ~closed /\ Emitted' = Emitted /\ cursor' = cursor
    BY <1>0, <1>1, Closed DEF Emitted
  <2>2. exhausted' => 1..NumHits \subseteq Emitted
    <3>1. CASE NextExhausts
      <4>1. NeedsPage /\ PageAfter(SearchAfter) = <<>>
        BY <3>1 DEF NextExhausts
      <4>2. SearchAfter = LastSeen /\ SearchAfter \in 0..NumHits
        BY <1>0, <4>1, AtPageEnd DEF SearchAfter, TypeOK, NoHit
      <4>3. LastSeen = NumHits
        BY <4>1, <4>2, PageFollows
      <4> QED
        BY <1>0, <2>1, <4>3 DEF Covered
    <3>2. CASE ~NextExhausts
      BY <1>0, <1>1, <2>1, <3>2 DEF Closing, Close, NextFindsContextDone, NextFails,
         NextRefusesPage, Covered
    <3> QED
      BY <3>1, <3>2
  <2> QED
    BY <1>0, <2>1, <2>2 DEF Covered
<1>2. CASE Iterate
  <2>1. /\ current' = NoHit /\ after' = 0 /\ exhausted' = FALSE
        /\ Emitted' = Emitted /\ cursor' = cursor
    BY <1>2 DEF Iterate, NewIterator, NoHit, Emitted
  <2>2. LastSeen' = 0
    BY <2>1 DEF LastSeen
  <2> QED
    BY <1>0, <2>1, <2>2 DEF Covered
<1>3. CASE ResumeIterator
  <2>1. /\ current' = NoHit /\ after' = cursor.sort /\ exhausted' = FALSE
        /\ Emitted' = Emitted /\ cursor'.sort = 0
    BY <1>3 DEF ResumeIterator, NewIterator, NoCursor, NoHit, Emitted
  <2>2. LastSeen' = cursor.sort
    BY <2>1 DEF LastSeen
  <2> QED
    BY <1>0, <2>1, <2>2 DEF Covered
<1>4. CASE NextFromPage \/ NextFetches
  <2>1. /\ current' = LastSeen + 1 /\ emitted' = Append(emitted, LastSeen + 1)
        /\ LastSeen + 1 \in 1..NumHits /\ ~closed
        /\ UNCHANGED <<closed, cursor, exhausted>>
    BY <1>0, <1>4, Advance
  <2>2. Emitted' = Emitted \union {LastSeen + 1}
    BY <1>0, <2>1, Appended
  <2>3. LastSeen \in Nat
    BY <1>0 DEF LastSeen, TypeOK
  <2>4. LastSeen' = LastSeen + 1
    BY <2>1, <2>3 DEF LastSeen, NoHit
  <2>5. 1..LastSeen \subseteq Emitted
    BY <1>0, <2>1 DEF Covered
  <2>6. 1..(LastSeen + 1) \subseteq Emitted'
    BY <2>2, <2>3, <2>5
  <2> QED
    BY <1>0, <2>1, <2>2, <2>4, <2>6 DEF Covered
<1>5. CASE TakeCursor \/ Detach
  <2>1. /\ cursor'.sort = current /\ current # NoHit /\ ~closed
        /\ Emitted' = Emitted /\ LastSeen' = LastSeen /\ exhausted' = exhausted
    BY <1>5 DEF TakeCursor, Detach, LastHit, Emitted, LastSeen
  <2>2. LastSeen = current
    BY <2>1 DEF LastSeen
  <2> QED
    BY <1>0, <2>1, <2>2 DEF Covered
<1>6. CASE IterateFails \/ ContextEnds \/ PitExpires
  BY <1>0, <1>6 DEF IterateFails, ContextEnds, PitExpires, Covered, LastSeen, Emitted
<1>7. CASE UNCHANGED vars
  BY <1>0, <1>7 DEF vars, Covered, LastSeen, Emitted
<1> QED
  BY <1>1, <1>2, <1>3, <1>4, <1>5, <1>6, <1>7 DEF Next, Closing

\* Every step leaves each PIT with one owner.
LEMMA OwnershipStep ==
  ASSUME IInv, [Next]_vars
  PROVE  Ownership'
<1> USE DEF fields, serverVars, historyVars
<1>0. TypeOK /\ Ownership
  BY DEF IInv
<1>1. CASE Closing
  <2>1. /\ ~closed /\ closed' /\ owner' = "nobody" /\ UNCHANGED <<cursor, stray>>
    <3>1. owner = "iterator"
      BY <1>0, <1>1, Closed DEF Ownership
    <3> QED
      BY <1>0, <1>1, <3>1, Closed
  <2>2. open \ {pit} \subseteq stray
    BY <1>0, <2>1 DEF Ownership
  <2>3. /\ open' \subseteq (open \ {pit}) \union lost'
                          \union (IF failedDelete' THEN {pit'} ELSE {})
        /\ ~err' => open' \subseteq open \ {pit}
    BY <1>0, <1>1, Closed
  <2> QED
    BY <2>1, <2>2, <2>3 DEF Ownership
<1>2. CASE Iterate
  <2>1. /\ closed' = FALSE /\ owner' = "iterator" /\ failedDelete' = FALSE
        /\ pit' = ids + 1 /\ open' = open \union {ids + 1} /\ current' = NoHit
        /\ stray' = stray \union open
    BY <1>2 DEF Iterate, NewIterator
  <2> QED
    BY <2>1 DEF Ownership
<1>3. CASE ResumeIterator
  <2>1. /\ closed' = FALSE /\ owner' = "iterator" /\ failedDelete' = FALSE
        /\ pit' = cursor.pit /\ current' = NoHit
        /\ stray' = stray \union (open \ {cursor.pit}) /\ open' = open
    BY <1>3 DEF ResumeIterator, NewIterator
  <2> QED
    BY <2>1 DEF Ownership
<1>4. CASE NextFromPage
  <2>1. ~closed /\ position < Len(page) /\ Paging
        /\ UNCHANGED <<pit, closed, cursor, owner, open, expired, stray, err, failedDelete>>
    BY <1>4 DEF NextFromPage, IInv
  <2>2. current # NoHit
    BY <1>0, <2>1 DEF Paging, TypeOK
  <2> QED
    BY <1>0, <2>1, <2>2 DEF Ownership
<1>5. CASE NextFetches
  <2>1. PICK r \in Renamings : pit' = r.id /\ open' = r.open
    BY <1>5 DEF NextFetches
  <2>2. ~closed /\ pit \in open
        /\ UNCHANGED <<closed, cursor, owner, expired, stray, err, failedDelete>>
    BY <1>5 DEF NextFetches, NeedsPage
  <2>3. open' \ {pit'} \subseteq open \ {pit} /\ pit' \in open'
    BY <1>0, <2>1, <2>2, Renamed
  <2> QED
    BY <1>0, <2>2, <2>3 DEF Ownership
<1>6. CASE TakeCursor
  BY <1>0, <1>6 DEF TakeCursor, Ownership
<1>7. CASE Detach
  <2>1. /\ ~closed /\ current # NoHit /\ cursor'.pit = pit /\ closed' = TRUE
        /\ owner' = "caller"
        /\ UNCHANGED <<open, expired, err, failedDelete>>
    BY <1>7 DEF Detach
  <2> QED
    BY <1>0, <2>1 DEF Ownership
<1>8. CASE ContextEnds \/ PitExpires
  BY <1>0, <1>8 DEF ContextEnds, PitExpires, Ownership
<1>9. CASE IterateFails
  <2>1. /\ owner = "nobody" /\ err' = TRUE
        /\ \/ UNCHANGED <<open, lost>>
           \/ open' = open \union {ids + 1} /\ lost' = lost \union {ids + 1}
        /\ UNCHANGED <<pit, closed, owner, stray, failedDelete>>
    BY <1>9 DEF IterateFails, Unopened
  <2> QED
    BY <1>0, <2>1 DEF Ownership
<1>10. CASE UNCHANGED vars
  BY <1>0, <1>10 DEF vars, Ownership
<1> QED
  BY <1>1, <1>2, <1>3, <1>4, <1>5, <1>6, <1>7, <1>8, <1>9, <1>10 DEF Next, Closing
-----------------------------------------------------------------------------
\* The invariant holds at the start.
LEMMA InitInv == Init => IInv
<1> SUFFICES ASSUME Init PROVE IInv
  OBVIOUS
<1> USE DEF Init, NoCursor, NoHit
<1>1. Numbers
  BY IteratorAssumption DEF Numbers
<1>2. Flags
  BY DEF Flags
<1>3. TypeOK
  BY <1>1, <1>2, TypeParts
<1>4. Paging /\ Ownership
  BY DEF Paging, Ownership
<1>5. Covered
  BY DEF Covered
<1> QED
  BY <1>3, <1>4, <1>5 DEF IInv

\* Every step keeps the invariant.
LEMMA InvStep == IInv /\ [Next]_vars => IInv'
  BY TypeStep, PagingStep, CoveredStep, OwnershipStep DEF IInv

\* Types; the position stays within the page.
THEOREM TypeCorrect == Spec => []TypeOK
<1>1. IInv => TypeOK
  BY DEF IInv
<1> QED
  BY <1>1, InitInv, InvStep, PTL DEF Spec

\* Nothing is skipped and nothing repeated between two hits: across pages, new
\* PIT ids and resumed cursors, the next hit is the successor of the last.
THEOREM EmitsSuccessorAlways == Spec => EmitsSuccessor
<1>1. ASSUME IInv, [Next]_vars
      PROVE  [emitted' # emitted =>
                current' = (IF current = NoHit THEN after ELSE current) + 1]_vars
  <2>1. CASE NextFromPage \/ NextFetches
    BY <1>1, <2>1, Advance DEF IInv, LastSeen
  <2>2. CASE ~(NextFromPage \/ NextFetches)
    <3>1. UNCHANGED emitted
      <4>1. CASE Closing
        BY <1>1, <4>1, Closed DEF IInv
      <4>2. CASE ~Closing
        BY <1>1, <2>2, <4>2 DEF Next, Closing, Iterate, IterateFails, TakeCursor, Detach,
           ResumeIterator, ContextEnds, PitExpires, historyVars, vars
      <4> QED
        BY <4>1, <4>2
    <3> QED
      BY <3>1
  <2> QED
    BY <2>1, <2>2
<1> QED
  BY <1>1, InitInv, InvStep, PTL DEF Spec, EmitsSuccessor

\* An iteration that ended without an error has emitted every hit, however many
\* pages, PIT ids and resumed iterators it took.
THEOREM ExhaustedMeansAllAlways == Spec => []ExhaustedMeansAll
<1>1. IInv => ExhaustedMeansAll
  <2>1. SUFFICES ASSUME IInv, exhausted PROVE Emitted = 1..NumHits
    BY DEF ExhaustedMeansAll
  <2>2. Emitted \subseteq 1..NumHits
    <3>1. emitted \in Seq(1..NumHits)
      BY <2>1 DEF IInv, TypeOK
    <3>2. \A i \in 1..Len(emitted) : emitted[i] \in 1..NumHits
      BY <3>1, ElementOfSeq
    <3>3. DOMAIN emitted = 1..Len(emitted)
      BY <3>1
    <3> QED
      BY <3>2, <3>3 DEF Emitted
  <2> QED
    BY <2>1, <2>2 DEF IInv, Covered
<1> QED
  BY <1>1, InitInv, InvStep, PTL DEF Spec

\* What the calls on an iterator leave on the server: the PIT whose deletion failed,
\* or one whose id no answer told, and never without an error.
THEOREM NoSilentLeakAlways == Spec => []NoSilentLeak
<1>1. IInv => NoSilentLeak
  <2> SUFFICES ASSUME IInv, owner = "nobody"
               PROVE  /\ open \ stray # {} => err
                      /\ open \ stray \subseteq
                           lost \union (IF failedDelete THEN {pit} ELSE {})
    BY DEF NoSilentLeak
  <2>1. /\ open \subseteq stray \union lost \union (IF failedDelete THEN {pit} ELSE {})
        /\ ~err => open \subseteq stray
    BY DEF IInv, Ownership
  <2> QED
    BY <2>1
<1> QED
  BY <1>1, InitInv, InvStep, PTL DEF Spec

\* The iterator never deletes a PIT it has handed to its caller.
THEOREM DetachedPitIsKeptAlways == Spec => []DetachedPitIsKept
<1>1. IInv => DetachedPitIsKept
  BY DEF IInv, Ownership, DetachedPitIsKept
<1> QED
  BY <1>1, InitInv, InvStep, PTL DEF Spec
=============================================================================
