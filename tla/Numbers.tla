------------------------------- MODULE Numbers -------------------------------
(***************************************************************************)
(* Arithmetic near the limits of int and time.Duration: the window of a    *)
(* page (src/finder.go), the delay before a retry (src/bulk_retry.go) and  *)
(* a search's timeout (src/search.go).  Integers have W bits and wrap      *)
(* around, as Go's do; a case is given, and one step computes its result.  *)
(***************************************************************************)
EXTENDS Integers, FiniteSetsExt

CONSTANTS
  W,           \* bits of an int: 64
  DefaultInitial, DefaultMaximum,  \* 100ms and 30s
  Millisecond,
  Nil

VARIABLES given, result

Pow2[n \in Nat] == IF n = 0 THEN 1 ELSE 2 * Pow2[n - 1]
MaxInt == Pow2[W - 1] - 1
Ints == (-MaxInt - 1)..MaxInt
Wrap(x) == ((x + MaxInt + 1) % Pow2[W]) - MaxInt - 1
\* Division truncates; the code divides nothing negative.
Half(x) == x \div 2

Init ==
  /\ given \in [kind : {"page"}, page : Ints, size : Ints, total : {0, 7, MaxInt}]
       \union [kind : {"delay"}, initial : {-1} \union 0..MaxInt, maximum : {-1} \union 0..MaxInt,
               retries : {-1, W, 21}]
       \union [kind : {"timeout"}, duration : Ints]
  /\ result = Nil

-----------------------------------------------------------------------------
\* Mutant: the product is checked after it has wrapped.
PageChecksProduct(page, size) == page < 1 \/ size < 1 \/ Wrap(page * size) < 0
\* Finder.Page divides, since the product may wrap.
PageRefuses(page, size) == page < 1 \/ size < 1 \/ page > MaxInt \div size

\* The server returns what there is from the offset on, at most size hits.
Len(from, size, total) == Max({0, Min({size, total - from})})

Page ==
  /\ given.kind = "page" /\ result = Nil
  /\ LET from == Wrap(Wrap(given.page - 1) * given.size) IN
     result' =
       IF PageRefuses(given.page, given.size) \/ from < 0 THEN [err |-> "validation"]
       ELSE [err |-> "nil", from |-> from,
             hasNext |-> Wrap(from + Len(from, given.size, given.total)) < given.total]
  /\ UNCHANGED given

\* RetryPolicy.validate
PolicyRefuses(initial, maximum, retries) ==
  \/ retries \notin 0..20 \/ initial < 0 \/ maximum < 0
  \/ initial > 0 /\ maximum > 0 /\ initial > maximum

Or(x, default) == IF x = 0 THEN default ELSE x

\* The doubled delay stops at the maximum before it can exceed it.
Doubled(d, maximum) == IF d > Half(maximum) THEN maximum ELSE Wrap(d * 2)

\* RetryPolicy.delay: the doubled delay, and any value of its upper half.
Backoff(initial, maximum, attempt) ==
  LET limit == Or(maximum, DefaultMaximum)
      d[n \in 0..attempt] ==
        IF n = 0 THEN Min({Or(initial, DefaultInitial), limit}) ELSE Doubled(d[n - 1], limit)
  IN  d[attempt]
Jittered(d) ==
  IF d < 2 THEN {d} ELSE {Wrap(Half(d) + r) : r \in 0..(d - Half(d) - 1)}

Delay ==
  /\ given.kind = "delay" /\ result = Nil
  /\ IF PolicyRefuses(given.initial, given.maximum, given.retries)
     THEN result' = [err |-> "validation"]
     ELSE \E attempt \in 0..(given.retries - 1) :
            \E d \in Jittered(Backoff(given.initial, given.maximum, attempt)) :
              result' = [err |-> "nil", attempt |-> attempt, delay |-> d]
  /\ UNCHANGED given

\* Search.Timeout rounds up.
Timeout ==
  /\ given.kind = "timeout" /\ result = Nil
  /\ LET d == given.duration IN
     result' = IF d <= 0 THEN [err |-> "validation"]
               ELSE [err |-> "nil", milliseconds |->
                       Wrap(d \div Millisecond + IF d % Millisecond # 0 THEN 1 ELSE 0)]
  /\ UNCHANGED given

Next == Page \/ Delay \/ Timeout

Spec == Init /\ [][Next]_<<given, result>>

-----------------------------------------------------------------------------
\* Whatever is accepted is computed as if integers had no limit: a page starts
\* after the pages before it and has a next one just if hits are left, a delay
\* is in the upper half of the doubled delay up to its maximum, and a timeout
\* is the least number of milliseconds that is no shorter.
NumbersStayInRange ==
  result # Nil /\ result.err = "nil" =>
    CASE given.kind = "page" ->
           /\ result.from = (given.page - 1) * given.size
           /\ result.hasNext = (given.page * given.size < given.total)
      [] given.kind = "delay" ->
           LET limit == Or(given.maximum, DefaultMaximum)
               exact == Min({Or(given.initial, DefaultInitial) * Pow2[result.attempt], limit})
           IN  /\ exact < 2 => result.delay = exact
               /\ exact >= 2 => result.delay \in Half(exact)..(exact - 1)
      [] given.kind = "timeout" ->
           /\ result.milliseconds * Millisecond >= given.duration
           /\ (result.milliseconds - 1) * Millisecond < given.duration
=============================================================================
