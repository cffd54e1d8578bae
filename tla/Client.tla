------------------------------- MODULE Client -------------------------------
(***************************************************************************)
(* What Client makes of a request and of its answer (src/client.go): which *)
(* servers it connects to, which requests it lets through, and how it      *)
(* classifies what the transport returns.  The library never repeats a     *)
(* request, so an error is all a caller has to decide what has happened.   *)
(***************************************************************************)
LOCAL INSTANCE Integers
LOCAL INSTANCE Sequences

\* Error.Is and Error.Retryable, by HTTP status.
Class(status) ==
  CASE status = 404 -> "notFound"
    [] status = 409 -> "conflict"
    [] status = 400 -> "validation"
    [] status = 429 -> "tooManyRequests"
    [] status \in 502..504 -> "unavailable"
    [] OTHER -> "other"
Retryable(class) == class \in {"tooManyRequests", "unavailable"}

\* What a transport returns: an error, no response, or a response whose body
\* is the JSON value wanted, cannot be read, exceeds the limit, is empty, is
\* no such value, or has more data behind it.
Bodies == {"json", "unread", "large", "empty", "garbage", "trailing"}
Response(status, body) == [arrives |-> "response", status |-> status, body |-> body]
NoResponse == [arrives |-> "nothing", status |-> 0, body |-> "empty"]
TransportError == [arrives |-> "error", status |-> 0, body |-> "empty"]

\* Client.perform: the error returned.  reads says that the caller wants the
\* body: it passed an out and the method is not HEAD.
Perform(answer, reads) ==
  IF answer.arrives = "error" THEN "transport"
  ELSE IF answer.arrives = "nothing" THEN "transport"
  ELSE IF answer.body = "unread" THEN "transport"
  ELSE IF answer.body = "large" THEN "tooLarge"
  ELSE IF answer.status \notin 200..299 THEN Class(answer.status)
  ELSE IF ~reads \/ answer.body = "json" THEN "nil"
  ELSE "malformed"

\* The errors that come from an answer of the server to this very request,
\* which tells that it was refused.
Refusals == {"notFound", "conflict", "validation"}

-----------------------------------------------------------------------------
\* Client.DoTyped: a builder's request, by where it goes and the major
\* versions its media types name; none is 0.
SendsTyped(ctx, request, major) ==
  /\ ctx /\ request.built
  /\ ~request.host
  /\ \A m \in request.compatible : m \in {0, major}

\* A version is a tuple of major, minor and patch.
Compare(v, w) ==
  LET differs == {i \in 1..3 : v[i] # w[i]} IN
  IF differs = {} THEN 0
  ELSE LET i == CHOOSE i \in differs : \A j \in differs : i <= j IN
       IF v[i] < w[i] THEN -1 ELSE 1

Minimum(major) == IF major = 8 THEN <<8, 18, 1>> ELSE <<9, 4, 5>>
ValidateVersion(v) ==
  /\ v[1] \in {8, 9}
  /\ v[2] >= 0 /\ v[3] >= 0
  /\ Compare(v, Minimum(v[1])) >= 0

\* ParseVersion: three parts that are numbers; a suffix is ignored.
ParseVersion(number) ==
  IF Len(number) = 3 /\ \A i \in 1..3 : number[i] \in Nat THEN number ELSE <<>>

\* newClient: a context that is not over and a transport, and a limit on the
\* size of a response that is the default, below 2^40 bytes or out of range.
NewClient(ctx, limit) ==
  IF ~ctx THEN "refused"
  ELSE IF limit = "outOfRange" THEN "validation"
  ELSE "nil"

\* Connect, with the answer of the server to GET /.
Connect(ctx, limit, answer, number) ==
  IF NewClient(ctx, limit) # "nil" THEN NewClient(ctx, limit)
  ELSE IF Perform(answer, TRUE) # "nil" THEN Perform(answer, TRUE)
  ELSE IF ParseVersion(number) = <<>> THEN "validation"
  ELSE IF ~ValidateVersion(ParseVersion(number)) THEN "unsupported"
  ELSE "nil"

\* ConnectVersion: the caller vouches for the version, nothing is asked.
ConnectVersion(ctx, limit, v) ==
  IF NewClient(ctx, limit) # "nil" THEN NewClient(ctx, limit)
  ELSE IF ~ValidateVersion(v) THEN "unsupported"
  ELSE "nil"
=============================================================================
