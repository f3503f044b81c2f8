---------------------------- MODULE HttpRequests ----------------------------
(***************************************************************************)
(* NetworkClient: a request is sent in attempts.  An attempt ends when its *)
(* reply finishes, by itself, by the timeout timer or by the certificate   *)
(* check, and RetryPolicy decides whether a timer starts another attempt   *)
(* or the response is handed to the caller's future.                       *)
(*                                                                         *)
(* The client runs on the GUI thread.  The server, which handles an        *)
(* attempt at some time after it was sent or never, is the environment.    *)
(***************************************************************************)
EXTENDS Integers, FiniteSetsExt

CONSTANTS
  Reqs,           \* requests that may be open at the same time
  MaximumRetries, \* retry_policy.maximum_retries of each
  InitialDelay,   \* retry_policy.initial_delay_ms
  MaximumDelay,   \* retry_policy.maximum_delay_ms
  IntMax,         \* the largest int, in the same unit
  Bodies,         \* what the server may answer
  Replies,        \* how a reply may end: its QNetworkReply error, status and JSON
  Missing         \* no body, no list, no fetch

ASSUME HttpRequestsAssumption ==
  /\ MaximumRetries \in [Reqs -> Nat]
  /\ InitialDelay \in Nat \ {0} /\ MaximumDelay \in Nat /\ IntMax \in Nat
  /\ Missing \notin Bodies

VARIABLES
  req \* the RequestContext of each request, its current reply and, where a
      \* second time would do harm, how often the server has handled it

Methods == {"GET", "POST", "PUT", "PATCH", "DELETE", "HEAD"}

Idle == [st |-> "idle", method |-> "GET", retries |-> 0, body |-> Missing, handled |-> 0, error |-> "None", ok |-> FALSE]

HttpInit == req = [r \in Reqs |-> Idle]

-----------------------------------------------------------------------------
\* RetryPolicy.

IsIdempotentHttpMethod(method) == method \in {"GET", "PUT", "DELETE", "HEAD"}

RetryableErrors == {"ConnectionRefused", "RemoteHostClose", "Timeout", "TemporaryNetworkFailure",
                    "BadGateway", "ServiceUnavailable", "GatewayTimeout"}

ShouldRetry(r, error) ==
  /\ req[r].retries < MaximumRetries[r]
  /\ error \in RetryableErrors
  /\ IsIdempotentHttpMethod(req[r].method)

Backoff[n \in Nat] == IF n = 0 THEN InitialDelay ELSE 2 * Backoff[n - 1]

\* The double is cast to int before it is capped.  Past the largest int the
\* cast is undefined: it saturates on some processors and gives the smallest
\* int, here -1, on others.
DelayForRetry(n) ==
  IF Backoff[n] <= IntMax THEN {Min({Backoff[n], MaximumDelay})} ELSE {MaximumDelay, -1}

-----------------------------------------------------------------------------
\* How a reply becomes a NetworkError.

MapHttpStatus(status) ==
  CASE status \in 200 .. 299 -> "None"
    [] status = 0 -> "UnknownNetworkError"
    [] status = 502 -> "BadGateway"
    [] status = 503 -> "ServiceUnavailable"
    [] status = 504 -> "GatewayTimeout"
    [] status >= 400 /\ status \notin {502, 503, 504} -> "HttpError"
    [] OTHER -> "None"

MapNetworkError(reply) ==
  IF reply.error \in {"None", "ConnectionRefused", "RemoteHostClose", "HostNotFound", "Timeout",
                      "OperationCancelled", "SslHandshakeFailed", "TemporaryNetworkFailure",
                      "NetworkSessionFailed"}
    THEN reply.error
    ELSE IF reply.status # 0 THEN "None" ELSE "UnknownNetworkError"

CreateResponse(reply) ==
  LET network == MapNetworkError(reply)
      error   == IF network = "None" THEN MapHttpStatus(reply.status) ELSE network
  IN  IF error = "None" /\ ~reply.json THEN "JsonParseError" ELSE error

-----------------------------------------------------------------------------

\* executeAttempt(): the next attempt is on its way.
ExecuteAttempt(q) == [q EXCEPT !.st = "flying"]

\* The first attempt, once the interceptors have added the token.
Started(method) == ExecuteAttempt([Idle EXCEPT !.method = method])

Invalid == [Idle EXCEPT !.st = "done", !.error = "Other"]

\* send(): an invalid URL is answered at once.
Send(r, method) ==
  /\ req[r].st = "idle"
  /\ \E q \in {Started(method), Invalid} : req' = [req EXCEPT ![r] = q]

\* What the callers tell apart.
Told(error) == IF error \in {"None", "UnknownNetworkError"} THEN error ELSE "Other"

\* The finished handler of a reply.  The body of a failed one is of no use to
\* the callers and is dropped here.
Finished(r, error, status) ==
  IF ShouldRetry(r, error)
    THEN \E delay \in DelayForRetry(req[r].retries) :
           req' = [req EXCEPT ![r].st = IF delay < 0 THEN "lost" ELSE "waiting",
                              ![r].retries = @ + 1, ![r].body = Missing]
    ELSE LET ok == error = "None" /\ status \in 200 .. 299
         IN  req' = [req EXCEPT ![r].st = "done", ![r].error = Told(error), ![r].ok = ok,
                                ![r].body = IF ok THEN @ ELSE Missing, ![r].retries = 0]

\* The server handles the attempt, and what it answers is settled.
ServerHandles(r) ==
  /\ req[r].st = "flying" /\ req[r].body = Missing
  /\ \E body \in Bodies : req' = [req EXCEPT ![r].body = body,
                                             ![r].handled = IF IsIdempotentHttpMethod(req[r].method) THEN @ ELSE @ + 1]

\* The reply ends: with a status if the server has answered.
ReplyEnds(r) ==
  /\ req[r].st = "flying"
  /\ \E reply \in Replies :
       /\ reply.status # 0 => req[r].body # Missing
       /\ Finished(r, CreateResponse(reply), reply.status)

\* A plausible slip: only the first attempt is given a timeout.
FirstTimesOut(r) ==
  /\ req[r].st = "flying" /\ req[r].retries = 0
  /\ Finished(r, "Timeout", 0)

\* The timeout timer aborts the reply, whatever the server has done.
TimesOut(r) ==
  /\ req[r].st = "flying"
  /\ Finished(r, "Timeout", 0)

\* The certificate chain is not accepted, before anything is sent.
CertificateRefused(r) ==
  /\ req[r].st = "flying" /\ req[r].body = Missing
  /\ Finished(r, "OperationCancelled", 0)

RetryTimer(r) ==
  /\ req[r].st = "waiting"
  /\ req' = [req EXCEPT ![r] = ExecuteAttempt(@)]

HttpNext ==
  \E r \in Reqs : \/ ServerHandles(r) \/ ReplyEnds(r) \/ TimesOut(r)
                  \/ CertificateRefused(r) \/ RetryTimer(r)

\* Timers that were started fire.
HttpFairness == \A r \in Reqs : WF_req(TimesOut(r)) /\ WF_req(RetryTimer(r))

-----------------------------------------------------------------------------

HttpTypeOK ==
  /\ req \in [Reqs -> [st : {"idle", "flying", "waiting", "lost", "done"}, method : Methods, retries : Nat,
                       body : Bodies \cup {Missing}, handled : Nat, error : {"None", "UnknownNetworkError", "Other"}, ok : BOOLEAN]]
  /\ \A r \in Reqs : req[r].retries <= MaximumRetries[r]

\* "POST and PATCH are not automatically retried by default"
\* (retry_policy.hpp): whatever times out, breaks or is answered late, the
\* server handles such a request at most once.
OnceToServer ==
  \A r \in Reqs : ~IsIdempotentHttpMethod(req[r].method) => req[r].handled <= 1

\* The delay before the retry that was granted last does not fit in an int.
DelayOverflows(r) == \E delay \in DelayForRetry(req[r].retries - 1) : delay < 0

\* A request that was sent is answered in the end, also when the server never answers an
\* attempt and whatever the attempts before have met, with one exception: a retry whose
\* delay has outgrown an int is not made, and the request stays unanswered, although
\* "Total retries after the first attempt." (retry_policy.hpp) grants it.
EveryRequestEnds ==
  \A r \in Reqs : []<>(req[r].st \in {"idle", "done"} \/ (req[r].st = "lost" /\ DelayOverflows(r)))
=============================================================================
