------------------------------ MODULE HttpFetch ------------------------------
(***************************************************************************)
(* One HTTP request of a collector, as fetchWithRetry makes it             *)
(* (apps/api/src/sources/collectors/http.ts): bounded attempts, a timeout  *)
(* on each, a pause before the next.  The timeout is over once the status  *)
(* has arrived; the caller reads the body afterwards.  Crawler.tla and     *)
(* AppApi.tla are its callers.                                             *)
(***************************************************************************)
EXTENDS Integers

CONSTANTS Url,
          Status,      \* the status codes servers answer
          MaxRetries

ASSUME FetchIsSound == Status \subseteq 100..599 /\ MaxRetries \in Nat

VARIABLES
    request,    \* the call in progress, and what came of it
    attempts    \* what onAttempt was told, counted for the statistics

fetch == <<request, attempts>>

RETRYABLE_STATUSES == {408, 425, 429, 500, 502, 503, 504}

IsOk(status) == status \in 200..299

TotalAttempts == MaxRetries + 1

\* "none" between calls, then "sent" and "backoff" in turn; "body" once the
\* headers of a good answer are there; "failed" once the call has thrown.
Request == [state : {"none", "sent", "backoff", "body", "failed"}, attempt : Nat]

NoRequest == [state |-> "none", attempt |-> 0]

FetchInit ==
    /\ request = NoRequest
    /\ attempts = [made |-> 0, retried |-> 0]

FirstAttempt == [state |-> "sent", attempt |-> 1]

FetchWithRetry ==
    /\ request.state = "none"
    /\ request' = FirstAttempt
    /\ UNCHANGED attempts

OnAttempt(retried) ==
    attempts' = [made    |-> attempts.made + 1,
                 retried |-> attempts.retried + (IF retried THEN 1 ELSE 0)]

\* Mutant: one attempt too many.
RetryOnceMore == request.attempt <= TotalAttempts

\* An attempt that failed for now is logged and repeated, or was the last.
MayRetry == request.attempt < TotalAttempts

Retry ==
    /\ request.state = "sent"
    /\ MayRetry
    /\ OnAttempt(TRUE)
    /\ request' = [request EXCEPT !.state = "backoff"]

EndWith(state) ==
    /\ request.state = "sent"
    /\ OnAttempt(FALSE)
    /\ request' = [request EXCEPT !.state = state]

Answer(status) ==
    IF status \in RETRYABLE_STATUSES /\ MayRetry THEN Retry
    ELSE EndWith(IF IsOk(status) THEN "body" ELSE "failed")

\* A network error, or the timeout aborts the attempt.
NoAnswer == IF MayRetry THEN Retry ELSE EndWith("failed")

\* Mutant: the first pause is cleared together with the timer of the attempt.
WakeUnlessFirst ==
    /\ request.state = "backoff"
    /\ request.attempt > 1
    /\ request' = [state |-> "sent", attempt |-> request.attempt + 1]
    /\ UNCHANGED attempts

Wake ==
    /\ request.state = "backoff"
    /\ request' = [state |-> "sent", attempt |-> request.attempt + 1]
    /\ UNCHANGED attempts

\* The connection breaks after the headers: reading the body throws, and no
\* attempt is repeated.
BodyBreaks ==
    /\ request.state = "body"
    /\ request' = [request EXCEPT !.state = "failed"]
    /\ UNCHANGED attempts

FetchNext == (\E status \in Status : Answer(status)) \/ NoAnswer \/ Wake \/ BodyBreaks

FetchTypeOK ==
    /\ request \in Request
    /\ attempts \in [made : Nat, retried : Nat]
=============================================================================
