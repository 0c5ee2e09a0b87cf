---------------------------- MODULE BreakerProtocol ----------------------------
(***************************************************************************)
(* What a circuit breaker promises about the requests to one service,      *)
(* without a clock, statistics or a probe flag: it is closed, open or      *)
(* half-open; a request finds it open only until its rest is over, and     *)
(* then one is let through and the breaker is half-open until some answer  *)
(* is reported.  Answers are reported in any order, late ones included, or *)
(* never.  CircuitBreaker implements it.                                   *)
(***************************************************************************)
EXTENDS Breakers

CONSTANT Requests

VARIABLES
    breaker,
    inFlight   \* requests passed on and not reported yet

Init == breaker = Closed /\ inFlight = {}

Pass(r) ==
    /\ r \notin inFlight
    /\ ~Refuses(breaker)
    /\ breaker' = Asked(breaker)
    /\ inFlight' = inFlight \cup {r}

Succeed(r) ==
    /\ r \in inFlight
    /\ breaker' = Succeeded(breaker)
    /\ inFlight' = inFlight \ {r}

\* The rest it opens for may be of no length.
Fail(r) ==
    /\ r \in inFlight
    /\ breaker' \in {FailedOnce(breaker), Rested(FailedOnce(breaker))}
    /\ inFlight' = inFlight \ {r}

\* Nobody waits for the answer any more, and none is reported.
Abandon(r) ==
    /\ r \in inFlight
    /\ inFlight' = inFlight \ {r}
    /\ UNCHANGED breaker

\* The rest is over.
Elapse ==
    /\ breaker' = Rested(breaker)
    /\ UNCHANGED inFlight

\* A reset, or a new process with no requests.
Reset ==
    /\ breaker' = Closed
    /\ inFlight' \in {inFlight, {}}

Next ==
    \/ \E r \in Requests : Pass(r) \/ Succeed(r) \/ Fail(r) \/ Abandon(r)
    \/ Elapse
    \/ Reset

Spec == Init /\ [][Next]_<<breaker, inFlight>>
=============================================================================
