------------------------------- MODULE Breakers -------------------------------
(***************************************************************************)
(* The states of a circuit breaker as values, and what becomes of them.    *)
(* due says that an open breaker has rested for its recovery time; failures*)
(* are counted up to the threshold, beyond which their number is the same  *)
(* to the breaker.                                                         *)
(***************************************************************************)
EXTENDS Naturals

CONSTANT Threshold   \* CB_FAILURE_THRESHOLD

BreakerStates ==
    [state : {"closed", "open", "half-open"}, failures : 0..Threshold, due : BOOLEAN]

Closed == [state |-> "closed", failures |-> 0, due |-> FALSE]
Opened == [state |-> "open", failures |-> Threshold, due |-> FALSE]
HalfOpen == [state |-> "half-open", failures |-> Threshold, due |-> FALSE]

\* isOpen(): what it answers, and the state it leaves.
Refuses(b) == b.state = "half-open" \/ (b.state = "open" /\ ~b.due)
Asked(b) == IF b.state = "open" /\ b.due THEN HalfOpen ELSE b

Succeeded(b) == IF b.state = "closed" THEN b ELSE Closed

FailedOnce(b) ==
    IF b.state = "closed" /\ b.failures + 1 < Threshold
    THEN [b EXCEPT !.failures = @ + 1] ELSE Opened

Rested(b) == IF b.state = "open" THEN [b EXCEPT !.due = TRUE] ELSE b
=============================================================================
