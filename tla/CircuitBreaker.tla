--------------------------- MODULE CircuitBreaker ---------------------------
(***************************************************************************)
(* The API gateway's circuit breaker for one downstream service, and the   *)
(* proxied requests that report to it.  A request asks isOpen() when it    *)
(* arrives and reports a success or a failure when the proxy calls back,   *)
(* by which time the breaker may be in any state.  A request the downstream*)
(* service never answers never reports (the proxy is given no timeout), and*)
(* neither does one whose client has left.                                 *)
(*                                                                         *)
(* overtaken is a history variable.                                        *)
(*                                                                         *)
(* An operator standing just before the one it resembles, such as          *)
(* MayProbeAnyTime before MayProbe, is the slip the properties must catch. *)
(***************************************************************************)
EXTENDS Integers, FiniteSets

CONSTANTS
    Requests,   \* requests clients send through the gateway
    Threshold,  \* CB_FAILURE_THRESHOLD
    Recovery,   \* CB_RECOVERY_TIMEOUT_MS, in clock ticks
    MaxTime,    \* bound: the clock stops here
    MaxResets   \* bound: calls of reset(), which no route of the gateway makes

ASSUME BreakerAssumption ==
    /\ IsFiniteSet(Requests)
    /\ Threshold \in Nat \ {0}
    /\ Recovery \in Nat
    /\ MaxTime \in Nat
    /\ MaxResets \in Nat

VARIABLES
    clock,
    state,          \* "closed", "open" or "half-open"
    failures,
    lastFailureAt,
    nextProbeAt,    \* 0 for undefined
    probeInFlight,
    totalRequests,
    totalFailures,
    totalRejected,
    request,        \* where each request is; a probe is marked as one
    overtaken,      \* probes in flight when another request's answer, or a
                    \* reset, decided the state
    resets

statVars == <<totalRequests, totalFailures, totalRejected>>
breakerVars == <<state, failures, lastFailureAt, nextProbeAt, probeInFlight>>
vars == <<clock, breakerVars, statVars, request, overtaken, resets>>

States == {"closed", "open", "half-open"}
InFlight == {"sent", "probe"}
RequestStates == InFlight \cup {"new", "ok", "failed", "left", "rejected"}

Init ==
    /\ clock = 0
    /\ state = "closed"
    /\ failures = 0
    /\ lastFailureAt = 0
    /\ nextProbeAt = 0
    /\ probeInFlight = FALSE
    /\ totalRequests = 0
    /\ totalFailures = 0
    /\ totalRejected = 0
    /\ request = [r \in Requests |-> "new"]
    /\ overtaken = {}
    /\ resets = 0

(***************************************************************************)
(* isOpen().                                                               *)
(***************************************************************************)
MayProbeAnyTime == ~probeInFlight
MayProbe == clock >= nextProbeAt /\ ~probeInFlight

MayPassHalfOpen == state \in {"closed", "half-open"}
MayPass == state = "closed" \/ (state = "half-open" /\ ~probeInFlight)

Forward(r, as) ==
    /\ request' = [request EXCEPT ![r] = as]
    /\ totalRequests' = totalRequests + 1
    /\ UNCHANGED <<totalFailures, totalRejected>>

RejectDecrements(r) ==
    /\ request' = [request EXCEPT ![r] = "rejected"]
    /\ totalRejected' = totalRejected + 1
    /\ totalRequests' = totalRequests - 1
    /\ UNCHANGED totalFailures

Reject(r) ==
    /\ request' = [request EXCEPT ![r] = "rejected"]
    /\ totalRejected' = totalRejected + 1
    /\ UNCHANGED <<totalRequests, totalFailures>>

Arrive(r) ==
    /\ request[r] = "new"
    /\ \/ /\ MayPass
          /\ Forward(r, "sent")
          /\ UNCHANGED breakerVars
       \/ /\ state = "open" /\ MayProbe
          /\ state' = "half-open"
          /\ probeInFlight' = TRUE
          /\ Forward(r, "probe")
          /\ UNCHANGED <<failures, lastFailureAt, nextProbeAt>>
       \/ /\ ~MayPass /\ ~(state = "open" /\ MayProbe)
          /\ Reject(r)
          /\ UNCHANGED breakerVars
    /\ UNCHANGED <<clock, overtaken, resets>>

(***************************************************************************)
(* recordSuccess() and recordFailure(), from onProxyRes and onError.       *)
(***************************************************************************)
RecordSuccess ==
    IF state = "closed" THEN UNCHANGED breakerVars
    ELSE /\ state' = "closed"
         /\ failures' = 0
         /\ probeInFlight' = FALSE
         /\ UNCHANGED <<lastFailureAt, nextProbeAt>>

RecordFailureOnlyClosed ==
    /\ failures' = failures + 1
    /\ lastFailureAt' = clock
    /\ probeInFlight' = FALSE
    /\ IF state = "closed" /\ failures' >= Threshold
         THEN /\ state' = "open"
              /\ nextProbeAt' = clock + Recovery
         ELSE UNCHANGED <<state, nextProbeAt>>

RecordFailure ==
    /\ failures' = failures + 1
    /\ lastFailureAt' = clock
    /\ probeInFlight' = FALSE
    /\ IF state = "half-open" \/ failures' >= Threshold
         THEN /\ state' = "open"
              /\ nextProbeAt' = clock + Recovery
         ELSE UNCHANGED <<state, nextProbeAt>>

Overtake(r) == overtaken' = {p \in Requests : request[p] = "probe"} \ {r}

Succeed(r) ==
    /\ request[r] \in InFlight
    /\ request' = [request EXCEPT ![r] = "ok"]
    /\ RecordSuccess
    /\ Overtake(r)
    /\ UNCHANGED <<clock, statVars, resets>>

Fail(r) ==
    /\ request[r] \in InFlight
    /\ request' = [request EXCEPT ![r] = "failed"]
    /\ RecordFailure
    /\ Overtake(r)
    /\ totalFailures' = totalFailures + 1
    /\ UNCHANGED <<clock, totalRequests, totalRejected, resets>>

\* The client leaves and the proxy gives the request up without an error.
Leave(r) ==
    /\ request[r] \in InFlight
    /\ request' = [request EXCEPT ![r] = "left"]
    /\ overtaken' = overtaken \ {r}
    /\ UNCHANGED <<clock, breakerVars, statVars, resets>>

Reset ==
    /\ resets < MaxResets
    /\ resets' = resets + 1
    /\ state' = "closed"
    /\ failures' = 0
    /\ probeInFlight' = FALSE
    /\ nextProbeAt' = 0
    /\ overtaken' = {p \in Requests : request[p] = "probe"}
    /\ UNCHANGED <<clock, lastFailureAt, statVars, request>>

Tick ==
    /\ clock < MaxTime
    /\ clock' = clock + 1
    /\ UNCHANGED <<breakerVars, statVars, request, overtaken, resets>>

Next ==
    \/ \E r \in Requests : Arrive(r) \/ Succeed(r) \/ Fail(r) \/ Leave(r)
    \/ Reset
    \/ Tick

Spec == Init /\ [][Next]_vars

(***************************************************************************)
(* Properties.                                                             *)
(***************************************************************************)

\* Every variable has its type; the counters are never driven below zero.
TypeOK ==
    /\ clock \in Nat
    /\ state \in States
    /\ failures \in Nat
    /\ lastFailureAt \in Nat
    /\ nextProbeAt \in Nat
    /\ probeInFlight \in BOOLEAN
    /\ totalRequests \in Nat
    /\ totalFailures \in Nat
    /\ totalRejected \in Nat
    /\ request \in [Requests -> RequestStates]
    /\ overtaken \subseteq {r \in Requests : request[r] = "probe"}
    /\ resets \in Nat

\* probeInFlight and state never disagree: half-open is the state with a probe
\* flagged, so the last `return false` of isOpen() is never reached.
ProbeFlagAgrees == probeInFlight <=> state = "half-open"

\* A closed breaker is below the threshold, an open or half-open one is not,
\* whatever order late answers of earlier requests arrive in.
ThresholdDecides == state = "closed" <=> failures < Threshold

\* Once open, the breaker keeps Recovery ticks of silence counted from the
\* latest failure: a late failure of a request sent before pushes the probe back.
ProbeWaitsForQuiet ==
    [][\A r \in Requests :
          request[r] = "new" /\ request'[r] \in InFlight /\ state # "closed" =>
              /\ request'[r] = "probe"
              /\ clock >= lastFailureAt + Recovery]_vars

\* The comment of isOpen says that half-open allows exactly one probe.  It does
\* as far as the breaker knows: past a breaker that is not closed a request goes
\* only when each probe still in flight was overtaken, that is, when the answer
\* of another request, sent before or since, or a reset has ended its half-open.
OneProbeUnlessOvertaken ==
    [][\A r \in Requests :
          request[r] = "new" /\ request'[r] \in InFlight /\ state # "closed" =>
              \A p \in Requests : request[p] = "probe" => p \in overtaken]_vars

\* The protocol of the breaker, which the gateway's model is built on: what is
\* kept here on a clock, with a probe flag and statistics, moves as it says.
Counted == IF failures < Threshold THEN failures ELSE Threshold
Due == state = "open" /\ clock >= nextProbeAt
View == [state |-> state, failures |-> Counted, due |-> Due]
Passed == {r \in Requests : request[r] \in InFlight}
Protocol == INSTANCE BreakerProtocol WITH breaker <- View, inFlight <- Passed
ImplementsProtocol == Protocol!Spec
=============================================================================
