------------------------ MODULE CircuitBreakerProofs ------------------------
(***************************************************************************)
(* Theorems about CircuitBreaker, for any number of requests, threshold,   *)
(* recovery time and order of late answers.                                *)
(***************************************************************************)
EXTENDS CircuitBreaker, TLAPS

\* The type invariant: no step takes a counter below zero or a request out of
\* its states.
THEOREM TypeCorrect == Spec => []TypeOK
<1>1. Init => TypeOK
  <2>1. Init => probeInFlight \in BOOLEAN
    BY Zenon DEF Init
  <2> QED
    BY <2>1 DEF Init, TypeOK, States, RequestStates
<1>2. TypeOK /\ [Next]_vars => TypeOK'
  <2> SUFFICES ASSUME TypeOK, [Next]_vars PROVE TypeOK'
    OBVIOUS
  <2> USE BreakerAssumption DEF TypeOK
  <2>1. ASSUME NEW r \in Requests, Arrive(r) PROVE TypeOK'
    <3>1. probeInFlight' \in BOOLEAN
      BY <2>1, Zenon DEF Arrive, breakerVars
    <3>2. request' \in [Requests -> RequestStates]
      BY <2>1 DEF Arrive, Forward, Reject, RequestStates, InFlight
    <3>3. overtaken' \subseteq {q \in Requests : request'[q] = "probe"}
      BY <2>1 DEF Arrive, Forward, Reject
    <3> QED
      BY <2>1, <3>1, <3>2, <3>3
      DEF Arrive, Forward, Reject, MayPass, breakerVars, States
  <2>2. ASSUME NEW r \in Requests, Succeed(r) PROVE TypeOK'
    <3>1. probeInFlight' \in BOOLEAN
      BY <2>2, Zenon DEF Succeed, RecordSuccess, breakerVars
    <3>2. overtaken' \subseteq {q \in Requests : request'[q] = "probe"}
      BY <2>2 DEF Succeed, Overtake
    <3> QED
      BY <2>2, <3>1, <3>2
      DEF Succeed, RecordSuccess, breakerVars, statVars, States, RequestStates
  <2>3. ASSUME NEW r \in Requests, Fail(r) PROVE TypeOK'
    <3>1. probeInFlight' \in BOOLEAN
      BY <2>3, Zenon DEF Fail, RecordFailure
    <3>2. overtaken' \subseteq {q \in Requests : request'[q] = "probe"}
      BY <2>3 DEF Fail, Overtake
    <3> QED
      BY <2>3, <3>1, <3>2 DEF Fail, RecordFailure, States, RequestStates
  <2>4. CASE Reset
    <3>1. probeInFlight' \in BOOLEAN
      BY <2>4, Zenon DEF Reset
    <3> QED
      BY <2>4, <3>1 DEF Reset, statVars, States
  <2>5. CASE Tick
    BY <2>5 DEF Tick, breakerVars, statVars
  <2>6. ASSUME NEW r \in Requests, Leave(r) PROVE TypeOK'
    BY <2>6 DEF Leave, breakerVars, statVars, RequestStates
  <2>7. CASE UNCHANGED vars
    BY <2>7 DEF vars, breakerVars, statVars
  <2> QED
    BY <2>1, <2>2, <2>3, <2>4, <2>5, <2>6, <2>7 DEF Next
<1> QED
  BY <1>1, <1>2, PTL DEF Spec

\* What makes the next two properties inductive: an open breaker will probe
\* Recovery ticks after the latest failure, and the three states, the failure
\* count and the probe flag determine one another.
BreakerInv ==
    /\ ProbeFlagAgrees
    /\ ThresholdDecides
    /\ state # "closed" => nextProbeAt = lastFailureAt + Recovery

\* BreakerInv is an invariant of the breaker.
THEOREM BreakerInvariant == Spec => []BreakerInv
<1>1. Init => BreakerInv
  BY BreakerAssumption DEF Init, BreakerInv, ProbeFlagAgrees, ThresholdDecides
<1>2. TypeOK /\ BreakerInv /\ [Next]_vars => BreakerInv'
  <2> SUFFICES ASSUME TypeOK, BreakerInv, [Next]_vars PROVE BreakerInv'
    OBVIOUS
  <2> USE BreakerAssumption DEF BreakerInv, ProbeFlagAgrees, ThresholdDecides
  <2>1. ASSUME NEW r \in Requests, Arrive(r) PROVE BreakerInv'
    BY <2>1 DEF Arrive, MayPass, breakerVars, TypeOK, States
  <2>2. ASSUME NEW r \in Requests, Succeed(r) PROVE BreakerInv'
    BY <2>2 DEF Succeed, RecordSuccess, breakerVars, TypeOK, States
  <2>3. ASSUME NEW r \in Requests, Fail(r) PROVE BreakerInv'
    BY <2>3 DEF Fail, RecordFailure, TypeOK, States
  <2>4. CASE Reset
    BY <2>4 DEF Reset, TypeOK
  <2>5. CASE Tick
    BY <2>5 DEF Tick, breakerVars
  <2>6. CASE (\E r \in Requests : Leave(r)) \/ UNCHANGED vars
    BY <2>6 DEF Leave, vars, breakerVars
  <2> QED
    BY <2>1, <2>2, <2>3, <2>4, <2>5, <2>6 DEF Next
<1> QED
  BY <1>1, <1>2, TypeCorrect, PTL DEF Spec

\* The flag is up exactly while the breaker is half-open.
THEOREM ProbeFlagAlwaysAgrees == Spec => []ProbeFlagAgrees
<1>1. BreakerInv => ProbeFlagAgrees
  BY DEF BreakerInv
<1> QED
  BY <1>1, BreakerInvariant, PTL

\* The breaker is closed exactly while fewer failures than the threshold count.
THEOREM ThresholdAlwaysDecides == Spec => []ThresholdDecides
<1>1. BreakerInv => ThresholdDecides
  BY DEF BreakerInv
<1> QED
  BY <1>1, BreakerInvariant, PTL

\* No request passes a breaker that is not closed but a probe, and a probe
\* only Recovery ticks after the latest failure.
THEOREM ProbeAlwaysWaits == Spec => ProbeWaitsForQuiet
<1>1. TypeOK /\ BreakerInv /\ [Next]_vars =>
        [\A r \in Requests :
           request[r] = "new" /\ request'[r] \in InFlight /\ state # "closed" =>
              /\ request'[r] = "probe"
              /\ clock >= lastFailureAt + Recovery]_vars
  <2> SUFFICES ASSUME TypeOK, BreakerInv, [Next]_vars,
                      NEW r \in Requests, request[r] = "new",
                      request'[r] \in InFlight, state # "closed"
               PROVE  request'[r] = "probe" /\ clock >= lastFailureAt + Recovery
    OBVIOUS
  <2> USE DEF InFlight, TypeOK
  <2>1. ASSUME NEW q \in Requests, Arrive(q)
        PROVE  request'[r] = "probe" /\ clock >= lastFailureAt + Recovery
    BY <2>1 DEF Arrive, Forward, Reject, MayPass, MayProbe, BreakerInv,
                ProbeFlagAgrees
  <2>2. ASSUME NEW q \in Requests, Succeed(q) \/ Fail(q) \/ Leave(q) PROVE FALSE
    BY <2>2 DEF Succeed, Fail, Leave
  <2>3. CASE Reset \/ Tick \/ UNCHANGED vars
    BY <2>3 DEF Reset, Tick, vars
  <2> QED
    BY <2>1, <2>2, <2>3 DEF Next
<1> QED
  BY <1>1, TypeCorrect, BreakerInvariant, PTL DEF Spec, ProbeWaitsForQuiet

\* While a probe that nothing has overtaken is in flight, the breaker is half-open.
ProbesInv ==
    \A p \in Requests : request[p] = "probe" /\ p \notin overtaken =>
        state = "half-open"

\* ProbesInv is an invariant of the breaker.
THEOREM ProbesInvariant == Spec => []ProbesInv
<1>1. Init => ProbesInv
  BY DEF Init, ProbesInv
<1>2. TypeOK /\ BreakerInv /\ ProbesInv /\ [Next]_vars => ProbesInv'
  <2> SUFFICES ASSUME TypeOK, BreakerInv, ProbesInv, [Next]_vars PROVE ProbesInv'
    OBVIOUS
  <2> USE DEF TypeOK, ProbesInv
  <2>1. ASSUME NEW r \in Requests, Arrive(r) PROVE ProbesInv'
    BY <2>1 DEF Arrive, Forward, Reject, MayPass, MayProbe, breakerVars
  <2>2. ASSUME NEW r \in Requests, Succeed(r) \/ Fail(r) PROVE ProbesInv'
    <3>1. \A p \in Requests : request'[p] = "probe" => p \in overtaken'
      BY <2>2 DEF Succeed, Fail, Overtake
    <3> QED
      BY <3>1
  <2>3. ASSUME NEW r \in Requests, Leave(r) PROVE ProbesInv'
    BY <2>3 DEF Leave, breakerVars
  <2>4. CASE Reset \/ Tick \/ UNCHANGED vars
    BY <2>4 DEF Reset, Tick, vars, breakerVars
  <2> QED
    BY <2>1, <2>2, <2>3, <2>4 DEF Next
<1> QED
  BY <1>1, <1>2, TypeCorrect, BreakerInvariant, PTL DEF Spec

\* A second probe goes out, and any request past a breaker that is not closed,
\* only when every probe in flight was overtaken by another answer or a reset.
THEOREM OneProbeAlways == Spec => OneProbeUnlessOvertaken
<1>1. TypeOK /\ BreakerInv /\ ProbesInv /\ [Next]_vars =>
        [\A r \in Requests :
           request[r] = "new" /\ request'[r] \in InFlight /\ state # "closed" =>
              \A p \in Requests : request[p] = "probe" => p \in overtaken]_vars
  <2> SUFFICES ASSUME TypeOK, BreakerInv, ProbesInv, [Next]_vars,
                      NEW r \in Requests, request[r] = "new",
                      request'[r] \in InFlight, state # "closed",
                      NEW p \in Requests, request[p] = "probe"
               PROVE  p \in overtaken
    OBVIOUS
  <2> USE DEF InFlight, TypeOK
  <2>1. ASSUME NEW q \in Requests, Arrive(q) PROVE state # "half-open"
    BY <2>1 DEF Arrive, Reject, MayPass, MayProbe, BreakerInv, ProbeFlagAgrees
  <2>2. ASSUME NEW q \in Requests, Succeed(q) \/ Fail(q) \/ Leave(q) PROVE FALSE
    BY <2>2 DEF Succeed, Fail, Leave
  <2>3. CASE Reset \/ Tick \/ UNCHANGED vars
    BY <2>3 DEF Reset, Tick, vars
  <2> QED
    BY <2>1, <2>2, <2>3 DEF Next, ProbesInv
<1> QED
  BY <1>1, TypeCorrect, BreakerInvariant, ProbesInvariant, PTL
  DEF Spec, OneProbeUnlessOvertaken

\* The breaker follows the protocol: its initial state is the protocol's, and
\* each of its steps is one of the protocol or changes nothing the protocol
\* sees.
THEOREM ProtocolIsImplemented == Spec => ImplementsProtocol
<1> USE DEF Protocol!Closed, Protocol!Opened, Protocol!HalfOpen
<1>1. Init => Protocol!Init
  <2> SUFFICES ASSUME Init PROVE Protocol!Init
    OBVIOUS
  <2>1. Counted = 0 /\ Due = FALSE /\ state = "closed"
    BY BreakerAssumption DEF Init, Counted, Due
  <2>2. Passed = {}
    BY DEF Init, Passed, InFlight
  <2> QED
    BY <2>1, <2>2 DEF Protocol!Init, View
<1>2. TypeOK /\ BreakerInv /\ [Next]_vars => [Protocol!Next]_<<View, Passed>>
  <2> SUFFICES ASSUME TypeOK, BreakerInv, [Next]_vars
               PROVE  [Protocol!Next]_<<View, Passed>>
    OBVIOUS
  <2> USE BreakerAssumption DEF TypeOK
  <2>1. ASSUME NEW r \in Requests, Arrive(r)
        PROVE  Protocol!Pass(r) \/ UNCHANGED <<View, Passed>>
    <3> USE DEF View, Counted, Due, Passed, InFlight, RequestStates
    <3>1. CASE request'[r] = "rejected"
      BY <2>1, <3>1 DEF Arrive, Forward, Reject, breakerVars
    <3>2. CASE request'[r] # "rejected"
      <4>1. Passed' = Passed \cup {r} /\ r \notin Passed
        BY <2>1, <3>2 DEF Arrive, Forward, Reject
      <4>2. CASE state = "closed"
        BY <2>1, <3>2, <4>1, <4>2
        DEF Arrive, Forward, Reject, MayPass, breakerVars, BreakerInv,
            ProbeFlagAgrees, Protocol!Pass, Protocol!Refuses, Protocol!Asked
      <4>3. CASE state # "closed"
        BY <2>1, <3>2, <4>1, <4>3
        DEF Arrive, Forward, Reject, breakerVars, MayPass, MayProbe, BreakerInv,
            ProbeFlagAgrees, ThresholdDecides, States,
            Protocol!Pass, Protocol!Refuses, Protocol!Asked
      <4> QED
        BY <4>2, <4>3
    <3> QED
      BY <3>1, <3>2
  <2>2. ASSUME NEW r \in Requests, Succeed(r) PROVE Protocol!Succeed(r)
    <3>1. r \in Passed /\ Passed' = Passed \ {r}
      BY <2>2 DEF Succeed, Passed, InFlight, RequestStates
    <3>2. CASE state = "closed"
      <4>1. state' = state /\ Counted' = Counted /\ Due' = Due
        BY <2>2, <3>2 DEF Succeed, RecordSuccess, breakerVars, Counted, Due
      <4> QED
        BY <3>1, <3>2, <4>1 DEF View, Protocol!Succeed, Protocol!Succeeded
    <3>3. CASE state # "closed"
      <4>1. state' = "closed" /\ Counted' = 0 /\ Due' = FALSE
        BY <2>2, <3>3 DEF Succeed, RecordSuccess, Counted, Due
      <4> QED
        BY <3>1, <3>3, <4>1 DEF View, Protocol!Succeed, Protocol!Succeeded
    <3> QED
      BY <3>2, <3>3
  <2>3. ASSUME NEW r \in Requests, Fail(r) PROVE Protocol!Fail(r)
    <3>1. r \in Passed /\ Passed' = Passed \ {r}
      BY <2>3 DEF Fail, Passed, InFlight, RequestStates
    <3>2. CASE state = "closed" /\ failures + 1 < Threshold
      <4>1. /\ state' = state /\ Counted = failures /\ Counted' = failures + 1
            /\ Due = FALSE /\ Due' = FALSE
        BY <2>3, <3>2 DEF Fail, RecordFailure, Counted, Due
      <4>2. View' = Protocol!FailedOnce(View)
        BY <3>2, <4>1 DEF View, Protocol!FailedOnce
      <4> QED
        BY <3>1, <4>2 DEF Protocol!Fail
    <3>3. CASE ~(state = "closed" /\ failures + 1 < Threshold)
      <4>1. state' = "open" /\ Counted' = Threshold
        BY <2>3, <3>3
        DEF Fail, RecordFailure, Counted, BreakerInv, ThresholdDecides, States
      <4>2. Protocol!FailedOnce(View) = Protocol!Opened
        BY <3>3
        DEF View, Counted, Protocol!FailedOnce, BreakerInv, ThresholdDecides
      <4>3. Due' = TRUE \/ Due' = FALSE
        BY DEF Due
      <4>4. View' \in {Protocol!Opened, Protocol!Rested(Protocol!Opened)}
        BY <4>1, <4>3 DEF View, Protocol!Rested
      <4> QED
        BY <3>1, <4>2, <4>4 DEF Protocol!Fail
    <3> QED
      BY <3>2, <3>3
  <2>4. CASE Reset
    <3>1. state' = "closed" /\ Counted' = 0 /\ Due' = FALSE /\ Passed' = Passed
      BY <2>4 DEF Reset, Counted, Due, Passed
    <3> QED
      BY <3>1 DEF View, Protocol!Reset, Protocol!Next
  <2>5. CASE Tick
    <3>1. /\ state' = state /\ Counted' = Counted /\ Passed' = Passed
          /\ Due' = Due \/ (state = "open" /\ Due' = TRUE)
      BY <2>5 DEF Tick, breakerVars, Counted, Due, Passed
    <3> QED
      BY <3>1 DEF View, Protocol!Elapse, Protocol!Rested, Protocol!Next
  <2>6. ASSUME NEW r \in Requests, Leave(r) PROVE Protocol!Abandon(r)
    BY <2>6 DEF Leave, breakerVars, View, Counted, Due, Passed, InFlight,
                Protocol!Abandon
  <2>7. CASE UNCHANGED vars
    BY <2>7 DEF vars, breakerVars, View, Counted, Due, Passed
  <2> QED
    BY <2>1, <2>2, <2>3, <2>4, <2>5, <2>6, <2>7 DEF Next, Protocol!Next
<1> QED
  BY <1>1, <1>2, TypeCorrect, BreakerInvariant, PTL
  DEF Spec, Protocol!Spec, ImplementsProtocol
=============================================================================
