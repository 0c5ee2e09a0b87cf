----------------------------- MODULE GatewayProofs -----------------------------
(***************************************************************************)
(* Theorems about Gateway, for any number of connections and services, any *)
(* number of retries, and any order of outages, requests and shutdowns.    *)
(***************************************************************************)
EXTENDS Gateway, TLAPS

\* What each breaker operator returns is a breaker.
LEMMA BreakerTypes ==
    ASSUME NEW b \in BreakerStates
    PROVE  /\ Asked(b) \in BreakerStates
           /\ Succeeded(b) \in BreakerStates
           /\ FailedOnce(b) \in BreakerStates
           /\ Rested(b) \in BreakerStates
<1> USE GatewayAssumption
    DEF BreakerStates, Closed, Opened, HalfOpen
<1>1. Asked(b) \in BreakerStates
  BY DEF Asked
<1>2. Succeeded(b) \in BreakerStates
  BY DEF Succeeded
<1>3. FailedOnce(b) \in BreakerStates
  <2>1. CASE b.state = "closed" /\ b.failures + 1 < Threshold
    BY <2>1 DEF FailedOnce
  <2>2. CASE ~(b.state = "closed" /\ b.failures + 1 < Threshold)
    BY <2>2 DEF FailedOnce
  <2> QED
    BY <2>1, <2>2
<1>4. Rested(b) \in BreakerStates
  BY DEF Rested
<1> QED
  BY <1>1, <1>2, <1>3, <1>4

\* TypeOK in two halves: each variable's own type, and what ties the requests,
\* the process and the Redis client together.
Typed ==
    /\ process \in {"starting", "up", "draining", "exiting"}
    /\ redis \in {"connecting", "ready", "reconnecting", "gaveUp", "closed"}
    /\ retries \in 0..(MaxRetries + 1)
    /\ step \in [Connections -> {"closed", "idle"} \cup Active]
    /\ breaker \in [Services -> BreakerStates]
    /\ down \subseteq Services
    /\ balancer \in {"none", "routes", "holds"}
    /\ faults \in Nat

Tied ==
    /\ \A c \in Connections :
          /\ step[c] = "asking" => redis = "ready"
          /\ step[c] = "queued" => redis = "reconnecting"
    /\ redis = "connecting" <=> process = "starting"
    /\ redis = "closed" => process = "exiting"
    /\ process \in {"starting", "exiting"} => Drained

\* The proxy keeps the types of what it changes.
LEMMA ProxyTypes ==
    ASSUME Typed, NEW c \in Connections, Proxy(c)
    PROVE  /\ step' \in [Connections -> {"closed", "idle"} \cup Active]
           /\ breaker' \in [Services -> BreakerStates]
<1> USE GatewayAssumption DEF Typed
<1>1. Target[c] \in Services
  OBVIOUS
<1>2. step' \in [Connections -> {"closed", "idle"} \cup Active]
  BY DEF Proxy, Goto, Active, Waiting
<1>3. breaker' \in [Services -> BreakerStates]
  <2>1. Asked(breaker[Target[c]]) \in BreakerStates
    BY <1>1, BreakerTypes
  <2> QED
    BY <1>1, <2>1 DEF Proxy
<1> QED
  BY <1>2, <1>3

\* No step takes a variable out of its type.
LEMMA TypedStep == ASSUME Typed, [Next]_vars PROVE Typed'
<1> USE GatewayAssumption
<1>1. ASSUME NEW c \in Connections, ArrivePublic(c) \/ Authenticated(c)
      PROVE  Typed'
  BY <1>1, ProxyTypes DEF Typed, ArrivePublic, Authenticated, redisVars
<1>2. ASSUME NEW c \in Connections,
             Arrive(c) \/ Disconnect(c) \/ Unauthorized(c) \/ ClientLeaves(c)
      PROVE  Typed'
  <2>1. LookUp \in Active
    BY DEF LookUp, Active, Waiting
  <2> QED
    BY <1>2, <2>1
    DEF Typed, Arrive, Disconnect, Unauthorized, ClientLeaves, Goto, redisVars
<1>3. ASSUME NEW c \in Connections, Answer(c) PROVE Typed'
  <2>1. Target[c] \in Services /\ breaker[Target[c]] \in BreakerStates
    BY DEF Typed
  <2>2. breaker' \in [Services -> BreakerStates]
    BY <1>3, <2>1, BreakerTypes DEF Typed, Answer
  <2> QED
    BY <1>3, <2>2 DEF Typed, Answer, Goto, redisVars
<1>4. ASSUME NEW s \in Services, Elapse(s) PROVE Typed'
  <2>1. breaker' \in [Services -> BreakerStates]
    BY <1>4, BreakerTypes DEF Typed, Elapse
  <2> QED
    BY <1>4, <2>1 DEF Typed, Elapse, redisVars
<1>5. ASSUME NEW s \in Services, ServiceChanges(s) PROVE Typed'
  BY <1>5 DEF Typed, ServiceChanges, Fault
<1>6. CASE RedisConnects
  BY <1>6 DEF Typed, RedisConnects, Promote, Listen, Active, Waiting
<1>7. CASE RedisFails
  BY <1>7
  DEF Typed, RedisFails, Promote, Listen, Active, Waiting, Exhausted, Counted
<1>8. CASE RedisLost
  BY <1>8 DEF Typed, RedisLost, Fault, Promote, Active, Waiting
<1>9. CASE HealthReady
  BY <1>9 DEF Typed, HealthReady, redisVars
<1>10. CASE Shutdown
  BY <1>10 DEF Typed, Shutdown, redisVars
<1>11. CASE DisconnectRedis
  BY <1>11 DEF Typed, DisconnectRedis
<1>12. CASE Exit
  <2>1. Closed \in BreakerStates
    BY DEF Closed, BreakerStates
  <2> QED
    BY <1>12, <2>1 DEF Typed, Exit
<1>13. CASE UNCHANGED vars
  BY <1>13 DEF Typed, vars, redisVars
<1> QED
  BY <1>1, <1>2, <1>3, <1>4, <1>5, <1>6, <1>7, <1>8, <1>9, <1>10, <1>11,
     <1>12, <1>13 DEF Next

\* No step parts a request from the Redis client it waits for, or lets a
\* connection outlive the client.
LEMMA TiedStep == ASSUME Typed, Tied, [Next]_vars PROVE Tied'
<1> USE DEF Typed, Tied, Drained
<1>1. ASSUME NEW c \in Connections,
             ArrivePublic(c) \/ Arrive(c) \/ Authenticated(c)
      PROVE  Tied'
  <2>1. process \in {"up", "draining"}
    BY <1>1 DEF ArrivePublic, Arrive, Authenticated, Accepts, Looked
  <2>2. CASE ArrivePublic(c) \/ Authenticated(c)
    <3>1. step' = [step EXCEPT ![c] = "idle"] \/ step' = [step EXCEPT ![c] = "sent"]
      BY <2>2 DEF ArrivePublic, Authenticated, Proxy, Goto
    <3> QED
      BY <2>1, <2>2, <3>1 DEF ArrivePublic, Authenticated, redisVars
  <2>3. CASE Arrive(c)
    BY <2>1, <2>3 DEF Arrive, Goto, LookUp, redisVars
  <2> QED
    BY <1>1, <2>2, <2>3
<1>2. ASSUME NEW c \in Connections,
             Disconnect(c) \/ Unauthorized(c) \/ Answer(c) \/ ClientLeaves(c)
      PROVE  Tied'
  BY <1>2
  DEF Disconnect, Unauthorized, Looked, Answer, ClientLeaves, Goto, redisVars
<1>3. CASE \E s \in Services : Elapse(s) \/ ServiceChanges(s)
  BY <1>3 DEF Elapse, ServiceChanges, redisVars
<1>4. CASE RedisConnects
  BY <1>4 DEF RedisConnects, Promote, Listen
<1>5. CASE RedisFails
  BY <1>5 DEF RedisFails, Promote, Listen
<1>6. CASE RedisLost
  BY <1>6 DEF RedisLost, Promote
<1>7. CASE HealthReady \/ Shutdown
  BY <1>7 DEF HealthReady, Shutdown, redisVars
<1>8. CASE DisconnectRedis
  BY <1>8 DEF DisconnectRedis
<1>9. CASE Exit
  BY <1>9 DEF Exit
<1>10. CASE UNCHANGED vars
  BY <1>10 DEF vars, redisVars
<1> QED
  BY <1>1, <1>2, <1>3, <1>4, <1>5, <1>6, <1>7, <1>8, <1>9, <1>10 DEF Next

\* Every variable keeps its type, a request that waits for Redis waits for a
\* client that will settle its command, and the client outlives the requests.
THEOREM TypeCorrect == Spec => []TypeOK
<1>1. TypeOK <=> Typed /\ Tied
  BY DEF TypeOK, Typed, Tied
<1>2. Init => Typed /\ Tied
  <2>1. Closed \in BreakerStates
    BY GatewayAssumption DEF Closed, BreakerStates
  <2> QED
    BY <2>1, GatewayAssumption DEF Init, Typed, Tied, Drained
<1>3. Typed /\ Tied /\ [Next]_vars => (Typed /\ Tied)'
  BY TypedStep, TiedStep
<1> QED
  BY <1>1, <1>2, <1>3, PTL DEF Spec

\* No token goes unchecked while a client that answers could be asked: only
\* the loss of Redis, or giving it up, passes the blacklist by.
THEOREM BlacklistSkippedInOutagesOnly == Spec => OnlyOutagesSkipTheBlacklist
<1>1. TypeOK /\ [Next]_vars =>
        [\A c \in Connections :
           step[c] # "unchecked" /\ step'[c] = "unchecked" =>
               redis' \in {"reconnecting", "gaveUp"}]_vars
  <2> SUFFICES ASSUME TypeOK, [Next]_vars, NEW c \in Connections,
                      step[c] # "unchecked", step'[c] = "unchecked"
               PROVE  redis' \in {"reconnecting", "gaveUp"}
    OBVIOUS
  <2> USE DEF TypeOK, Drained
  <2>1. ASSUME NEW d \in Connections, Arrive(d)
        PROVE  redis' \in {"reconnecting", "gaveUp"}
    <3>1. d = c /\ LookUp = "unchecked"
      BY <2>1 DEF Arrive, Goto
    <3>2. process \notin {"starting", "exiting"}
      BY <2>1 DEF Arrive, Accepts
    <3> QED
      BY <2>1, <3>1, <3>2 DEF Arrive, LookUp, redisVars
  <2>2. ASSUME NEW d \in Connections,
               \/ ArrivePublic(d) \/ Authenticated(d) \/ Disconnect(d)
               \/ Unauthorized(d) \/ Answer(d) \/ ClientLeaves(d)
        PROVE  FALSE
    BY <2>2
    DEF ArrivePublic, Authenticated, Proxy, Disconnect, Unauthorized, Answer,
        ClientLeaves, Goto
  <2>3. CASE RedisConnects
    BY <2>3 DEF RedisConnects, Promote
  <2>4. CASE RedisFails
    BY <2>4 DEF RedisFails, Promote
  <2>5. CASE RedisLost
    BY <2>5 DEF RedisLost
  <2>6. CASE \E s \in Services : Elapse(s) \/ ServiceChanges(s)
    BY <2>6 DEF Elapse, ServiceChanges
  <2>7. CASE \/ HealthReady \/ Shutdown \/ DisconnectRedis \/ Exit
             \/ UNCHANGED vars
    BY <2>7 DEF HealthReady, Shutdown, DisconnectRedis, Exit, vars
  <2> QED
    BY <2>1, <2>2, <2>3, <2>4, <2>5, <2>6, <2>7 DEF Next
<1> QED
  BY <1>1, TypeCorrect, PTL DEF Spec, OnlyOutagesSkipTheBlacklist
=============================================================================
