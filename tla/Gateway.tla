-------------------------------- MODULE Gateway --------------------------------
(***************************************************************************)
(* The API gateway's process: its Redis client, authenticate with the look-*)
(* up in the token blacklist, the proxies with one circuit breaker for     *)
(* each service, the readiness probe, and the start and graceful shutdown. *)
(* Each connection carries one request at a time, always for one service:  *)
(* what a client sends to two services counts as two connections.          *)
(*                                                                         *)
(* The breakers are those of Breakers, which CircuitBreaker implements.    *)
(* The blacklist is external, for no code of the repository writes it: a   *)
(* look-up may find anything.  A client that leaves while its token is     *)
(* looked up is left out.  Rate limits are left out: a refused request     *)
(* never reaches what is modelled here.                                    *)
(*                                                                         *)
(* An operator standing just before the one it resembles, such as          *)
(* ExhaustedNever before Exhausted, is the slip the properties must catch. *)
(***************************************************************************)
EXTENDS Breakers, FiniteSets

CONSTANTS
    Connections,
    Services,
    Target,      \* of each connection, the service its requests are for
    Guarded,     \* services all of whose routes take a token
    MaxRetries,  \* the 10 of reconnectStrategy
    MaxFaults    \* bound: times the connection to Redis, or a service, is lost

ASSUME GatewayAssumption ==
    /\ Threshold \in Nat \ {0}
    /\ Target \in [Connections -> Services]
    /\ Guarded \subseteq Services
    /\ MaxRetries \in Nat
    /\ MaxFaults \in Nat

VARIABLES
    process,  \* "starting", "up", "draining" or "exiting"
    redis,    \* the client: "connecting" at the start, "ready", "reconnecting",
              \* "gaveUp", or "closed" by the gateway
    retries,  \* failed attempts to connect since it was last ready
    step,     \* per connection: "closed", "idle", or what its request waits for
    breaker,  \* per service
    down,     \* services that cannot be reached
    balancer, \* "none", or a load balancer that heeds /health/ready and
              \* "routes" requests to the gateway or "holds" them back
    faults

redisVars == <<redis, retries, faults>>
vars == <<process, redisVars, step, breaker, down, balancer>>

\* "queued" for Redis to come back, "asking" it, "unchecked" when it did not
\* answer, "sent" to the service.
Waiting == {"queued", "asking", "unchecked"}
Active == Waiting \cup {"sent"}

Init ==
    /\ process = "starting"
    /\ redis = "connecting"
    /\ retries = 0
    /\ step = [c \in Connections |-> "closed"]
    /\ breaker = [s \in Services |-> Closed]
    /\ down = {}
    /\ balancer \in {"none", "holds"}
    /\ faults = 0

(***************************************************************************)
(* The Redis client.                                                       *)
(***************************************************************************)

\* The requests in one step go on to another.
Promote(from, to) ==
    step' = [c \in Connections |-> IF step[c] = from THEN to ELSE step[c]]

\* start awaits connectRedis, which settles either way, before it listens.
Listen == process' = IF process = "starting" THEN "up" ELSE process

RedisConnects ==
    /\ redis \in {"connecting", "reconnecting"}
    /\ redis' = "ready"
    /\ retries' = 0
    /\ Promote("queued", "asking")
    /\ Listen
    /\ UNCHANGED <<faults, breaker, down, balancer>>

\* Counted as far as reconnectStrategy tells attempts apart.
Counted == IF retries > MaxRetries THEN retries ELSE retries + 1

ExhaustedNever == FALSE
Exhausted == retries > MaxRetries

\* An attempt fails.  After the last one the queued commands are rejected,
\* and the client is of no use until the process ends.
RedisFails ==
    /\ redis \in {"connecting", "reconnecting"}
    /\ IF Exhausted
       THEN /\ redis' = "gaveUp"
            /\ retries' = 0
            /\ Promote("queued", "unchecked")
            /\ Listen
       ELSE /\ retries' = Counted
            /\ UNCHANGED <<process, redis, step>>
    /\ UNCHANGED <<faults, breaker, down, balancer>>

Fault == faults < MaxFaults /\ faults' = faults + 1

\* What was asked and not answered is rejected; redisGet returns null.
RedisLost ==
    /\ redis = "ready"
    /\ Fault
    /\ redis' = "reconnecting"
    /\ Promote("asking", "unchecked")
    /\ UNCHANGED <<process, retries, breaker, down, balancer>>

(***************************************************************************)
(* Requests.                                                               *)
(***************************************************************************)
Goto(c, to) == step' = [step EXCEPT ![c] = to]

\* A request opens its connection, which takes a server that listens, or comes
\* on one that was kept alive.
Accepts(c) ==
    /\ \/ step[c] = "closed" /\ process = "up"
       \/ step[c] = "idle"
    /\ balancer # "holds"

\* The client closes the connection, or keepAliveTimeout does.
Disconnect(c) ==
    /\ step[c] = "idle"
    /\ Goto(c, "closed")
    /\ UNCHANGED <<process, redisVars, breaker, down, balancer>>

\* The handler createProxy returns.
Proxy(c) ==
    LET b == breaker[Target[c]]
    IN  IF Refuses(b)
        THEN Goto(c, "idle") /\ UNCHANGED breaker
        ELSE /\ Goto(c, "sent")
             /\ breaker' = [breaker EXCEPT ![Target[c]] = Asked(b)]

ArrivePublic(c) ==
    /\ Accepts(c)
    /\ Target[c] \notin Guarded
    /\ Proxy(c)
    /\ UNCHANGED <<process, redisVars, down, balancer>>

\* authenticate, up to the await of redisGet.
LookUp ==
    CASE redis = "ready" -> "asking"
      [] redis = "reconnecting" -> "queued"
      [] OTHER -> "unchecked"

Arrive(c) ==
    /\ Accepts(c)
    /\ Goto(c, LookUp)
    /\ UNCHANGED <<process, redisVars, breaker, down, balancer>>

Looked(c) == step[c] \in {"asking", "unchecked"}

\* The token is on the blacklist, or jwt.verify throws: a 401.
Unauthorized(c) ==
    /\ Looked(c)
    /\ Goto(c, "idle")
    /\ UNCHANGED <<process, redisVars, breaker, down, balancer>>

\* next(): the request comes to the proxy.
Authenticated(c) ==
    /\ Looked(c)
    /\ Proxy(c)
    /\ UNCHANGED <<process, redisVars, down, balancer>>

\* onProxyRes, or onError when the service cannot be reached.
Answer(c) ==
    /\ step[c] = "sent"
    /\ Goto(c, "idle")
    /\ breaker' = [breaker EXCEPT ![Target[c]] =
                      IF Target[c] \in down THEN FailedOnce(@) ELSE Succeeded(@)]
    /\ UNCHANGED <<process, redisVars, down, balancer>>

\* The client leaves; the proxy aborts its request and calls neither.
ClientLeaves(c) ==
    /\ step[c] = "sent"
    /\ Goto(c, "closed")
    /\ UNCHANGED <<process, redisVars, breaker, down, balancer>>

\* nextProbeAt is reached.
Elapse(s) ==
    /\ breaker' = [breaker EXCEPT ![s] = Rested(@)]
    /\ UNCHANGED <<process, redisVars, step, down, balancer>>

ServiceChanges(s) ==
    /\ \/ s \in down /\ down' = down \ {s} /\ UNCHANGED faults
       \/ s \notin down /\ down' = down \cup {s} /\ Fault
    /\ UNCHANGED <<process, redis, retries, step, breaker, balancer>>

(***************************************************************************)
(* /health/ready.                                                          *)
(***************************************************************************)
AnyOpen == \E s \in Services : breaker[s].state = "open"
AllOpen == \A s \in Services : breaker[s].state = "open"

\* The ping is queued, as any command, while the client reconnects, so that
\* no answer comes.
Ready == process = "up" /\ redis # "reconnecting" /\ ~AllOpen

HealthReady ==
    /\ balancer # "none"
    /\ balancer' = IF Ready THEN "routes" ELSE "holds"
    /\ UNCHANGED <<process, redisVars, step, breaker, down>>

(***************************************************************************)
(* Shutdown.                                                               *)
(***************************************************************************)

\* server.close: no connection is accepted any more.  Idle ones are closed
\* now, or stay until keepAliveTimeout, by the version of Node.
Shutdown ==
    /\ process = "up"
    /\ process' = "draining"
    /\ UNCHANGED <<redisVars, step, breaker, down, balancer>>

DrainedOfRequests == \A c \in Connections : step[c] # "sent"
Drained == \A c \in Connections : step[c] = "closed"

\* The callback of server.close.
DisconnectRedis ==
    /\ process = "draining"
    /\ Drained
    /\ process' = "exiting"
    /\ redis' = IF redis = "gaveUp" THEN redis ELSE "closed"
    /\ retries' = 0
    /\ UNCHANGED <<faults, step, breaker, down, balancer>>

\* process.exit, at the end of the shutdown or 30 s after its beginning, or a
\* crash.  Another process starts in its place.
Exit ==
    /\ process' = "starting"
    /\ redis' = "connecting"
    /\ retries' = 0
    /\ step' = [c \in Connections |-> "closed"]
    /\ breaker' = [s \in Services |-> Closed]
    /\ UNCHANGED <<faults, down, balancer>>

Next ==
    \/ RedisConnects
    \/ RedisFails
    \/ RedisLost
    \/ \E c \in Connections :
          \/ ArrivePublic(c) \/ Arrive(c) \/ Disconnect(c)
          \/ Unauthorized(c) \/ Authenticated(c)
          \/ Answer(c) \/ ClientLeaves(c)
    \/ \E s \in Services : Elapse(s) \/ ServiceChanges(s)
    \/ HealthReady
    \/ Shutdown
    \/ DisconnectRedis
    \/ Exit

Spec == Init /\ [][Next]_vars

Of(s) == {c \in Connections : Target[c] = s}

\* The gateway: an attempt to connect to Redis fails unless it succeeds, Redis
\* answers unless the connection is lost, timers fire, and a process told to
\* stop exits.
GatewayFairness ==
    /\ WF_vars(RedisFails)
    /\ \A c \in Connections : WF_vars(Unauthorized(c) \/ Authenticated(c))
    /\ \A s \in Services : WF_vars(Elapse(s))
    /\ WF_vars(process \in {"draining", "exiting"} /\ Exit)

\* Around it: services answer or refuse, readiness is probed, and clients keep
\* sending every service requests, some of them with good tokens.
EnvironmentFairness ==
    /\ \A c \in Connections : WF_vars(Answer(c))
    /\ \A s \in Services :
          /\ SF_vars(\E c \in Of(s) : ArrivePublic(c) \/ Arrive(c))
          /\ SF_vars(\E c \in Of(s) : Authenticated(c))
    /\ WF_vars(HealthReady)

FairSpec == Spec /\ GatewayFairness /\ EnvironmentFairness

(***************************************************************************)
(* Properties.                                                             *)
(***************************************************************************)

\* Every variable has its type; a request waits for Redis only as the client's
\* state has it wait, and the gateway closes the client after the last one.
TypeOK ==
    /\ process \in {"starting", "up", "draining", "exiting"}
    /\ redis \in {"connecting", "ready", "reconnecting", "gaveUp", "closed"}
    /\ retries \in 0..(MaxRetries + 1)
    /\ step \in [Connections -> {"closed", "idle"} \cup Active]
    /\ breaker \in [Services -> BreakerStates]
    /\ down \subseteq Services
    /\ balancer \in {"none", "routes", "holds"}
    /\ faults \in Nat
    /\ \A c \in Connections :
          /\ step[c] = "asking" => redis = "ready"
          /\ step[c] = "queued" => redis = "reconnecting"
    /\ redis = "connecting" <=> process = "starting"
    /\ redis = "closed" => process = "exiting"
    /\ process \in {"starting", "exiting"} => Drained

\* A token goes unchecked only in an outage of Redis: neither the start nor the
\* shutdown of the gateway opens a gap in which the blacklist is passed by.
OnlyOutagesSkipTheBlacklist ==
    [][\A c \in Connections :
          step[c] # "unchecked" /\ step'[c] = "unchecked" =>
              redis' \in {"reconnecting", "gaveUp"}]_vars

\* Every request ends, with Redis gone or coming and going: the commands queued
\* for it are rejected in the end.
EveryRequestEnds ==
    \A c \in Connections : []<>(step[c] \notin Active)

\* Half-open for a probe whose client has left: nothing will be reported.
Stranded(s) ==
    /\ breaker[s].state = "half-open"
    /\ \A c \in Of(s) : step[c] # "sent"

\* docs/efficiency-and-resilience.md, "Recovery is automatic": the breaker of a
\* service that stays reachable closes for good.  It does, but for two cases:
\* its probe was abandoned, or the load balancer keeps away the requests that
\* alone could end the rest of the breakers, which are all open.
BreakersRecover ==
    \A s \in Services :
        <>[](s \notin down) =>
            \/ <>[](breaker[s].state = "closed")
            \/ <>[]Stranded(s)
            \/ balancer # "none" /\ <>[](\A t \in Services : breaker[t].state = "open")
=============================================================================
