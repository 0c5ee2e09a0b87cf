# CineBook: a TLA+ verification project

Models, model-checking configurations and machine-checked proofs for the CineBook
ticket-booking backend (`src/services/*`): six TypeScript services around MongoDB,
Redis, Kafka, RabbitMQ and Razorpay.

Contents:

| file | what it is |
| --- | --- |
| `BookingService.tla` | createBooking, cancelBooking and the expiry worker around one show |
| `SeatHolds.tla` | the abstract promise about seats that `BookingService` implements |
| `BookingServiceProofs.tla` | theorems about `BookingService` |
| `CircuitBreaker.tla`, `CircuitBreakerProofs.tla` | the gateway's circuit breaker, and theorems about it |
| `Breakers.tla`, `BreakerProtocol.tla` | a breaker's states as values, with which `Gateway` is built, and the protocol `CircuitBreaker` implements |
| `Gateway.tla`, `GatewayProofs.tla` | the gateway process with a breaker per service, its Redis client, readiness and shutdown, and theorems about it |
| `PaymentService.tla`, `PaymentServiceProofs.tla` | orders, verification, refunds and webhooks, and theorems about them |
| `Sessions.tla`, `SessionsProofs.tla` | logins, refresh tokens and their revocation, and theorems about them |
| `Notifications.tla`, `NotificationsProofs.tla` | the RabbitMQ publisher and the notification service, and theorems about them |
| `ShowSchedule.tla`, `ShowScheduleProofs.tla` | movies, screens and the overlap check of new shows, and theorems about them |
| `KafkaConsumer.tla`, `KafkaConsumerProofs.tla` | a consumer group on one partition, and theorems about it |
| `AtLeastOnce.tla` | the abstract promise about delivery that `Notifications` and `KafkaConsumer` implement |
| `MC*.tla`, `*.cfg` | the instances TLC checks |
| `PROJECT.json` | the index: components, runs, mutants, the map to the code, findings, hazards, theorems |

## 1. The system

### Components, their state and their operations

| component | state | operations | modelled in |
| --- | --- | --- | --- |
| booking service (`booking-service/src/services/booking.ts`) | `Booking` collection; `seats`, `seatVersion`, `availableSeats` of each `Show`; a Redis lock per list of seats | `createBooking`, `cancelBooking`, `getBooking` (read only) | `BookingService` |
| expiry worker (`expiry-worker.ts`) | `isRunning`; the two collections above | `runExpiryWorker` from `setInterval` | `BookingService` |
| Kafka producers (`events/kafka-producer.ts`) | `isConnected` | `publish`, fire and forget | `Publish` of both services |
| Kafka consumer (`booking-service/src/events/kafka-consumer.ts`) | retry counts, offsets | `start`, `processMessage`; never started by `index.ts` | `KafkaConsumer` |
| payment service (`payment-service/src/services/payment.ts`) | `Payment` collection | `createOrder`, `verifyPayment`, `refund`, `handleWebhook` | `PaymentService` |
| API gateway: breakers (`api-gateway/src/config/circuit-breaker.ts`) | one breaker per downstream service | `isOpen`, `recordSuccess`, `recordFailure`, `reset` | `CircuitBreaker` |
| API gateway: process (`index.ts`, `middleware/auth.ts`, `config/redis.ts`, `routes/health.ts`) | the Redis client, connections, breakers | `authenticate`, the proxies, `/health/ready`, `start`, `shutdown` | `Gateway` |
| gateway rate limits (`middleware/rate-limiter.ts`) | counters in memory | request filters | not modelled |
| user service (`user-service/src/services/auth.ts`, `user.ts`) | users, refresh tokens | register, login, refresh, logout, password change, deletion; profile reads and updates | `Sessions`, but for the profile |
| show service (`show-service/src/services/*.ts`) | movies, theatres, shows | CRUD, the overlap check of `create`, `deactivate` | `ShowSchedule`; `Init` and `Deactivate` of `BookingService` |
| notification service (`notification-service/src/index.ts`, `handlers/*.ts`) | an AMQP channel, two queues, a mail transporter | consume, send, acknowledge or requeue, reconnect, stop | `Notifications` |
| RabbitMQ publisher (`booking-service/src/events/rabbit-publisher.ts`) | an AMQP channel | connect, publish, reconnect once | `Notifications` |

### How they interact

- The gateway proxies HTTP; a proxied answer or error calls back into the breaker of the
  service. Its readiness probe reads the breakers, and a load balancer that heeds the
  probe decides which requests come at all. `authenticate` awaits Redis before a request
  reaches a breaker.
- The booking service, its expiry worker and the show service write the same `Show`
  documents. `README.md:63` and the ADRs speak of transactions; the code uses none, so
  each store operation stands alone.
- Clients pay Razorpay directly; Razorpay tells the payment service by webhook, and the
  client tells it by `verifyPayment`. Both write one `Payment` document.
- Booking and payment publish to Kafka. Nothing in `src/services` consumes those events:
  the one consumer class is not started, so no booking ever becomes `confirmed`.
- Booking publishes notifications to a RabbitMQ fanout exchange with two queues; the
  notification service consumes both on one channel and sends each copy.
- The show service checks new shows against the shows of a screen and the movie's duration,
  which other calls change meanwhile.

### What is hard here

- **Interleaving without transactions.** One request is up to six awaited store
  operations; two requests, a cancellation and a worker interleave at each.
- **Locks that do not exclude each other.** The lock key is the exact list of seats
  (`booking.ts:63`): requests for {A1,A2} and for {A2} take different locks.
- **Stale reads.** `now`, the seats and `seatVersion` are read before an await and used
  after it; statuses are checked and then updated without the check.
- **Partial failure.** Seats reserved and the booking not saved; a booking ended and its
  seats not freed; an order placed and the payment not stored.
- **Unreliable, unordered delivery.** Webhooks come at least once in any order; events
  are lost silently; late answers reach a breaker that has moved on.
- **Connections that are replaced.** A notification handler outlives the channel its
  delivery came on, a Kafka member the partition it was given, a look-up the connection
  to Redis it was sent on.
- **Waiting for one another.** Requests wait for Redis; an open breaker waits for a
  request; a load balancer that holds requests back waits for a breaker.
- **Time.** Holds, lock times to live, recovery timeouts race the calls that set them.

`PROJECT.json` "hazards" lists these one by one with their lines; those that no property covers
carry a note.

### What makes each part correct

- Booking: no live hold is taken over; a live booking keeps its seats; no seat stays with a
  booking that is over; one booking per idempotency key; a booking ends once; counters match
  the array; locks come free.
- Breaker: opens at the threshold, stays open for the recovery time, sends one probe, closes.
- Payment: a payment on record, or announced, is one the customer authorised for that order; a
  refund on record is of what was captured; captured payments are announced; two open orders
  for one booking are explained by a race or by a payment that succeeded late.
- Sessions: a refresh token that was used or logged out stays out; a login has one session at a
  time; a password change and a deletion end the sessions that were there.
- Gateway: the blacklist is passed by only in an outage of Redis; every request ends; the
  breaker of a service that is back closes.
- Notifications: what the exchange took is delivered at least once, and sent once unless a
  channel is lost; the queues drain; a message that keeps failing is dead-lettered.
- Show schedule: no two shows overlap on a screen.
- Kafka consumer: every event is delivered at least once, or given up on for a cause; offsets
  never go back.

## 2. The models

An action is what a call does from one `await` to the next: one store operation together
with the synchronous code that follows its answer. JavaScript runs that code without
interruption, so this is the granularity at which the program interleaves. (Where a
handler awaits twice without touching shared state in between, the two are one action.)

### BookingService

| variable | code |
| --- | --- |
| `isActive`, `seatStatus`, `reservedBy`, `reservedUntil`, `seatVersion`, `availableSeats` | fields of one `Show` document |
| `status` | `Booking.status`; a call draws its own `bookingId`, so a booking is named by the call that creates it, and `seatIds`, `key`, `now` of that call are the document's other fields (`ExpiresAt(b)` is its `expiresAt`) |
| `lockOwner`, `lockUntil` | the Redis keys: whose token, until when |
| `pc`, `snapVersion`, `now`, `result` | local state of a createBooking call |
| `cpc`, `target` | local state of a cancelBooking call |
| `wpc`, `batch`, `current` | local state of a worker; `isRunning` is `wpc # "idle"` |
| `events` | events Kafka accepted; a set, since no property is about their number |
| `clock`, `faults` | time, and the faults so far |
| `unfreed` | history: ended bookings whose seats a failed step did not free |

| action | code |
| --- | --- |
| `CheckIdempotency`, `AcquireLock`, `ReadShow`, `ReserveSeats`, `SaveBooking`, `ReleaseLock` | the awaits of `createBooking`, `booking.ts:38-291`, in order |
| `OperationFails`, `Crash` | an exception inside the `try`; the end of the process |
| `FindBooking`, `MarkCancelled`, `FreeCancelled`, `CancelFails` | `cancelBooking`, `booking.ts:293-395` |
| `ScanExpired`, `MarkExpired`, `FreeExpired`, `SkipFailed`, `RestartWorker` | `runExpiryWorker`, `expiry-worker.ts:34-165` |
| `Deactivate` | `ShowService.deactivate` |
| `Tick` | time; Redis drops the keys past their time to live |

Points of reading: `ReserveSeats` filters on `seatVersion` *and* on the seats as of the
call's own `now`, as the query does; `FreeSeats` picks seats by id alone, as the array
filters of both callers do; `MarkCancelled` updates by `bookingId` alone and
`MarkExpired` with `status: "pending"`, as written. Seat ids the show lacks, and ids
named twice, are refused at the same place; the model has the former. Seat statuses
`booked` and `maintenance` and booking statuses `payment_processing`, `confirmed` and
`refunded` are in the types because the guards mention them, but no code writes them.
A show in the model starts as `ShowService.create` makes it. Prices, amounts, ids,
correlation ids and the notification published last are abstracted away.

`SeatsAreAccountedFor` follows a reserved seat past the end of its booking: while the booking is
pending, or a call, cancellation or worker is about to save it or to free its seats, somebody will
settle the seat; otherwise that step was tried and failed (`unfreed`, history, for cancellations
and workers; the call's `result` for calls), and the hold keeps the seat no longer than its time,
when another call may reserve it. It does not say that such a seat becomes `available` again:
nothing in the code sees to that.

`SeatHolds` is what a client of the service may rely on: seats are taken together, and
only when at that very moment each is free or its hold is over; a booking begins once
and ends. It has no lock, version or snapshot. `ImplementsSeatHolds` is that
specification with `holder <- reservedBy, until <- reservedUntil, Bookings <- Requests`.
It deliberately does not promise that freeing a booking's seats frees only that
booking's holds: the code does not keep that (see Findings).

### CircuitBreaker

One breaker object and the requests that report to it. `Arrive` is the whole of `isOpen()`
with what the middleware does with its answer; `Succeed` and `Fail` are `onProxyRes` and
`onError` with `recordSuccess()` and `recordFailure()`. They may come at any time and in
any order, for requests sent when the breaker was in any state, or never: the proxy is
configured without a timeout (`index.ts:106`), and a request whose client has left is reported
to nobody (`Leave`). `Reset` is `reset()`, which no route calls; it is bounded by `MaxResets`.

"Allow exactly one probe" (`circuit-breaker.ts:45`) holds as far as the breaker
knows. `overtaken` is history: the probes in flight whose half-open was ended by the answer of
another request, or by a reset. `OneProbeUnlessOvertaken` says that a request passes a breaker
that is not closed only when every probe still in flight was overtaken.

That a half-open breaker leaves that state is *not* claimed. It ends when an answer is reported;
none is for a probe that hangs or whose client leaves, and then the breaker rejects every
request until a late answer of an earlier one, or a restart. `BreakersRecover` of `Gateway`
names such a probe as its exception.

`BreakerProtocol` is what remains of a breaker without its clock, statistics and probe flag, in
the terms (`Breakers`) that `Gateway` is built on: a state, failures counted up to the threshold,
and whether an open breaker has rested (`due`), with the requests in flight. `ImplementsProtocol`
is that specification with the refinement mapping `View` and `Passed`. Its `Abandon` is a request
that ends without a report: `http-proxy` emits `econnreset` and not `error` when the client has
left, so neither callback of `createProxy` runs.

### Gateway

| variable | code |
| --- | --- |
| `process` | `start` before and after `listen`; after a signal; after `server.close` |
| `redis`, `retries` | the client of `config/redis.ts`: what node-redis makes of it, and the argument of `reconnectStrategy` |
| `step` | per connection, where its request is: waiting for Redis (`queued`, `asking`), past the look-up without an answer (`unchecked`), at the service (`sent`), or `idle` on a connection kept alive |
| `breaker` | `breakers` of `circuit-breaker.ts`, as values of `Breakers` |
| `down`, `balancer` | around the gateway: services out of reach, and a load balancer that `routes` or `holds` by the last answer of `/health/ready`, or `none` |

| action | code |
| --- | --- |
| `RedisConnects`, `RedisFails`, `RedisLost` | `connectRedis`, its `reconnectStrategy` and `end` handler; `redisGet` of the commands they settle |
| `Arrive`, `Unauthorized`, `Authenticated` | `authenticate` up to and after the await of `redisGet`; the second and third answer 401, or go on to the proxy |
| `ArrivePublic` | a GET of the show service, or `/api/auth` |
| `Proxy` (in both), `Answer`, `ClientLeaves` | the handler of `createProxy`, `onProxyRes` or `onError`, and neither of them |
| `HealthReady` | `/health/ready`; its `ping` stays unanswered while the client reconnects |
| `Shutdown`, `DisconnectRedis`, `Exit` | `shutdown`, the callback of `server.close`, `process.exit` or a crash, and the process that takes its place |

node-redis is external and modelled as `redis.ts` uses it: commands given to a client that
reconnects wait in its queue, those sent and not answered are rejected when the connection
is lost, and all are when `reconnectStrategy` gives up. So `authenticate` waits for Redis for
as long as the retries last, although the comments speak of degrading gracefully. A
connection carries one request at a time.

The breakers of the gateway are moved by the operators of `Breakers` that `BreakerProtocol` is
written with; what ties these to `circuit-breaker.ts` is `ImplementsProtocol`, which compares
them with the independent translation of the file in `CircuitBreaker`.

Nothing in the repository writes a `blacklist:` key (`redisSet` has no caller), so what a
look-up finds is left open: the property is that the question is put.

### PaymentService

`Orders` are createOrder calls, and the order and the document each makes; `Verifications`
and `Refunds` are calls. `CreateOrder`, `VerifyPayment` and `RefundPayment` are the handlers,
made of the awaits in the service and of what the controller's `catch` does with an error
(`OrderFails`, `VerifyFails`, `RefundFails`).

Razorpay is external and modelled as `payment.ts` uses it: `authorised`, `captured`, `failed`,
`accepted` and `processed` are what it knows, and `hooks` the webhooks it has yet to see
answered with 200. A customer authorises an attempt or fails to (`Pay`), any number of times
until one is captured. `orders.create` (`payment.ts:66`) does not ask for capture, so it is left
open whether and when an authorised attempt is captured (`Capture`); one per order is at most.
Webhooks are delivered at least once and in any order: `Deliver` is `handleWebhook` with its
answer received, `DeliverUnanswered` the same with the answer lost. What the checkout signs is
that an attempt was *authorised* (`SignatureValid`); a client may also send a wrong claim. So
`verifyPayment` can set a payment to `success` that is never captured, and `MoneyBehindStatus`
says of a recorded or announced payment that it was authorised, and no more. A refund is
accepted for a captured payment only, and then carried out or not.

Amounts, input checks that depend on the input alone, and the answer's wording are left out.
The duplicate-key branch of `createOrder` cannot be taken, for Razorpay order ids are unique, and
is not there.

`createOrder` looks for an active payment of the booking, places an order with Razorpay and
inserts the payment in three steps (`payment.ts:37-94`), with nothing that makes a second
call wait. `racing[o]` is history: the calls for the same booking that were placing an order
when `o` found none. So is `passedOver[o]`: the payments of the booking that `o` found
failed or refunded. `DoubleOrderIsExplained` says that two active orders of a booking come
from these two only: one call raced the other, or one order was passed over and was later
set to success by a webhook or `verifyPayment` that named it. It does not claim that
double orders are rare, only that no third way leads to one.

### Sessions

| variable | code |
| --- | --- |
| `account`, `password` | `User.isActive` and the password `User.password` is a hash of |
| `doc` | the `RefreshToken` document each call stored: a call stores one at most, which names it as `_id` does |
| `handed` | tokens clients were given; an answer may be lost |
| `pc`, `user`, `token`, `found`, `new` | local state of a call |
| `root`, `origin`, `raced`, `forked` | history: the password proven where a session began, and the call; whether a revocation overtook a call of it; documents two refreshes found before either deleted them |

| action | code |
| --- | --- |
| `Register`, `Login`, `LoginSign`, `Store` | `register`, `login` and `issueTokens`, `auth.ts:41-85,158-189` |
| `FindToken`, `UseToken`, `ReadUser`, `Store`; `RevokeAll` where no token was found | `refresh`, `auth.ts:87-133` |
| `Logout` | `logout`, `auth.ts:135-148` |
| `ChangePassword`, `SavePassword`, `RevokeAll` | `changePassword`, `user.ts:46-72` |
| `DeleteAccount`, `Deactivate`, `RevokeAll` | `deleteAccount`, `user.ts:74-98` |
| `PasswordCall`, `DeletionCall` | the handlers of `changePassword` and `deleteAccount`, with their failures |
| `CallFails`, `Expire`, `Tick` | a store operation that throws, the TTL index, time |

A refresh token is its user and the second it was signed in, because that is all that
tells two of them apart: `jwt.sign` adds `iat` in whole seconds to a payload that depends
on the user alone, and the collection's index makes the hash unique. So a second
login within one second fails on the index (`Store`, second disjunct), and a rotation
within the second a token was signed in stores that very token again; `UsedTokenStaysOut`
begins with the next second for that reason. Each user has an email of its own; a
register call with a taken one changes nothing. The gateway's access tokens are not part of
the model: they run out by themselves and nothing revokes them.

`user.ts:68` says a password change will "force re-login on all devices", and
`auth.ts:119` calls rotation "one-time use". A call that looked up its token, or compared
the password, before the `deleteMany` and inserts after it keeps its session, and
two refreshes that find one token before either deletes it both get a new one.
`PasswordEndsSessions` and `DeletionEndsSessions` state what is left: `raced` marks
exactly the sessions of calls that were between look-up and insert when a `deleteMany`
ran, and no other session survives. `OneSessionPerLogin` says of the second that it is the only
way to multiply a session: of all that was refreshed from one login, over however many tokens,
one session is stored at a time, unless two refreshes raced for one token (`forked`).

### Notifications

| variable | code |
| --- | --- |
| `publisher`, `outcome` | `RabbitMQPublisher`: connected, waiting for its one reconnection, or without a channel for good; how far each `publishNotification` got |
| `queue`, `unacked`, `deaths` | RabbitMQ (external): ready and unacknowledged copies, and the `x-death` count of each |
| `process`, `channel`, `consuming`, `opened`, `tag` | `NotificationConsumer`: running or stopping, `this.channel`, the queues it has a consumer on, and the numbers a broker tells channels and deliveries apart by |
| `handling` | the `handleMessage` calls that are sending |
| `mailer` | `transporterInit` of `email.ts` |
| `sent`, `sentHere`, `repeated`, `failed`, `misled` | history |

`start()` is two kinds of step. `Start` is what comes up to the declared queues: a new channel,
which `this.channel` is from then on, and `prefetch(1)` (per consumer: one delivery of each
queue). Nothing outside sees how far these awaits have got. `Consume` registers one consumer:
deliveries of the first queue may be handled before the second has its own. The close handler
comes after both (`index.ts:71`), so a connection lost before (`ConnectionLost`) fails `start`,
which tries again in 5 s, or, as an `error` without a listener, ends the process.

`HandleMessage` is `handleMessage` up to the send, `Handled` and `Failed` what follows it:
`ack` or `nack` on `this.channel` *as it is then*.
If it is null, the call throws and the delivery, whose channel is gone, was requeued
already. If it is a later channel, the broker reads the tag as one of that channel: it
settles another delivery, or closes the channel for an unknown tag (`Named`, `misled`). The
code listens to errors of the connection and not of the channel, so the second case takes down
the connection or the process, and `Unsettled` has both.
`InitTransporter` is `getTransporter`, whose rejected promise is kept. Both handlers handle
both types, so a notification is sent once for each queue; properties are about copies.

### ShowSchedule

A call of `create` is `Begin` (the validations), `FindMovie`, `FindTheatre`,
`CheckOverlap` and `Insert`, its awaits. `window` is the duration with the buffer the call
computed from the movie it found, and `Conflicts` the query: starts within the new window,
or started less than *the new movie's* window before. `CreateMovie`, `UpdateMovie`,
`DeactivateMovie`, `CreateTheatre` and `Deactivate` are the other writers of what it reads; the
schema's validators, which `update` runs as well, keep durations positive. `Create` and `Update`
are the handlers with their inputs. `seen` and `racing` are history: what a check found active,
and which calls stood between their check and insert then.

### KafkaConsumer

One partition of one topic and the members of the group. `Take` to `Catch` are `processMessage`
and `commitOffset`; `Join` is `start` or a rebalance that gives the partition to a member, which
resumes at the committed offset, or at the end of the log if there is none (`fromBeginning:
false`); a member whose session timed out (`Revoke`) believes itself the owner until it learns
otherwise (`Leave`), and its commits are refused (`MayCommit`, an assumption about Kafka). A
commit may also be taken and its answer be on the way, or lost (`CommitUnanswered`): the offset
has moved, while the member is still at the commit, which may yet be answered, fail and be counted
as a failed attempt, or be overtaken by a rebalance. The owner is then one message behind the
offset it committed. `Restart` forgets `retryCounts`. The handler of a message is external: it
returns or throws. kafkajs goes on to the next message when `eachMessage` returns, which after a
failed attempt it does, since `processMessage` catches (`Advance`).

### AtLeastOnce

What the documents promise of both message paths (`README.md:65`,
`docs/efficiency-and-resilience.md:67`): a path takes items in, and owes each until it is done
or excused; nothing else is done or excused; what was let go is not owed again. It has
neither offsets nor queues, channels nor members. The two paths implement it with different
mappings, and the excuses are where the code falls short of the promise:

| | `KafkaConsumer` | `Notifications` |
| --- | --- | --- |
| items | offsets of the partition | copies, a notification in a queue |
| `owed` | events from the offset on at which the group resumes (`Base`) | copies ready or unacknowledged, but those of a type no handler sends |
| `done` | `handled` | `sent` |
| `excused` | events published before a member joined a group that had committed nothing; failed `MAX_RETRIES` times and given up; failed, and overtaken by the commit of a later one | `misled`: acknowledged by a handler that outlived its channel, in place of another copy |

Accepting is a published event, or the exchange's routing of a message to its queues; all other
steps are `Proceed`. `done'` and `excused'` may grow by known items only, so the refinement
also says that no handler works on what the path did not take in. It is about safety: that
what is owed is in the end done, under fairness, are `EveryMessageTried` and `QueuesDrain`.

## 3. The runs

`tlc -config X.cfg MCModule` checks each. Bounds appear only as constants in the guards:
`MaxTime` (the clock), `MaxFaults` (failed operations, crashes, lost events and connections
together), `MaxResets`, `MaxUpdates` (of movies), `MaxChannels` (opened on RabbitMQ) and
`MaxLog` (messages of the partition). `AttemptsAt` says which attempts may be made at an order.
Calls end and the bounded clocks stop, so that those runs do not look for deadlocks; `gateway`,
which has neither, does.

| run | instance | shows |
| --- | --- | --- |
| `booking_overlap` | 3 createBooking calls, 2 seats, 2 keys, 1 worker, clock to 2, hold 1 | one booking per key; no live hold is taken over; a lock goes only by its owner or its time; and the service implements `SeatHolds` |
| `booking_cancel` | 2 calls for 1 seat or an unknown one, 2 cancellations, 1 worker with batches of 2, 1 fault, clock to 3 | a live booking holds its seats, except those an ended booking released late or twice; no seat is forgotten but after a failure; the seat counter agrees until a hold can have lapsed; events are true |
| `booking_liveness` | 2 calls, 1 seat and 1 unknown one, 1 worker, 1 fault | lapsed bookings end; seat locks come free |
| `breaker` | 5 requests, threshold 2, recovery 1, clock to 4, one reset | probes wait for quiet, and go out one at a time unless overtaken; the breaker implements `BreakerProtocol` |
| `payment` | 2 orders for one booking, 2 attempts to pay the one and 1 the other, 1 verification, 1 refund, 1 fault | payments on record and success events are backed by an authorised attempt, refunds by the captured one; two active orders of one booking are explained; captured payments are announced unless the event is lost |
| `sessions` | 1 user, 2 passwords, 4 calls of any kind, tokens that live 2 of 3 seconds, 1 fault | password changes and deletions end the sessions no revocation overtook; a login has one session unless refreshes raced; a used token stays out |
| `gateway` | 2 connections to one service, 1 to another all of whose routes take a token, threshold 1, no retry of a failed reconnection, 2 faults (Redis or a service lost) | tokens go unchecked only in outages of Redis; every request ends; breakers recover |
| `notifications` | 1 email and 1 text message, 2 channels, 2 faults | the service implements `AtLeastOnce`; on one channel nothing is sent twice; only handlers that outlived their channel settle another's delivery; the queues drain |
| `shows` | 2 calls on 1 screen, 2 movies of length 1 or 2, buffer 1, 1 update, clock to 4 | shows overlap in three ways only |
| `consumer` | 2 members, 3 messages, 2 attempts each, 2 faults | the group implements `AtLeastOnce`, also when a commit was taken and not answered; offsets never go back; every message is tried |
| the runs marked `violation` | the smallest instance found | the findings below |

Why these bounds suffice for the interesting cases: three calls over two seats give every pair
of overlapping, equal and disjoint seat lists (hence locks that do and do not exclude each
other), a third call that takes over a lapsed seat, and a lock that a slow call outlives. A
hold of one tick lapses within the clock's range, and `LockTtl` is longer than `Hold`, as in
the code (its hold plus 30 s). Two cancellations and a worker with batches of two are enough
for two of them to end the same booking at once; more workers add nothing that a second ender
does not. For the breaker, five requests are two that trip it, two probes and a late one. For
payments, two orders for one booking can race or follow one another, and two attempts at the
first give a failed one and a later successful one (`AttemptsAt` bounds them per order; with
two at each, or a second refund, the run outgrows five minutes). A refund overtaken by another
of the same payment is thus left to the theorem, which is for any number of refunds. For
sessions, four calls are a login, a refresh of it, a second refresh or login, and a call that
revokes; one user suffices since no operation touches the documents of two. For the gateway,
two connections to one service give a late answer beside a probe, and the second service makes
the difference between some breaker open and all of them; two faults are two services down, or
one and Redis, or Redis twice. For notifications, two channels are what a handler needs to
outlive one, and two copies in each queue what it needs to settle a wrong one. For shows, two
durations give a longer show before a shorter one and a movie that is lengthened; overlaps are
a matter of two. For the consumer, two members are an owner and one that has not noticed, and
three messages one that failed with one before and one after it. What one instance cannot show
for larger ones, section 4 proves. Symmetry is used only in runs without liveness properties.

**Fairness.** Safety runs have none. `FairSpec` of `BookingService` says that a call that
was started runs on (Node resolves its promises; a call that does not is a `Crash`),
that `setInterval` keeps starting the worker (`expiry-worker.ts:167-182`), and that time
passes. Nothing obliges a client to call or a fault to happen. `CircuitBreaker` has none: it
claims nothing that needs it. `FairSpec` of `PaymentService` assumes only that Razorpay repeats
the webhook of a captured payment until it is answered (`DeliverCaptured`); not that a payment is
captured, that the client calls `verifyPayment`, or that a refund is carried out.

`GatewayFairness` is what the code's own timers and callbacks do: an attempt to connect
to Redis ends (weak fairness of `RedisFails`; `RedisConnects` ends the attempt too), an answered or
rejected look-up resumes `authenticate`, rests of breakers elapse, and a process told to
stop is gone after 30 s. `EnvironmentFairness` is the load that recovery presupposes: services
answer or refuse what they are sent, readiness is probed, and clients keep sending
every service requests whenever that is possible again and again, some with good tokens. The
last is strong fairness, since the load balancer and Redis come and go. Without such requests no
breaker recovers, for only requests move one: `BreakersRecover` states what remains even
then. That services answer is an assumption the code does not enforce: a probe that hangs for
ever has the effect of the stranded one `BreakersRecover` excepts, and `EveryRequestEnds` shows
that nothing of the gateway's own keeps a request.

`Fairness` of `Notifications` says that reconnection timers fire, consumers are registered, the
broker delivers, and sends end; `Fairness` of `KafkaConsumer` that kafkajs hands out messages,
that handlers return or throw and commits are answered or fail, and that some member is given
the partition.

**Mutants.** Each property of a passing run has a mutant in `PROJECT.json`: an operator of
the model that stands just before the one it distorts (`KeyNotIndexed` before `KeyTaken`)
and under which TLC refutes the property. No action uses these operators.

### Findings: claims the code does not keep

| run | claim | what happens |
| --- | --- | --- |
| `booking_worker_seats` | the worker "Releases their seats" (`expiry-worker.ts:23`) | it also frees seats that passed to another booking after the hold lapsed |
| `notifications_dlq` | a fourth failed attempt goes to the dead letter exchange (`docs/efficiency-and-resilience.md:211`, `README.md:66`) | `x-death` is not added by a requeue; the count stays 0 and the message is requeued for ever |

Seen while modelling, without a run of their own:

In booking, a duplicate key, which ADR 004 says "is caught and handled gracefully", is
caught by nothing: a 500, and seats reserved for no booking. Such seats stay reserved
until somebody takes them over, though they are "never stuck"
(`docs/efficiency-and-resilience.md:193`), for the worker looks at bookings. `availableSeats` has
`min: 0` (`models/show.ts:67`), which `$inc` does not enforce: a lapsed seat is subtracted
twice. `cancelBooking` updates without the
`pending` filter that "prevents double-processing" (`expiry-worker.ts:32`), so a
cancellation and the worker can both release a booking's seats (`Disturbed` accounts for
it). `booking.cancelled` carries no `showId` although `event-contracts.md:135` makes it the
partition key.

In the gateway, a late failure clears the probe flag and a second probe goes out beside the
first, the exception of `OneProbeUnlessOvertaken`; a late success of an old request closes
an open breaker although the notes let only a probe do so; a probe that hangs, or whose client
leaves, leaves the breaker half-open for good; with a load balancer that heeds `/health/ready`,
breakers that are all open stay open, since nothing but a request takes one out of open. The
last two are the exceptions of `BreakersRecover`. The JWT blacklist, which `README.md:70` has
hold tokens "on logout", is read and never written.

In payments, `verifyPayment` records `success` for what is authorised, and `orders.create` does
not ask for capture: whether a recorded payment is money received depends on the account's
settings. `createOrder` is "idempotent" (`payment.ts:28`), but two calls both find no order
and place one each (`DoubleOrderIsExplained` names this and the one other way); a late failed
webhook, or a replayed captured one, overwrites a later status; `refund.processed` that arrives
before `RecordRefund` finds no document and the payment stays `refund_pending`; a partial
refund ends as `refunded`. For the sessions that outlive a revocation, see above.

In the show service, a conflict is said to exist "if any existing show's window overlaps" the
new one's, but windows of existing shows are computed with the new movie's duration.
`OverlapIsExplained` states what the check achieves. In notifications, a handler that outlived
its channel can acknowledge, on the new one, a message that was never sent; a rejected
`transporterInit` fails every later email; an error of the channel has no listener. The publisher
gives up after one failed reconnection.

## 4. The proofs

Each `*Proofs` module extends its component's module; `tlapm` checks every step. The
assumptions are those the components state: finite seat sets, `None` outside the ids,
positive hold and lock times, a lock longer than the hold, natural bounds. The theorems
hold for every number of calls, seats, workers, requests, attempts and faults.

**BookingServiceProofs.** `TypeCorrect` comes first. The invariant proper, `Inv`, adds:

- `CallInv`: until a call has saved, its booking does not exist; its `now` and version
  are in the past; once it reserves, its seats are seats of the show;
- `CancelInv`, `WorkerInv`, `EndedInv`: who is between marking a booking and freeing its
  seats, the booking has ended, and an expired one has lapsed.

`Frame` says that time and versions only grow, and that the data of a stored booking never
changes; it is proved of each step along with `CallInv`.

- `SnapshotAlwaysFresh`: every step that changes a seat increments `seatVersion`
  (`VersionCoversSeats`), so an unchanged version means unchanged seats.
- `LiveHoldNeverTaken`: seats change hands only in `ReserveSeats`, `FreeCancelled` and
  `FreeExpired` (`SeatStep`). The last two leave nobody holding. The first passed the
  filter with a `now` from the past, and by `CallInv` a hold that is
  over then is over now (`FilterRespectsHolds`).
- `LiveBookingAlwaysHolds`: the strengthening is `ClaimInv`. A booking
  `Claims` its seats from the reservation, before it is saved, until it ends, and then
  until its only cancellation frees them; what it claims it holds, or the seat is
  `Disturbed`. The two extensions are what makes it inductive: a booking being cancelled
  frees seats by id, and unless it still holds them it would take them from a live one.
  What remains, `Disturbed`, is a late release, which the run `booking_worker_seats` shows,
  or a second one by a cancellation beside the worker.
- `SeatsAlwaysAccountedFor` follows from `HolderAccounted`, inductive beside `Inv`: the holder of a
  reserved seat has it in its list, until the end of its hold, and is `Accounted` for. A seat comes
  to be reserved by a call then about to save (`ReserveSeats`), and each step that ends what a
  call, a cancellation or a worker had to do passes it on, frees the seats, or leaves its mark of
  failure (`AccountedStays`).
- `Implementation`: `HolderInv` (a seat with a holder is reserved) and `FilterRespectsHolds`
  make a reservation a `Take` judged when it is made; a release is a `Free` of an ended
  booking; a change of status a `Record` or an `End`; `Tick` is `Advance`.
- `SeatCountAlwaysAccurate`: a seat is never reserved for less than a whole `Hold`
  (`LongHolds`). While `clock < Hold`, a reservation hence takes available seats only
  (`TakesAvailable`), no worker is releasing, and a booking's only cancellation frees
  seats that by `ClaimInv` it still holds (`FreesReserved`): the counter moves by as many
  seats as change. Without the condition it is false: a reservation over a lapsed hold
  counts its seats a second time.
- `AlwaysOneBookingPerKey`: bookings come into being only in `SaveBooking`, whose unique
  index is checked in the same step as the insert, and keys of bookings do not change.
- `StatusAlwaysOrdered`, `EventsAlwaysTrue`, `LockAlwaysReleasedByOwner` follow from
  `Inv` and an analysis of the steps that change the variable in question.

**CircuitBreakerProofs.** `ProbeFlagAgrees` and `ThresholdDecides` are proved inductive
together with the fact that an open breaker's `nextProbeAt` is `Recovery` after the last
failure; `ProbeWaitsForQuiet` then follows step by step. `ProtocolIsImplemented` rests on the same
invariant: it is what rules out the last `return false` of `isOpen()`, which the protocol does
not have, and what tells that a failure of a breaker that is not closed leaves it open
with the threshold reached. `OneProbeAlways` rests on `ProbesInv`: while a probe that nothing has
overtaken is in flight, the breaker is half-open, and so rejects what arrives.

**PaymentServiceProofs.** The invariant adds to the properties what is under way (`UnderWay`): a
verification about to succeed names an authorised attempt, a captured webhook under delivery the
captured one; a refund Razorpay accepted is of the attempt it captured; a refund webhook is about
a refund carried out. Hence a customer's authorisation is behind every recorded payment, whatever
order the rest arrives in. `MoneyBehindStatus` says this of stored statuses (`RecordedIsPaid`) and
of announcements (`AnnouncedIsPaid`), each of which needs it.

`DoubleOrderIsExplained` is not inductive: a call that is still placing its order has no
payment yet. `OrdersInv` says it of calls instead of payments: of two for one booking that are
past their look-up, either one is in the other's `racing`, or one was passed over by the other,
and then is either not active or `success`. The step that matters is `FindOrder`: it goes on
only if no payment of the booking is active, so what else there is of the booking is being
placed or over. That a call stays one or the other needs `HasPayment` (`PaymentsStay`), that a
payment exists from the end of its call's insert on and has one of the statuses; that a
passed-over payment comes back as `success` and as nothing else is `StatusOnlyMoves`, proved of
every handler.

**SessionsProofs.** The invariant extends the two revocation properties from the stored document
to the calls on their way to one (`Lives`): a session that is out of date, its account deleted or
its root not the password of now, is about to be revoked or was overtaken (`Revoked`). Without the
calls it would not be inductive, for `Store` could bring in an outdated session from nowhere.
`Registered` says that only a registered user has sessions, so `Register` outdates none.
`AlwaysOneSessionPerLogin` likewise takes calls on their way to a document along with documents
(`Current`): a login that has not forked has one of these, but for the moment in which a refresh
has found a document and not deleted it (`Linear`). `UsedTokenAlwaysStaysOut` needs no more than
types: a token enters a document only by a call about to store it (`StoredByStore`), and a call
comes to that only by signing in the second that is (`SignedNow`).

**GatewayProofs.** `TypeOK` is inductive because its last part ties the requests to the client
they wait for (`Tied`): the client exists before the server listens and is closed when no
connection is left. `BlacklistSkippedInOutagesOnly` follows: the only steps after which a token
goes unchecked are the loss of Redis, giving it up, and an arrival after that.

**NotificationsProofs.** `TypeInvariant` gives each delivery of a channel a tag of its own, and
`OnlyStaleHandlersDo` that a handler whose channel is still open settles its own delivery
(`Named`). `NotificationsInvariant` says where a copy may be: in its queue, unacknowledged on
the open channel with its handler at work, or let go of after a send; and that what was sent on
the open channel is no longer held. `NothingIsLost` and `NothingIsRepeated` follow for every
number of messages, channels and faults.

`DeliveredAtLeastOnce` is the refinement of `AtLeastOnce`. Its invariant, `PromiseInv`, says that
what was sent or misled had been taken by the exchange, so that `RouteAccepts` finds the copies of
a new message unknown, and that what a handler is sending is held, or was sent or misled meanwhile
(a handler may outlive its delivery), so that a send is of something known. Every other step
`LetsGo`: it holds on to no copy that was gone, and sends or misleads what it lets go; that is
shown of each way to end a delivery (acknowledgement, requeue, loss of the channel, with or
without the process) and gives `Proceed` (`LetsGoProceeds`). `NothingIsDeadLettered` is the other
side of the finding: no copy ever has a death.

**ShowScheduleProofs.** The heart is that of two active shows of a screen one check has
seen the other show, or the calls raced (`ScheduleInvariant`); the rest is arithmetic on starts
and windows: a show that was seen does not conflict, and what does not conflict can
overlap only from a longer window before it, or by a movie that changed.

**KafkaConsumerProofs.** What the owner has gone past without a commit has failed at least
once (`OwnerTried`), and the step a member is at tells what it did with its message
(`StepsAgree`: about to commit, it handled it; giving up, it counted the attempts). With
these `LeftBehindForCause` is inductive: a commit passes what the owner had gone past,
which failed and is now overtaken, and the message it names. `OffsetsNeverRewind` needs
only that the owner resumed at the committed offset, that nobody else commits, and that an
unanswered commit is repeated for the same message: the owner is behind what is committed by
that message at most.
`DeliveredAtLeastOnce`, the refinement of `AtLeastOnce`, combines these: `Base` moves only forward
(`OffsetsNeverRewind`), so nothing is owed again; what it passes is handled or excused
(`LeftBehindForCause`); and by `PromiseInv` only events of the log are ever handled or counted as
failed, so an event just published is unknown (`PublishAccepts`) and every event of the log is
known (`AllEventsKnown`).

**Proved and not in a run.** `SnapshotFresh`, `StatusOrder` and `ProbeFlagAgrees`, which
earlier steps of the proofs above use or establish, hold for every instance and no run repeats
them. Neither do runs repeat `KeptUntilSent` (`NothingIsLost`), `LeftBehindForCause`
(`NothingUntriedIsLeftBehind`) and `ThresholdDecides` (`ThresholdAlwaysDecides`), since the
refinements of `AtLeastOnce` and `BreakerProtocol` that they check fail whenever one of these does.

**Only model-checked.** Liveness (`LapsedBookingEnds`, `LockComesFree`,
`PaidIsAnnounced`, `QueuesDrain`, `EveryMessageTried`, `EveryRequestEnds`,
`BreakersRecover`) is beyond the prover. Every invariant and action property of the
passing runs is proved.

## 5. Not modelled

- User profiles and theatre updates: reads and writes of names and addresses of one document,
  on which nothing else depends. The seat layout of a new show is pure data.
- Rate limits: configurations of `express-rate-limit`, which does the counting.
- Liveness and metrics endpoints, swagger, seed scripts, logging, configuration, error
  formatting, correlation ids: no state a handler changes.
- `redisSet`, `redisDel`, `authorize`, `resetBreaker`: nothing calls them.
- MongoDB, Redis, Kafka, RabbitMQ and Razorpay appear as the code uses them: single-document updates
  are atomic, a unique index is enforced, a `SET NX EX` key expires.

## 6. Plan

Done: `BookingService` with `SeatHolds`, `CircuitBreaker` with `BreakerProtocol`,
`PaymentService`, `Sessions`, `Notifications` and `KafkaConsumer` with `AtLeastOnce`,
`ShowSchedule`, `Gateway`, and their proofs.

Next, in this order:

1. `Checkout`: composition of booking, payment and the event log; what a customer who pays
   while the booking expires gets. As the consumer is not started, the model would show
   today that nothing connects the two.
2. Abstract specifications of payments and of sessions, stated as what a customer may rely on, if
   they say more than the invariants do.
