--------------------------- MODULE BookingService ---------------------------
(***************************************************************************)
(* The booking service around one show: createBooking, cancelBooking and   *)
(* the expiry worker, working on three stores no transaction spans: the    *)
(* Show document and the Booking collection in MongoDB, and the seat lock  *)
(* in Redis.  An action is what a call does between two awaits: one store  *)
(* operation and the synchronous code that follows its answer.             *)
(*                                                                         *)
(* A createBooking call is a member of Requests and, since each call draws *)
(* its own bookingId, stands for the booking it may create too.  A booking *)
(* keeps its call's seatIds, idempotencyKey and expiresAt, so only its     *)
(* status is a variable of the collection.                                 *)
(*                                                                         *)
(* A one-line operator standing just before the one it resembles, such as  *)
(* KeyNotIndexed before KeyTaken, is the slip the properties must catch.   *)
(***************************************************************************)
EXTENDS Integers, FiniteSets

CONSTANTS
    Requests,      \* createBooking calls, and the bookings they may create
    Cancels,       \* cancelBooking calls
    Workers,       \* instances of the expiry worker (one per service process)
    Keys,          \* idempotency keys chosen by clients
    Seats,         \* seatIds of the show
    UnknownSeats,  \* seatIds a client may name that the show does not have
    None,          \* null
    Hold,          \* SEAT_HOLD_MINUTES, in clock ticks
    LockTtl,       \* SEAT_HOLD_MINUTES * 60 + 30 s, in clock ticks
    ShowTime,      \* the tick the show starts at
    MaxSeats,      \* MAX_SEATS_PER_BOOKING
    BatchSize,     \* BATCH_SIZE of the worker
    MaxTime,       \* bound: the clock stops here
    MaxFaults      \* bound: failed store operations, crashes and lost events

ASSUME SetsAssumption ==
    /\ IsFiniteSet(Seats)
    /\ IsFiniteSet(UnknownSeats)
    /\ Seats \cap UnknownSeats = {}
    /\ None \notin Requests

ASSUME TimesAssumption ==
    /\ Hold \in Nat \ {0}
    /\ LockTtl \in Nat \ {0}
    /\ LockTtl > Hold
    /\ ShowTime \in Nat
    /\ MaxSeats \in Nat
    /\ BatchSize \in Nat \ {0}
    /\ MaxTime \in Nat
    /\ MaxFaults \in Nat

VARIABLES
    clock,           \* wall clock of the services and of Redis
    isActive,        \* Show.isActive
    seatStatus,      \* Show.seats[].status
    reservedBy,      \* Show.seats[].reservedBy
    reservedUntil,   \* Show.seats[].reservedUntil (0 for null)
    seatVersion,     \* Show.seatVersion
    availableSeats,  \* Show.availableSeats
    status,          \* Booking.status, "none" while there is no document
    lockOwner,       \* Redis: the call whose token the lock key holds
    lockUntil,       \* Redis: when the lock key expires (0 without a key)
    pc,              \* the await each createBooking call is at
    seatIds,         \* input.seatIds
    key,             \* input.idempotencyKey
    snapVersion,     \* show.seatVersion as the call read it
    now,             \* the call's `now`
    result,          \* what the call answers
    cpc,             \* the await each cancelBooking call is at
    target,          \* the bookingId it cancels
    wpc,             \* the await each worker is at (isRunning unless "idle")
    batch,           \* bookings the worker found and has not processed
    current,         \* the booking it is processing
    events,          \* events the broker accepted
    faults,          \* faults so far
    unfreed          \* history: bookings whose release of seats failed

showVars == <<isActive, seatStatus, reservedBy, reservedUntil, seatVersion,
              availableSeats>>
lockVars == <<lockOwner, lockUntil>>
callVars == <<pc, seatIds, key, snapVersion, now, result>>
cancelVars == <<cpc, target>>
workerVars == <<wpc, batch, current>>
faultVars == <<faults, unfreed>>
vars == <<clock, showVars, status, lockVars, callVars, cancelVars,
          workerVars, events, faultVars>>

SeatIds == Seats \cup UnknownSeats
LockKeys == (SUBSET SeatIds) \ {{}}   \* showId is fixed, the ids are sorted
SeatStatuses == {"available", "reserved", "booked", "maintenance"}
BookingStatuses == {"none", "pending", "payment_processing", "confirmed",
                    "cancelled", "expired", "refunded"}
Cancellable == {"pending", "payment_processing"}
CallSteps == {"idle", "lock", "validate", "reserve", "save", "release", "done"}
Results == {"none", "created", "replayed", "rejected", "duplicate", "error",
            "crashed"}
EventTypes == {"created", "cancelled", "expired"}

ExpiresAtBeforeNow(b) == now[b] - Hold
ExpiresAt(b) == now[b] + Hold

(***************************************************************************)
(* Initial state: the show as show-service creates it, no booking yet.     *)
(***************************************************************************)
Init ==
    /\ clock = 0
    /\ isActive = TRUE
    /\ seatStatus = [s \in Seats |-> "available"]
    /\ reservedBy = [s \in Seats |-> None]
    /\ reservedUntil = [s \in Seats |-> 0]
    /\ seatVersion = 0
    /\ availableSeats = Cardinality(Seats)
    /\ status = [b \in Requests |-> "none"]
    /\ lockOwner = [k \in LockKeys |-> None]
    /\ lockUntil = [k \in LockKeys |-> 0]
    /\ pc = [r \in Requests |-> "idle"]
    /\ seatIds = [r \in Requests |-> {}]
    /\ key = [r \in Requests |-> None]
    /\ snapVersion = [r \in Requests |-> 0]
    /\ now = [r \in Requests |-> 0]
    /\ result = [r \in Requests |-> "none"]
    /\ cpc = [c \in Cancels |-> "idle"]
    /\ target = [c \in Cancels |-> None]
    /\ wpc = [w \in Workers |-> "idle"]
    /\ batch = [w \in Workers |-> {}]
    /\ current = [w \in Workers |-> None]
    /\ events = {}
    /\ faults = 0
    /\ unfreed = {}

(***************************************************************************)
(* What the handlers share.                                                *)
(***************************************************************************)

\* The event reaches the broker, or is lost: the producer is disconnected or
\* the process ends before the asynchronous send does.
Publish(type, b) ==
    \/ /\ events' = events \cup {<<type, b>>}
       /\ UNCHANGED faultVars
    \/ /\ faults < MaxFaults
       /\ faults' = faults + 1
       /\ UNCHANGED <<events, unfreed>>

\* $inc: { seatVersion: 1 }
BumpVersion == seatVersion' = seatVersion + 1

\* A seat nobody may reserve at time t.
UnavailableIfBooked(s, t) == seatStatus[s] \in {"booked", "maintenance"}
Unavailable(s, t) ==
    \/ seatStatus[s] \in {"booked", "maintenance"}
    \/ seatStatus[s] = "reserved" /\ reservedUntil[s] > t

\* Show.updateOne of cancelBooking and of the worker: the array filter picks
\* the seats by seatId alone.
FreeSeatsUncounted(S) ==
    /\ seatStatus' = [s \in Seats |-> IF s \in S THEN "available"
                                               ELSE seatStatus[s]]
    /\ reservedBy' = [s \in Seats |-> IF s \in S THEN None ELSE reservedBy[s]]
    /\ BumpVersion
    /\ UNCHANGED <<isActive, reservedUntil, availableSeats>>

FreeSeats(S) ==
    /\ seatStatus' = [s \in Seats |-> IF s \in S THEN "available"
                                               ELSE seatStatus[s]]
    /\ reservedBy' = [s \in Seats |-> IF s \in S THEN None ELSE reservedBy[s]]
    /\ reservedUntil' = [s \in Seats |-> IF s \in S THEN 0
                                                  ELSE reservedUntil[s]]
    /\ availableSeats' = availableSeats + Cardinality(S)
    /\ BumpVersion
    /\ UNCHANGED isActive

Goto(r, step, answer) ==
    /\ pc' = [pc EXCEPT ![r] = step]
    /\ result' = [result EXCEPT ![r] = answer]

Fault == faults < MaxFaults /\ faults' = faults + 1

(***************************************************************************)
(* createBooking.                                                          *)
(***************************************************************************)

\* Steps 0 and 1: input validation, then the idempotency look-up.
CheckIdempotency(r, ids, k) ==
    /\ pc[r] = "idle"
    /\ seatIds' = [seatIds EXCEPT ![r] = ids]
    /\ key' = [key EXCEPT ![r] = k]
    /\ \/ Cardinality(ids) > MaxSeats /\ Goto(r, "done", "rejected")
       \/ /\ Cardinality(ids) <= MaxSeats
          /\ \E b \in Requests : status[b] # "none" /\ key[b] = k
          /\ Goto(r, "done", "replayed")
       \/ /\ Cardinality(ids) <= MaxSeats
          /\ \A b \in Requests : status[b] = "none" \/ key[b] # k
          /\ Goto(r, "lock", "none")
    /\ UNCHANGED <<clock, showVars, status, lockVars, snapVersion, now,
                   cancelVars, workerVars, events, faultVars>>

\* Step 2: SET key token NX EX ttl.
LockDeadlineNever == MaxTime + 1
LockDeadline == clock + LockTtl

AcquireLock(r) ==
    /\ pc[r] = "lock"
    /\ \/ /\ lockOwner[seatIds[r]] = None
          /\ lockOwner' = [lockOwner EXCEPT ![seatIds[r]] = r]
          /\ lockUntil' = [lockUntil EXCEPT ![seatIds[r]] = LockDeadline]
          /\ Goto(r, "validate", "none")
       \/ /\ lockOwner[seatIds[r]] # None
          /\ Goto(r, "done", "rejected")
          /\ UNCHANGED lockVars
    /\ UNCHANGED <<clock, showVars, status, seatIds, key, snapVersion, now,
                   cancelVars, workerVars, events, faultVars>>

\* Steps 3 and 4: read the show, take `now`, and refuse what cannot be booked.
Bookable(r) ==
    /\ isActive
    /\ ShowTime > clock
    /\ seatIds[r] \subseteq Seats
    /\ \A s \in seatIds[r] : ~Unavailable(s, clock)

ReadShow(r) ==
    /\ pc[r] = "validate"
    /\ \/ /\ Bookable(r)
          /\ snapVersion' = [snapVersion EXCEPT ![r] = seatVersion]
          /\ now' = [now EXCEPT ![r] = clock]
          /\ Goto(r, "reserve", "none")
       \/ /\ ~Bookable(r)
          /\ Goto(r, "release", "rejected")
          /\ UNCHANGED <<snapVersion, now>>
    /\ UNCHANGED <<clock, showVars, status, lockVars, seatIds, key,
                   cancelVars, workerVars, events, faultVars>>

\* Step 5, first half: findOneAndUpdate guarded by the version the call read
\* and by the seats' state as of the call's own `now`.
ReserveUnfiltered(r) == TRUE
ReserveFilter(r) ==
    /\ seatVersion = snapVersion[r]
    /\ \A s \in seatIds[r] : ~Unavailable(s, now[r])

ReserveSeats(r) ==
    /\ pc[r] = "reserve"
    /\ \/ /\ ReserveFilter(r)
          /\ seatStatus' = [s \in Seats |-> IF s \in seatIds[r] THEN "reserved"
                                                     ELSE seatStatus[s]]
          /\ reservedBy' = [s \in Seats |-> IF s \in seatIds[r] THEN r
                                                     ELSE reservedBy[s]]
          /\ reservedUntil' = [s \in Seats |-> IF s \in seatIds[r]
                                                 THEN ExpiresAt(r)
                                                 ELSE reservedUntil[s]]
          /\ availableSeats' = availableSeats - Cardinality(seatIds[r])
          /\ BumpVersion
          /\ Goto(r, "save", "none")
          /\ UNCHANGED isActive
       \/ /\ ~ReserveFilter(r)
          /\ Goto(r, "release", "rejected")
          /\ UNCHANGED showVars
    /\ UNCHANGED <<clock, status, lockVars, seatIds, key, snapVersion, now,
                   cancelVars, workerVars, events, faultVars>>

\* Step 5, second half, and step 6: save the booking under the unique index
\* on idempotencyKey, then publish.  A duplicate key is an unhandled 500.
KeyNotIndexed(r) == FALSE
KeyTaken(r) == \E b \in Requests : status[b] # "none" /\ key[b] = key[r]

SaveBooking(r) ==
    /\ pc[r] = "save"
    /\ \/ /\ ~KeyTaken(r)
          /\ status' = [status EXCEPT ![r] = "pending"]
          /\ Goto(r, "release", "created")
          /\ Publish("created", r)
       \/ /\ KeyTaken(r)
          /\ Goto(r, "release", "duplicate")
          /\ UNCHANGED <<status, events, faultVars>>
    /\ UNCHANGED <<clock, showVars, lockVars, seatIds, key, snapVersion, now,
                   cancelVars, workerVars>>

\* finally: the Lua script deletes the lock only if the token is the call's.
OwnsAnyLock(r) == TRUE
OwnsLock(r) == lockOwner[seatIds[r]] = r

ReleaseLock(r) ==
    /\ pc[r] = "release"
    /\ IF OwnsLock(r)
         THEN /\ lockOwner' = [lockOwner EXCEPT ![seatIds[r]] = None]
              /\ lockUntil' = [lockUntil EXCEPT ![seatIds[r]] = 0]
         ELSE UNCHANGED lockVars
    /\ pc' = [pc EXCEPT ![r] = "done"]
    /\ UNCHANGED <<clock, showVars, status, seatIds, key, snapVersion, now,
                   result, cancelVars, workerVars, events, faultVars>>

\* A store operation inside the try throws: finally releases the lock.
OperationFails(r) ==
    /\ pc[r] \in {"validate", "reserve", "save"}
    /\ Fault
    /\ Goto(r, "release", "error")
    /\ UNCHANGED <<clock, showVars, status, lockVars, seatIds, key,
                   snapVersion, now, cancelVars, workerVars, events, unfreed>>

\* The process ends, or Redis fails, where nothing releases the lock.
Crash(r) ==
    /\ pc[r] \in {"lock", "validate", "reserve", "save", "release"}
    /\ Fault
    /\ Goto(r, "done", "crashed")
    /\ UNCHANGED <<clock, showVars, status, lockVars, seatIds, key,
                   snapVersion, now, cancelVars, workerVars, events, unfreed>>

(***************************************************************************)
(* cancelBooking.                                                          *)
(***************************************************************************)

\* Find the booking; the caller must own it and its status allow it.
FindBooking(c, b, mine) ==
    /\ cpc[c] = "idle"
    /\ \/ /\ mine
          /\ status[b] \in Cancellable
          /\ cpc' = [cpc EXCEPT ![c] = "mark"]
          /\ target' = [target EXCEPT ![c] = b]
       \/ /\ ~mine \/ status[b] \notin Cancellable
          /\ cpc' = [cpc EXCEPT ![c] = "done"]
          /\ UNCHANGED target
    /\ UNCHANGED <<clock, showVars, status, lockVars, callVars, workerVars,
                   events, faultVars>>

MarkCancelledOnly(c) ==
    /\ cpc[c] = "mark"
    /\ status' = [status EXCEPT ![target[c]] = "cancelled"]
    /\ cpc' = [cpc EXCEPT ![c] = "done"]
    /\ UNCHANGED <<clock, showVars, lockVars, callVars, target, workerVars,
                   events, faultVars>>

\* findOneAndUpdate({ bookingId }, cancelled): whatever the status is by now.
MarkCancelled(c) ==
    /\ cpc[c] = "mark"
    /\ status' = [status EXCEPT ![target[c]] = "cancelled"]
    /\ cpc' = [cpc EXCEPT ![c] = "free"]
    /\ UNCHANGED <<clock, showVars, lockVars, callVars, target, workerVars,
                   events, faultVars>>

FreeCancelled(c) ==
    /\ cpc[c] = "free"
    /\ FreeSeats(seatIds[target[c]])
    /\ Publish("cancelled", target[c])
    /\ cpc' = [cpc EXCEPT ![c] = "done"]
    /\ UNCHANGED <<clock, status, lockVars, callVars, target, workerVars>>

\* A store operation throws or the process ends: nothing is undone.
CancelFails(c) ==
    /\ cpc[c] \in {"mark", "free"}
    /\ Fault
    /\ cpc' = [cpc EXCEPT ![c] = "done"]
    /\ unfreed' = unfreed \cup {b \in {target[c]} : cpc[c] = "free"}
    /\ UNCHANGED <<clock, showVars, status, lockVars, callVars, target,
                   workerVars, events>>

(***************************************************************************)
(* runExpiryWorker.                                                        *)
(***************************************************************************)
Lapsed == {b \in Requests : status[b] = "pending" /\ ExpiresAt(b) < clock}

\* The loop goes on with the rest of the batch, or the run ends.
NextInBatchStillRunning(w, rest) ==
    /\ batch' = [batch EXCEPT ![w] = rest]
    /\ wpc' = [wpc EXCEPT ![w] = "mark"]
    /\ current' = [current EXCEPT ![w] = None]

NextInBatch(w, rest) ==
    /\ batch' = [batch EXCEPT ![w] = rest]
    /\ wpc' = [wpc EXCEPT ![w] = IF rest = {} THEN "idle" ELSE "mark"]
    /\ current' = [current EXCEPT ![w] = None]

\* find().limit(BATCH_SIZE); isRunning keeps a tick out of a run under way.
ScanExpired(w) ==
    /\ wpc[w] = "idle"
    /\ \E B \in SUBSET Lapsed :
          /\ B # {}
          /\ B = Lapsed \/ Cardinality(B) = BatchSize
          /\ Cardinality(B) <= BatchSize
          /\ NextInBatch(w, B)
    /\ UNCHANGED <<clock, showVars, status, lockVars, callVars, cancelVars,
                   events, faultVars>>

\* findOneAndUpdate({ bookingId, status: pending }, expired).
PendingOrNot(b) == TRUE
StillPending(b) == status[b] = "pending"

MarkExpired(w, b) ==
    /\ wpc[w] = "mark"
    /\ b \in batch[w]
    /\ \/ /\ StillPending(b)
          /\ status' = [status EXCEPT ![b] = "expired"]
          /\ batch' = [batch EXCEPT ![w] = @ \ {b}]
          /\ wpc' = [wpc EXCEPT ![w] = "free"]
          /\ current' = [current EXCEPT ![w] = b]
       \/ /\ ~StillPending(b)
          /\ NextInBatch(w, batch[w] \ {b})
          /\ UNCHANGED status
    /\ UNCHANGED <<clock, showVars, lockVars, callVars, cancelVars, events,
                   faultVars>>

FreeExpired(w) ==
    /\ wpc[w] = "free"
    /\ FreeSeats(seatIds[current[w]])
    /\ Publish("expired", current[w])
    /\ NextInBatch(w, batch[w])
    /\ UNCHANGED <<clock, status, lockVars, callVars, cancelVars>>

\* The booking the worker has marked and whose seats it has yet to free.
Unfinished(w) == {b \in {current[w]} : wpc[w] = "free"}

\* The update of one booking throws: counted, logged, on to the next.
SkipFailed(w) ==
    /\ Fault
    /\ unfreed' = unfreed \cup Unfinished(w)
    /\ \/ wpc[w] = "free" /\ NextInBatch(w, batch[w])
       \/ /\ wpc[w] = "mark"
          /\ \E b \in batch[w] : NextInBatch(w, batch[w] \ {b})
    /\ UNCHANGED <<clock, showVars, status, lockVars, callVars, cancelVars,
                   events>>

\* The process ends; the one started in its place scans again.
RestartWorker(w) ==
    /\ wpc[w] # "idle"
    /\ Fault
    /\ unfreed' = unfreed \cup Unfinished(w)
    /\ NextInBatch(w, {})
    /\ UNCHANGED <<clock, showVars, status, lockVars, callVars, cancelVars,
                   events>>

(***************************************************************************)
(* The environment: show-service retires the show, time passes and Redis   *)
(* drops the lock keys whose time to live is over.                         *)
(***************************************************************************)
Deactivate ==
    /\ isActive
    /\ isActive' = FALSE
    /\ UNCHANGED <<clock, seatStatus, reservedBy, reservedUntil, seatVersion,
                   availableSeats, status, lockVars, callVars, cancelVars,
                   workerVars, events, faultVars>>

Tick ==
    /\ clock < MaxTime
    /\ clock' = clock + 1
    /\ lockOwner' = [k \in LockKeys |-> IF lockUntil[k] <= clock'
                                          THEN None ELSE lockOwner[k]]
    /\ lockUntil' = [k \in LockKeys |-> IF lockUntil[k] <= clock'
                                          THEN 0 ELSE lockUntil[k]]
    /\ UNCHANGED <<showVars, status, callVars, cancelVars, workerVars,
                   events, faultVars>>

(***************************************************************************)
(* Specification.                                                          *)
(***************************************************************************)
CreateStep(r) ==
    \/ AcquireLock(r)
    \/ ReadShow(r)
    \/ ReserveSeats(r)
    \/ SaveBooking(r)
    \/ ReleaseLock(r)

CancelStep(c) == MarkCancelled(c) \/ FreeCancelled(c)

WorkerStep(w) ==
    \/ ScanExpired(w)
    \/ \E b \in Requests : MarkExpired(w, b)
    \/ FreeExpired(w)

Next ==
    \/ \E r \in Requests, ids \in LockKeys, k \in Keys :
          CheckIdempotency(r, ids, k)
    \/ \E r \in Requests :
          CreateStep(r) \/ OperationFails(r) \/ Crash(r)
    \/ \E c \in Cancels, b \in Requests, mine \in BOOLEAN :
          FindBooking(c, b, mine)
    \/ \E c \in Cancels : CancelStep(c) \/ CancelFails(c)
    \/ \E w \in Workers :
          WorkerStep(w) \/ SkipFailed(w) \/ RestartWorker(w)
    \/ Deactivate
    \/ Tick

Spec == Init /\ [][Next]_vars

\* A call that was started runs on, setInterval keeps starting the worker,
\* and time passes.  Nothing obliges clients to call or a fault to happen.
Fairness ==
    /\ WF_vars(Tick)
    /\ \A r \in Requests : WF_vars(CreateStep(r))
    /\ \A c \in Cancels : WF_vars(CancelStep(c))
    /\ \A w \in Workers : WF_vars(WorkerStep(w))

FairSpec == Spec /\ Fairness

(***************************************************************************)
(* Properties.                                                             *)
(***************************************************************************)

\* Every variable has its type, and what a cancellation or a worker is in the
\* middle of is a booking.
ShowTypeOK ==
    /\ isActive \in BOOLEAN
    /\ seatStatus \in [Seats -> SeatStatuses]
    /\ reservedBy \in [Seats -> Requests \cup {None}]
    /\ reservedUntil \in [Seats -> Nat]
    /\ seatVersion \in Nat
    /\ availableSeats \in Int

StoreTypeOK ==
    /\ clock \in Nat
    /\ status \in [Requests -> BookingStatuses]
    /\ lockOwner \in [LockKeys -> Requests \cup {None}]
    /\ lockUntil \in [LockKeys -> Nat]
    /\ events \subseteq EventTypes \X Requests
    /\ faults \in Nat
    /\ unfreed \subseteq Requests

CallTypeOK ==
    /\ pc \in [Requests -> CallSteps]
    /\ seatIds \in [Requests -> SUBSET SeatIds]
    /\ key \in [Requests -> Keys \cup {None}]
    /\ snapVersion \in [Requests -> Nat]
    /\ now \in [Requests -> Nat]
    /\ result \in [Requests -> Results]

CancelTypeOK ==
    /\ cpc \in [Cancels -> {"idle", "mark", "free", "done"}]
    /\ target \in [Cancels -> Requests \cup {None}]
    /\ \A c \in Cancels : cpc[c] \in {"mark", "free"} => target[c] \in Requests

WorkerTypeOK ==
    /\ wpc \in [Workers -> {"idle", "mark", "free"}]
    /\ batch \in [Workers -> SUBSET Requests]
    /\ current \in [Workers -> Requests \cup {None}]
    /\ \A w \in Workers : wpc[w] = "free" => current[w] \in Requests

TypeOK ==
    /\ ShowTypeOK
    /\ StoreTypeOK
    /\ CallTypeOK
    /\ CancelTypeOK
    /\ WorkerTypeOK

\* A call about to reserve holds a past `now` and version; if the version is
\* still the show's, the seats are as free as they were when it looked.  The
\* version check of the update therefore implies its seat filter, and this
\* rests on every seat change incrementing the version.
SnapshotFresh ==
    \A r \in Requests : pc[r] = "reserve" =>
        /\ now[r] <= clock
        /\ snapVersion[r] <= seatVersion
        /\ snapVersion[r] = seatVersion =>
              \A s \in seatIds[r] : ~Unavailable(s, now[r])

\* At most one booking document exists for an idempotency key, although the
\* look-up and the insert of concurrent retries interleave.
OneBookingPerKey ==
    \A a, b \in Requests :
        status[a] # "none" /\ status[b] # "none" /\ key[a] = key[b] => a = b

\* Two cancelBooking calls passed the status check of the same booking.
CancelledTwice(b) ==
    \E c, d \in Cancels : c # d /\ target[c] = b /\ target[d] = b

\* A seat some ended booking may have released while it was another's: the
\* hold of that booking had lapsed, or two calls were cancelling it.
Disturbed(s) ==
    \E b \in Requests :
        /\ s \in seatIds[b]
        /\ status[b] \in {"cancelled", "expired"}
        /\ ExpiresAt(b) <= clock \/ CancelledTwice(b)

Live(b) == status[b] = "pending" /\ ExpiresAt(b) > clock

\* A pending booking whose hold has not lapsed holds each of its seats until
\* its own expiresAt, unless the seat was disturbed by an older booking.
LiveBookingHoldsItsSeats ==
    \A b \in Requests : Live(b) =>
        \A s \in seatIds[b] :
            \/ /\ seatStatus[s] = "reserved"
               /\ reservedBy[s] = b
               /\ reservedUntil[s] = ExpiresAt(b)
            \/ Disturbed(s)

\* The step that saves booking b, or frees its seats, is yet to come.
ToBeSettled(b) ==
    \/ pc[b] = "save"
    \/ \E c \in Cancels : cpc[c] = "free" /\ target[c] = b
    \/ \E w \in Workers : b \in Unfinished(w)

\* A reserved seat is never forgotten: its holder is pending, or a step that
\* settles the matter is under way; if neither, that step was tried and failed,
\* and the seat is anybody's as soon as the hold is over.  However calls,
\* cancellations and workers interleave, no other way leads to such a seat.
SeatsAreAccountedFor ==
    \A s \in Seats : seatStatus[s] = "reserved" =>
        LET b == reservedBy[s]
        IN  \/ status[b] = "pending"
            \/ ToBeSettled(b)
            \/ /\ b \in unfreed \/ result[b] \in {"duplicate", "error", "crashed"}
               /\ Unavailable(s, clock) => ExpiresAt(b) > clock

\* Until a hold can have lapsed and while no booking is cancelled twice,
\* availableSeats counts the available seats: the five operations that touch
\* the seats keep the counter and the array together.
SeatCountAccurate ==
    clock < Hold /\ (\A b \in Requests : ~CancelledTwice(b)) =>
        availableSeats =
            Cardinality({s \in Seats : seatStatus[s] = "available"})

\* What the events say is true of the bookings whenever they are read:
\* an expired event is about a booking that has ended, and so on.
EventsAreTrue ==
    \A b \in Requests :
        /\ <<"created", b>> \in events => status[b] # "none"
        /\ <<"cancelled", b>> \in events => status[b] = "cancelled"
        /\ <<"expired", b>> \in events => status[b] \in {"expired", "cancelled"}

\* A hold that has not lapsed is never taken over by another booking, even
\* though the update judges it by a `now` taken before.
LiveHoldNotTaken ==
    [][\A s \in Seats :
          seatStatus[s] = "reserved" /\ reservedUntil[s] > clock =>
              reservedBy'[s] \in {reservedBy[s], None}]_vars

\* A lock goes only when its owner releases it or its time to live is over: a
\* call that outlived its own lock does not delete the next owner's.
LockReleasedByOwner ==
    [][\A k \in LockKeys :
          lockOwner[k] # None /\ lockOwner'[k] # lockOwner[k] =>
              \/ pc[lockOwner[k]] = "release" /\ pc'[lockOwner[k]] = "done"
              \/ lockUntil[k] <= clock']_vars

\* An ended booking stays ended: a worker's late update never overwrites a
\* cancellation, and the only change after an end is expired to cancelled.
StatusOrder ==
    [][\A b \in Requests :
          status'[b] # status[b] =>
              <<status[b], status'[b]>> \in
                  {<<"none", "pending">>, <<"pending", "cancelled">>,
                   <<"pending", "expired">>, <<"expired", "cancelled">>}]_vars

\* The worker gets to every pending booking whose hold is over, restarts and
\* failed updates notwithstanding.
LapsedBookingEnds ==
    \A b \in Requests :
        status[b] = "pending" /\ ExpiresAt(b) < clock ~> status[b] # "pending"

\* A seat lock comes free though its owner died, given the time to live that
\* it has at most (where the bounded clock does not stop before).
LockComesFree ==
    \A k \in LockKeys :
        lockOwner[k] # None /\ clock + LockTtl <= MaxTime ~> lockOwner[k] = None

\* The seats and bookings behave as SeatHolds says: the reservation, judged by
\* a snapshot and a `now` from before, is as good as one judged when it is made.
Promise == INSTANCE SeatHolds WITH
    Bookings <- Requests, holder <- reservedBy, until <- reservedUntil
ImplementsSeatHolds == Promise!Spec

\* Claim of the worker's header, "releases their seats": the seats a worker
\* makes available are seats the expired booking still held.
WorkerReleasesOwnSeats ==
    [][\A w \in Workers :
          wpc[w] = "free" /\ wpc'[w] # "free" =>
              \A s \in Seats : seatStatus'[s] # seatStatus[s] =>
                  reservedBy[s] = current[w]]_vars
=============================================================================
