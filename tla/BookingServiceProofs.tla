------------------------ MODULE BookingServiceProofs ------------------------
(***************************************************************************)
(* Theorems about BookingService, for any sets of calls, workers, keys and *)
(* seats, any hold and lock times, and any number of faults.               *)
(***************************************************************************)
EXTENDS BookingService, FiniteSetTheorems, TLAPS

(***************************************************************************)
(* Types.                                                                  *)
(***************************************************************************)

\* The number of seats a call names is a natural number.
LEMMA SeatCountType ==
    ASSUME NEW S, S \subseteq SeatIds
    PROVE  Cardinality(S) \in Nat
<1>1. IsFiniteSet(SeatIds)
  BY SetsAssumption, FS_Union DEF SeatIds
<1> QED
  BY <1>1, FS_Subset, FS_CardinalityType

\* Freeing seats keeps the show document well typed.
LEMMA FreeSeatsType ==
    ASSUME ShowTypeOK, NEW S, S \subseteq SeatIds, FreeSeats(S)
    PROVE  ShowTypeOK'
<1>1. isActive' \in BOOLEAN
  BY Zenon DEF FreeSeats, ShowTypeOK
<1>2. Cardinality(S) \in Nat
  BY SeatCountType
<1> QED
  BY <1>1, <1>2 DEF FreeSeats, BumpVersion, ShowTypeOK, SeatStatuses

\* A published event names a booking, and a lost one costs a fault.
LEMMA PublishType ==
    ASSUME StoreTypeOK, NEW type \in EventTypes, NEW b \in Requests,
           Publish(type, b)
    PROVE  /\ events' \subseteq EventTypes \X Requests
           /\ faults' \in Nat
           /\ unfreed' \subseteq Requests
BY TimesAssumption DEF Publish, StoreTypeOK, faultVars

\* Where a step leaves all variables of a part alone, the part keeps its type.
LEMMA Unchanged ==
    /\ ShowTypeOK /\ UNCHANGED showVars => ShowTypeOK'
    /\ CallTypeOK /\ UNCHANGED callVars => CallTypeOK'
    /\ CancelTypeOK /\ UNCHANGED cancelVars => CancelTypeOK'
    /\ WorkerTypeOK /\ UNCHANGED workerVars => WorkerTypeOK'
    /\ StoreTypeOK /\ UNCHANGED <<clock, status, lockVars, events, faultVars>>
          => StoreTypeOK'
<1>1. ShowTypeOK /\ UNCHANGED showVars => ShowTypeOK'
  BY Zenon DEF ShowTypeOK, showVars
<1> QED
  BY <1>1 DEF CallTypeOK, callVars, CancelTypeOK, cancelVars, WorkerTypeOK,
              workerVars, StoreTypeOK, lockVars, faultVars

\* createBooking keeps the types.
LEMMA CreateType ==
    ASSUME TypeOK, NEW r \in Requests, CreateStep(r)
    PROVE  TypeOK'
<1> USE DEF TypeOK
<1>1. CASE AcquireLock(r)
  <2>1. CallTypeOK'
    BY <1>1 DEF AcquireLock, Goto, CallTypeOK, CallSteps, Results
  <2>2. StoreTypeOK'
    BY <1>1, TimesAssumption DEF AcquireLock, LockDeadline, StoreTypeOK, lockVars, faultVars
  <2> QED
    BY <1>1, <2>1, <2>2, Unchanged DEF AcquireLock
<1>2. CASE ReadShow(r)
  <2>1. CallTypeOK'
    BY <1>2 DEF ReadShow, Goto, CallTypeOK, CallSteps, Results, ShowTypeOK, StoreTypeOK
  <2> QED
    BY <1>2, <2>1, Unchanged DEF ReadShow
<1>3. CASE ReserveSeats(r)
  <2>1. CallTypeOK'
    BY <1>3 DEF ReserveSeats, Goto, CallTypeOK, CallSteps, Results
  <2>2. CASE ReserveFilter(r)
    <3>1. isActive' \in BOOLEAN
      BY <1>3, <2>2, Zenon DEF ReserveSeats, ShowTypeOK
    <3>2. Cardinality(seatIds[r]) \in Nat
      BY SeatCountType DEF CallTypeOK
    <3>3. ExpiresAt(r) \in Nat
      BY TimesAssumption DEF ExpiresAt, CallTypeOK
    <3>4. ShowTypeOK'
      BY <1>3, <2>2, <3>1, <3>2, <3>3
      DEF ReserveSeats, BumpVersion, ShowTypeOK, SeatStatuses
    <3> QED
      BY <1>3, <2>1, <3>4, Unchanged DEF ReserveSeats
  <2>3. CASE ~ReserveFilter(r)
    BY <1>3, <2>1, <2>3, Unchanged DEF ReserveSeats
  <2> QED
    BY <2>2, <2>3
<1>4. CASE SaveBooking(r)
  <2>1. CallTypeOK'
    BY <1>4 DEF SaveBooking, Goto, CallTypeOK, CallSteps, Results
  <2>2. StoreTypeOK'
    <3>1. /\ events' \subseteq EventTypes \X Requests
          /\ faults' \in Nat
          /\ unfreed' \subseteq Requests
      BY <1>4, PublishType DEF SaveBooking, EventTypes, StoreTypeOK, faultVars
    <3> QED
      BY <1>4, <3>1 DEF SaveBooking, StoreTypeOK, BookingStatuses, lockVars
  <2> QED
    BY <1>4, <2>1, <2>2, Unchanged DEF SaveBooking
<1>5. CASE ReleaseLock(r)
  <2>1. CallTypeOK'
    BY <1>5 DEF ReleaseLock, CallTypeOK, CallSteps
  <2>2. StoreTypeOK'
    BY <1>5 DEF ReleaseLock, StoreTypeOK, lockVars, faultVars
  <2> QED
    BY <1>5, <2>1, <2>2, Unchanged DEF ReleaseLock
<1> QED
  BY <1>1, <1>2, <1>3, <1>4, <1>5 DEF CreateStep

\* A new call, a failing one and one whose process ends keep the types.
LEMMA CallType ==
    ASSUME TypeOK, NEW r \in Requests,
           \/ \E ids \in LockKeys, k \in Keys : CheckIdempotency(r, ids, k)
           \/ OperationFails(r)
           \/ Crash(r)
    PROVE  TypeOK'
<1> USE DEF TypeOK
<1>1. ASSUME NEW ids \in LockKeys, NEW k \in Keys, CheckIdempotency(r, ids, k)
      PROVE  TypeOK'
  <2>1. CallTypeOK'
    BY <1>1 DEF CheckIdempotency, Goto, CallTypeOK, CallSteps, Results, LockKeys
  <2> QED
    BY <1>1, <2>1, Unchanged DEF CheckIdempotency
<1>2. CASE OperationFails(r) \/ Crash(r)
  <2>1. CallTypeOK'
    BY <1>2 DEF OperationFails, Crash, Goto, CallTypeOK, CallSteps, Results
  <2>2. StoreTypeOK'
    BY <1>2 DEF OperationFails, Crash, Fault, StoreTypeOK, lockVars
  <2> QED
    BY <1>2, <2>1, <2>2, Unchanged DEF OperationFails, Crash
<1> QED
  BY <1>1, <1>2

\* cancelBooking keeps the types.
LEMMA CancelType ==
    ASSUME TypeOK, NEW c \in Cancels,
           \/ \E b \in Requests, mine \in BOOLEAN : FindBooking(c, b, mine)
           \/ CancelStep(c)
           \/ CancelFails(c)
    PROVE  TypeOK'
<1> USE DEF TypeOK
<1>1. ASSUME NEW b \in Requests, NEW mine \in BOOLEAN, FindBooking(c, b, mine)
      PROVE  TypeOK'
  <2>1. CancelTypeOK'
    BY <1>1 DEF FindBooking, CancelTypeOK
  <2> QED
    BY <1>1, <2>1, Unchanged DEF FindBooking
<1>2. CASE MarkCancelled(c)
  <2>1. CancelTypeOK'
    BY <1>2 DEF MarkCancelled, CancelTypeOK
  <2>2. StoreTypeOK'
    BY <1>2 DEF MarkCancelled, StoreTypeOK, BookingStatuses, lockVars, faultVars
  <2> QED
    BY <1>2, <2>1, <2>2, Unchanged DEF MarkCancelled
<1>3. CASE FreeCancelled(c)
  <2>1. CancelTypeOK'
    BY <1>3 DEF FreeCancelled, CancelTypeOK
  <2>2. target[c] \in Requests /\ seatIds[target[c]] \subseteq SeatIds
    BY <1>3 DEF FreeCancelled, CancelTypeOK, CallTypeOK
  <2>3. ShowTypeOK'
    BY <1>3, <2>2, FreeSeatsType DEF FreeCancelled
  <2>4. /\ events' \subseteq EventTypes \X Requests
        /\ faults' \in Nat
        /\ unfreed' \subseteq Requests
    BY <1>3, <2>2, PublishType DEF FreeCancelled, EventTypes
  <2>5. StoreTypeOK'
    BY <1>3, <2>4 DEF FreeCancelled, StoreTypeOK, lockVars
  <2> QED
    BY <1>3, <2>1, <2>3, <2>5, Unchanged DEF FreeCancelled
<1>4. CASE CancelFails(c)
  <2>1. CancelTypeOK'
    BY <1>4 DEF CancelFails, CancelTypeOK
  <2>2. StoreTypeOK'
    BY <1>4 DEF CancelFails, Fault, StoreTypeOK, lockVars, CancelTypeOK
  <2> QED
    BY <1>4, <2>1, <2>2, Unchanged DEF CancelFails
<1> QED
  BY <1>1, <1>2, <1>3, <1>4 DEF CancelStep

\* Going on with the batch keeps the worker's types.
LEMMA NextInBatchType ==
    ASSUME WorkerTypeOK, NEW w \in Workers, NEW rest \in SUBSET Requests,
           NextInBatch(w, rest)
    PROVE  WorkerTypeOK'
BY DEF NextInBatch, WorkerTypeOK

\* The worker keeps the types.
LEMMA WorkerType ==
    ASSUME TypeOK, NEW w \in Workers,
           WorkerStep(w) \/ SkipFailed(w) \/ RestartWorker(w)
    PROVE  TypeOK'
<1> USE DEF TypeOK
<1>1. CASE ScanExpired(w)
  <2>1. PICK B \in SUBSET Lapsed : NextInBatch(w, B)
    BY <1>1 DEF ScanExpired
  <2>2. WorkerTypeOK'
    BY <2>1, NextInBatchType DEF Lapsed
  <2> QED
    BY <1>1, <2>2, Unchanged DEF ScanExpired
<1>2. ASSUME NEW b \in Requests, MarkExpired(w, b) PROVE TypeOK'
  <2>1. CASE StillPending(b)
    <3>1. WorkerTypeOK'
      BY <1>2, <2>1 DEF MarkExpired, WorkerTypeOK
    <3>2. StoreTypeOK'
      BY <1>2, <2>1 DEF MarkExpired, StoreTypeOK, BookingStatuses, lockVars, faultVars
    <3> QED
      BY <1>2, <3>1, <3>2, Unchanged DEF MarkExpired
  <2>2. CASE ~StillPending(b)
    <3>1. NextInBatch(w, batch[w] \ {b}) /\ batch[w] \ {b} \in SUBSET Requests
      BY <1>2, <2>2 DEF MarkExpired, WorkerTypeOK
    <3>2. WorkerTypeOK'
      BY <3>1, NextInBatchType
    <3> QED
      BY <1>2, <2>2, <3>2, Unchanged DEF MarkExpired
  <2> QED
    BY <2>1, <2>2
<1>3. CASE FreeExpired(w)
  <2>1. current[w] \in Requests /\ seatIds[current[w]] \subseteq SeatIds
    BY <1>3 DEF FreeExpired, WorkerTypeOK, CallTypeOK
  <2>2. WorkerTypeOK'
    BY <1>3, NextInBatchType DEF FreeExpired, WorkerTypeOK
  <2>3. ShowTypeOK'
    BY <1>3, <2>1, FreeSeatsType DEF FreeExpired
  <2>4. /\ events' \subseteq EventTypes \X Requests
        /\ faults' \in Nat
        /\ unfreed' \subseteq Requests
    BY <1>3, <2>1, PublishType DEF FreeExpired, EventTypes
  <2>5. StoreTypeOK'
    BY <1>3, <2>4 DEF FreeExpired, StoreTypeOK, lockVars
  <2> QED
    BY <1>3, <2>2, <2>3, <2>5, Unchanged DEF FreeExpired
<1>4. CASE SkipFailed(w) \/ RestartWorker(w)
  <2>1. PICK rest \in SUBSET Requests : NextInBatch(w, rest)
    BY <1>4 DEF SkipFailed, RestartWorker, WorkerTypeOK
  <2>2. WorkerTypeOK'
    BY <2>1, NextInBatchType
  <2>3. StoreTypeOK'
    <3>1. Unfinished(w) \subseteq Requests
      BY DEF Unfinished, WorkerTypeOK
    <3> QED
      BY <1>4, <3>1 DEF SkipFailed, RestartWorker, Fault, StoreTypeOK, lockVars
  <2> QED
    BY <1>4, <2>2, <2>3, Unchanged DEF SkipFailed, RestartWorker
<1> QED
  BY <1>1, <1>2, <1>3, <1>4 DEF WorkerStep

\* The environment keeps the types.
LEMMA EnvironmentType ==
    ASSUME TypeOK, Deactivate \/ Tick \/ UNCHANGED vars
    PROVE  TypeOK'
<1> USE DEF TypeOK
<1>1. CASE Deactivate
  <2>1. isActive' \in BOOLEAN
    BY <1>1, Zenon DEF Deactivate
  <2>2. ShowTypeOK'
    BY <1>1, <2>1 DEF Deactivate, ShowTypeOK
  <2> QED
    BY <1>1, <2>2, Unchanged DEF Deactivate
<1>2. CASE Tick
  <2>1. StoreTypeOK'
    BY <1>2 DEF Tick, StoreTypeOK, faultVars
  <2> QED
    BY <1>2, <2>1, Unchanged DEF Tick
<1>3. CASE UNCHANGED vars
  BY <1>3, Unchanged DEF vars
<1> QED
  BY <1>1, <1>2, <1>3

\* A well typed state has only well typed successors.
LEMMA TypeStep == TypeOK /\ [Next]_vars => TypeOK'
BY CreateType, CallType, CancelType, WorkerType, EnvironmentType DEF Next

\* The initial state is well typed.
LEMMA InitType == Init => TypeOK
<1> SUFFICES ASSUME Init PROVE TypeOK
  OBVIOUS
<1> USE DEF Init
<1>1. isActive \in BOOLEAN
  BY Zenon
<1>2. Cardinality(Seats) \in Nat
  BY SeatCountType DEF SeatIds
<1>3. ShowTypeOK
  BY <1>1, <1>2 DEF ShowTypeOK, SeatStatuses
<1>4. StoreTypeOK
  BY DEF StoreTypeOK, BookingStatuses
<1>5. CallTypeOK
  BY DEF CallTypeOK, CallSteps, Results
<1>6. CancelTypeOK /\ WorkerTypeOK
  BY DEF CancelTypeOK, WorkerTypeOK
<1> QED
  BY <1>3, <1>4, <1>5, <1>6 DEF TypeOK

\* The type invariant of the booking service.
THEOREM TypeCorrect == Spec => []TypeOK
BY InitType, TypeStep, PTL DEF Spec

(***************************************************************************)
(* What holds of every call, cancellation and worker between its steps.    *)
(***************************************************************************)
Ended == {"cancelled", "expired"}

\* A call's clock reading and version are of the past, its booking exists only
\* after its save, and what it is about to reserve is of this show.
CallInv ==
    \A r \in Requests :
        /\ now[r] <= clock
        /\ snapVersion[r] <= seatVersion
        /\ status[r] \in {"none", "pending"} \cup Ended
        /\ status[r] # "none" => pc[r] \in {"release", "done"}
        /\ pc[r] \in {"reserve", "save"} => seatIds[r] \subseteq Seats

\* A cancellation is about a booking that exists; before it frees the seats
\* the booking is cancelled, and stays so.
CancelInv ==
    \A c \in Cancels :
        /\ cpc[c] = "idle" => target[c] = None
        /\ target[c] # None => status[target[c]] # "none"
        /\ cpc[c] = "free" => status[target[c]] = "cancelled"

\* An expired booking has lapsed; a cancelled one has been marked by a call.
EndedInv ==
    \A b \in Requests :
        /\ status[b] = "expired" => ExpiresAt(b) < clock
        /\ status[b] = "cancelled" =>
              \E c \in Cancels : target[c] = b /\ cpc[c] \in {"free", "done"}

\* What a worker found or is releasing has lapsed; before it frees the seats
\* the booking has ended.
WorkerInv ==
    \A w \in Workers :
        /\ \A b \in batch[w] : status[b] # "none" /\ ExpiresAt(b) < clock
        /\ wpc[w] = "free" =>
              status[current[w]] \in Ended /\ ExpiresAt(current[w]) < clock

\* Time and versions grow, and once there is a booking its data stays.
Frame ==
    /\ clock <= clock'
    /\ seatVersion <= seatVersion'
    /\ \A r \in Requests :
          /\ status[r] # "none" => /\ now'[r] = now[r]
                                  /\ seatIds'[r] = seatIds[r]
                                  /\ key'[r] = key[r]
                                  /\ status'[r] # "none"
          /\ status[r] \in Ended => status'[r] \in Ended
          /\ status[r] = "cancelled" => status'[r] = "cancelled"

\* Every step keeps CallInv and respects Frame.
LEMMA CallStepInv ==
    ASSUME TypeOK, CallInv, CancelInv, [Next]_vars
    PROVE  CallInv' /\ Frame
<1> USE TimesAssumption
    DEF CallInv, Frame, Ended, TypeOK, CallTypeOK, StoreTypeOK, ShowTypeOK
<1>1. ASSUME NEW r \in Requests, NEW ids \in LockKeys, NEW k \in Keys,
             CheckIdempotency(r, ids, k)
      PROVE  CallInv' /\ Frame
  BY <1>1 DEF CheckIdempotency, Goto, showVars
<1>2. ASSUME NEW r \in Requests, AcquireLock(r) PROVE CallInv' /\ Frame
  BY <1>2 DEF AcquireLock, Goto, showVars
<1>3. ASSUME NEW r \in Requests, ReadShow(r) PROVE CallInv' /\ Frame
  BY <1>3 DEF ReadShow, Bookable, Goto, showVars
<1>4. ASSUME NEW r \in Requests, ReserveSeats(r) PROVE CallInv' /\ Frame
  BY <1>4 DEF ReserveSeats, BumpVersion, Goto, showVars
<1>5. ASSUME NEW r \in Requests, SaveBooking(r) PROVE CallInv' /\ Frame
  BY <1>5 DEF SaveBooking, Goto, showVars
<1>6. ASSUME NEW r \in Requests, ReleaseLock(r) PROVE CallInv' /\ Frame
  BY <1>6 DEF ReleaseLock, showVars
<1>7. ASSUME NEW r \in Requests, OperationFails(r) \/ Crash(r)
      PROVE  CallInv' /\ Frame
  BY <1>7 DEF OperationFails, Crash, Goto, showVars
<1>8. ASSUME NEW c \in Cancels, NEW b \in Requests, NEW mine \in BOOLEAN,
             FindBooking(c, b, mine)
      PROVE  CallInv' /\ Frame
  BY <1>8 DEF FindBooking, callVars, showVars
<1>9. ASSUME NEW c \in Cancels, MarkCancelled(c) PROVE CallInv' /\ Frame
  BY <1>9, SetsAssumption DEF MarkCancelled, callVars, showVars, CancelTypeOK, CancelInv
<1>10. ASSUME NEW c \in Cancels, FreeCancelled(c) PROVE CallInv' /\ Frame
  BY <1>10 DEF FreeCancelled, FreeSeats, BumpVersion, callVars
<1>11. ASSUME NEW c \in Cancels, CancelFails(c) PROVE CallInv' /\ Frame
  BY <1>11 DEF CancelFails, callVars, showVars
<1>12. ASSUME NEW w \in Workers,
              ScanExpired(w) \/ SkipFailed(w) \/ RestartWorker(w)
       PROVE  CallInv' /\ Frame
  BY <1>12 DEF ScanExpired, SkipFailed, RestartWorker, callVars, showVars
<1>13. ASSUME NEW w \in Workers, NEW b \in Requests, MarkExpired(w, b)
       PROVE  CallInv' /\ Frame
  BY <1>13 DEF MarkExpired, StillPending, callVars, showVars
<1>14. ASSUME NEW w \in Workers, FreeExpired(w) PROVE CallInv' /\ Frame
  BY <1>14 DEF FreeExpired, FreeSeats, BumpVersion, callVars
<1>15. CASE Deactivate
  BY <1>15 DEF Deactivate, callVars
<1>16. CASE Tick
  BY <1>16 DEF Tick, callVars, showVars
<1>17. CASE UNCHANGED vars
  BY <1>17 DEF vars, callVars, showVars
<1> QED
  BY <1>1, <1>2, <1>3, <1>4, <1>5, <1>6, <1>7, <1>8, <1>9, <1>10, <1>11,
     <1>12, <1>13, <1>14, <1>15, <1>16, <1>17
  DEF Next, CreateStep, CancelStep, WorkerStep

\* Only the steps of cancelBooking touch what CancelInv reads of a cancellation.
LEMMA CancelSteps ==
    ASSUME [Next]_vars
    PROVE  \/ \E c \in Cancels, b \in Requests, mine \in BOOLEAN :
                 FindBooking(c, b, mine)
           \/ \E c \in Cancels : CancelStep(c) \/ CancelFails(c)
           \/ UNCHANGED cancelVars
BY DEF Next, vars, CheckIdempotency, CreateStep, AcquireLock, ReadShow,
       ReserveSeats, SaveBooking, ReleaseLock, OperationFails, Crash,
       WorkerStep, ScanExpired, MarkExpired, FreeExpired, SkipFailed,
       RestartWorker, Deactivate, Tick

\* Every step keeps CancelInv.
LEMMA CancelStepInv ==
    ASSUME TypeOK, CallInv, CancelInv, Frame, [Next]_vars
    PROVE  CancelInv'
<1> USE SetsAssumption DEF TypeOK, CancelTypeOK, CancelInv, Frame
<1>1. ASSUME NEW c \in Cancels, NEW b \in Requests, NEW mine \in BOOLEAN,
             FindBooking(c, b, mine)
      PROVE  CancelInv'
  BY <1>1 DEF FindBooking, Cancellable
<1>2. ASSUME NEW c \in Cancels, MarkCancelled(c) PROVE CancelInv'
  BY <1>2 DEF MarkCancelled, StoreTypeOK
<1>3. ASSUME NEW c \in Cancels, FreeCancelled(c) \/ CancelFails(c)
      PROVE  CancelInv'
  BY <1>3 DEF FreeCancelled, CancelFails
<1>4. CASE UNCHANGED cancelVars
  BY <1>4 DEF cancelVars
<1> QED
  BY <1>1, <1>2, <1>3, <1>4, CancelSteps DEF CancelStep

\* Only the steps of the worker touch what WorkerInv reads of a worker.
LEMMA WorkerSteps ==
    ASSUME [Next]_vars
    PROVE  \/ \E w \in Workers :
                 WorkerStep(w) \/ SkipFailed(w) \/ RestartWorker(w)
           \/ UNCHANGED workerVars
BY DEF Next, vars, CheckIdempotency, CreateStep, AcquireLock, ReadShow,
       ReserveSeats, SaveBooking, ReleaseLock, OperationFails, Crash,
       FindBooking, CancelStep, MarkCancelled, FreeCancelled, CancelFails,
       Deactivate, Tick

\* A booking whose time is over stays so.
LEMMA LapsedStays ==
    ASSUME TypeOK, CallInv, Frame, [Next]_vars, NEW b \in Requests,
           status[b] # "none"
    PROVE  /\ ExpiresAt(b) < clock => ExpiresAt(b)' < clock'
           /\ ExpiresAt(b) <= clock => ExpiresAt(b)' <= clock'
           /\ ExpiresAt(b)' = ExpiresAt(b)
<1>1. now[b] \in Nat /\ clock \in Nat /\ clock' \in Nat /\ Hold \in Nat
  BY TypeStep, TimesAssumption DEF TypeOK, CallTypeOK, StoreTypeOK
<1>2. now'[b] = now[b] /\ clock <= clock'
  BY DEF Frame
<1> QED
  BY <1>1, <1>2 DEF ExpiresAt

\* Every step keeps WorkerInv.
LEMMA WorkerStepInv ==
    ASSUME TypeOK, CallInv, WorkerInv, Frame, [Next]_vars
    PROVE  WorkerInv'
<1> USE DEF WorkerTypeOK, WorkerInv
<1>0. WorkerTypeOK /\ WorkerTypeOK'
  BY TypeStep DEF TypeOK
<1>1. \A b \in Requests :
        /\ status[b] # "none" /\ ExpiresAt(b) < clock =>
              status'[b] # "none" /\ ExpiresAt(b)' < clock'
        /\ status[b] \in Ended => status'[b] \in Ended
  BY LapsedStays DEF Frame
<1>2. ASSUME NEW w \in Workers, NEW rest \in SUBSET Requests,
             NextInBatch(w, rest),
             \A b \in rest : status[b] # "none" /\ ExpiresAt(b) < clock
      PROVE  WorkerInv'
  BY <1>0, <1>1, <1>2 DEF NextInBatch, Ended
<1>3. ASSUME NEW w \in Workers, ScanExpired(w) PROVE WorkerInv'
  <2>1. PICK B \in SUBSET Lapsed : NextInBatch(w, B)
    BY <1>3 DEF ScanExpired
  <2> QED
    BY <1>2, <2>1 DEF Lapsed
<1>4. ASSUME NEW w \in Workers, NEW b \in Requests, MarkExpired(w, b)
      PROVE  WorkerInv'
  <2>1. CASE StillPending(b)
    BY <1>0, <1>1, <1>4, <2>1 DEF MarkExpired, Ended, TypeOK, StoreTypeOK
  <2>2. CASE ~StillPending(b)
    <3>1. NextInBatch(w, batch[w] \ {b}) /\ batch[w] \ {b} \in SUBSET Requests
      BY <1>0, <1>4, <2>2 DEF MarkExpired
    <3> QED
      BY <1>2, <3>1
  <2> QED
    BY <2>1, <2>2
<1>5. ASSUME NEW w \in Workers,
             FreeExpired(w) \/ SkipFailed(w) \/ RestartWorker(w)
      PROVE  WorkerInv'
  <2>1. PICK rest \in SUBSET batch[w] : NextInBatch(w, rest)
    BY <1>5 DEF FreeExpired, SkipFailed, RestartWorker
  <2> QED
    BY <1>0, <1>2, <2>1
<1>6. CASE UNCHANGED workerVars
  BY <1>0, <1>1, <1>6 DEF workerVars, Ended
<1> QED
  BY <1>3, <1>4, <1>5, <1>6, WorkerSteps DEF WorkerStep

\* What a cancellation is about never changes.
LEMMA TargetStays ==
    ASSUME TypeOK, CancelInv, [Next]_vars, NEW c \in Cancels, target[c] # None
    PROVE  /\ target'[c] = target[c]
           /\ cpc[c] \in {"free", "done"} => cpc'[c] \in {"free", "done"}
           /\ cpc[c] = "mark" /\ cpc'[c] = "free" => MarkCancelled(c)
<1> USE DEF TypeOK, CancelTypeOK, CancelInv
<1>1. ASSUME NEW d \in Cancels, NEW b \in Requests, NEW mine \in BOOLEAN,
             FindBooking(d, b, mine)
      PROVE  target'[c] = target[c] /\ cpc'[c] = cpc[c]
  BY <1>1 DEF FindBooking
<1>2. ASSUME NEW d \in Cancels, CancelStep(d) \/ CancelFails(d)
      PROVE  /\ target'[c] = target[c]
             /\ cpc[c] \in {"free", "done"} => cpc'[c] \in {"free", "done"}
             /\ cpc[c] = "mark" /\ cpc'[c] = "free" => MarkCancelled(c)
  BY <1>2 DEF CancelStep, MarkCancelled, FreeCancelled, CancelFails
<1>3. CASE UNCHANGED cancelVars
  BY <1>3 DEF cancelVars
<1> QED
  BY <1>1, <1>2, <1>3, CancelSteps

\* A booking is expired only by a worker that found it, and cancelled only by a
\* call about it.
LEMMA EndStep ==
    ASSUME TypeOK, [Next]_vars, NEW b \in Requests, status'[b] # status[b]
    PROVE  \/ status[b] = "none" /\ status'[b] = "pending" /\ SaveBooking(b)
           \/ /\ status'[b] = "cancelled"
              /\ \E c \in Cancels : target[c] = b /\ MarkCancelled(c)
           \/ /\ status[b] = "pending" /\ status'[b] = "expired"
              /\ \E w \in Workers : b \in batch[w] /\ MarkExpired(w, b)
<1> USE DEF TypeOK, StoreTypeOK
<1>1. ASSUME NEW r \in Requests, SaveBooking(r), pc[r] = "save"
      PROVE  status[b] = "none" /\ status'[b] = "pending" /\ SaveBooking(b)
  BY <1>1 DEF SaveBooking, KeyTaken
<1>2. ASSUME NEW c \in Cancels, MarkCancelled(c)
      PROVE  status'[b] = "cancelled" /\ target[c] = b
  BY <1>2 DEF MarkCancelled
<1>3. ASSUME NEW w \in Workers, NEW a \in Requests, MarkExpired(w, a)
      PROVE  /\ status[b] = "pending" /\ status'[b] = "expired"
             /\ b \in batch[w] /\ MarkExpired(w, b)
  BY <1>3 DEF MarkExpired, StillPending
<1>4. UNCHANGED status => FALSE
  OBVIOUS
<1> QED
  BY <1>1, <1>2, <1>3, <1>4
  DEF Next, vars, CheckIdempotency, CreateStep, AcquireLock, ReadShow,
      ReserveSeats, SaveBooking, ReleaseLock, OperationFails, Crash,
      FindBooking, CancelStep, FreeCancelled, CancelFails, WorkerStep,
      ScanExpired, FreeExpired, SkipFailed, RestartWorker, Deactivate, Tick

\* Every step keeps EndedInv.
LEMMA EndedStepInv ==
    ASSUME TypeOK, CallInv, CancelInv, WorkerInv, EndedInv, Frame, [Next]_vars
    PROVE  EndedInv'
<1> SUFFICES ASSUME NEW b \in Requests
             PROVE  /\ status'[b] = "expired" => ExpiresAt(b)' < clock'
                    /\ status'[b] = "cancelled" =>
                         \E c \in Cancels : target'[c] = b /\ cpc'[c] \in {"free", "done"}
  BY DEF EndedInv
<1>1. CASE status'[b] = status[b]
  BY <1>1, LapsedStays, TargetStays, SetsAssumption DEF EndedInv
<1>2. ASSUME NEW c \in Cancels, target[c] = b, MarkCancelled(c),
             status'[b] = "cancelled"
      PROVE  target'[c] = b /\ cpc'[c] \in {"free", "done"}
  BY <1>2 DEF MarkCancelled, TypeOK, CancelTypeOK
<1>3. ASSUME NEW w \in Workers, b \in batch[w], status'[b] = "expired"
      PROVE  ExpiresAt(b)' < clock'
  BY <1>3, LapsedStays DEF WorkerInv
<1> QED
  BY <1>1, <1>2, <1>3, EndStep

Inv == TypeOK /\ CallInv /\ CancelInv /\ WorkerInv /\ EndedInv

\* The five hold together in every state.
THEOREM Invariant == Spec => []Inv
<1>1. Init => CallInv /\ CancelInv /\ WorkerInv /\ EndedInv
  BY DEF Init, CallInv, CancelInv, WorkerInv, EndedInv, Ended
<1>2. Inv /\ [Next]_vars => Inv'
  BY TypeStep, CallStepInv, CancelStepInv, WorkerStepInv, EndedStepInv DEF Inv
<1>3. Init => Inv
  <2>1. Init => TypeOK
    BY InitType
  <2> QED
    BY <1>1, <2>1 DEF Inv
<1> QED
  BY <1>2, <1>3, PTL DEF Spec

\* Every step from a state of Inv respects Frame.
LEMMA FrameStep == Inv /\ [Next]_vars => Frame
BY CallStepInv DEF Inv

(***************************************************************************)
(* Optimistic concurrency control.                                         *)
(***************************************************************************)

\* A step that does not increment seatVersion leaves every seat as it is.
LEMMA VersionCoversSeats ==
    ASSUME [Next]_vars
    PROVE  \/ UNCHANGED <<seatStatus, reservedBy, reservedUntil>>
           \/ seatVersion' = seatVersion + 1
<1>1. ASSUME NEW r \in Requests, ReserveSeats(r)
      PROVE  \/ UNCHANGED <<seatStatus, reservedBy, reservedUntil>>
             \/ seatVersion' = seatVersion + 1
  BY <1>1 DEF ReserveSeats, BumpVersion, showVars
<1>2. ASSUME NEW c \in Cancels, FreeCancelled(c)
      PROVE  seatVersion' = seatVersion + 1
  BY <1>2 DEF FreeCancelled, FreeSeats, BumpVersion
<1>3. ASSUME NEW w \in Workers, FreeExpired(w)
      PROVE  seatVersion' = seatVersion + 1
  BY <1>3 DEF FreeExpired, FreeSeats, BumpVersion
<1> QED
  BY <1>1, <1>2, <1>3
  DEF Next, vars, showVars, CheckIdempotency, CreateStep, AcquireLock,
      ReadShow, SaveBooking, ReleaseLock, OperationFails, Crash, FindBooking,
      CancelStep, MarkCancelled, CancelFails, WorkerStep, ScanExpired,
      MarkExpired, SkipFailed, RestartWorker, Deactivate, Tick

\* A call is before its reservation because it just read the show, or was so
\* already, with the same snapshot.
LEMMA ReserveStep ==
    ASSUME [Next]_vars, Inv, NEW r \in Requests, pc'[r] = "reserve"
    PROVE  \/ ReadShow(r)
           \/ pc[r] = "reserve" /\ UNCHANGED <<now[r], snapVersion[r], seatIds[r]>>
<1> USE DEF Inv, TypeOK, CallTypeOK
<1>1. ASSUME NEW q \in Requests, NEW ids \in LockKeys, NEW k \in Keys,
             CheckIdempotency(q, ids, k)
      PROVE  pc[r] = "reserve" /\ UNCHANGED <<now[r], snapVersion[r], seatIds[r]>>
  BY <1>1 DEF CheckIdempotency, Goto
<1>2. ASSUME NEW q \in Requests,
             CreateStep(q) \/ OperationFails(q) \/ Crash(q), ~ReadShow(r)
      PROVE  pc[r] = "reserve" /\ UNCHANGED <<now[r], snapVersion[r], seatIds[r]>>
  BY <1>2 DEF CreateStep, AcquireLock, ReadShow, ReserveSeats, SaveBooking,
              ReleaseLock, OperationFails, Crash, Goto
<1>3. CASE UNCHANGED callVars
  BY <1>3 DEF callVars
<1> QED
  BY <1>1, <1>2, <1>3
  DEF Next, vars, FindBooking, CancelStep, MarkCancelled, FreeCancelled,
      CancelFails, WorkerStep, ScanExpired, MarkExpired, FreeExpired,
      SkipFailed, RestartWorker, Deactivate, Tick

\* A snapshot whose version is still the show's tells the truth about the
\* seats: optimistic concurrency control misses no change.
THEOREM SnapshotAlwaysFresh == Spec => []SnapshotFresh
<1>1. Init => SnapshotFresh
  BY DEF Init, SnapshotFresh
<1>2. Inv /\ SnapshotFresh /\ [Next]_vars => SnapshotFresh'
  <2> SUFFICES ASSUME Inv, SnapshotFresh, [Next]_vars,
                      NEW r \in Requests, pc'[r] = "reserve"
               PROVE  /\ now'[r] <= clock'
                      /\ snapVersion'[r] <= seatVersion'
                      /\ snapVersion'[r] = seatVersion' =>
                            \A s \in seatIds'[r] : ~Unavailable(s, now[r])'
    BY DEF SnapshotFresh
  <2>1. CASE ReadShow(r)
    BY <2>1 DEF ReadShow, Bookable, Unavailable, Goto, showVars, Inv, TypeOK,
                CallTypeOK, StoreTypeOK, ShowTypeOK
  <2>2. CASE pc[r] = "reserve" /\ UNCHANGED <<now[r], snapVersion[r], seatIds[r]>>
    <3>1. /\ now[r] \in Nat /\ snapVersion[r] \in Nat /\ clock \in Nat
          /\ seatVersion \in Nat /\ clock' \in Nat /\ seatVersion' \in Nat
      BY TypeStep DEF Inv, TypeOK, CallTypeOK, StoreTypeOK, ShowTypeOK
    <3>2. clock <= clock' /\ seatVersion <= seatVersion'
      BY FrameStep DEF Frame
    <3> QED
      BY <2>2, <3>1, <3>2, VersionCoversSeats DEF SnapshotFresh, Unavailable
  <2> QED
    BY <2>1, <2>2, ReserveStep
<1> QED
  BY <1>1, <1>2, Invariant, PTL DEF Spec

(***************************************************************************)
(* What may happen to a seat in one step.                                  *)
(***************************************************************************)

\* The seats of b are being released, for a cancellation or by a worker.
Frees(b) ==
    /\ FreeSeats(seatIds[b])
    /\ \/ \E c \in Cancels : target[c] = b /\ FreeCancelled(c)
       \/ \E w \in Workers : current[w] = b /\ FreeExpired(w)

\* The seats and their counter change because a call reserves its seats or a
\* booking's are freed.
LEMMA SeatStep ==
    ASSUME TypeOK, [Next]_vars
    PROVE  \/ \E r \in Requests : ReserveSeats(r) /\ ReserveFilter(r)
           \/ \E b \in Requests : Frees(b)
           \/ UNCHANGED <<seatStatus, reservedBy, reservedUntil, availableSeats>>
<1>1. ASSUME NEW c \in Cancels, FreeCancelled(c)
      PROVE  target[c] \in Requests /\ Frees(target[c])
  BY <1>1 DEF Frees, FreeCancelled, TypeOK, CancelTypeOK
<1>2. ASSUME NEW w \in Workers, FreeExpired(w)
      PROVE  current[w] \in Requests /\ Frees(current[w])
  BY <1>2 DEF Frees, FreeExpired, TypeOK, WorkerTypeOK
<1>3. ASSUME NEW r \in Requests, ReserveSeats(r), ~ReserveFilter(r)
      PROVE  UNCHANGED <<seatStatus, reservedBy, reservedUntil, availableSeats>>
  BY <1>3 DEF ReserveSeats, showVars
<1> QED
  BY <1>1, <1>2, <1>3
  DEF Next, vars, showVars, CheckIdempotency, CreateStep, AcquireLock,
      ReadShow, SaveBooking, ReleaseLock, OperationFails, Crash, FindBooking,
      CancelStep, MarkCancelled, CancelFails, WorkerStep, ScanExpired,
      MarkExpired, SkipFailed, RestartWorker, Deactivate, Tick

\* The filter lets nobody reserve a seat whose hold is not over by now, though
\* it compares with the earlier time the call took.
LEMMA FilterRespectsHolds ==
    ASSUME Inv, NEW r \in Requests, ReserveFilter(r), NEW s \in seatIds[r],
           s \in Seats, seatStatus[s] = "reserved"
    PROVE  reservedUntil[s] <= clock
<1>1. reservedUntil[s] \in Nat /\ now[r] \in Nat /\ clock \in Nat
  BY DEF Inv, TypeOK, ShowTypeOK, CallTypeOK, StoreTypeOK
<1>2. reservedUntil[s] <= now[r]
  BY <1>1 DEF ReserveFilter, Unavailable
<1>3. now[r] <= clock
  BY DEF Inv, CallInv
<1> QED
  BY <1>1, <1>2, <1>3

\* A hold that is not over is never taken over by another booking.
THEOREM LiveHoldNeverTaken == Spec => LiveHoldNotTaken
<1>1. Inv /\ [Next]_vars =>
        [\A s \in Seats :
           seatStatus[s] = "reserved" /\ reservedUntil[s] > clock =>
              reservedBy'[s] \in {reservedBy[s], None}]_vars
  <2> SUFFICES ASSUME Inv, [Next]_vars, NEW s \in Seats,
                      seatStatus[s] = "reserved", reservedUntil[s] > clock
               PROVE  reservedBy'[s] \in {reservedBy[s], None}
    OBVIOUS
  <2>1. ASSUME NEW r \in Requests, ReserveSeats(r), ReserveFilter(r)
        PROVE  reservedBy'[s] = reservedBy[s]
    <3>1. reservedUntil[s] \in Nat /\ clock \in Nat
      BY DEF Inv, TypeOK, ShowTypeOK, StoreTypeOK
    <3>2. s \notin seatIds[r]
      BY <2>1, <3>1, FilterRespectsHolds
    <3> QED
      BY <2>1, <3>2 DEF ReserveSeats
  <2>2. ASSUME NEW b \in Requests, Frees(b)
        PROVE  reservedBy'[s] \in {reservedBy[s], None}
    BY <2>2 DEF Frees, FreeSeats
  <2> QED
    BY <2>1, <2>2, SeatStep DEF Inv
<1> QED
  BY <1>1, Invariant, PTL DEF Spec, LiveHoldNotTaken

(***************************************************************************)
(* Who holds the seats of a booking.                                       *)
(***************************************************************************)
Holds(b, s) ==
    /\ seatStatus[s] = "reserved"
    /\ reservedBy[s] = b
    /\ reservedUntil[s] = ExpiresAt(b)

\* While its hold has not lapsed, b counts on its seats from the reservation
\* until its booking ends, and until the one cancellation of it frees them.
Claims(b) ==
    /\ ExpiresAt(b) > clock
    /\ \/ pc[b] = "save"
       \/ status[b] = "pending"
       \/ ~CancelledTwice(b) /\ \E c \in Cancels : target[c] = b /\ cpc[c] = "free"

ClaimInv ==
    \A b \in Requests : Claims(b) =>
        /\ seatIds[b] \subseteq Seats
        /\ \A s \in seatIds[b] : Holds(b, s) \/ Disturbed(s)

\* Two cancellations of a booking stay two cancellations of it.
LEMMA TwiceStays ==
    ASSUME Inv, [Next]_vars, NEW b \in Requests, CancelledTwice(b)
    PROVE  CancelledTwice(b)'
<1>1. PICK c \in Cancels, d \in Cancels : c # d /\ target[c] = b /\ target[d] = b
  BY DEF CancelledTwice
<1>2. target'[c] = b /\ target'[d] = b
  BY <1>1, TargetStays, SetsAssumption DEF Inv
<1> QED
  BY <1>1, <1>2 DEF CancelledTwice

\* A disturbed seat stays disturbed.
LEMMA DisturbedStays ==
    ASSUME Inv, [Next]_vars, NEW s, Disturbed(s)
    PROVE  Disturbed(s)'
<1>1. PICK b \in Requests : /\ s \in seatIds[b]
                            /\ status[b] \in Ended
                            /\ ExpiresAt(b) <= clock \/ CancelledTwice(b)
  BY DEF Disturbed, Ended
<1>2. /\ s \in seatIds'[b]
      /\ status'[b] \in Ended
      /\ now'[b] = now[b]
      /\ clock <= clock'
  BY <1>1, FrameStep DEF Frame, Ended
<1>3. now[b] \in Nat /\ clock \in Nat /\ clock' \in Nat
  BY TypeStep DEF Inv, TypeOK, CallTypeOK, StoreTypeOK
<1>4. ExpiresAt(b)' <= clock' \/ CancelledTwice(b)'
  BY <1>1, <1>2, <1>3, TwiceStays, TimesAssumption DEF ExpiresAt
<1> QED
  BY <1>1, <1>2, <1>4 DEF Disturbed, Ended

\* A call is about to save because it just reserved, or was so already.
LEMMA SaveStep ==
    ASSUME [Next]_vars, Inv, NEW r \in Requests, pc'[r] = "save"
    PROVE  \/ ReserveSeats(r) /\ ReserveFilter(r)
           \/ pc[r] = "save" /\ UNCHANGED <<now[r], seatIds[r]>>
<1> USE DEF Inv, TypeOK, CallTypeOK
<1>1. ASSUME NEW q \in Requests, NEW ids \in LockKeys, NEW k \in Keys,
             CheckIdempotency(q, ids, k)
      PROVE  pc[r] = "save" /\ UNCHANGED <<now[r], seatIds[r]>>
  BY <1>1 DEF CheckIdempotency, Goto
<1>2. ASSUME NEW q \in Requests, CreateStep(q) \/ OperationFails(q) \/ Crash(q),
             ~(ReserveSeats(r) /\ ReserveFilter(r))
      PROVE  pc[r] = "save" /\ UNCHANGED <<now[r], seatIds[r]>>
  BY <1>2 DEF CreateStep, AcquireLock, ReadShow, ReserveSeats, SaveBooking,
              ReleaseLock, OperationFails, Crash, Goto
<1>3. CASE UNCHANGED callVars
  BY <1>3 DEF callVars
<1> QED
  BY <1>1, <1>2, <1>3
  DEF Next, vars, FindBooking, CancelStep, MarkCancelled, FreeCancelled,
      CancelFails, WorkerStep, ScanExpired, MarkExpired, FreeExpired,
      SkipFailed, RestartWorker, Deactivate, Tick

\* A cancellation is about to free the seats because it just marked the
\* booking cancelled, or was so already.
LEMMA FreeStep ==
    ASSUME [Next]_vars, Inv, NEW c \in Cancels, cpc'[c] = "free"
    PROVE  /\ target'[c] = target[c]
           /\ cpc[c] = "free" \/ (cpc[c] = "mark" /\ MarkCancelled(c))
<1> USE DEF Inv, TypeOK, CancelTypeOK
<1>1. ASSUME NEW d \in Cancels, NEW b \in Requests, NEW mine \in BOOLEAN,
             FindBooking(d, b, mine)
      PROVE  target'[c] = target[c] /\ cpc[c] = "free"
  BY <1>1 DEF FindBooking
<1>2. ASSUME NEW d \in Cancels, CancelStep(d) \/ CancelFails(d)
      PROVE  /\ target'[c] = target[c]
             /\ cpc[c] = "free" \/ (cpc[c] = "mark" /\ MarkCancelled(c))
  BY <1>2 DEF CancelStep, MarkCancelled, FreeCancelled, CancelFails
<1>3. CASE UNCHANGED cancelVars
  BY <1>3 DEF cancelVars
<1> QED
  BY <1>1, <1>2, <1>3, CancelSteps

\* A booking that claims its seats claimed them before, or just reserved them.
LEMMA ClaimOrigin ==
    ASSUME Inv, [Next]_vars, NEW b \in Requests, Claims(b)',
           ~(ReserveSeats(b) /\ ReserveFilter(b))
    PROVE  Claims(b) /\ UNCHANGED <<now[b], seatIds[b]>>
<1>1. /\ now[b] \in Nat /\ now'[b] \in Nat /\ clock \in Nat /\ clock' \in Nat
      /\ clock <= clock'
  BY TypeStep, FrameStep DEF Inv, TypeOK, CallTypeOK, StoreTypeOK, Frame
<1>2. UNCHANGED now[b] => ExpiresAt(b) > clock
  BY <1>1, TimesAssumption DEF Claims, ExpiresAt
<1>3. CASE pc'[b] = "save"
  BY <1>2, <1>3, SaveStep DEF Claims
<1>4. CASE status'[b] = "pending"
  <2>1. CASE status[b] = "pending"
    BY <1>2, <2>1, FrameStep DEF Claims, Frame
  <2>2. CASE status[b] # "pending"
    BY <1>2, <1>4, <2>2, EndStep DEF Claims, SaveBooking, Inv
  <2> QED
    BY <2>1, <2>2
<1>5. ASSUME NEW c \in Cancels, target'[c] = b, cpc'[c] = "free",
             ~CancelledTwice(b)'
      PROVE  Claims(b) /\ UNCHANGED <<now[b], seatIds[b]>>
  <2>1. target[c] = b /\ ~CancelledTwice(b)
    BY <1>5, FreeStep, TwiceStays
  <2>2. status[b] # "none"
    BY <2>1, SetsAssumption DEF Inv, CancelInv
  <2>3. UNCHANGED <<now[b], seatIds[b]>>
    BY <2>2, FrameStep DEF Frame
  <2>4. CASE cpc[c] = "free"
    BY <1>2, <2>1, <2>3, <2>4 DEF Claims
  <2>5. CASE cpc[c] = "mark"
    <3>1. status[b] # "cancelled"
      BY <2>1, <2>5 DEF Inv, EndedInv, CancelledTwice
    <3>2. status[b] # "expired"
      BY <1>1, <1>2, <2>3, TimesAssumption DEF Inv, EndedInv, ExpiresAt
    <3>3. status[b] = "pending"
      BY <2>2, <3>1, <3>2 DEF Inv, CallInv, Ended
    <3> QED
      BY <1>2, <2>3, <3>3 DEF Claims
  <2> QED
    BY <1>5, <2>4, <2>5, FreeStep
<1> QED
  BY <1>3, <1>4, <1>5 DEF Claims

\* When the seats of a booking are freed, one of them that another booking
\* claims is disturbed: the freed booking has lapsed, is cancelled twice, or
\* had lost that seat.
LEMMA FreesDisturbs ==
    ASSUME Inv, ClaimInv, [Next]_vars, NEW e \in Requests, Frees(e),
           NEW b \in Requests, Claims(b), Claims(b)',
           NEW s \in seatIds[b], s \in seatIds[e]
    PROVE  Disturbed(s)
<1>1. ASSUME NEW w \in Workers, current[w] = e, FreeExpired(w)
      PROVE  Disturbed(s)
  <2>1. status[e] \in Ended /\ ExpiresAt(e) < clock
    BY <1>1 DEF Inv, WorkerInv, FreeExpired
  <2>2. ExpiresAt(e) \in Nat /\ clock \in Nat
    BY TimesAssumption DEF Inv, TypeOK, CallTypeOK, StoreTypeOK, ExpiresAt
  <2> QED
    BY <2>1, <2>2 DEF Disturbed, Ended
<1>2. ASSUME NEW c \in Cancels, target[c] = e, FreeCancelled(c)
      PROVE  Disturbed(s)
  <2>1. cpc[c] = "free" /\ status[e] = "cancelled" /\ cpc' = [cpc EXCEPT ![c] = "done"]
    BY <1>2 DEF FreeCancelled, Inv, CancelInv
  <2>2. CASE ExpiresAt(e) <= clock \/ CancelledTwice(e)
    BY <2>1, <2>2 DEF Disturbed
  <2>3. CASE ~(ExpiresAt(e) <= clock) /\ ~CancelledTwice(e)
    <3>1. ExpiresAt(e) > clock
      BY <2>3, TimesAssumption
      DEF Inv, TypeOK, CallTypeOK, StoreTypeOK, ExpiresAt
    <3>2. Claims(e)
      BY <1>2, <2>1, <2>3, <3>1 DEF Claims
    <3>3. Holds(e, s) \/ Disturbed(s)
      BY <3>2 DEF ClaimInv
    <3>4. Holds(b, s) \/ Disturbed(s)
      BY DEF ClaimInv
    <3>5. e # b
      <4> SUFFICES ASSUME e = b PROVE FALSE
        OBVIOUS
      <4>1. pc'[b] # "save" /\ status'[b] # "pending"
        BY <1>2, <2>1 DEF FreeCancelled, callVars, Inv, CallInv
      <4>2. ASSUME NEW d \in Cancels, target'[d] = b, cpc'[d] = "free"
            PROVE  CancelledTwice(b)'
        BY <1>2, <2>1, <4>2 DEF FreeCancelled, CancelledTwice, Inv, TypeOK, CancelTypeOK
      <4> QED
        BY <4>1, <4>2 DEF Claims
    <3> QED
      BY <3>3, <3>4, <3>5 DEF Holds
  <2> QED
    BY <2>2, <2>3
<1> QED
  BY <1>1, <1>2 DEF Frees

\* Every step keeps ClaimInv.
LEMMA ClaimStep == Inv /\ ClaimInv /\ [Next]_vars => ClaimInv'
<1> SUFFICES ASSUME Inv, ClaimInv, [Next]_vars, NEW b \in Requests, Claims(b)'
             PROVE  /\ seatIds'[b] \subseteq Seats
                    /\ \A s \in seatIds'[b] : Holds(b, s)' \/ Disturbed(s)'
  BY DEF ClaimInv
<1>1. CASE ReserveSeats(b) /\ ReserveFilter(b)
  <2>1. seatIds[b] \subseteq Seats /\ seatIds' = seatIds /\ now' = now
    BY <1>1 DEF ReserveSeats, Inv, CallInv
  <2>2. \A s \in seatIds[b] : Holds(b, s)'
    BY <1>1, <2>1 DEF ReserveSeats, Holds, ExpiresAt
  <2> QED
    BY <2>1, <2>2
<1>2. CASE ~(ReserveSeats(b) /\ ReserveFilter(b))
  <2>1. Claims(b) /\ now'[b] = now[b] /\ seatIds'[b] = seatIds[b]
    BY <1>2, ClaimOrigin
  <2>2. seatIds[b] \subseteq Seats
    BY <2>1 DEF ClaimInv
  <2> SUFFICES ASSUME NEW s \in seatIds[b] PROVE Holds(b, s)' \/ Disturbed(s)'
    BY <2>1, <2>2
  <2>3. CASE Disturbed(s)
    BY <2>3, DisturbedStays
  <2>4. CASE Holds(b, s)
    <3>1. ASSUME NEW r \in Requests, ReserveSeats(r), ReserveFilter(r)
          PROVE  Holds(b, s)'
      <4>1. ExpiresAt(b) \in Nat /\ clock \in Nat
        BY TimesAssumption DEF Inv, TypeOK, CallTypeOK, StoreTypeOK, ExpiresAt
      <4>2. s \notin seatIds[r]
        BY <2>1, <2>2, <2>4, <3>1, <4>1, FilterRespectsHolds DEF Holds, Claims
      <4> QED
        BY <2>1, <2>2, <2>4, <3>1, <4>2 DEF ReserveSeats, Holds, ExpiresAt
    <3>2. ASSUME NEW e \in Requests, Frees(e), s \in seatIds[e]
          PROVE  Disturbed(s)'
      BY <2>1, <3>2, FreesDisturbs, DisturbedStays
    <3>3. ASSUME NEW e \in Requests, Frees(e), s \notin seatIds[e]
          PROVE  Holds(b, s)'
      BY <2>1, <2>2, <2>4, <3>3 DEF Frees, FreeSeats, Holds, ExpiresAt
    <3>4. CASE UNCHANGED <<seatStatus, reservedBy, reservedUntil>>
      BY <2>1, <2>4, <3>4 DEF Holds, ExpiresAt
    <3> QED
      BY <3>1, <3>2, <3>3, <3>4, SeatStep DEF Inv
  <2> QED
    BY <2>1, <2>3, <2>4 DEF ClaimInv
<1> QED
  BY <1>1, <1>2

\* What a booking claims it holds, in every state.
THEOREM ClaimInvariant == Spec => []ClaimInv
<1>1. Init => ClaimInv
  BY DEF Init, ClaimInv, Claims
<1> QED
  BY <1>1, ClaimStep, Invariant, PTL DEF Spec

\* A live booking holds each of its seats that was not disturbed.
THEOREM LiveBookingAlwaysHolds == Spec => []LiveBookingHoldsItsSeats
<1>1. ClaimInv => LiveBookingHoldsItsSeats
  BY DEF ClaimInv, LiveBookingHoldsItsSeats, Live, Claims, Holds
<1> QED
  BY <1>1, ClaimInvariant, PTL

(***************************************************************************)
(* Whose a reserved seat is.                                               *)
(***************************************************************************)
HasReserved == {"save", "release", "done"}

\* Booking b is pending, a step that settles it is to come, or it failed.
Accounted(b) ==
    \/ status[b] = "pending"
    \/ ToBeSettled(b)
    \/ b \in unfreed
    \/ result[b] \in {"duplicate", "error", "crashed"}

\* Seat s is in the list of b, until the end of the hold of b.
HeldFor(s, b) ==
    /\ s \in seatIds[b]
    /\ pc[b] \in HasReserved
    /\ reservedUntil[s] = ExpiresAt(b)
    /\ Accounted(b)

HolderAccounted ==
    \A s \in Seats : seatStatus[s] = "reserved" =>
        \E b \in Requests : reservedBy[s] = b /\ HeldFor(s, b)

\* What a call has reserved, it keeps in its list.
LEMMA ReservedStays ==
    ASSUME TypeOK, [Next]_vars, NEW b \in Requests, pc[b] \in HasReserved
    PROVE  pc'[b] \in HasReserved /\ UNCHANGED <<now[b], seatIds[b]>>
<1> USE DEF TypeOK, CallTypeOK, HasReserved
<1>1. ASSUME NEW r \in Requests, NEW ids \in LockKeys, NEW k \in Keys,
             CheckIdempotency(r, ids, k)
      PROVE  pc'[b] \in HasReserved /\ UNCHANGED <<now[b], seatIds[b]>>
  BY <1>1 DEF CheckIdempotency, Goto
<1>2. ASSUME NEW r \in Requests, CreateStep(r) \/ OperationFails(r) \/ Crash(r)
      PROVE  pc'[b] \in HasReserved /\ UNCHANGED <<now[b], seatIds[b]>>
  BY <1>2 DEF CreateStep, AcquireLock, ReadShow, ReserveSeats, SaveBooking,
              ReleaseLock, OperationFails, Crash, Goto
<1>3. CASE UNCHANGED callVars
  BY <1>3 DEF callVars
<1> QED
  BY <1>1, <1>2, <1>3
  DEF Next, vars, FindBooking, CancelStep, MarkCancelled, FreeCancelled,
      CancelFails, WorkerStep, ScanExpired, MarkExpired, FreeExpired,
      SkipFailed, RestartWorker, Deactivate, Tick

\* The step that settles b stays to come until it is taken or fails.
LEMMA AccountedStays ==
    ASSUME TypeOK, CancelInv, [Next]_vars, NEW b \in Requests,
           pc[b] \in HasReserved, Accounted(b), ~Frees(b)
    PROVE  Accounted(b)'
<1> USE DEF Accounted, ToBeSettled, Unfinished, TypeOK
<1>1. ASSUME NEW r \in Requests, NEW ids \in LockKeys, NEW k \in Keys,
             CheckIdempotency(r, ids, k)
      PROVE  Accounted(b)'
  BY <1>1 DEF CheckIdempotency, Goto, HasReserved, CallTypeOK, cancelVars,
              workerVars, faultVars
<1>2. ASSUME NEW r \in Requests, AcquireLock(r) \/ ReadShow(r) \/ ReserveSeats(r)
      PROVE  Accounted(b)'
  BY <1>2 DEF AcquireLock, ReadShow, ReserveSeats, Goto, HasReserved,
              CallTypeOK, cancelVars, workerVars, faultVars
<1>3. ASSUME NEW r \in Requests, SaveBooking(r) PROVE Accounted(b)'
  <2>1. UNCHANGED <<cancelVars, workerVars, unfreed>>
    BY <1>3 DEF SaveBooking, Publish, faultVars
  <2>2. \/ r = b /\ (status'[b] = "pending" \/ result'[b] = "duplicate")
        \/ r # b /\ UNCHANGED <<status[b], pc[b], result[b]>>
    BY <1>3 DEF SaveBooking, Goto, CallTypeOK, StoreTypeOK
  <2> QED
    BY <2>1, <2>2 DEF cancelVars, workerVars
<1>4. ASSUME NEW r \in Requests, ReleaseLock(r) PROVE Accounted(b)'
  BY <1>4 DEF ReleaseLock, CallTypeOK, cancelVars, workerVars, faultVars
<1>5. ASSUME NEW r \in Requests, OperationFails(r) \/ Crash(r)
      PROVE  Accounted(b)'
  BY <1>5 DEF OperationFails, Crash, Goto, CallTypeOK, cancelVars, workerVars
<1>6. ASSUME NEW c \in Cancels, NEW e \in Requests, NEW mine \in BOOLEAN,
             FindBooking(c, e, mine)
      PROVE  Accounted(b)'
  BY <1>6 DEF FindBooking, CancelTypeOK, callVars, workerVars, faultVars
<1>7. ASSUME NEW c \in Cancels, MarkCancelled(c) PROVE Accounted(b)'
  BY <1>7 DEF MarkCancelled, CancelTypeOK, StoreTypeOK, callVars, workerVars,
              faultVars
<1>8. ASSUME NEW c \in Cancels, FreeCancelled(c) PROVE Accounted(b)'
  <2>1. target[c] # b
    BY <1>8 DEF Frees, FreeCancelled
  <2>2. UNCHANGED <<status, callVars, target, workerVars, unfreed>>
    BY <1>8 DEF FreeCancelled, Publish, faultVars
  <2>3. \A d \in Cancels : cpc[d] = "free" /\ target[d] = b => cpc'[d] = "free"
    BY <1>8, <2>1 DEF FreeCancelled, CancelTypeOK
  <2> QED
    BY <2>2, <2>3 DEF callVars, workerVars
<1>9. ASSUME NEW c \in Cancels, CancelFails(c) PROVE Accounted(b)'
  BY <1>9 DEF CancelFails, CancelTypeOK, callVars, workerVars
<1>10. ASSUME NEW w \in Workers, ScanExpired(w) PROVE Accounted(b)'
  BY <1>10 DEF ScanExpired, NextInBatch, WorkerTypeOK, callVars, cancelVars,
               faultVars
<1>11. ASSUME NEW w \in Workers, NEW e \in Requests, MarkExpired(w, e)
       PROVE  Accounted(b)'
  BY <1>11 DEF MarkExpired, NextInBatch, WorkerTypeOK, StoreTypeOK, callVars,
               cancelVars, faultVars
<1>12. ASSUME NEW w \in Workers, FreeExpired(w) PROVE Accounted(b)'
  <2>1. current[w] # b
    BY <1>12 DEF Frees, FreeExpired
  <2>2. UNCHANGED <<status, callVars, cancelVars, unfreed>>
    BY <1>12 DEF FreeExpired, Publish, faultVars
  <2>3. \A v \in Workers : wpc[v] = "free" /\ current[v] = b =>
                               wpc'[v] = "free" /\ current'[v] = b
    BY <1>12, <2>1 DEF FreeExpired, NextInBatch, WorkerTypeOK
  <2> QED
    BY <2>2, <2>3 DEF callVars, cancelVars
<1>13. ASSUME NEW w \in Workers, SkipFailed(w) \/ RestartWorker(w)
       PROVE  Accounted(b)'
  <2>1. /\ UNCHANGED <<status, callVars, cancelVars>>
        /\ unfreed' = unfreed \cup Unfinished(w)
    BY <1>13 DEF SkipFailed, RestartWorker
  <2>2. \A v \in Workers \ {w} : UNCHANGED <<wpc[v], current[v]>>
    BY <1>13 DEF SkipFailed, RestartWorker, NextInBatch, WorkerTypeOK
  <2> QED
    BY <2>1, <2>2 DEF callVars, cancelVars
<1>14. CASE Deactivate \/ Tick \/ UNCHANGED vars
  BY <1>14 DEF Deactivate, Tick, vars, callVars, cancelVars, workerVars, faultVars
<1> QED
  BY <1>1, <1>2, <1>3, <1>4, <1>5, <1>6, <1>7, <1>8, <1>9, <1>10, <1>11,
     <1>12, <1>13, <1>14
  DEF Next, CreateStep, CancelStep, WorkerStep

\* Every step keeps HolderAccounted.
LEMMA HolderAccountedStep ==
    Inv /\ HolderAccounted /\ [Next]_vars => HolderAccounted'
<1> SUFFICES ASSUME Inv, HolderAccounted, [Next]_vars,
                    NEW s \in Seats, seatStatus'[s] = "reserved"
             PROVE  \E b \in Requests : reservedBy'[s] = b /\ HeldFor(s, b)'
  BY DEF HolderAccounted
<1>1. ASSUME NEW b \in Requests, HeldFor(s, b), ~Frees(b),
             UNCHANGED <<reservedBy[s], reservedUntil[s]>>
      PROVE  HeldFor(s, b)'
  <2>1. TypeOK /\ CancelInv
    BY DEF Inv
  <2>2. pc'[b] \in HasReserved /\ UNCHANGED <<now[b], seatIds[b]>>
    BY <1>1, <2>1, ReservedStays DEF HeldFor
  <2>3. Accounted(b)'
    BY <1>1, <2>1, AccountedStays DEF HeldFor
  <2> QED
    BY <1>1, <2>2, <2>3 DEF HeldFor, ExpiresAt
<1>2. ASSUME seatStatus[s] = "reserved",
             UNCHANGED <<reservedBy[s], reservedUntil[s]>>,
             \A b \in Requests : s \in seatIds[b] => ~Frees(b)
      PROVE  \E b \in Requests : reservedBy'[s] = b /\ HeldFor(s, b)'
  <2>1. PICK b \in Requests : reservedBy[s] = b /\ HeldFor(s, b)
    BY <1>2 DEF HolderAccounted
  <2>2. HeldFor(s, b)'
    BY <1>1, <1>2, <2>1 DEF HeldFor
  <2> QED
    BY <1>2, <2>1, <2>2
<1>3. ASSUME NEW b \in Requests, s \in seatIds[b] PROVE ~Frees(b)
  BY <1>3 DEF Frees, FreeSeats
<1>4. ASSUME NEW r \in Requests, ReserveSeats(r), ReserveFilter(r)
      PROVE  \E b \in Requests : reservedBy'[s] = b /\ HeldFor(s, b)'
  <2>1. CASE s \in seatIds[r]
    <3>1. reservedBy'[s] = r /\ reservedUntil'[s] = ExpiresAt(r)
      BY <1>4, <2>1 DEF ReserveSeats
    <3>2. s \in seatIds'[r] /\ now' = now /\ pc'[r] = "save"
      BY <1>4, <2>1 DEF ReserveSeats, Goto, Inv, TypeOK, CallTypeOK
    <3>3. Accounted(r)'
      BY <3>2 DEF Accounted, ToBeSettled
    <3> QED
      BY <3>1, <3>2, <3>3 DEF HeldFor, HasReserved, ExpiresAt
  <2>2. CASE s \notin seatIds[r]
    BY <1>2, <1>3, <1>4, <2>2 DEF ReserveSeats
  <2> QED
    BY <2>1, <2>2
<1>5. ASSUME NEW e \in Requests, Frees(e)
      PROVE  \E b \in Requests : reservedBy'[s] = b /\ HeldFor(s, b)'
  <2>1. /\ seatStatus[s] = "reserved"
        /\ UNCHANGED <<reservedBy[s], reservedUntil[s]>>
    BY <1>5 DEF Frees, FreeSeats
  <2> QED
    BY <1>2, <1>3, <2>1
<1>6. CASE UNCHANGED <<seatStatus, reservedBy, reservedUntil>>
  BY <1>2, <1>3, <1>6
<1> QED
  BY <1>4, <1>5, <1>6, SeatStep DEF Inv

\* No seat stays reserved for a booking nobody will settle, unless that was
\* tried and failed, and then for its hold at the most.
THEOREM SeatsAlwaysAccountedFor == Spec => []SeatsAreAccountedFor
<1>1. Init => HolderAccounted
  BY DEF Init, HolderAccounted
<1>2. HolderAccounted => SeatsAreAccountedFor
  <2> SUFFICES ASSUME HolderAccounted, NEW s \in Seats,
                      seatStatus[s] = "reserved", NEW b \in Requests,
                      reservedBy[s] = b, HeldFor(s, b)
               PROVE  \/ status[b] = "pending"
                      \/ ToBeSettled(b)
                      \/ /\ \/ b \in unfreed
                            \/ result[b] \in {"duplicate", "error", "crashed"}
                         /\ Unavailable(s, clock) => ExpiresAt(b) > clock
    BY DEF SeatsAreAccountedFor, HolderAccounted
  <2> QED
    BY DEF HeldFor, Accounted, Unavailable
<1> QED
  BY <1>1, <1>2, HolderAccountedStep, Invariant, PTL DEF Spec

(***************************************************************************)
(* The service implements SeatHolds.                                       *)
(***************************************************************************)

\* A seat with a holder is reserved.
HolderInv == \A s \in Seats : reservedBy[s] # None => seatStatus[s] = "reserved"

\* HolderInv is an invariant: holder and status of a seat change together.
THEOREM HolderInvariant == Spec => []HolderInv
<1>1. Init => HolderInv
  BY DEF Init, HolderInv
<1>2. Inv /\ HolderInv /\ [Next]_vars => HolderInv'
  <2> SUFFICES ASSUME Inv, HolderInv, [Next]_vars PROVE HolderInv'
    OBVIOUS
  <2>1. ASSUME NEW r \in Requests, ReserveSeats(r), ReserveFilter(r)
        PROVE  HolderInv'
    BY <2>1 DEF ReserveSeats, HolderInv
  <2>2. ASSUME NEW b \in Requests, Frees(b) PROVE HolderInv'
    BY <2>2 DEF Frees, FreeSeats, HolderInv
  <2>3. CASE UNCHANGED <<seatStatus, reservedBy, reservedUntil>>
    BY <2>3 DEF HolderInv
  <2> QED
    BY <2>1, <2>2, <2>3, SeatStep DEF Inv
<1> QED
  BY <1>1, <1>2, Invariant, PTL DEF Spec

\* A successful reservation takes the seats as SeatHolds does, though it judged
\* them by the version and the time the call read before.
LEMMA ReserveTakes ==
    ASSUME Inv, HolderInv, NEW r \in Requests, ReserveSeats(r), ReserveFilter(r)
    PROVE  Promise!Take(r, seatIds[r])
<1>1. /\ status[r] = "none"
      /\ seatIds[r] \subseteq Seats
      /\ now[r] <= clock
  BY DEF ReserveSeats, Inv, CallInv
<1>2. ASSUME NEW s \in seatIds[r] PROVE Promise!Takeable(s)
  BY <1>1, FilterRespectsHolds DEF HolderInv, Promise!Takeable
<1>3. ExpiresAt(r) \in Hold .. clock + Hold
  BY <1>1, TimesAssumption
  DEF ExpiresAt, Inv, TypeOK, CallTypeOK, StoreTypeOK
<1>4. /\ reservedBy' = [s \in Seats |-> IF s \in seatIds[r] THEN r ELSE reservedBy[s]]
      /\ reservedUntil' = [s \in Seats |-> IF s \in seatIds[r] THEN ExpiresAt(r)
                                                        ELSE reservedUntil[s]]
      /\ UNCHANGED <<clock, status>>
  BY DEF ReserveSeats
<1> QED
  BY <1>1, <1>2, <1>3, <1>4 DEF Promise!Take

\* What the code frees, SeatHolds frees for an ended booking.
LEMMA FreesFrees ==
    ASSUME Inv, NEW b \in Requests, Frees(b)
    PROVE  Promise!Free(b, seatIds[b] \cap Seats)
<1>1. status[b] \in Ended /\ UNCHANGED <<clock, status>>
  <2>1. ASSUME NEW c \in Cancels, target[c] = b, FreeCancelled(c)
        PROVE  status[b] \in Ended /\ UNCHANGED <<clock, status>>
    BY <2>1 DEF FreeCancelled, Inv, CancelInv, Ended
  <2>2. ASSUME NEW w \in Workers, current[w] = b, FreeExpired(w)
        PROVE  status[b] \in Ended /\ UNCHANGED <<clock, status>>
    BY <2>2 DEF FreeExpired, Inv, WorkerInv
  <2> QED
    BY <2>1, <2>2 DEF Frees
<1>2. /\ reservedBy' = [s \in Seats |-> IF s \in seatIds[b] \cap Seats
                                          THEN None ELSE reservedBy[s]]
      /\ reservedUntil' = [s \in Seats |-> IF s \in seatIds[b] \cap Seats
                                             THEN 0 ELSE reservedUntil[s]]
  BY DEF Frees, FreeSeats
<1> QED
  BY <1>1, <1>2 DEF Promise!Free, Promise!Ended, Ended

\* A step that changes a booking's status records or ends a booking.
LEMMA StatusRecordsOrEnds ==
    ASSUME Inv, [Next]_vars, UNCHANGED <<reservedBy, reservedUntil>>,
           status' # status
    PROVE  \E b \in Requests : Promise!Record(b) \/ Promise!End(b)
<1>1. PICK b \in Requests : status'[b] # status[b]
  BY TypeStep DEF Inv, TypeOK, StoreTypeOK
<1>2. CASE status[b] = "none" /\ SaveBooking(b)
  <2>1. status' = [status EXCEPT ![b] = "pending"] /\ clock' = clock
    BY <1>1, <1>2 DEF SaveBooking
  <2> QED
    BY <1>2, <2>1 DEF Promise!Record
<1>3. ASSUME NEW c \in Cancels, target[c] = b, MarkCancelled(c)
      PROVE  Promise!End(b)
  <2>1. /\ status' = [status EXCEPT ![b] = "cancelled"] /\ clock' = clock
        /\ status[b] # "none"
    BY <1>3, SetsAssumption DEF MarkCancelled, Inv, CancelInv
  <2> QED
    BY <2>1 DEF Promise!End, Promise!Ended
<1>4. ASSUME NEW w \in Workers, MarkExpired(w, b), status[b] = "pending"
      PROVE  Promise!End(b)
  <2>1. status' = [status EXCEPT ![b] = "expired"] /\ clock' = clock
    BY <1>1, <1>4 DEF MarkExpired
  <2> QED
    BY <1>4, <2>1 DEF Promise!End, Promise!Ended
<1> QED
  BY <1>1, <1>2, <1>3, <1>4, EndStep DEF Inv

\* The clock moves by one tick.
LEMMA ClockStep ==
    ASSUME [Next]_vars, clock' # clock
    PROVE  Tick
BY DEF Next, vars, CheckIdempotency, CreateStep, AcquireLock, ReadShow,
       ReserveSeats, SaveBooking, ReleaseLock, OperationFails, Crash,
       FindBooking, CancelStep, MarkCancelled, FreeCancelled, CancelFails,
       WorkerStep, ScanExpired, MarkExpired, FreeExpired, SkipFailed,
       RestartWorker, Deactivate

\* The booking service implements SeatHolds: every step takes seats, frees them,
\* records or ends a booking, lets time pass, or changes nothing SeatHolds sees.
THEOREM Implementation == Spec => ImplementsSeatHolds
<1>1. Init => Promise!Init
  BY DEF Init, Promise!Init
<1>2. Inv /\ HolderInv /\ [Next]_vars => [Promise!Next]_(Promise!vars)
  <2> SUFFICES ASSUME Inv, HolderInv, [Next]_vars
               PROVE  Promise!Next \/ UNCHANGED Promise!vars
    OBVIOUS
  <2>1. ASSUME NEW r \in Requests, ReserveSeats(r), ReserveFilter(r)
        PROVE  Promise!Next
    <3>1. seatIds[r] \in SUBSET Seats
      BY <2>1 DEF ReserveSeats, Inv, CallInv
    <3> QED
      BY <2>1, <3>1, ReserveTakes DEF Promise!Next
  <2>2. ASSUME NEW b \in Requests, Frees(b) PROVE Promise!Next
    <3>1. seatIds[b] \cap Seats \in SUBSET Seats
      OBVIOUS
    <3> QED
      BY <2>2, <3>1, FreesFrees DEF Promise!Next
  <2>3. CASE UNCHANGED <<seatStatus, reservedBy, reservedUntil>>
    <3>1. CASE status' # status
      BY <2>3, <3>1, StatusRecordsOrEnds DEF Promise!Next
    <3>2. CASE status' = status /\ clock' # clock
      BY <2>3, <3>2, ClockStep DEF Tick, Promise!Advance, Promise!Next
    <3>3. CASE status' = status /\ clock' = clock
      BY <2>3, <3>3 DEF Promise!vars
    <3> QED
      BY <3>1, <3>2, <3>3
  <2> QED
    BY <2>1, <2>2, <2>3, SeatStep DEF Inv
<1> QED
  BY <1>1, <1>2, Invariant, HolderInvariant, PTL
  DEF Spec, ImplementsSeatHolds, Promise!Spec

(***************************************************************************)
(* The seat counter.                                                       *)
(***************************************************************************)
AvailableSet == {s \in Seats : seatStatus[s] = "available"}

\* No reservation ends before the first hold of the show can.
LongHolds == \A s \in Seats : seatStatus[s] = "reserved" => reservedUntil[s] >= Hold

\* Nobody has cause to release a seat that is another's.
Undisturbed == clock < Hold /\ \A b \in Requests : ~CancelledTwice(b)

\* No seat of the show is ever reserved for less than a whole hold.
LEMMA LongHoldsStep == Inv /\ LongHolds /\ [Next]_vars => LongHolds'
<1> SUFFICES ASSUME Inv, LongHolds, [Next]_vars PROVE LongHolds'
  OBVIOUS
<1>1. ASSUME NEW r \in Requests, ReserveSeats(r), ReserveFilter(r)
      PROVE  LongHolds'
  <2>1. ExpiresAt(r) >= Hold
    BY TimesAssumption DEF ExpiresAt, Inv, TypeOK, CallTypeOK
  <2> QED
    BY <1>1, <2>1 DEF ReserveSeats, LongHolds
<1>2. ASSUME NEW b \in Requests, Frees(b) PROVE LongHolds'
  BY <1>2 DEF Frees, FreeSeats, LongHolds
<1>3. CASE UNCHANGED <<seatStatus, reservedBy, reservedUntil>>
  BY <1>3 DEF LongHolds
<1> QED
  BY <1>1, <1>2, <1>3, SeatStep DEF Inv

\* What is undisturbed after a step was so before it.
LEMMA UndisturbedBefore ==
    ASSUME Inv, [Next]_vars, Undisturbed'
    PROVE  Undisturbed
<1>1. clock <= clock' /\ clock \in Nat /\ clock' \in Nat
  BY TypeStep, FrameStep DEF Frame, Inv, TypeOK, StoreTypeOK
<1> QED
  BY <1>1, TwiceStays, TimesAssumption DEF Undisturbed

\* A reservation takes only available seats.
LEMMA TakesAvailable ==
    ASSUME Inv, LongHolds, Undisturbed, NEW r \in Requests, ReserveSeats(r),
           ReserveFilter(r)
    PROVE  seatIds[r] \subseteq AvailableSet
<1> SUFFICES ASSUME NEW s \in seatIds[r] PROVE s \in AvailableSet
  OBVIOUS
<1>1. s \in Seats /\ seatStatus[s] \in SeatStatuses
  BY DEF ReserveSeats, Inv, CallInv, TypeOK, ShowTypeOK
<1>2. seatStatus[s] \notin {"booked", "maintenance"}
  BY DEF ReserveFilter, Unavailable
<1>3. seatStatus[s] # "reserved"
  <2> SUFFICES ASSUME seatStatus[s] = "reserved" PROVE FALSE
    OBVIOUS
  <2>1. reservedUntil[s] >= Hold /\ reservedUntil[s] <= clock /\ clock < Hold
    BY <1>1, FilterRespectsHolds DEF LongHolds, Undisturbed
  <2>2. reservedUntil[s] \in Nat /\ clock \in Nat /\ Hold \in Nat
    BY <1>1, TimesAssumption DEF Inv, TypeOK, ShowTypeOK, StoreTypeOK
  <2> QED
    BY <2>1, <2>2
<1> QED
  BY <1>1, <1>2, <1>3 DEF AvailableSet, SeatStatuses

\* What is freed was reserved: no hold can have lapsed, so only the one
\* cancellation of a booking frees seats, and the booking still holds them.
LEMMA FreesReserved ==
    ASSUME Inv, ClaimInv, Undisturbed, NEW b \in Requests, Frees(b)
    PROVE  seatIds[b] \subseteq Seats \ AvailableSet
<1>1. ExpiresAt(b) \in Nat /\ ExpiresAt(b) >= Hold /\ clock \in Nat /\ Hold \in Nat
  BY TimesAssumption DEF ExpiresAt, Inv, TypeOK, CallTypeOK, StoreTypeOK
<1>2. ExpiresAt(b) > clock /\ ~(ExpiresAt(b) < clock)
  BY <1>1 DEF Undisturbed
<1>3. PICK c \in Cancels : target[c] = b /\ cpc[c] = "free"
  BY <1>2 DEF Frees, FreeExpired, FreeCancelled, Inv, WorkerInv
<1>4. Claims(b)
  BY <1>2, <1>3 DEF Claims, Undisturbed
<1>5. ASSUME NEW s \in seatIds[b] PROVE ~Disturbed(s)
  <2>1. ASSUME NEW e \in Requests PROVE ~(ExpiresAt(e) <= clock)
    BY TimesAssumption
    DEF ExpiresAt, Undisturbed, Inv, TypeOK, CallTypeOK, StoreTypeOK
  <2> QED
    BY <2>1 DEF Disturbed, Undisturbed
<1> QED
  BY <1>4, <1>5 DEF ClaimInv, Holds, AvailableSet

\* The counter counts the available seats until a hold can have lapsed and
\* while no booking is cancelled twice.
THEOREM SeatCountAlwaysAccurate == Spec => []SeatCountAccurate
<1>1. Init => SeatCountAccurate /\ LongHolds
  <2> SUFFICES ASSUME Init PROVE SeatCountAccurate /\ LongHolds
    OBVIOUS
  <2>1. {s \in Seats : seatStatus[s] = "available"} = Seats
    BY DEF Init
  <2> QED
    BY <2>1 DEF Init, SeatCountAccurate, LongHolds
<1>2. Inv /\ ClaimInv /\ LongHolds /\ SeatCountAccurate /\ [Next]_vars
         => SeatCountAccurate'
  <2> SUFFICES ASSUME Inv, ClaimInv, LongHolds, SeatCountAccurate, [Next]_vars,
                      Undisturbed'
               PROVE  availableSeats' = Cardinality(AvailableSet')
    BY DEF SeatCountAccurate, Undisturbed, AvailableSet
  <2>1. Undisturbed
    BY UndisturbedBefore
  <2>2. availableSeats = Cardinality(AvailableSet)
    BY <2>1 DEF SeatCountAccurate, Undisturbed, AvailableSet
  <2>3. /\ IsFiniteSet(Seats)
        /\ \A S \in SUBSET Seats : IsFiniteSet(S) /\ Cardinality(S) \in Nat
    BY SetsAssumption, FS_Subset, FS_CardinalityType
  <2>4. AvailableSet \in SUBSET Seats
    BY DEF AvailableSet
  <2>5. ASSUME NEW r \in Requests, ReserveSeats(r), ReserveFilter(r)
        PROVE  availableSeats' = Cardinality(AvailableSet')
    <3>1. seatIds[r] \subseteq AvailableSet
      BY <2>1, <2>5, TakesAvailable
    <3>2. AvailableSet' = AvailableSet \ seatIds[r]
      BY <2>5 DEF ReserveSeats, AvailableSet
    <3>3. AvailableSet \cap seatIds[r] = seatIds[r] /\ seatIds[r] \in SUBSET Seats
      BY <2>4, <3>1
    <3>4. Cardinality(AvailableSet') = Cardinality(AvailableSet) - Cardinality(seatIds[r])
      BY <2>3, <2>4, <3>2, <3>3, FS_Difference
    <3> QED
      BY <2>2, <2>5, <3>4 DEF ReserveSeats
  <2>6. ASSUME NEW b \in Requests, Frees(b)
        PROVE  availableSeats' = Cardinality(AvailableSet')
    <3>1. seatIds[b] \subseteq Seats \ AvailableSet
      BY <2>1, <2>6, FreesReserved
    <3>2. AvailableSet' = AvailableSet \cup seatIds[b]
      BY <2>6, <3>1 DEF Frees, FreeSeats, AvailableSet
    <3>3. AvailableSet \cap seatIds[b] = {} /\ seatIds[b] \in SUBSET Seats
      BY <3>1
    <3>4. Cardinality(AvailableSet') = Cardinality(AvailableSet) + Cardinality(seatIds[b])
      <4>1. Cardinality(AvailableSet \cup seatIds[b]) =
               Cardinality(AvailableSet) + Cardinality(seatIds[b]) - Cardinality({})
        BY <2>3, <2>4, <3>3, FS_Union
      <4> QED
        BY <2>3, <2>4, <3>2, <3>3, <4>1, FS_EmptySet
    <3> QED
      BY <2>2, <2>6, <3>4 DEF Frees, FreeSeats
  <2>7. CASE UNCHANGED <<seatStatus, availableSeats>>
    BY <2>2, <2>7 DEF AvailableSet
  <2> QED
    BY <2>5, <2>6, <2>7, SeatStep DEF Inv
<1> QED
  BY <1>1, <1>2, LongHoldsStep, Invariant, ClaimInvariant, PTL DEF Spec

(***************************************************************************)
(* Bookings.                                                               *)
(***************************************************************************)

\* The unique index and the look-up leave one booking per idempotency key.
THEOREM AlwaysOneBookingPerKey == Spec => []OneBookingPerKey
<1>1. Init => OneBookingPerKey
  BY DEF Init, OneBookingPerKey
<1>2. Inv /\ OneBookingPerKey /\ [Next]_vars => OneBookingPerKey'
  <2> SUFFICES ASSUME Inv, OneBookingPerKey, [Next]_vars,
                      NEW a \in Requests, NEW b \in Requests,
                      status'[a] # "none", status'[b] # "none",
                      key'[a] = key'[b]
               PROVE  a = b
    BY DEF OneBookingPerKey
  <2>1. \A r \in Requests : status[r] # "none" => key'[r] = key[r]
    BY FrameStep DEF Frame
  <2>2. ASSUME NEW r \in Requests, status[r] = "none", status'[r] # "none"
        PROVE  SaveBooking(r) /\ ~KeyTaken(r)
    <3>1. SaveBooking(r)
      BY <2>2, EndStep, SetsAssumption DEF Inv, CancelInv
    <3> QED
      BY <2>2, <3>1 DEF SaveBooking
  <2>3. ASSUME NEW r \in Requests, NEW q \in Requests, SaveBooking(r),
               ~KeyTaken(r), key'[q] = key'[r], status'[q] # "none"
        PROVE  q = r
    BY <2>3 DEF SaveBooking, KeyTaken, Inv, TypeOK, StoreTypeOK
  <2> QED
    BY <2>1, <2>2, <2>3 DEF OneBookingPerKey
<1> QED
  BY <1>1, <1>2, Invariant, PTL DEF Spec

\* A booking never leaves its end.
THEOREM StatusAlwaysOrdered == Spec => StatusOrder
<1>1. Inv /\ [Next]_vars =>
        [\A b \in Requests :
           status'[b] # status[b] =>
              <<status[b], status'[b]>> \in
                  {<<"none", "pending">>, <<"pending", "cancelled">>,
                   <<"pending", "expired">>, <<"expired", "cancelled">>}]_vars
  <2> SUFFICES ASSUME Inv, [Next]_vars, NEW b \in Requests,
                      status'[b] # status[b]
               PROVE  \/ status[b] = "none" /\ status'[b] = "pending"
                      \/ status[b] = "pending" /\ status'[b] \in Ended
                      \/ status[b] = "expired" /\ status'[b] = "cancelled"
    BY DEF Ended
  <2>1. ASSUME NEW c \in Cancels, target[c] = b, status'[b] = "cancelled"
        PROVE  status[b] \in {"pending", "expired"}
    BY <2>1, SetsAssumption DEF Inv, CallInv, CancelInv, Ended
  <2> QED
    BY <2>1, EndStep DEF Inv, Ended
<1> QED
  BY <1>1, Invariant, PTL DEF Spec, StatusOrder

\* What an event says is still true when it is read.
THEOREM EventsAlwaysTrue == Spec => []EventsAreTrue
<1>1. Init => EventsAreTrue
  BY DEF Init, EventsAreTrue
<1>2. Inv /\ EventsAreTrue /\ [Next]_vars => EventsAreTrue'
  <2> SUFFICES ASSUME Inv, EventsAreTrue, [Next]_vars, NEW b \in Requests
               PROVE  /\ <<"created", b>> \in events' => status'[b] # "none"
                      /\ <<"cancelled", b>> \in events' => status'[b] = "cancelled"
                      /\ <<"expired", b>> \in events' => status'[b] \in Ended
    BY DEF EventsAreTrue, Ended
  <2>1. /\ <<"created", b>> \in events => status'[b] # "none"
        /\ <<"cancelled", b>> \in events => status'[b] = "cancelled"
        /\ <<"expired", b>> \in events => status'[b] \in Ended
    BY FrameStep DEF Frame, EventsAreTrue, Ended
  <2>2. CASE UNCHANGED events
    BY <2>1, <2>2
  <2>3. ASSUME NEW r \in Requests, SaveBooking(r), Publish("created", r)
        PROVE  /\ events' \subseteq events \cup {<<"created", r>>}
               /\ status'[r] # "none" \/ UNCHANGED events
    BY <2>3 DEF SaveBooking, Publish, Inv, TypeOK, StoreTypeOK
  <2>4. ASSUME NEW c \in Cancels, FreeCancelled(c)
        PROVE  /\ events' \subseteq events \cup {<<"cancelled", target[c]>>}
               /\ status'[target[c]] = "cancelled"
    BY <2>4 DEF FreeCancelled, Publish, Inv, CancelInv
  <2>5. ASSUME NEW w \in Workers, FreeExpired(w)
        PROVE  /\ events' \subseteq events \cup {<<"expired", current[w]>>}
               /\ status'[current[w]] \in Ended
    BY <2>5 DEF FreeExpired, Publish, Inv, WorkerInv
  <2>6. \/ UNCHANGED events
        \/ \E r \in Requests : SaveBooking(r) /\ Publish("created", r)
        \/ \E c \in Cancels : FreeCancelled(c)
        \/ \E w \in Workers : FreeExpired(w)
    BY DEF Next, vars, CheckIdempotency, CreateStep, AcquireLock, ReadShow,
           ReserveSeats, SaveBooking, ReleaseLock, OperationFails, Crash,
           FindBooking, CancelStep, MarkCancelled, CancelFails, WorkerStep,
           ScanExpired, MarkExpired, SkipFailed, RestartWorker, Deactivate, Tick
  <2> QED
    BY <2>1, <2>2, <2>3, <2>4, <2>5, <2>6
<1> QED
  BY <1>1, <1>2, Invariant, PTL DEF Spec

(***************************************************************************)
(* The seat lock.                                                          *)
(***************************************************************************)

\* Only its owner, or its time to live, takes a lock away.
THEOREM LockAlwaysReleasedByOwner == Spec => LockReleasedByOwner
<1>1. TypeOK /\ [Next]_vars =>
        [\A k \in LockKeys :
           lockOwner[k] # None /\ lockOwner'[k] # lockOwner[k] =>
              \/ pc[lockOwner[k]] = "release" /\ pc'[lockOwner[k]] = "done"
              \/ lockUntil[k] <= clock']_vars
  <2> SUFFICES ASSUME TypeOK, [Next]_vars, NEW k \in LockKeys,
                      lockOwner[k] # None, lockOwner'[k] # lockOwner[k]
               PROVE  \/ pc[lockOwner[k]] = "release" /\ pc'[lockOwner[k]] = "done"
                      \/ lockUntil[k] <= clock'
    OBVIOUS
  <2> USE DEF TypeOK, StoreTypeOK, CallTypeOK
  <2>1. ASSUME NEW r \in Requests, AcquireLock(r) PROVE FALSE
    BY <2>1 DEF AcquireLock, lockVars
  <2>2. ASSUME NEW r \in Requests, ReleaseLock(r)
        PROVE  pc[lockOwner[k]] = "release" /\ pc'[lockOwner[k]] = "done"
    BY <2>2 DEF ReleaseLock, OwnsLock, lockVars
  <2>3. CASE Tick
    BY <2>3 DEF Tick
  <2>4. UNCHANGED lockVars => FALSE
    BY DEF lockVars
  <2> QED
    BY <2>1, <2>2, <2>3, <2>4
    DEF Next, vars, CheckIdempotency, CreateStep, ReadShow, ReserveSeats,
        SaveBooking, OperationFails, Crash, FindBooking, CancelStep,
        MarkCancelled, FreeCancelled, CancelFails, WorkerStep, ScanExpired,
        MarkExpired, FreeExpired, SkipFailed, RestartWorker, Deactivate
<1> QED
  BY <1>1, TypeCorrect, PTL DEF Spec, LockReleasedByOwner
=============================================================================
