----------------------------- MODULE SeatHolds ------------------------------
(***************************************************************************)
(* What the booking service promises about the seats of one show: seats    *)
(* are taken together, in one step, and only when at that very moment each *)
(* is free or its hold is over; a booking comes into being once and ends.  *)
(* There are no locks, versions or snapshots here: BookingService          *)
(* implements this specification with them.                                *)
(*                                                                         *)
(* The code frees seats by their ids, whoever holds them, so Free does not *)
(* promise that only the ended booking's own holds go.                     *)
(***************************************************************************)
EXTENDS Naturals

CONSTANTS Bookings, Seats, None, Hold

VARIABLES clock, holder, until, status

vars == <<clock, holder, until, status>>

Ended == {"cancelled", "expired"}

Init ==
    /\ clock = 0
    /\ holder = [s \in Seats |-> None]
    /\ until = [s \in Seats |-> 0]
    /\ status = [b \in Bookings |-> "none"]

Takeable(s) == holder[s] = None \/ until[s] <= clock

Take(b, S) ==
    /\ status[b] = "none"
    /\ \A s \in S : Takeable(s)
    /\ holder' = [s \in Seats |-> IF s \in S THEN b ELSE holder[s]]
    /\ \E t \in Hold .. clock + Hold :
          until' = [s \in Seats |-> IF s \in S THEN t ELSE until[s]]
    /\ UNCHANGED <<clock, status>>

Record(b) ==
    /\ status[b] = "none"
    /\ status' = [status EXCEPT ![b] = "pending"]
    /\ UNCHANGED <<clock, holder, until>>

End(b) ==
    /\ status[b] # "none"
    /\ \E how \in Ended :
          /\ status' = [status EXCEPT ![b] = how]
          /\ how = "expired" => status[b] = "pending"
    /\ UNCHANGED <<clock, holder, until>>

Free(b, S) ==
    /\ status[b] \in Ended
    /\ holder' = [s \in Seats |-> IF s \in S THEN None ELSE holder[s]]
    /\ until' = [s \in Seats |-> IF s \in S THEN 0 ELSE until[s]]
    /\ UNCHANGED <<clock, status>>

Advance ==
    /\ clock' = clock + 1
    /\ UNCHANGED <<holder, until, status>>

Next ==
    \/ \E b \in Bookings :
          \/ \E S \in SUBSET Seats : Take(b, S) \/ Free(b, S)
          \/ Record(b)
          \/ End(b)
    \/ Advance

Spec == Init /\ [][Next]_vars
=============================================================================
