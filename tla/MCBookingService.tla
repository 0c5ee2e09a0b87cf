-------------------------- MODULE MCBookingService --------------------------
(* Small instances of BookingService for TLC. *)
EXTENDS BookingService, TLC

Symmetry ==
    Permutations(Requests) \cup Permutations(Cancels) \cup
    Permutations(Workers) \cup Permutations(Keys) \cup Permutations(Seats)
=============================================================================
