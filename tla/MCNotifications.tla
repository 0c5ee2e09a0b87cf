-------------------------- MODULE MCNotifications --------------------------
(* Small instances of Notifications for TLC. *)
EXTENDS Notifications, TLC

CONSTANTS booked, reminded

OneOfEach == (booked :> "email") @@ (reminded :> "sms")
OneEmail == [m \in Messages |-> "email"]
=============================================================================
