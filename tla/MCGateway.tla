------------------------------ MODULE MCGateway ------------------------------
(* A small instance of Gateway for TLC. *)
EXTENDS Gateway, TLC

CONSTANTS c1, c2, c3, show, booking

OneShared == (c1 :> show) @@ (c2 :> show) @@ (c3 :> booking)
=============================================================================
