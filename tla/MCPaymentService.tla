-------------------------- MODULE MCPaymentService --------------------------
(* Small instances of PaymentService for TLC. *)
EXTENDS PaymentService

CONSTANTS o1, o2, a1, a2

TwoAndOne == [o \in Orders |-> IF o = o1 THEN {a1, a2} ELSE {a1}]
=============================================================================
