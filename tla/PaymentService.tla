---------------------------- MODULE PaymentService ----------------------------
(***************************************************************************)
(* The payment service: createOrder, verifyPayment, refund and the webhook *)
(* working on one Payment collection, and as much of Razorpay as they see. *)
(* An action is what a call does between two awaits.                       *)
(*                                                                         *)
(* A createOrder call is a member of Orders and stands for the order it    *)
(* places and the payment document it creates; a refund call is a member   *)
(* of Refunds and stands for the refund Razorpay makes of it.  Razorpay    *)
(* delivers each webhook at least once, in any order, and again until the  *)
(* service answers 200; a customer may fail to pay an order and try again. *)
(* The service does not ask for capture when it places an order, so it is  *)
(* up to the account's settings whether, and when, Razorpay captures what  *)
(* a customer has authorised.                                              *)
(*                                                                         *)
(* racing, passedOver and lost are history variables.                      *)
(*                                                                         *)
(* An operator standing just before the one it resembles, such as          *)
(* SignatureUnchecked before SignatureValid, is the slip the properties    *)
(* must catch.                                                             *)
(***************************************************************************)
EXTENDS Naturals, FiniteSets

CONSTANTS
    Orders,         \* createOrder calls, and the orders and payments they make
    Bookings,       \* bookingIds clients pay for
    Verifications,  \* verifyPayment calls
    Refunds,        \* refund calls, and the refunds they make
    Attempts,       \* razorpayPaymentIds: customers' attempts to pay
    AttemptsAt,     \* bound: the attempts a customer makes at each order
    None,           \* undefined
    MaxFaults       \* bound: failed operations, ended processes, lost events

ASSUME PaymentAssumption ==
    /\ None \notin Attempts \cup Refunds
    /\ AttemptsAt \in [Orders -> SUBSET Attempts]
    /\ MaxFaults \in Nat

VARIABLES
    status,      \* Payment.status, "none" while there is no document
    paymentId,   \* Payment.razorpayPaymentId
    refundId,    \* Payment.razorpayRefundId
    bookingId,   \* input.bookingId of each createOrder call
    pc,          \* the await each createOrder call is at
    racing,      \* calls for its booking that had looked for an order, and
                 \* not created one yet, when it looked
    passedOver,  \* orders of its booking that had failed, or were refunded or
                 \* being refunded, when it looked
    vpc,         \* the await each verifyPayment call is at
    claim,       \* the order and payment id the client hands to it
    rpc,         \* the await each refund call is at
    refundOf,    \* the order and the razorpayPaymentId it refunds
    authorised,  \* Razorpay: the attempts customers authorised at each order
    captured,    \* Razorpay: the one it captured, which paid the order
    failed,      \* Razorpay: the attempts that failed
    accepted,    \* Razorpay: the refunds it accepted
    processed,   \* Razorpay: the refunds it carried out
    hooks,       \* webhooks Razorpay has yet to see answered with 200
    events,      \* events Kafka accepted
    lost,        \* success events that were lost
    faults       \* faults so far

storeVars == <<status, paymentId, refundId>>
orderVars == <<bookingId, pc, racing, passedOver>>
verifyVars == <<vpc, claim>>
refundVars == <<rpc, refundOf>>
razorpayVars == <<authorised, captured, failed, accepted, processed>>
kafkaVars == <<events, lost>>
vars == <<storeVars, orderVars, verifyVars, refundVars, razorpayVars, hooks,
          kafkaVars, faults>>

Statuses == {"none", "initiated", "pending", "success", "failed", "refunded",
             "refund_pending"}
Active == {"initiated", "pending", "success"}
EventTypes == {"initiated", "success", "failed"}
AttemptHooks == {"captured", "failed"} \X Orders \X Attempts
RefundHooks == {"refunded"} \X Refunds
Webhooks == AttemptHooks \cup RefundHooks

Init ==
    /\ status = [o \in Orders |-> "none"]
    /\ paymentId = [o \in Orders |-> None]
    /\ refundId = [o \in Orders |-> None]
    /\ bookingId = [o \in Orders |-> None]
    /\ pc = [o \in Orders |-> "idle"]
    /\ racing = [o \in Orders |-> {}]
    /\ passedOver = [o \in Orders |-> {}]
    /\ vpc = [v \in Verifications |-> "idle"]
    /\ claim = [v \in Verifications |-> None]
    /\ rpc = [r \in Refunds |-> "idle"]
    /\ refundOf = [r \in Refunds |-> None]
    /\ authorised = [o \in Orders |-> {}]
    /\ captured = [o \in Orders |-> None]
    /\ failed = [o \in Orders |-> {}]
    /\ accepted = {}
    /\ processed = {}
    /\ hooks = {}
    /\ events = {}
    /\ lost = {}
    /\ faults = 0

Fault == faults < MaxFaults /\ faults' = faults + 1

\* kafkaProducer.publish(...).catch(): the event is accepted, or lost.  Of the
\* lost ones a success is kept in mind.
Publish(type, o) ==
    \/ events' = events \cup {<<type, o>>} /\ UNCHANGED <<lost, faults>>
    \/ /\ Fault
       /\ lost' = lost \cup ({<<type, o>>} \cap ({"success"} \X Orders))
       /\ UNCHANGED events

\* findOneAndUpdate on the payment of order o.
SetStatus(o, new) == status' = [status EXCEPT ![o] = new]

(***************************************************************************)
(* createOrder, its configuration and amount checks passed.                *)
(***************************************************************************)

\* Payment.findOne({ bookingId, status: initiated, pending or success }).
ExistingOrderUnpaid(b) ==
    \E o \in Orders : bookingId[o] = b /\ status[o] \in Active \ {"success"}
ExistingOrder(b) ==
    \E o \in Orders : bookingId[o] = b /\ status[o] \in Active

Of(b) == {o \in Orders : bookingId[o] = b}
Placing == {o \in Orders : pc[o] \in {"place", "create"}}
Over == {o \in Orders : status[o] \in {"failed", "refund_pending", "refunded"}}

FindOrder(o, b) ==
    /\ pc[o] = "idle"
    /\ bookingId' = [bookingId EXCEPT ![o] = b]
    /\ IF ExistingOrder(b)
         THEN pc' = [pc EXCEPT ![o] = "done"] /\ UNCHANGED <<racing, passedOver>>
         ELSE /\ pc' = [pc EXCEPT ![o] = "place"]
              /\ racing' = [racing EXCEPT ![o] = Of(b) \cap Placing]
              /\ passedOver' = [passedOver EXCEPT ![o] = Of(b) \cap Over]
    /\ UNCHANGED <<storeVars, verifyVars, refundVars, razorpayVars, hooks,
                   kafkaVars, faults>>

\* razorpay.orders.create
PlaceOrder(o) ==
    /\ pc[o] = "place"
    /\ pc' = [pc EXCEPT ![o] = "create"]
    /\ UNCHANGED <<storeVars, bookingId, racing, passedOver, verifyVars,
                   refundVars, razorpayVars, hooks, kafkaVars, faults>>

\* Payment.create.  Razorpay never hands out an order id twice, so the branch
\* for a duplicate key is not taken.
CreatePayment(o) ==
    /\ pc[o] = "create"
    /\ SetStatus(o, "initiated")
    /\ Publish("initiated", o)
    /\ pc' = [pc EXCEPT ![o] = "done"]
    /\ UNCHANGED <<paymentId, refundId, bookingId, racing, passedOver,
                   verifyVars, refundVars, razorpayVars, hooks>>

OrderFails(o) ==
    /\ pc[o] \in {"place", "create"}
    /\ Fault
    /\ pc' = [pc EXCEPT ![o] = "done"]
    /\ UNCHANGED <<storeVars, bookingId, racing, passedOver, verifyVars,
                   refundVars, razorpayVars, hooks, kafkaVars>>

CreateOrder(o) ==
    \/ \E b \in Bookings : FindOrder(o, b)
    \/ PlaceOrder(o)
    \/ CreatePayment(o)
    \/ OrderFails(o)

(***************************************************************************)
(* verifyPayment.                                                          *)
(***************************************************************************)

\* HMAC(orderId | paymentId): the client has one that matches only from
\* Razorpay's checkout, which signs an attempt when it is authorised.
SignatureUnchecked(o, a, signed) == TRUE
SignatureValid(o, a, signed) == signed /\ a \in authorised[o]

Return(v) ==
    /\ vpc' = [vpc EXCEPT ![v] = "done"]
    /\ claim' = [claim EXCEPT ![v] = None]

FindPayment(v, o, a, signed) ==
    /\ vpc[v] = "idle"
    /\ IF status[o] \in {"none", "success"}
         THEN Return(v)
         ELSE /\ claim' = [claim EXCEPT ![v] = <<o, a>>]
              /\ vpc' = [vpc EXCEPT ![v] = IF SignatureValid(o, a, signed)
                                           THEN "succeed" ELSE "fail"]
    /\ UNCHANGED <<storeVars, orderVars, refundVars, razorpayVars, hooks,
                   kafkaVars, faults>>

MarkVerified(v) ==
    /\ vpc[v] = "succeed"
    /\ SetStatus(claim[v][1], "success")
    /\ paymentId' = [paymentId EXCEPT ![claim[v][1]] = claim[v][2]]
    /\ Publish("success", claim[v][1])
    /\ Return(v)
    /\ UNCHANGED <<refundId, orderVars, refundVars, razorpayVars, hooks>>

MarkInvalid(v) ==
    /\ vpc[v] = "fail"
    /\ SetStatus(claim[v][1], "failed")
    /\ Publish("failed", claim[v][1])
    /\ Return(v)
    /\ UNCHANGED <<paymentId, refundId, orderVars, refundVars, razorpayVars,
                   hooks>>

VerifyFails(v) ==
    /\ vpc[v] \in {"succeed", "fail"}
    /\ Fault
    /\ Return(v)
    /\ UNCHANGED <<storeVars, orderVars, refundVars, razorpayVars, hooks,
                   kafkaVars>>

VerifyPayment(v) ==
    \/ \E o \in Orders, a \in Attempts, signed \in BOOLEAN :
          FindPayment(v, o, a, signed)
    \/ MarkVerified(v)
    \/ MarkInvalid(v)
    \/ VerifyFails(v)

(***************************************************************************)
(* refund, for an administrator and with an amount within the payment's.   *)
(***************************************************************************)
FindRefundableUnnamed(r, o) ==
    /\ rpc[r] = "idle"
    /\ rpc' = [rpc EXCEPT ![r] = "send"]
    /\ UNCHANGED <<storeVars, orderVars, verifyVars, refundOf, razorpayVars,
                   hooks, kafkaVars, faults>>

FindRefundable(r, o) ==
    /\ rpc[r] = "idle"
    /\ IF status[o] = "success" /\ paymentId[o] # None
         THEN /\ refundOf' = [refundOf EXCEPT ![r] = <<o, paymentId[o]>>]
              /\ rpc' = [rpc EXCEPT ![r] = "send"]
         ELSE rpc' = [rpc EXCEPT ![r] = "done"] /\ UNCHANGED refundOf
    /\ UNCHANGED <<storeVars, orderVars, verifyVars, razorpayVars, hooks,
                   kafkaVars, faults>>

\* razorpay.payments.refund: Razorpay may accept it if it captured that payment,
\* or refuses it.
SendRefund(r) ==
    /\ rpc[r] = "send"
    /\ \/ /\ captured[refundOf[r][1]] = refundOf[r][2]
          /\ accepted' = accepted \cup {r}
          /\ rpc' = [rpc EXCEPT ![r] = "record"]
       \/ /\ rpc' = [rpc EXCEPT ![r] = "done"]
          /\ UNCHANGED accepted
    /\ UNCHANGED <<storeVars, orderVars, verifyVars, refundOf, authorised,
                   captured, failed, processed, hooks, kafkaVars, faults>>

RecordAsRefunded(r) ==
    /\ rpc[r] = "record"
    /\ SetStatus(refundOf[r][1], "refunded")
    /\ refundId' = [refundId EXCEPT ![refundOf[r][1]] = r]
    /\ rpc' = [rpc EXCEPT ![r] = "done"]
    /\ UNCHANGED <<paymentId, orderVars, verifyVars, refundOf, razorpayVars,
                   hooks, kafkaVars, faults>>

RecordRefund(r) ==
    /\ rpc[r] = "record"
    /\ SetStatus(refundOf[r][1], "refund_pending")
    /\ refundId' = [refundId EXCEPT ![refundOf[r][1]] = r]
    /\ rpc' = [rpc EXCEPT ![r] = "done"]
    /\ UNCHANGED <<paymentId, orderVars, verifyVars, refundOf, razorpayVars,
                   hooks, kafkaVars, faults>>

RefundFails(r) ==
    /\ rpc[r] \in {"send", "record"}
    /\ Fault
    /\ rpc' = [rpc EXCEPT ![r] = "done"]
    /\ UNCHANGED <<storeVars, orderVars, verifyVars, refundOf, razorpayVars,
                   hooks, kafkaVars>>

RefundPayment(r) ==
    \/ \E o \in Orders : FindRefundable(r, o)
    \/ SendRefund(r)
    \/ RecordRefund(r)
    \/ RefundFails(r)

(***************************************************************************)
(* handleWebhook, the signature of the body verified.                      *)
(***************************************************************************)

\* findOneAndUpdate({ razorpayOrderId, status: { $ne: success } }, success)
CapturedFilterInitiated(o) == status[o] = "initiated"
CapturedFilter(o) == status[o] \notin {"none", "success"}

Captured(o, a) ==
    IF CapturedFilter(o)
      THEN /\ SetStatus(o, "success")
           /\ paymentId' = [paymentId EXCEPT ![o] = a]
           /\ Publish("success", o)
           /\ UNCHANGED refundId
      ELSE UNCHANGED <<storeVars, kafkaVars, faults>>

Failed(o) ==
    /\ IF status[o] = "none" THEN UNCHANGED status ELSE SetStatus(o, "failed")
    /\ Publish("failed", o)
    /\ UNCHANGED <<paymentId, refundId>>

\* findOneAndUpdate({ razorpayRefundId }, refunded): no document, no effect.
Refunded(r) ==
    /\ status' = [o \in Orders |-> IF refundId[o] = r THEN "refunded"
                                                      ELSE status[o]]
    /\ UNCHANGED <<paymentId, refundId, kafkaVars, faults>>

Handle(h) ==
    \/ h \in AttemptHooks /\ h[1] = "captured" /\ Captured(h[2], h[3])
    \/ h \in AttemptHooks /\ h[1] = "failed" /\ Failed(h[2])
    \/ h \in RefundHooks /\ Refunded(h[2])

\* The handler has run and its 200 arrived.
Deliver(h) ==
    /\ h \in hooks
    /\ Handle(h)
    /\ hooks' = hooks \ {h}
    /\ UNCHANGED <<orderVars, verifyVars, refundVars, razorpayVars>>

\* The handler has run and its answer was lost: the webhook comes again.  One
\* whose update failed comes again too, and has changed nothing.
DeliverUnanswered(h) ==
    /\ h \in hooks
    /\ Handle(h)
    /\ UNCHANGED <<orderVars, verifyVars, refundVars, razorpayVars, hooks>>

(***************************************************************************)
(* Razorpay.                                                               *)
(***************************************************************************)

\* A client that has the order id tries to pay, and authorises the payment or
\* fails to; a paid order takes no more.
Pay(o, a) ==
    /\ status[o] # "none"
    /\ captured[o] = None
    /\ a \in AttemptsAt[o] \ (authorised[o] \cup failed[o])
    /\ \/ /\ authorised' = [authorised EXCEPT ![o] = @ \cup {a}]
          /\ UNCHANGED <<failed, hooks>>
       \/ /\ failed' = [failed EXCEPT ![o] = @ \cup {a}]
          /\ hooks' = hooks \cup {<<"failed", o, a>>}
          /\ UNCHANGED authorised
    /\ UNCHANGED <<storeVars, orderVars, verifyVars, refundVars, captured,
                   accepted, processed, kafkaVars, faults>>

\* At once, later, or never: the account's settings decide.
Capture(o, a) ==
    /\ a \in authorised[o]
    /\ captured[o] = None
    /\ captured' = [captured EXCEPT ![o] = a]
    /\ hooks' = hooks \cup {<<"captured", o, a>>}
    /\ UNCHANGED <<storeVars, orderVars, verifyVars, refundVars, authorised,
                   failed, accepted, processed, kafkaVars, faults>>

ProcessRefund(r) ==
    /\ r \in accepted \ processed
    /\ processed' = processed \cup {r}
    /\ hooks' = hooks \cup {<<"refunded", r>>}
    /\ UNCHANGED <<storeVars, orderVars, verifyVars, refundVars, authorised,
                   captured, failed, accepted, kafkaVars, faults>>

Next ==
    \/ \E o \in Orders :
          \/ CreateOrder(o)
          \/ \E a \in Attempts : Pay(o, a) \/ Capture(o, a)
    \/ \E v \in Verifications : VerifyPayment(v)
    \/ \E r \in Refunds : RefundPayment(r) \/ ProcessRefund(r)
    \/ \E h \in hooks : Deliver(h) \/ DeliverUnanswered(h)

Spec == Init /\ [][Next]_vars

\* Razorpay goes on delivering the captured webhooks that are not answered.
\* Nothing else has to happen: the client may never call verifyPayment, and the
\* other webhooks may never come.
DeliverCaptured ==
    \E o \in Orders, a \in Attempts : Deliver(<<"captured", o, a>>)

FairSpec == Spec /\ WF_vars(DeliverCaptured)

(***************************************************************************)
(* Properties.                                                             *)
(***************************************************************************)

\* Every variable has its type; a verification that goes on names an order.
TypeOK ==
    /\ status \in [Orders -> Statuses]
    /\ paymentId \in [Orders -> Attempts \cup {None}]
    /\ refundId \in [Orders -> Refunds \cup {None}]
    /\ bookingId \in [Orders -> Bookings \cup {None}]
    /\ pc \in [Orders -> {"idle", "place", "create", "done"}]
    /\ racing \in [Orders -> SUBSET Orders]
    /\ passedOver \in [Orders -> SUBSET Orders]
    /\ vpc \in [Verifications -> {"idle", "succeed", "fail", "done"}]
    /\ claim \in [Verifications -> (Orders \X Attempts) \cup {None}]
    /\ \A v \in Verifications :
          vpc[v] \in {"succeed", "fail"} => claim[v] \in Orders \X Attempts
    /\ rpc \in [Refunds -> {"idle", "send", "record", "done"}]
    /\ refundOf \in [Refunds -> (Orders \X Attempts) \cup {None}]
    /\ \A r \in Refunds :
          rpc[r] \in {"send", "record"} => refundOf[r] \in Orders \X Attempts
    /\ authorised \in [Orders -> SUBSET Attempts]
    /\ captured \in [Orders -> Attempts \cup {None}]
    /\ failed \in [Orders -> SUBSET Attempts]
    /\ processed \subseteq accepted /\ accepted \subseteq Refunds
    /\ hooks \subseteq Webhooks
    /\ events \subseteq EventTypes \X Orders
    /\ lost \subseteq EventTypes \X Orders
    /\ faults \in Nat

RecordedIsPaid ==
    \A o \in Orders :
        /\ paymentId[o] # None => paymentId[o] \in authorised[o]
        /\ status[o] \in {"success", "refund_pending", "refunded"} =>
              paymentId[o] # None

AnnouncedIsPaid ==
    \A o \in Orders : <<"success", o>> \in events => authorised[o] # {}

\* Behind every payment recorded as made, refunded or not, and behind every
\* success event, is an attempt a customer authorised at that very order,
\* whatever the clients, the webhooks and the refunds did in between.  That it
\* was captured cannot be said: verifyPayment records what is only authorised.
MoneyBehindStatus == RecordedIsPaid /\ AnnouncedIsPaid

\* A refund on record is one Razorpay accepted, of this order's payment and of
\* the attempt that was captured, though a webhook may have changed the payment
\* id since the refund read it; and one recorded as made was carried out.
RefundBehindStatus ==
    \A o \in Orders :
        /\ refundId[o] # None =>
              /\ refundId[o] \in accepted
              /\ refundOf[refundId[o]] = <<o, captured[o]>>
        /\ status[o] = "refunded" => refundId[o] \in processed

\* Two orders can be paid for one booking only if their calls raced, one having
\* looked for an order before the other had created its own, or if one was
\* placed after the other had failed or been refunded, and that one turned out
\* paid: an order passed over is not open again before it is paid.
Beside(o, p) == p \in racing[o] \/ (p \in passedOver[o] /\ status[p] = "success")

DoubleOrderIsExplained ==
    \A o, p \in Orders :
        /\ o # p /\ bookingId[o] = bookingId[p]
        /\ status[o] \in Active /\ status[p] \in Active
        => Beside(o, p) \/ Beside(p, o)

\* A paid order is announced, though the client never comes back to verify it,
\* late failures overwrite its status, and operations fail or processes end,
\* unless the very event is lost.
PaidIsAnnounced ==
    \A o \in Orders :
        captured[o] # None ~> <<"success", o>> \in events \cup lost
=============================================================================
