------------------------- MODULE PaymentServiceProofs -------------------------
(***************************************************************************)
(* Theorems about PaymentService, for any sets of orders, verifications,   *)
(* refunds and attempts, any delivery of the webhooks and any faults.      *)
(***************************************************************************)
EXTENDS PaymentService, TLAPS

(***************************************************************************)
(* Types.                                                                  *)
(***************************************************************************)

KafkaType ==
    /\ events \subseteq EventTypes \X Orders
    /\ lost \subseteq EventTypes \X Orders
    /\ faults \in Nat

\* A published event names an order, and a lost one costs a fault.
LEMMA PublishType ==
    ASSUME TypeOK, NEW type \in EventTypes, NEW o \in Orders, Publish(type, o)
    PROVE  KafkaType'
BY PaymentAssumption DEF Publish, Fault, KafkaType, TypeOK

\* createOrder keeps the types.
LEMMA OrderType ==
    ASSUME TypeOK, NEW o \in Orders, CreateOrder(o)
    PROVE  TypeOK'
<1> USE DEF storeVars, kafkaVars, verifyVars, refundVars, razorpayVars, KafkaType
<1>1. ASSUME NEW b \in Bookings, FindOrder(o, b) PROVE TypeOK'
  <2>1. Of(b) \cap Placing \in SUBSET Orders /\ Of(b) \cap Over \in SUBSET Orders
    BY DEF Of
  <2>2. bookingId' \in [Orders -> Bookings \cup {None}]
    BY <1>1 DEF FindOrder, TypeOK
  <2>3. pc' \in [Orders -> {"idle", "place", "create", "done"}]
    BY <1>1 DEF FindOrder, TypeOK
  <2>4. /\ racing' \in [Orders -> SUBSET Orders]
        /\ passedOver' \in [Orders -> SUBSET Orders]
    BY <1>1, <2>1 DEF FindOrder, TypeOK
  <2>5. UNCHANGED <<storeVars, verifyVars, refundVars, razorpayVars, hooks,
                    kafkaVars, faults>>
    BY <1>1 DEF FindOrder
  <2> QED
    BY <2>2, <2>3, <2>4, <2>5 DEF TypeOK
<1>2. CASE PlaceOrder(o)
  BY <1>2 DEF PlaceOrder, TypeOK
<1>3. CASE CreatePayment(o)
  <2>1. KafkaType'
    BY <1>3, PublishType DEF CreatePayment, EventTypes
  <2> QED
    BY <1>3, <2>1 DEF CreatePayment, SetStatus, Statuses, TypeOK
<1>4. CASE OrderFails(o)
  BY <1>4 DEF OrderFails, Fault, TypeOK
<1> QED
  BY <1>1, <1>2, <1>3, <1>4 DEF CreateOrder

\* verifyPayment keeps the types.
LEMMA VerifyType ==
    ASSUME TypeOK, NEW v \in Verifications, VerifyPayment(v)
    PROVE  TypeOK'
<1> USE DEF storeVars, kafkaVars, orderVars, refundVars, razorpayVars, KafkaType
<1>1. ASSUME NEW o \in Orders, NEW a \in Attempts, NEW signed \in BOOLEAN,
             FindPayment(v, o, a, signed)
      PROVE  TypeOK'
  <2>1. /\ claim' \in [Verifications -> (Orders \X Attempts) \cup {None}]
        /\ vpc' \in [Verifications -> {"idle", "succeed", "fail", "done"}]
    BY <1>1 DEF FindPayment, Return, TypeOK
  <2>2. \A u \in Verifications :
           vpc'[u] \in {"succeed", "fail"} => claim'[u] \in Orders \X Attempts
    BY <1>1 DEF FindPayment, Return, TypeOK
  <2>3. UNCHANGED <<storeVars, orderVars, refundVars, razorpayVars, hooks,
                    kafkaVars, faults>>
    BY <1>1 DEF FindPayment
  <2> QED
    BY <2>1, <2>2, <2>3 DEF TypeOK
<1>2. CASE MarkVerified(v)
  <2>1. claim[v] \in Orders \X Attempts
    BY <1>2 DEF MarkVerified, TypeOK
  <2>2. KafkaType'
    BY <1>2, <2>1, PublishType DEF MarkVerified, EventTypes
  <2> QED
    BY <1>2, <2>1, <2>2 DEF MarkVerified, Return, SetStatus, Statuses, TypeOK
<1>3. CASE MarkInvalid(v)
  <2>1. claim[v] \in Orders \X Attempts
    BY <1>3 DEF MarkInvalid, TypeOK
  <2>2. KafkaType'
    BY <1>3, <2>1, PublishType DEF MarkInvalid, EventTypes
  <2> QED
    BY <1>3, <2>1, <2>2 DEF MarkInvalid, Return, SetStatus, Statuses, TypeOK
<1>4. CASE VerifyFails(v)
  BY <1>4 DEF VerifyFails, Return, Fault, TypeOK
<1> QED
  BY <1>1, <1>2, <1>3, <1>4 DEF VerifyPayment

\* refund keeps the types.
LEMMA RefundType ==
    ASSUME TypeOK, NEW r \in Refunds,
           RefundPayment(r) \/ ProcessRefund(r)
    PROVE  TypeOK'
<1> USE DEF storeVars, kafkaVars, orderVars, verifyVars, refundVars,
            razorpayVars
<1>1. ASSUME NEW o \in Orders, FindRefundable(r, o) PROVE TypeOK'
  BY <1>1 DEF FindRefundable, TypeOK
<1>2. CASE SendRefund(r)
  BY <1>2 DEF SendRefund, TypeOK
<1>3. CASE RecordRefund(r)
  BY <1>3 DEF RecordRefund, SetStatus, Statuses, TypeOK
<1>4. CASE RefundFails(r)
  BY <1>4 DEF RefundFails, Fault, TypeOK
<1>5. CASE ProcessRefund(r)
  BY <1>5 DEF ProcessRefund, Webhooks, RefundHooks, TypeOK
<1> QED
  BY <1>1, <1>2, <1>3, <1>4, <1>5 DEF RefundPayment

\* What a webhook may do to the payments: nothing but the update of its kind.
LEMMA HandleCases ==
    ASSUME NEW h \in Webhooks, Handle(h)
    PROVE  \/ \E o \in Orders, a \in Attempts :
                 h = <<"captured", o, a>> /\ Captured(o, a)
           \/ \E o \in Orders, a \in Attempts :
                 h = <<"failed", o, a>> /\ Failed(o)
           \/ \E r \in Refunds : h = <<"refunded", r>> /\ Refunded(r)
BY DEF Handle, Webhooks, AttemptHooks, RefundHooks

\* The webhook handler keeps the types.
LEMMA WebhookType ==
    ASSUME TypeOK, NEW h \in hooks, Deliver(h) \/ DeliverUnanswered(h)
    PROVE  TypeOK'
<1> USE DEF storeVars, kafkaVars, orderVars, verifyVars, refundVars,
            razorpayVars, KafkaType
<1>1. /\ h \in Webhooks
      /\ Handle(h)
      /\ hooks' \subseteq hooks
      /\ UNCHANGED <<orderVars, verifyVars, refundVars, razorpayVars>>
  BY DEF Deliver, DeliverUnanswered, TypeOK
<1>2. ASSUME NEW o \in Orders, NEW a \in Attempts, Captured(o, a)
      PROVE  TypeOK'
  <2>1. KafkaType'
    BY <1>2, PublishType DEF Captured, EventTypes, TypeOK
  <2>2. status' \in [Orders -> Statuses]
    BY <1>2 DEF Captured, SetStatus, Statuses, TypeOK
  <2>3. /\ paymentId' \in [Orders -> Attempts \cup {None}]
        /\ UNCHANGED refundId
    BY <1>2 DEF Captured, TypeOK
  <2>4. hooks' \subseteq Webhooks
    BY <1>1 DEF TypeOK
  <2> QED
    BY <1>1, <2>1, <2>2, <2>3, <2>4 DEF TypeOK
<1>3. ASSUME NEW o \in Orders, Failed(o) PROVE TypeOK'
  <2>1. KafkaType'
    BY <1>3, PublishType DEF Failed, EventTypes
  <2> QED
    BY <1>1, <1>3, <2>1 DEF Failed, SetStatus, Statuses, TypeOK
<1>4. ASSUME NEW r \in Refunds, Refunded(r) PROVE TypeOK'
  BY <1>1, <1>4 DEF Refunded, Statuses, TypeOK
<1> QED
  BY <1>1, <1>2, <1>3, <1>4, HandleCases

\* A well typed state has only well typed successors.
LEMMA TypeStep == TypeOK /\ [Next]_vars => TypeOK'
<1> SUFFICES ASSUME TypeOK, [Next]_vars PROVE TypeOK'
  OBVIOUS
<1> USE DEF storeVars, kafkaVars, orderVars, verifyVars, refundVars
<1>1. ASSUME NEW o \in Orders, NEW a \in Attempts, Pay(o, a) PROVE TypeOK'
  <2>1. authorised' \in [Orders -> SUBSET Attempts]
    BY <1>1 DEF Pay, TypeOK
  <2>2. failed' \in [Orders -> SUBSET Attempts]
    BY <1>1 DEF Pay, TypeOK
  <2>3. hooks' \subseteq Webhooks
    BY <1>1 DEF Pay, Webhooks, AttemptHooks, TypeOK
  <2> QED
    BY <1>1, <2>1, <2>2, <2>3 DEF Pay, TypeOK
<1>2. ASSUME NEW o \in Orders, NEW a \in Attempts, Capture(o, a) PROVE TypeOK'
  <2>1. hooks' \subseteq Webhooks
    BY <1>2 DEF Capture, Webhooks, AttemptHooks, TypeOK
  <2> QED
    BY <1>2, <2>1 DEF Capture, TypeOK
<1>3. CASE UNCHANGED vars
  BY <1>3 DEF TypeOK, vars, razorpayVars
<1> QED
  BY <1>1, <1>2, <1>3, OrderType, VerifyType, RefundType, WebhookType DEF Next

\* The type invariant of the payment service.
THEOREM TypeCorrect == Spec => []TypeOK
<1>1. Init => TypeOK
  BY PaymentAssumption DEF Init, TypeOK, Statuses
<1> QED
  BY <1>1, TypeStep, PTL DEF Spec

(***************************************************************************)
(* Money and refunds.                                                      *)
(***************************************************************************)

\* What is under way is backed by Razorpay: a verification that will succeed
\* and a captured webhook by an authorised attempt, a refund by a payment, its
\* record by Razorpay's acceptance, an accepted refund by the captured attempt,
\* a refund webhook by the refund itself; and only what was paid has been
\* refunded.
UnderWay ==
    /\ \A v \in Verifications :
          vpc[v] = "succeed" => claim[v][2] \in authorised[claim[v][1]]
    /\ \A o \in Orders : captured[o] # None => captured[o] \in authorised[o]
    /\ \A o \in Orders, a \in Attempts :
          <<"captured", o, a>> \in hooks => captured[o] = a
    /\ \A o \in Orders : refundId[o] # None => paymentId[o] # None
    /\ \A r \in Refunds :
          /\ rpc[r] \in {"send", "record"} => paymentId[refundOf[r][1]] # None
          /\ rpc[r] = "record" => r \in accepted
          /\ r \in accepted =>
                /\ refundOf[r] \in Orders \X Attempts
                /\ captured[refundOf[r][1]] = refundOf[r][2]
          /\ <<"refunded", r>> \in hooks => r \in processed
          /\ r \in accepted => rpc[r] \in {"record", "done"}

\* The inductive invariant.
Inv ==
    /\ TypeOK
    /\ UnderWay
    /\ RecordedIsPaid
    /\ RefundBehindStatus
    /\ AnnouncedIsPaid

\* Publishing a success event about an authorised order is harmless.
LEMMA PublishPaid ==
    ASSUME Inv, NEW type \in EventTypes, NEW o \in Orders, Publish(type, o),
           type = "success" => authorised[o] # {}, UNCHANGED authorised
    PROVE  AnnouncedIsPaid'
BY DEF Publish, Inv, AnnouncedIsPaid

\* Each action of a verification keeps the invariant.
LEMMA VerifyStep ==
    ASSUME Inv, TypeOK', NEW v \in Verifications, VerifyPayment(v)
    PROVE  Inv'
<1> USE PaymentAssumption DEF storeVars, kafkaVars, orderVars, refundVars, razorpayVars
<1>1. ASSUME NEW o \in Orders, NEW a \in Attempts, NEW signed \in BOOLEAN,
             FindPayment(v, o, a, signed)
      PROVE  Inv'
  BY <1>1 DEF FindPayment, Return, SignatureValid, Inv, TypeOK, UnderWay,
              RecordedIsPaid, RefundBehindStatus, AnnouncedIsPaid
<1>2. CASE MarkVerified(v)
  <2>1. /\ claim[v][1] \in Orders /\ claim[v][2] \in Attempts
        /\ claim[v][2] \in authorised[claim[v][1]]
    BY <1>2 DEF MarkVerified, Inv, TypeOK, UnderWay
  <2>2. UnderWay'
    BY <1>2, <2>1 DEF MarkVerified, Return, Inv, TypeOK, UnderWay
  <2>3. RecordedIsPaid'
    BY <1>2, <2>1 DEF MarkVerified, SetStatus, Inv, TypeOK, RecordedIsPaid
  <2>4. RefundBehindStatus'
    BY <1>2, <2>1 DEF MarkVerified, SetStatus, Inv, TypeOK, RefundBehindStatus
  <2>5. AnnouncedIsPaid'
    BY <1>2, <2>1, PublishPaid DEF MarkVerified, EventTypes
  <2> QED
    BY <2>2, <2>3, <2>4, <2>5 DEF Inv
<1>3. CASE MarkInvalid(v)
  <2>1. claim[v][1] \in Orders
    BY <1>3 DEF MarkInvalid, Inv, TypeOK
  <2>2. UnderWay' /\ RecordedIsPaid' /\ RefundBehindStatus'
    BY <1>3, <2>1 DEF MarkInvalid, Return, SetStatus, Inv, TypeOK, UnderWay,
                      RecordedIsPaid, RefundBehindStatus
  <2>3. AnnouncedIsPaid'
    BY <1>3, <2>1, PublishPaid DEF MarkInvalid, EventTypes
  <2> QED
    BY <2>2, <2>3 DEF Inv
<1>4. CASE VerifyFails(v)
  BY <1>4 DEF VerifyFails, Return, Inv, TypeOK, UnderWay, RecordedIsPaid,
              RefundBehindStatus, AnnouncedIsPaid
<1> QED
  BY <1>1, <1>2, <1>3, <1>4 DEF VerifyPayment

\* Each action of a createOrder call keeps the invariant.
LEMMA OrderStep ==
    ASSUME Inv, TypeOK', NEW o \in Orders, CreateOrder(o)
    PROVE  Inv'
<1> USE DEF storeVars, kafkaVars, verifyVars, refundVars, razorpayVars
<1>1. CASE (\E b \in Bookings : FindOrder(o, b)) \/ PlaceOrder(o) \/ OrderFails(o)
  BY <1>1 DEF FindOrder, PlaceOrder, OrderFails, Inv, UnderWay,
              RecordedIsPaid, RefundBehindStatus, AnnouncedIsPaid
<1>2. CASE CreatePayment(o)
  <2>1. UnderWay' /\ RecordedIsPaid' /\ RefundBehindStatus'
    BY <1>2 DEF CreatePayment, SetStatus, Inv, TypeOK, UnderWay,
                RecordedIsPaid, RefundBehindStatus
  <2>2. AnnouncedIsPaid'
    BY <1>2, PublishPaid DEF CreatePayment, EventTypes
  <2> QED
    BY <2>1, <2>2 DEF Inv
<1> QED
  BY <1>1, <1>2 DEF CreateOrder

\* Each action of a refund, Razorpay's included, keeps the invariant.
LEMMA RefundStep ==
    ASSUME Inv, TypeOK', NEW r \in Refunds,
           RefundPayment(r) \/ ProcessRefund(r)
    PROVE  Inv'
<1> USE PaymentAssumption
    DEF storeVars, kafkaVars, orderVars, verifyVars, refundVars, razorpayVars,
        Inv, TypeOK
<1>1. ASSUME NEW o \in Orders, FindRefundable(r, o) PROVE Inv'
  <2>1. UnderWay'
    BY <1>1 DEF FindRefundable, UnderWay
  <2>2. r \notin accepted
    BY <1>1 DEF FindRefundable, UnderWay
  <2>3. \A q \in Refunds : q # r => refundOf'[q] = refundOf[q]
    BY <1>1 DEF FindRefundable
  <2>4. RefundBehindStatus'
    BY <1>1, <2>2, <2>3 DEF FindRefundable, RefundBehindStatus
  <2> QED
    BY <1>1, <2>1, <2>4 DEF FindRefundable, RecordedIsPaid, AnnouncedIsPaid
<1>2. CASE SendRefund(r)
  BY <1>2 DEF SendRefund, UnderWay, RecordedIsPaid, RefundBehindStatus,
              AnnouncedIsPaid
<1>3. CASE RecordRefund(r)
  <2>1. /\ refundOf[r] \in Orders \X Attempts
        /\ r \in accepted
        /\ paymentId[refundOf[r][1]] # None
        /\ captured[refundOf[r][1]] = refundOf[r][2]
    BY <1>3 DEF RecordRefund, UnderWay
  <2>2. UnderWay' /\ AnnouncedIsPaid'
    BY <1>3, <2>1 DEF RecordRefund, UnderWay, AnnouncedIsPaid
  <2>3. RecordedIsPaid' /\ RefundBehindStatus'
    BY <1>3, <2>1 DEF RecordRefund, SetStatus, RecordedIsPaid,
                      RefundBehindStatus
  <2> QED
    BY <2>2, <2>3
<1>4. CASE RefundFails(r)
  BY <1>4 DEF RefundFails, UnderWay, RecordedIsPaid, RefundBehindStatus,
              AnnouncedIsPaid
<1>5. CASE ProcessRefund(r)
  BY <1>5 DEF ProcessRefund, UnderWay, RecordedIsPaid, RefundBehindStatus,
              AnnouncedIsPaid
<1> QED
  BY <1>1, <1>2, <1>3, <1>4, <1>5 DEF RefundPayment

\* A webhook, delivered for the first time or again, keeps the invariant.
LEMMA WebhookStep ==
    ASSUME Inv, TypeOK', NEW h \in hooks, Deliver(h) \/ DeliverUnanswered(h)
    PROVE  Inv'
<1> USE PaymentAssumption
    DEF storeVars, kafkaVars, orderVars, verifyVars, refundVars, razorpayVars
<1>1. /\ h \in Webhooks
      /\ Handle(h)
      /\ hooks' \subseteq hooks
      /\ UNCHANGED <<orderVars, verifyVars, refundVars, razorpayVars>>
  BY DEF Deliver, DeliverUnanswered, Inv, TypeOK
<1>2. ASSUME NEW o \in Orders, NEW a \in Attempts,
             h = <<"captured", o, a>>, Captured(o, a)
      PROVE  Inv'
  <2>1. captured[o] = a /\ a \in authorised[o]
    BY <1>2 DEF Inv, UnderWay
  <2>2. CASE CapturedFilter(o)
    <3>1. UnderWay' /\ RecordedIsPaid' /\ RefundBehindStatus'
      BY <1>1, <1>2, <2>1, <2>2
      DEF Captured, SetStatus, Inv, TypeOK, UnderWay, RecordedIsPaid,
          RefundBehindStatus
    <3>2. AnnouncedIsPaid'
      BY <1>1, <1>2, <2>1, <2>2, PublishPaid DEF Captured, EventTypes
    <3> QED
      BY <3>1, <3>2 DEF Inv
  <2>3. CASE ~CapturedFilter(o)
    BY <1>1, <1>2, <2>3 DEF Captured, Inv, UnderWay, RecordedIsPaid,
                            RefundBehindStatus, AnnouncedIsPaid
  <2> QED
    BY <2>2, <2>3
<1>3. ASSUME NEW o \in Orders, Failed(o) PROVE Inv'
  <2>1. UnderWay' /\ RecordedIsPaid' /\ RefundBehindStatus'
    BY <1>1, <1>3 DEF Failed, SetStatus, Inv, TypeOK, UnderWay,
                      RecordedIsPaid, RefundBehindStatus
  <2>2. AnnouncedIsPaid'
    BY <1>1, <1>3, PublishPaid DEF Failed, EventTypes
  <2> QED
    BY <2>1, <2>2 DEF Inv
<1>4. ASSUME NEW r \in Refunds, h = <<"refunded", r>>, Refunded(r) PROVE Inv'
  <2>1. r \in processed
    BY <1>4 DEF Inv, UnderWay
  <2>2. UnderWay' /\ AnnouncedIsPaid'
    BY <1>1, <1>4 DEF Refunded, Inv, UnderWay, AnnouncedIsPaid
  <2>3. RecordedIsPaid' /\ RefundBehindStatus'
    BY <1>1, <1>4, <2>1 DEF Refunded, Inv, TypeOK, UnderWay, RecordedIsPaid,
                            RefundBehindStatus
  <2> QED
    BY <2>2, <2>3 DEF Inv
<1> QED
  BY <1>1, <1>2, <1>3, <1>4, HandleCases

\* Every step keeps the invariant.
LEMMA InvStep == Inv /\ [Next]_vars => Inv'
<1> SUFFICES ASSUME Inv, [Next]_vars PROVE Inv'
  OBVIOUS
<1>1. TypeOK'
  BY TypeStep DEF Inv
<1> USE PaymentAssumption
    DEF storeVars, kafkaVars, orderVars, verifyVars, refundVars
<1>2. ASSUME NEW o \in Orders, NEW a \in Attempts, Pay(o, a) PROVE Inv'
  <2>1. /\ \A p \in Orders : authorised[p] \subseteq authorised'[p]
        /\ \A p \in Orders, b \in Attempts :
              <<"captured", p, b>> \in hooks' => <<"captured", p, b>> \in hooks
        /\ \A q \in Refunds : <<"refunded", q>> \in hooks' =>
                                  <<"refunded", q>> \in hooks
    BY <1>2 DEF Pay, Inv, TypeOK
  <2>2. UNCHANGED <<storeVars, verifyVars, refundVars, captured, accepted,
                    processed, events>>
    BY <1>2 DEF Pay
  <2>3. UnderWay'
    BY <2>1, <2>2 DEF Inv, TypeOK, UnderWay
  <2> QED
    BY <1>1, <2>1, <2>2, <2>3 DEF Inv, TypeOK, RecordedIsPaid,
                                  RefundBehindStatus, AnnouncedIsPaid
<1>3. ASSUME NEW o \in Orders, NEW a \in Attempts, Capture(o, a) PROVE Inv'
  <2>1. /\ \A p \in Orders : captured[p] # None => captured'[p] = captured[p]
        /\ captured'[o] = a /\ a \in authorised[o]
        /\ \A p \in Orders : p # o => captured'[p] = captured[p]
        /\ \A p \in Orders, b \in Attempts :
              <<"captured", p, b>> \in hooks' =>
                 <<"captured", p, b>> \in hooks \/ (p = o /\ b = a)
        /\ \A q \in Refunds : <<"refunded", q>> \in hooks' =>
                                  <<"refunded", q>> \in hooks
    <3>1. /\ captured' = [captured EXCEPT ![o] = a]
          /\ captured[o] = None /\ a \in authorised[o]
          /\ hooks' = hooks \cup {<<"captured", o, a>>}
      BY <1>3 DEF Capture
    <3>2. captured \in [Orders -> Attempts \cup {None}]
      BY DEF Inv, TypeOK
    <3>3. /\ \A p \in Orders : captured[p] # None => captured'[p] = captured[p]
          /\ captured'[o] = a
          /\ \A p \in Orders : p # o => captured'[p] = captured[p]
      BY <3>1, <3>2
    <3>4. ASSUME NEW p \in Orders, NEW b \in Attempts,
                 <<"captured", p, b>> \in hooks'
          PROVE  <<"captured", p, b>> \in hooks \/ (p = o /\ b = a)
      BY <3>1, <3>4
    <3>5. ASSUME NEW q \in Refunds, <<"refunded", q>> \in hooks'
          PROVE  <<"refunded", q>> \in hooks
      BY <3>1, <3>5
    <3> QED
      BY <3>1, <3>3, <3>4, <3>5
  <2>2. UNCHANGED <<storeVars, verifyVars, refundVars, authorised, accepted,
                    processed, events>>
    BY <1>3 DEF Capture
  <2>3. \A q \in accepted : /\ refundOf[q] \in Orders \X Attempts
                            /\ captured[refundOf[q][1]] = refundOf[q][2]
                            /\ captured'[refundOf[q][1]] = refundOf[q][2]
    <3>1. ASSUME NEW q \in accepted
          PROVE  /\ refundOf[q] \in Orders \X Attempts
                 /\ captured[refundOf[q][1]] = refundOf[q][2]
      BY DEF Inv, TypeOK, UnderWay
    <3>2. ASSUME NEW q \in accepted
          PROVE  refundOf[q][1] \in Orders /\ captured[refundOf[q][1]] # None
      BY <3>1
    <3> QED
      BY <2>1, <3>1, <3>2
  <2>4. captured[o] = None /\ \A b \in Attempts : <<"captured", o, b>> \notin hooks
    BY <1>3 DEF Capture, Inv, UnderWay
  <2>5. UnderWay'
    BY <2>1, <2>2, <2>3, <2>4 DEF Inv, TypeOK, UnderWay
  <2>6. RefundBehindStatus'
    <3>1. ASSUME NEW p \in Orders, refundId[p] # None
          PROVE  /\ refundId[p] \in accepted
                 /\ refundOf[refundId[p]] = <<p, captured'[p]>>
      <4>1. /\ refundId[p] \in accepted
            /\ refundOf[refundId[p]] = <<p, captured[p]>>
        BY <3>1 DEF Inv, RefundBehindStatus
      <4>2. captured'[refundOf[refundId[p]][1]] = refundOf[refundId[p]][2]
        BY <2>3, <4>1
      <4> QED
        BY <4>1, <4>2
    <3> QED
      BY <2>2, <3>1 DEF Inv, RefundBehindStatus
  <2> QED
    BY <1>1, <1>3, <2>5, <2>6 DEF Capture, Inv, RecordedIsPaid, AnnouncedIsPaid
<1>4. CASE UNCHANGED vars
  BY <1>1, <1>4 DEF vars, razorpayVars, Inv, UnderWay, RecordedIsPaid,
                    RefundBehindStatus, AnnouncedIsPaid
<1> QED
  BY <1>1, <1>2, <1>3, <1>4, OrderStep, VerifyStep, RefundStep, WebhookStep
  DEF Next

\* The inductive invariant of the payment service.
THEOREM Invariant == Spec => []Inv
<1>1. Init => Inv
  BY PaymentAssumption
  DEF Init, Inv, TypeOK, Statuses, UnderWay, RecordedIsPaid,
      RefundBehindStatus, AnnouncedIsPaid
<1> QED
  BY <1>1, InvStep, PTL DEF Spec

\* A payment on record or announced is one a customer authorised at that order.
THEOREM MoneyAlwaysBehindStatus == Spec => []MoneyBehindStatus
<1>1. Inv => MoneyBehindStatus
  BY DEF Inv, MoneyBehindStatus
<1> QED
  BY <1>1, Invariant, PTL

\* A refund on record is one Razorpay accepted, or carried out, of the attempt it
\* captured at that order, for any number of refunds at once.
THEOREM RefundAlwaysBehindStatus == Spec => []RefundBehindStatus
<1>1. Inv => RefundBehindStatus
  BY DEF Inv
<1> QED
  BY <1>1, Invariant, PTL

(***************************************************************************)
(* Two orders for one booking.                                             *)
(***************************************************************************)

\* Who verifies, or has paid, has a payment on record: none is ever removed.
HasPayment ==
    /\ \A v \in Verifications :
          vpc[v] \in {"succeed", "fail"} => status[claim[v][1]] # "none"
    /\ \A o \in Orders : paymentId[o] # None => status[o] # "none"

\* What a webhook does to the payments: none is removed, none but the one of a
\* payment on record is changed, and nothing is initiated.
LEMMA HandleMoves ==
    ASSUME Inv, HasPayment, NEW h \in hooks, Handle(h)
    PROVE  /\ \A o \in Orders :
                 \/ status'[o] = status[o]
                 \/ /\ status[o] # "none"
                    /\ status'[o] \in {"success", "failed", "refund_pending",
                                       "refunded"}
           /\ \A o \in Orders :
                 paymentId'[o] # None => paymentId[o] # None \/ status[o] # "none"
<1> USE DEF Inv, TypeOK, storeVars
<1>1. ASSUME NEW o \in Orders, NEW a \in Attempts, Captured(o, a)
      PROVE  /\ \A p \in Orders :
                   \/ status'[p] = status[p]
                   \/ status[p] # "none" /\ status'[p] = "success"
             /\ \A p \in Orders :
                   paymentId'[p] # None => paymentId[p] # None \/ status[p] # "none"
  BY <1>1 DEF Captured, CapturedFilter, SetStatus
<1>2. ASSUME NEW o \in Orders, Failed(o)
      PROVE  /\ \A p \in Orders :
                   \/ status'[p] = status[p]
                   \/ status[p] # "none" /\ status'[p] = "failed"
             /\ UNCHANGED paymentId
  BY <1>2 DEF Failed, SetStatus
<1>3. ASSUME NEW r \in Refunds, Refunded(r)
      PROVE  /\ \A p \in Orders :
                   \/ status'[p] = status[p]
                   \/ status[p] # "none" /\ status'[p] = "refunded"
             /\ UNCHANGED paymentId
  <2>1. \A p \in Orders : refundId[p] = r => status[p] # "none"
    BY PaymentAssumption DEF UnderWay, HasPayment
  <2> QED
    BY <1>3, <2>1 DEF Refunded
<1> QED
  BY <1>1, <1>2, <1>3, HandleCases

\* HasPayment is an invariant of the payment service.
THEOREM PaymentsStay == Spec => []HasPayment
<1>1. Init => HasPayment
  BY DEF Init, HasPayment
<1>2. Inv /\ HasPayment /\ [Next]_vars => HasPayment'
  <2> SUFFICES ASSUME Inv, HasPayment, [Next]_vars PROVE HasPayment'
    OBVIOUS
  <2> USE DEF storeVars, kafkaVars, orderVars, verifyVars, refundVars,
              razorpayVars
  <2>1. TypeOK
    BY DEF Inv
  <2>2. ASSUME UNCHANGED <<vpc, claim>>,
               \A o \in Orders : status[o] # "none" => status'[o] # "none",
               \A o \in Orders : paymentId'[o] # None =>
                  paymentId[o] # None \/ status[o] # "none"
        PROVE  HasPayment'
    BY <2>1, <2>2 DEF HasPayment, TypeOK
  <2>3. ASSUME NEW o \in Orders, CreatePayment(o) PROVE HasPayment'
    BY <2>1, <2>2, <2>3 DEF CreatePayment, SetStatus, TypeOK
  <2>4. ASSUME NEW v \in Verifications, NEW o \in Orders, NEW a \in Attempts,
               NEW signed \in BOOLEAN, FindPayment(v, o, a, signed)
        PROVE  HasPayment'
    BY <2>1, <2>4 DEF FindPayment, Return, HasPayment, TypeOK
  <2>5. ASSUME NEW v \in Verifications, MarkVerified(v) \/ MarkInvalid(v)
        PROVE  HasPayment'
    <3>1. claim[v][1] \in Orders /\ status[claim[v][1]] # "none"
      BY <2>1, <2>5 DEF MarkVerified, MarkInvalid, HasPayment, TypeOK
    <3>2. /\ \A o \in Orders : status[o] # "none" => status'[o] # "none"
          /\ \A o \in Orders : paymentId'[o] # None =>
                paymentId[o] # None \/ status[o] # "none"
      BY <2>1, <2>5, <3>1 DEF MarkVerified, MarkInvalid, SetStatus, TypeOK
    <3>3. \A u \in Verifications :
             vpc'[u] \in {"succeed", "fail"} =>
                vpc[u] \in {"succeed", "fail"} /\ claim'[u] = claim[u]
      BY <2>1, <2>5 DEF MarkVerified, MarkInvalid, Return, TypeOK
    <3> QED
      BY <2>1, <3>2, <3>3 DEF HasPayment, TypeOK
  <2>6. ASSUME NEW v \in Verifications, VerifyFails(v) PROVE HasPayment'
    BY <2>1, <2>6 DEF VerifyFails, Return, HasPayment, TypeOK
  <2>7. ASSUME NEW r \in Refunds, RecordRefund(r) PROVE HasPayment'
    BY <2>1, <2>2, <2>7 DEF RecordRefund, SetStatus, TypeOK
  <2>8. ASSUME NEW h \in hooks, Deliver(h) \/ DeliverUnanswered(h)
        PROVE  HasPayment'
    BY <2>2, <2>8, HandleMoves DEF Deliver, DeliverUnanswered
  <2>9. CASE UNCHANGED <<status, paymentId, vpc, claim>>
    BY <2>9 DEF HasPayment
  <2> QED
    BY <2>3, <2>4, <2>5, <2>6, <2>7, <2>8, <2>9
    DEF Next, vars, CreateOrder, VerifyPayment, RefundPayment, FindOrder,
        PlaceOrder, OrderFails, FindRefundable, SendRefund, RefundFails,
        ProcessRefund, Pay, Capture
<1> QED
  BY <1>1, <1>2, Invariant, PTL DEF Spec

\* A call that may make, or has made, a payment.
Alive(o) == pc[o] \in {"place", "create"} \/ status[o] # "none"

\* Of two such calls for one booking the later to look met the other one being
\* placed or over; an order met over is not initiated again; and a call that is
\* still placing its order has no payment.
OrdersInv ==
    /\ \A o \in Orders : pc[o] # "done" => status[o] = "none"
    /\ \A o, p \in Orders :
          p \in passedOver[o] => status[p] \in {"success", "failed",
                                                "refund_pending", "refunded"}
    /\ \A o, p \in Orders :
          o # p /\ Alive(o) /\ Alive(p) /\ bookingId[o] = bookingId[p] =>
             \/ p \in racing[o] \cup passedOver[o]
             \/ o \in racing[p] \cup passedOver[p]

\* No step but createOrder's gives a payment to who had none, or initiates one.
LEMMA StatusOnlyMoves ==
    ASSUME TypeOK, OrdersInv, UNCHANGED orderVars,
           \A o \in Orders :
              \/ status'[o] = status[o]
              \/ /\ status[o] # "none"
                 /\ status'[o] \in {"success", "failed", "refund_pending",
                                    "refunded"}
    PROVE  OrdersInv'
BY DEF orderVars, OrdersInv, Alive

\* A look-up that finds no active order meets every other one of its booking
\* being placed or over.
LEMMA FindOrderInv ==
    ASSUME TypeOK, OrdersInv, NEW o \in Orders, NEW b \in Bookings,
           FindOrder(o, b)
    PROVE  OrdersInv'
<1>1. /\ pc[o] = "idle" /\ status[o] = "none" /\ UNCHANGED status
      /\ bookingId' = [bookingId EXCEPT ![o] = b]
  BY DEF FindOrder, OrdersInv, storeVars
<1>2. CASE ExistingOrder(b)
  <2>1. /\ pc' = [pc EXCEPT ![o] = "done"]
        /\ UNCHANGED <<racing, passedOver>>
    BY <1>2 DEF FindOrder
  <2>2. ~Alive(o)'
    BY <1>1, <2>1 DEF Alive, TypeOK
  <2>3. \A p \in Orders : p # o => /\ Alive(p)' <=> Alive(p)
                                   /\ bookingId'[p] = bookingId[p]
                                   /\ pc'[p] = pc[p]
    BY <1>1, <2>1 DEF Alive, TypeOK
  <2> QED
    BY <1>1, <2>1, <2>2, <2>3 DEF OrdersInv
<1>3. CASE ~ExistingOrder(b)
  <2>1. /\ pc' = [pc EXCEPT ![o] = "place"]
        /\ racing' = [racing EXCEPT ![o] = Of(b) \cap Placing]
        /\ passedOver' = [passedOver EXCEPT ![o] = Of(b) \cap Over]
    BY <1>3 DEF FindOrder
  <2>2. \A p \in Orders : p # o => /\ Alive(p)' <=> Alive(p)
                                   /\ bookingId'[p] = bookingId[p]
                                   /\ pc'[p] = pc[p]
                                   /\ racing'[p] = racing[p]
                                   /\ passedOver'[p] = passedOver[p]
    BY <1>1, <2>1 DEF Alive, TypeOK
  <2>3. ASSUME NEW p \in Orders, p # o, Alive(p), bookingId[p] = b
        PROVE  p \in racing'[o] \cup passedOver'[o]
    <3>1. status[p] \notin Active
      BY <1>3, <2>3 DEF ExistingOrder
    <3>2. p \in Placing \/ p \in Over
      BY <2>3, <3>1 DEF Alive, Placing, Over, Active, TypeOK, Statuses
    <3> QED
      BY <2>1, <2>3, <3>2 DEF Of, TypeOK
  <2>4. \A p \in passedOver'[o] : status[p] \in {"success", "failed",
                                                 "refund_pending", "refunded"}
    BY <2>1 DEF Over, TypeOK
  <2>5. bookingId'[o] = b /\ pc'[o] = "place"
    BY <1>1, <2>1 DEF TypeOK
  <2>6. ASSUME NEW p \in Orders, NEW q \in Orders, p # q, Alive(p)', Alive(q)',
               bookingId'[p] = bookingId'[q]
        PROVE  \/ q \in racing'[p] \cup passedOver'[p]
               \/ p \in racing'[q] \cup passedOver'[q]
    <3>1. CASE p = o
      BY <2>2, <2>3, <2>5, <2>6, <3>1
    <3>2. CASE q = o
      BY <2>2, <2>3, <2>5, <2>6, <3>2
    <3>3. CASE p # o /\ q # o
      BY <2>2, <2>6, <3>3 DEF OrdersInv
    <3> QED
      BY <3>1, <3>2, <3>3
  <2>7. \A p \in Orders : pc'[p] # "done" => status'[p] = "none"
    BY <1>1, <2>2 DEF OrdersInv
  <2>8. \A p, q \in Orders :
           q \in passedOver'[p] => status'[q] \in {"success", "failed",
                                                   "refund_pending", "refunded"}
    BY <1>1, <2>2, <2>4 DEF OrdersInv
  <2> QED
    BY <2>6, <2>7, <2>8 DEF OrdersInv
<1> QED
  BY <1>2, <1>3

\* The other steps of a createOrder call.
LEMMA PlacingInv ==
    ASSUME TypeOK, OrdersInv, NEW o \in Orders,
           PlaceOrder(o) \/ CreatePayment(o) \/ OrderFails(o)
    PROVE  OrdersInv'
<1>1. /\ pc[o] \in {"place", "create"} /\ status[o] = "none"
      /\ \A p \in Orders : p # o => pc'[p] = pc[p] /\ status'[p] = status[p]
      /\ pc'[o] # "done" => status'[o] = "none"
      /\ UNCHANGED <<bookingId, racing, passedOver>>
  BY DEF PlaceOrder, CreatePayment, OrderFails, SetStatus, storeVars, TypeOK,
         OrdersInv
<1>2. \A p \in Orders : Alive(p)' => Alive(p)
  BY <1>1 DEF Alive
<1>3. \A p \in Orders : o \notin passedOver[p]
  BY <1>1 DEF OrdersInv
<1> QED
  BY <1>1, <1>2, <1>3 DEF OrdersInv

\* OrdersInv is an invariant of the payment service.
THEOREM OrdersInvariant == Spec => []OrdersInv
<1>1. Init => OrdersInv
  BY DEF Init, OrdersInv, Alive
<1>2. Inv /\ HasPayment /\ OrdersInv /\ [Next]_vars => OrdersInv'
  <2> SUFFICES ASSUME Inv, HasPayment, OrdersInv, [Next]_vars PROVE OrdersInv'
    OBVIOUS
  <2> USE DEF storeVars, kafkaVars, verifyVars, refundVars, razorpayVars, SetStatus
  <2>1. TypeOK
    BY DEF Inv
  <2>2. ASSUME NEW o \in Orders, NEW b \in Bookings, FindOrder(o, b)
        PROVE  OrdersInv'
    BY <2>1, <2>2, FindOrderInv
  <2>3. ASSUME NEW o \in Orders, PlaceOrder(o) \/ CreatePayment(o) \/ OrderFails(o)
        PROVE  OrdersInv'
    BY <2>1, <2>3, PlacingInv
  <2>4. CASE UNCHANGED <<orderVars, status>>
    BY <2>1, <2>4, StatusOnlyMoves DEF orderVars
  <2>5. ASSUME NEW v \in Verifications, MarkVerified(v) \/ MarkInvalid(v)
        PROVE  OrdersInv'
    <3>1. claim[v][1] \in Orders /\ status[claim[v][1]] # "none"
      BY <2>1, <2>5 DEF MarkVerified, MarkInvalid, HasPayment, TypeOK
    <3> QED
      BY <2>1, <2>5, <3>1, StatusOnlyMoves DEF MarkVerified, MarkInvalid, TypeOK
  <2>6. ASSUME NEW r \in Refunds, RecordRefund(r) PROVE OrdersInv'
    <3>1. refundOf[r][1] \in Orders /\ status[refundOf[r][1]] # "none"
      BY <2>1, <2>6 DEF RecordRefund, Inv, UnderWay, HasPayment, TypeOK
    <3> QED
      BY <2>1, <2>6, <3>1, StatusOnlyMoves DEF RecordRefund, TypeOK
  <2>7. ASSUME NEW h \in hooks, Deliver(h) \/ DeliverUnanswered(h)
        PROVE  OrdersInv'
    BY <2>1, <2>7, HandleMoves, StatusOnlyMoves DEF Deliver, DeliverUnanswered
  <2> QED
    BY <2>2, <2>3, <2>4, <2>5, <2>6, <2>7
    DEF Next, vars, CreateOrder, VerifyPayment, RefundPayment, FindPayment,
        VerifyFails, FindRefundable, SendRefund, RefundFails, ProcessRefund,
        Pay, Capture
<1> QED
  BY <1>1, <1>2, Invariant, PaymentsStay, PTL DEF Spec

\* Two orders of a booking are open or paid at once only after a race, or when
\* one that had failed or been refunded turns out paid.
THEOREM DoubleOrdersAreExplained == Spec => []DoubleOrderIsExplained
<1>1. TypeOK /\ OrdersInv => DoubleOrderIsExplained
  BY DEF OrdersInv, DoubleOrderIsExplained, Beside, Alive, Active
<1> QED
  BY <1>1, TypeCorrect, OrdersInvariant, PTL
=============================================================================
