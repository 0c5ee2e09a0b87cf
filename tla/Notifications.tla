----------------------------- MODULE Notifications -----------------------------
(***************************************************************************)
(* Notifications on their way from the booking service through RabbitMQ to *)
(* the notification service: RabbitMQPublisher, the fanout exchange with   *)
(* its two queues (external), NotificationConsumer, and the mail           *)
(* transporter.                                                            *)
(*                                                                         *)
(* A delivery is the channel it came on, its tag on that channel, its      *)
(* queue and its message.  handleMessage settles it on this.channel, which *)
(* by then may be another channel than the one it came on: the broker      *)
(* reads the tag, and a tag means something else on every channel.         *)
(*                                                                         *)
(* sent, sentHere, repeated, failed and misled are history variables.      *)
(*                                                                         *)
(* An operator standing just before the one it resembles, such as          *)
(* RequeuesNever before Requeues, is the slip the properties must catch.   *)
(***************************************************************************)
EXTENDS Naturals, Sequences, FiniteSets

CONSTANTS
    Messages,     \* messages given to publishNotification, once each
    Kind,         \* of each message: "email", "sms", or "unknown" when no
                  \* handler or template fits it
    MaxRetries,   \* MAX_RETRIES
    MaxChannels,  \* bound: channels opened, for a lost one can bring down
                  \* the next
    MaxFaults     \* bound: failed sends, lost connections, ended processes,
                  \* failed reconnections, transporters not set up

ASSUME NotificationsAssumption ==
    /\ Kind \in [Messages -> {"email", "sms", "unknown"}]
    /\ MaxRetries \in Nat \ {0}
    /\ MaxChannels \in Nat
    /\ MaxFaults \in Nat

Queues == {"email.notifications", "sms.notifications"}
Copies == Messages \X Queues

VARIABLES
    publisher,  \* "up", "waiting" to reconnect, or "down" for good
    outcome,    \* per message: how far publishNotification got
    queue,      \* per queue: the copies ready for delivery
    unacked,    \* deliveries of the open channel the broker awaits an
                \* acknowledgement of
    deaths,     \* x-death: how often the broker dead-lettered a copy
    process,    \* the notification service: "up" or "stopping"
    channel,    \* this.channel by its number, 0 when it is null or closed
    consuming,  \* queues with a consumer on the open channel
    opened,     \* channels opened so far
    tag,        \* deliveries made on the open channel
    handling,   \* deliveries handleMessage is sending
    mailer,     \* transporterInit: "none", "ready" or, rejected, "broken"
    sent,       \* copies sent
    sentHere,   \* copies sent by deliveries of the open channel, before it closed
    repeated,   \* copies sent by two of them
    failed,     \* per copy: failed sends
    misled,     \* copies settled by the handler of another delivery
    faults

publisherVars == <<publisher, outcome>>
brokerVars == <<queue, unacked, deaths>>
linkVars == <<process, channel, consuming>>
serviceVars == <<linkVars, opened, tag, handling, mailer>>
sentVars == <<sent, sentHere, repeated>>
historyVars == <<sentVars, failed, misled>>
vars == <<publisherVars, brokerVars, serviceVars, historyVars, faults>>

Deliveries ==
    [channel : Nat \ {0}, tag : Nat \ {0}, queue : Queues, message : Messages]
Copy(d) == <<d.message, d.queue>>
Outcomes == {"none", "published", "routed", "confirmed", "rejected", "dropped"}

Init ==
    /\ publisher = "up"
    /\ outcome = [m \in Messages |-> "none"]
    /\ queue = [q \in Queues |-> <<>>]
    /\ unacked = {}
    /\ deaths = [c \in Copies |-> 0]
    /\ process = "up"
    /\ channel = 0
    /\ consuming = {}
    /\ opened = 0
    /\ tag = 0
    /\ handling = {}
    /\ mailer = "none"
    /\ sent = {}
    /\ sentHere = {}
    /\ repeated = {}
    /\ failed = [c \in Copies |-> 0]
    /\ misled = {}
    /\ faults = 0

Fault == faults < MaxFaults /\ faults' = faults + 1

(***************************************************************************)
(* RabbitMQPublisher.                                                      *)
(***************************************************************************)

Advance(m, o) == outcome' = [outcome EXCEPT ![m] = o]

PublishNotification(m) ==
    /\ outcome[m] = "none"
    /\ Advance(m, IF publisher = "up" THEN "published" ELSE "dropped")
    /\ UNCHANGED <<publisher, brokerVars, serviceVars, historyVars, faults>>

\* The fanout exchange puts a copy into every queue bound to it.
Bound == Queues

Route(m) ==
    /\ outcome[m] = "published"
    /\ Advance(m, "routed")
    /\ queue' = [q \in Queues |-> IF q \in Bound THEN Append(queue[q], m)
                                                 ELSE queue[q]]
    /\ UNCHANGED <<publisher, unacked, deaths, serviceVars, historyVars, faults>>

\* The broker's confirm reaches the callback, and the promise resolves.
Confirm(m) ==
    /\ outcome[m] = "routed"
    /\ Advance(m, "confirmed")
    /\ UNCHANGED <<publisher, brokerVars, serviceVars, historyVars, faults>>

\* The connection closes: what is not confirmed is rejected, whether or not
\* the exchange has it.
Unconfirmed ==
    [m \in Messages |-> IF outcome[m] \in {"published", "routed"}
                        THEN "rejected" ELSE outcome[m]]

PublisherLost ==
    /\ publisher = "up"
    /\ Fault
    /\ publisher' = "waiting"
    /\ outcome' = Unconfirmed
    /\ UNCHANGED <<brokerVars, serviceVars, historyVars>>

\* The one attempt to reconnect; nothing follows one that fails.
PublisherReconnects ==
    /\ publisher = "waiting"
    /\ \/ publisher' = "up" /\ UNCHANGED faults
       \/ publisher' = "down" /\ Fault
    /\ UNCHANGED <<outcome, brokerVars, serviceVars, historyVars>>

\* Another booking service process: its bootstrap connects before it serves.
PublisherRestarts ==
    /\ Fault
    /\ publisher' = "up"
    /\ outcome' = Unconfirmed
    /\ UNCHANGED <<brokerVars, serviceVars, historyVars>>

(***************************************************************************)
(* The end of a channel: the broker puts what was not acknowledged back    *)
(* where it stood, which for one delivery at a time is the head.           *)
(***************************************************************************)
Requeued(ds) ==
    [q \in Queues |->
        IF \E d \in ds : d.queue = q
        THEN <<(CHOOSE d \in ds : d.queue = q).message>> \o queue[q]
        ELSE queue[q]]

ChannelStays ==
    /\ unacked' = {}
    /\ queue' = Requeued(unacked)
    /\ UNCHANGED <<channel, consuming>>

ChannelCloses ==
    /\ channel' = 0
    /\ consuming' = {}
    /\ unacked' = {}
    /\ queue' = Requeued(unacked)

(***************************************************************************)
(* NotificationConsumer: start, handleMessage, stop.                       *)
(***************************************************************************)
StartOnce ==
    /\ process = "up"
    /\ opened = 0
    /\ opened' = 1
    /\ channel' = 1
    /\ tag' = 0
    /\ sentHere' = {}
    /\ UNCHANGED <<publisherVars, brokerVars, process, consuming, handling,
                   mailer, sent, repeated, failed, misled, faults>>

\* Up to the declared queues, which no one sees: from here this.channel is the
\* new channel.
Start ==
    /\ process = "up"
    /\ channel = 0
    /\ opened < MaxChannels
    /\ opened' = opened + 1
    /\ channel' = opened + 1
    /\ tag' = 0
    /\ sentHere' = {}
    /\ UNCHANGED <<publisherVars, brokerVars, process, consuming, handling,
                   mailer, sent, repeated, failed, misled, faults>>

\* The consumers are registered one after the other, and deliveries to the
\* first may come before the second.
Consume(q) ==
    /\ channel # 0
    /\ q \notin consuming
    /\ q = "sms.notifications" => "email.notifications" \in consuming
    /\ consuming' = consuming \cup {q}
    /\ UNCHANGED <<publisherVars, brokerVars, process, channel, opened, tag,
                   handling, mailer, historyVars, faults>>

\* prefetch(1): one delivery at a time to the consumer of each queue.
MayDeliver(q) == queue[q] # <<>> /\ \A d \in unacked : d.queue # q

HandleMessage(q) ==
    /\ q \in consuming
    /\ MayDeliver(q)
    /\ LET d == [channel |-> channel, tag |-> tag + 1, queue |-> q,
                 message |-> Head(queue[q])]
       IN  /\ unacked' = unacked \cup {d}
           /\ handling' = handling \cup {d}
    /\ tag' = tag + 1
    /\ queue' = [queue EXCEPT ![q] = Tail(queue[q])]
    /\ UNCHANGED <<publisherVars, deaths, linkVars, opened, mailer, historyVars,
                   faults>>

\* What ack(msg) and nack(msg) name: the delivery of this.channel with the tag.
NamedUpTo(d) == {u \in unacked : u.tag <= d.tag}
Named(d) == {u \in unacked : u.tag = d.tag}

Mislead(d) == misled' = misled \cup {Copy(u) : u \in Named(d) \ {d}}

\* On a null or closed channel the call throws, in the catch block as well.
\* A tag that is not awaited is a channel error, to which nothing listens: it
\* takes down the connection, whose close handler forgets the channel, or, as
\* an uncaught exception, the process.
Unsettled(d) ==
    /\ Named(d) = {}
    /\ IF channel = 0 THEN UNCHANGED <<unacked, queue, linkVars>>
                      ELSE ChannelCloses /\ process' \in {"up", "stopping"}
    /\ UNCHANGED <<deaths, misled>>

AckRequeues(d) ==
    \/ Unsettled(d)
    \/ /\ Named(d) # {}
       /\ unacked' = unacked \ Named(d)
       /\ Mislead(d)
       /\ queue' = Requeued(Named(d))
       /\ UNCHANGED <<deaths, linkVars>>

Ack(d) ==
    \/ Unsettled(d)
    \/ /\ Named(d) # {}
       /\ unacked' = unacked \ Named(d)
       /\ Mislead(d)
       /\ UNCHANGED <<queue, deaths, linkVars>>

\* retryCount is read from x-death, which a requeued message does not get.
RequeuesNever(d) == FALSE
Requeues(d) == deaths[Copy(d)] < MaxRetries

\* No queue is bound to the dead letter exchange: a copy sent there is gone.
Nack(d) ==
    \/ Unsettled(d)
    \/ /\ Named(d) # {}
       /\ unacked' = unacked \ Named(d)
       /\ Mislead(d)
       /\ queue' = IF Requeues(d) THEN Requeued(Named(d)) ELSE queue
       /\ deaths' = [c \in Copies |->
                       IF ~Requeues(d) /\ \E u \in Named(d) : Copy(u) = c
                       THEN deaths[c] + 1 ELSE deaths[c]]
       /\ UNCHANGED linkVars

Sent(d) ==
    /\ sent' = sent \cup {Copy(d)}
    /\ IF d.channel = channel
       THEN /\ sentHere' = sentHere \cup {Copy(d)}
            /\ repeated' = repeated \cup ({Copy(d)} \cap sentHere)
       ELSE UNCHANGED <<sentHere, repeated>>

\* sendEmail or sendSms returns.  An unknown type or template sends nothing.
Handled(d) ==
    /\ d \in handling
    /\ Kind[d.message] = "email" => mailer = "ready"
    /\ handling' = handling \ {d}
    /\ IF Kind[d.message] = "unknown" THEN UNCHANGED sentVars ELSE Sent(d)
    /\ Ack(d)
    /\ UNCHANGED <<publisherVars, opened, tag, mailer, failed, faults>>

\* It throws; of the three only an email can.
Failed(d) ==
    /\ d \in handling
    /\ Kind[d.message] = "email"
    /\ mailer # "none"
    /\ Fault
    /\ failed' = [failed EXCEPT ![Copy(d)] = @ + 1]
    /\ handling' = handling \ {d}
    /\ Nack(d)
    /\ UNCHANGED <<publisherVars, opened, tag, mailer, sentVars>>

\* getTransporter: whichever email comes first starts transporterInit, and all
\* wait for it.  It is never tried again.
InitTransporter ==
    /\ mailer = "none"
    /\ \E d \in handling : Kind[d.message] = "email"
    /\ \/ mailer' = "ready" /\ UNCHANGED faults
       \/ mailer' = "broken" /\ Fault
    /\ UNCHANGED <<publisherVars, brokerVars, linkVars, opened, tag, handling,
                   historyVars>>

\* The close handler, registered after both consumers, starts again in 5 s; a
\* connection lost before that fails start, which does the same, but its error
\* has no listener yet and may end the process.
ConnectionLost ==
    /\ channel # 0
    /\ Fault
    /\ ChannelCloses
    /\ process' \in IF consuming = Queues THEN {process} ELSE {"up", "stopping"}
    /\ UNCHANGED <<publisherVars, deaths, opened, tag, handling, mailer,
                   historyVars>>

\* SIGTERM: the channel is closed first, then the process exits; a send that
\* returns in between can no longer be acknowledged.
Stop ==
    /\ process = "up"
    /\ Fault
    /\ process' = "stopping"
    /\ ChannelCloses
    /\ UNCHANGED <<publisherVars, deaths, opened, tag, handling, mailer,
                   historyVars>>

\* process.exit, or a crash; another process starts in its place.
Exit ==
    /\ \/ process = "stopping" /\ UNCHANGED faults
       \/ process = "up" /\ Fault
    /\ process' = "up"
    /\ ChannelCloses
    /\ handling' = {}
    /\ mailer' = "none"
    /\ UNCHANGED <<publisherVars, deaths, opened, tag, historyVars>>

Next ==
    \/ \E m \in Messages : PublishNotification(m) \/ Route(m) \/ Confirm(m)
    \/ PublisherLost
    \/ PublisherReconnects
    \/ PublisherRestarts
    \/ Start
    \/ \E q \in Queues : Consume(q) \/ HandleMessage(q)
    \/ \E d \in handling : Handled(d) \/ Failed(d)
    \/ InitTransporter
    \/ ConnectionLost
    \/ Stop
    \/ Exit

Spec == Init /\ [][Next]_vars

\* RabbitMQ delivers, sends return, a transporter is set up, the timer of the
\* reconnection fires, and a process that stops exits.  Nothing obliges the
\* booking service to publish, or a fault to happen.
Fairness ==
    /\ WF_vars(Start)
    /\ \A q \in Queues : WF_vars(Consume(q)) /\ WF_vars(HandleMessage(q))
    /\ \A c \in Copies :
          WF_vars(\E d \in handling : Copy(d) = c /\ (Handled(d) \/ Failed(d)))
    /\ WF_vars(InitTransporter)
    /\ WF_vars(process = "stopping" /\ Exit)

FairSpec == Spec /\ Fairness

(***************************************************************************)
(* Properties.                                                             *)
(***************************************************************************)

\* Every variable has its type; unacknowledged deliveries are of the open
\* channel, every delivery has a tag of its own on its channel, a process that
\* stops has no channel left, and only an open channel has consumers.
TypeOK ==
    /\ publisher \in {"up", "waiting", "down"}
    /\ outcome \in [Messages -> Outcomes]
    /\ queue \in [Queues -> Seq(Messages)]
    /\ unacked \subseteq Deliveries
    /\ deaths \in [Copies -> Nat]
    /\ process \in {"up", "stopping"}
    /\ channel \in {0, opened}
    /\ consuming \subseteq Queues
    /\ opened \in Nat
    /\ tag \in Nat
    /\ handling \subseteq Deliveries
    /\ mailer \in {"none", "ready", "broken"}
    /\ sent \subseteq Copies
    /\ sentHere \subseteq Copies
    /\ repeated \subseteq Copies
    /\ failed \in [Copies -> Nat]
    /\ misled \subseteq Copies
    /\ faults \in Nat
    /\ process = "stopping" => channel = 0
    /\ channel = 0 => consuming = {}
    /\ \A d \in unacked : d.channel = channel
    /\ \A d, e \in unacked \cup handling :
          d.channel = e.channel /\ d.tag = e.tag => d = e

\* RabbitMQ has the copy: ready, or delivered and not acknowledged.
Ready(c) == \E i \in DOMAIN queue[c[2]] : queue[c[2]][i] = c[1]
Held(c) == Ready(c) \/ \E d \in unacked : Copy(d) = c

\* A notification the exchange took is sent from both queues before they let
\* go of it, through failed sends, lost connections, restarts and an exit in
\* the middle of a send; unless nothing can be sent for it, or a handler
\* settled it in place of a delivery of an earlier channel.
KeptUntilSent ==
    \A c \in Copies :
        outcome[c[1]] \in {"routed", "confirmed"} =>
            \/ Held(c)
            \/ Kind[c[1]] = "unknown"
            \/ c \in sent
            \/ c \in misled

\* What RabbitMQ owes to a handler are the copies it has, unless nothing can be
\* sent for them.
Sendable == {c \in Copies : Kind[c[1]] # "unknown"}
Owed == {c \in Sendable : Held(c)}

\* Acknowledging after the send delivers at least once, as AtLeastOnce says: a
\* copy the exchange took is held until it is sent, whatever became of its
\* confirm, and never put back once it is gone.
Promise == INSTANCE AtLeastOnce WITH
    Items <- Sendable, owed <- Owed, done <- sent,
    excused <- misled \cap Sendable
DeliversAtLeastOnce == Promise!Spec

\* While its channel stays open a copy is sent once: that a send is repeated
\* takes a channel that closed before the acknowledgement.
SentOncePerChannel == repeated \subseteq misled

\* A handler settles another delivery than its own only if the connection was
\* lost, and another opened, while it was sending.
OnlyStaleHandlersMislead ==
    [][misled' # misled =>
         \E d \in handling \ handling' : d.channel \notin {0, channel}]_vars

Backlog == \E c \in Copies : outcome[c[1]] = "confirmed" /\ Held(c)

\* The model's bound ends the behaviour, not the code.
OutOfChannels == channel = 0 /\ opened = MaxChannels

\* However the connections and the process fare, the queues are drained of
\* what was published, unless the transporter could not be set up: its
\* rejected promise is kept, and fails every later email of the process, with
\* whatever waits behind it.
QueuesDrain ==
    []<>~Backlog \/ <>[](mailer = "broken") \/ <>OutOfChannels

\* docs/efficiency-and-resilience.md: the fourth failed attempt moves the
\* message to the dead letter exchange.
DeadLetteredAfterRetries ==
    \A c \in Copies : failed[c] > MaxRetries => deaths[c] > 0
=============================================================================
