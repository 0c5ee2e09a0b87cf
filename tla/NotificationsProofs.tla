-------------------------- MODULE NotificationsProofs --------------------------
(***************************************************************************)
(* Theorems about Notifications, for any messages, any number of channels, *)
(* any limit of retries and any faults.                                    *)
(***************************************************************************)
EXTENDS Notifications, TLAPS

(***************************************************************************)
(* Queues.                                                                 *)
(***************************************************************************)

NoRepeats(s) == \A i, j \in DOMAIN s : s[i] = s[j] => i = j

\* A message put at the head of a queue moves the others up by one.
LEMMA AtHead ==
    ASSUME NEW m \in Messages, NEW s \in Seq(Messages)
    PROVE  /\ <<m>> \o s \in Seq(Messages)
           /\ \A x \in Messages : (\E i \in DOMAIN (<<m>> \o s) : (<<m>> \o s)[i] = x)
                     <=> (x = m \/ \E i \in DOMAIN s : s[i] = x)
           /\ NoRepeats(s) /\ (\A i \in DOMAIN s : s[i] # m)
              => NoRepeats(<<m>> \o s)
<1> DEFINE t == <<m>> \o s
<1>1. /\ t \in Seq(Messages)
      /\ Len(t) = Len(s) + 1
      /\ DOMAIN t = 1..(Len(s) + 1) /\ DOMAIN s = 1..Len(s)
      /\ Len(s) \in Nat
  OBVIOUS
<1>2. \A i \in 1..(Len(s) + 1) : t[i] = IF i = 1 THEN m ELSE s[i - 1]
  OBVIOUS
<1> HIDE DEF t
<1>3. ASSUME NEW x \in Messages
      PROVE  (\E i \in DOMAIN t : t[i] = x)
             <=> (x = m \/ \E i \in DOMAIN s : s[i] = x)
  <2>1. ASSUME NEW i \in DOMAIN t PROVE t[i] = m \/ \E j \in DOMAIN s : s[j] = t[i]
    <3>1. CASE i = 1
      BY <1>1, <1>2, <3>1
    <3>2. CASE i # 1
      <4>1. i - 1 \in DOMAIN s /\ t[i] = s[i - 1]
        BY <1>1, <1>2, <3>2
      <4> QED
        BY <4>1
    <3> QED
      BY <3>1, <3>2
  <2>2. 1 \in DOMAIN t /\ t[1] = m
    BY <1>1, <1>2
  <2>3. ASSUME NEW i \in DOMAIN s PROVE i + 1 \in DOMAIN t /\ t[i + 1] = s[i]
    BY <1>1, <1>2
  <2> QED
    BY <2>1, <2>2, <2>3
<1>4. ASSUME NoRepeats(s), \A i \in DOMAIN s : s[i] # m
      PROVE  NoRepeats(t)
  <2> SUFFICES ASSUME NEW i \in DOMAIN t, NEW j \in DOMAIN t, t[i] = t[j]
               PROVE  i = j
    BY DEF NoRepeats
  <2>1. /\ i = 1 \/ (i - 1 \in DOMAIN s /\ t[i] = s[i - 1])
        /\ j = 1 \/ (j - 1 \in DOMAIN s /\ t[j] = s[j - 1])
        /\ t[1] = m
        /\ i \in Nat /\ j \in Nat
    BY <1>1, <1>2
  <2>2. i # 1 /\ j # 1 => i - 1 = j - 1
    BY <1>4, <2>1 DEF NoRepeats
  <2> QED
    BY <1>4, <2>1, <2>2
<1> QED
  BY <1>1, <1>3, <1>4 DEF t

\* A message put at the end of a queue.
LEMMA AtEnd ==
    ASSUME NEW m \in Messages, NEW s \in Seq(Messages)
    PROVE  /\ Append(s, m) \in Seq(Messages)
           /\ \A x \in Messages : (\E i \in DOMAIN Append(s, m) : Append(s, m)[i] = x)
                     <=> (x = m \/ \E i \in DOMAIN s : s[i] = x)
           /\ NoRepeats(s) /\ (\A i \in DOMAIN s : s[i] # m)
              => NoRepeats(Append(s, m))
<1> DEFINE t == Append(s, m)
<1>1. /\ t \in Seq(Messages)
      /\ DOMAIN t = 1..(Len(s) + 1) /\ DOMAIN s = 1..Len(s)
      /\ Len(s) \in Nat
  OBVIOUS
<1>2. /\ \A i \in 1..Len(s) : t[i] = s[i]
      /\ t[Len(s) + 1] = m
  OBVIOUS
<1> HIDE DEF t
<1>3. /\ \A i \in DOMAIN s : i \in DOMAIN t /\ t[i] = s[i]
      /\ Len(s) + 1 \in DOMAIN t
      /\ \A i \in DOMAIN t : i \in DOMAIN s \/ i = Len(s) + 1
  BY <1>1, <1>2
<1>4. NoRepeats(s) /\ (\A i \in DOMAIN s : s[i] # m) => NoRepeats(t)
  BY <1>2, <1>3 DEF NoRepeats
<1> QED
  BY <1>1, <1>2, <1>3, <1>4 DEF t

\* The head taken off a queue.
LEMMA OffHead ==
    ASSUME NEW s \in Seq(Messages), s # <<>>
    PROVE  /\ Head(s) \in Messages /\ Tail(s) \in Seq(Messages)
           /\ \A x \in Messages : (\E i \in DOMAIN s : s[i] = x)
                     => (x = Head(s) \/ \E i \in DOMAIN Tail(s) : Tail(s)[i] = x)
           /\ \A x \in Messages : (\E i \in DOMAIN Tail(s) : Tail(s)[i] = x)
                     => \E i \in DOMAIN s : s[i] = x
           /\ \E i \in DOMAIN s : s[i] = Head(s)
           /\ NoRepeats(s) => /\ NoRepeats(Tail(s))
                              /\ \A i \in DOMAIN Tail(s) : Tail(s)[i] # Head(s)
<1> DEFINE t == Tail(s)
<1>1. /\ t \in Seq(Messages) /\ Head(s) \in Messages /\ Head(s) = s[1]
      /\ DOMAIN t = 1..(Len(s) - 1) /\ DOMAIN s = 1..Len(s)
      /\ Len(s) \in Nat /\ Len(s) >= 1
  OBVIOUS
<1>2. \A i \in 1..(Len(s) - 1) : t[i] = s[i + 1]
  OBVIOUS
<1> HIDE DEF t
<1>3. /\ 1 \in DOMAIN s
      /\ \A i \in DOMAIN t : i + 1 \in DOMAIN s /\ t[i] = s[i + 1] /\ i + 1 # 1
      /\ \A i \in DOMAIN s : i # 1 => i - 1 \in DOMAIN t /\ t[i - 1] = s[i]
  <2>1. ASSUME NEW i \in DOMAIN t
        PROVE  i + 1 \in DOMAIN s /\ t[i] = s[i + 1] /\ i + 1 # 1
    BY <1>1, <1>2
  <2>2. ASSUME NEW i \in DOMAIN s, i # 1
        PROVE  i - 1 \in DOMAIN t /\ t[i - 1] = s[i]
    <3>1. i - 1 \in 1..(Len(s) - 1) /\ (i - 1) + 1 = i
      BY <1>1, <2>2
    <3> QED
      BY <1>1, <1>2, <3>1
  <2> QED
    BY <1>1, <2>1, <2>2
<1>4. ASSUME NoRepeats(s)
      PROVE  NoRepeats(t) /\ \A i \in DOMAIN t : t[i] # Head(s)
  <2>1. ASSUME NEW i \in DOMAIN t, NEW j \in DOMAIN t, t[i] = t[j] PROVE i = j
    <3>1. i + 1 = j + 1
      BY <1>3, <1>4, <2>1 DEF NoRepeats
    <3> QED
      BY <1>1, <3>1
  <2>2. ASSUME NEW i \in DOMAIN t PROVE t[i] # Head(s)
    <3>1. /\ i + 1 \in DOMAIN s /\ 1 \in DOMAIN s /\ i + 1 # 1
          /\ t[i] = s[i + 1] /\ Head(s) = s[1]
      BY <1>1, <1>3
    <3> QED
      BY <1>4, <3>1 DEF NoRepeats
  <2> QED
    BY <2>1, <2>2 DEF NoRepeats
<1>5. ASSUME NEW x \in Messages
      PROVE  /\ (\E i \in DOMAIN s : s[i] = x)
                   => x = Head(s) \/ \E i \in DOMAIN t : t[i] = x
             /\ (\E i \in DOMAIN t : t[i] = x) => \E i \in DOMAIN s : s[i] = x
  BY <1>1, <1>3
<1>6. \E i \in DOMAIN s : s[i] = Head(s)
  BY <1>1, <1>3
<1>7. Head(s) \in Messages /\ t \in Seq(Messages)
  BY <1>1
<1> QED
  BY <1>4, <1>5, <1>6, <1>7 DEF t

(***************************************************************************)
(* Types.                                                                  *)
(***************************************************************************)

\* What makes the type invariant inductive: channels and tags are counted.
TagsCounted ==
    \A d \in unacked \cup handling :
        d.channel <= opened /\ (d.channel = opened => d.tag <= tag)

TypeInv == TypeOK /\ TagsCounted

\* On a null or closed channel nothing awaits an acknowledgement.
LEMMA NoneUnackedWhenClosed == ASSUME TypeOK, channel = 0 PROVE unacked = {}
BY DEF TypeOK, Deliveries

\* A requeued delivery is the message it was.
LEMMA RequeuedType ==
    ASSUME TypeOK, NEW ds \in SUBSET unacked
    PROVE  Requeued(ds) \in [Queues -> Seq(Messages)]
<1> SUFFICES ASSUME NEW q \in Queues
             PROVE  Requeued(ds)[q] \in Seq(Messages)
  BY DEF Requeued
<1>1. queue[q] \in Seq(Messages)
  BY DEF TypeOK
<1>2. CASE \E d \in ds : d.queue = q
  <2>1. PICK e \in ds : e = CHOOSE d \in ds : d.queue = q
    BY <1>2
  <2>2. e.message \in Messages
    BY DEF TypeOK, Deliveries
  <2>3. Requeued(ds)[q] = <<e.message>> \o queue[q]
    BY <1>2, <2>1 DEF Requeued
  <2> QED
    BY <1>1, <2>2, <2>3, AtHead
<1>3. CASE ~\E d \in ds : d.queue = q
  BY <1>1, <1>3 DEF Requeued
<1> QED
  BY <1>2, <1>3

\* An acknowledgement names one delivery at most.
LEMMA NamedOnce ==
    ASSUME TypeOK, NEW d \in handling
    PROVE  /\ \A u, v \in Named(d) : u = v
           /\ d.channel = channel => Named(d) \subseteq {d}
           /\ Named(d) \subseteq unacked
BY DEF TypeOK, Named

\* The end of a channel keeps the types.
LEMMA ClosesType ==
    ASSUME TypeInv, ChannelCloses
    PROVE  /\ channel' = 0 /\ consuming' = {} /\ unacked' = {}
           /\ queue' \in [Queues -> Seq(Messages)]
BY RequeuedType DEF TypeInv, ChannelCloses

\* So do acknowledgements of both kinds.
LEMMA SettleType ==
    ASSUME TypeInv, NEW d \in handling, Ack(d) \/ Nack(d)
    PROVE  /\ channel' \in {0, channel}
           /\ process' \in {"up", "stopping"}
           /\ process' = "stopping" => channel' = 0
           /\ consuming' \subseteq Queues
           /\ channel' = 0 => consuming' = {}
           /\ unacked' \subseteq unacked
           /\ channel' # channel => unacked' = {}
           /\ queue' \in [Queues -> Seq(Messages)]
           /\ deaths' \in [Copies -> Nat]
           /\ misled' \subseteq Copies
           /\ misled \subseteq misled'
<1> USE DEF TypeInv
<1>1. CASE Unsettled(d)
  <2>1. UNCHANGED <<deaths, misled>>
    BY <1>1 DEF Unsettled
  <2>2. CASE channel = 0
    BY <1>1, <2>1, <2>2 DEF Unsettled, linkVars, TypeOK
  <2>3. CASE channel # 0
    BY <1>1, <2>1, <2>3, ClosesType DEF Unsettled, TypeOK
  <2> QED
    BY <2>2, <2>3
<1>2. Named(d) \in SUBSET unacked
  BY NamedOnce
<1>3. ASSUME Mislead(d) PROVE misled' \subseteq Copies /\ misled \subseteq misled'
  <2>1. \A u \in Named(d) : Copy(u) \in Copies
    BY <1>2 DEF TypeOK, Deliveries, Copy, Copies
  <2> QED
    BY <1>3, <2>1 DEF Mislead, TypeOK
<1>4. CASE Ack(d) /\ ~Unsettled(d)
  BY <1>2, <1>3, <1>4 DEF Ack, linkVars, TypeOK
<1>5. CASE Nack(d) /\ ~Unsettled(d)
  <2>1. queue' \in [Queues -> Seq(Messages)]
    BY <1>2, <1>5, RequeuedType DEF Nack, TypeOK
  <2>2. deaths' \in [Copies -> Nat]
    <3>1. \A c \in Copies : deaths[c] \in Nat /\ deaths[c] + 1 \in Nat
      BY DEF TypeOK
    <3>2. deaths' = [c \in Copies |->
                       IF ~Requeues(d) /\ \E u \in Named(d) : Copy(u) = c
                       THEN deaths[c] + 1 ELSE deaths[c]]
      BY <1>5 DEF Nack
    <3> QED
      BY <3>1, <3>2
  <2> QED
    BY <1>2, <1>3, <1>5, <2>1, <2>2 DEF Nack, linkVars, TypeOK
<1> QED
  BY <1>1, <1>4, <1>5

\* What a handler leaves: deliveries that were there, and fewer of them.
LEMMA FewerDeliveries ==
    ASSUME TypeInv, unacked' \subseteq unacked, handling' \subseteq handling,
           UNCHANGED <<opened, tag>>, channel' \in {0, channel},
           channel' # channel => unacked' = {}
    PROVE  /\ unacked' \subseteq Deliveries /\ handling' \subseteq Deliveries
           /\ channel' \in {0, opened'}
           /\ \A d \in unacked' : d.channel = channel'
           /\ \A d, e \in unacked' \cup handling' :
                 d.channel = e.channel /\ d.tag = e.tag => d = e
           /\ TagsCounted'
BY DEF TypeInv, TypeOK, TagsCounted

\* A delivery has a tag no delivery of the channel had.
LEMMA HandleMessageType ==
    ASSUME TypeInv, NEW q \in Queues, HandleMessage(q)
    PROVE  TypeInv'
<1> USE DEF TypeInv
<1>1. PICK d : /\ d = [channel |-> channel, tag |-> tag + 1, queue |-> q,
                       message |-> Head(queue[q])]
               /\ unacked' = unacked \cup {d}
               /\ handling' = handling \cup {d}
  BY DEF HandleMessage
<1>2. /\ channel # 0 /\ channel = opened /\ tag' = tag + 1
      /\ queue' = [queue EXCEPT ![q] = Tail(queue[q])]
      /\ UNCHANGED <<publisherVars, deaths, linkVars, opened, mailer,
                     historyVars, faults>>
  BY DEF HandleMessage, linkVars, TypeOK
<1>3. Head(queue[q]) \in Messages /\ Tail(queue[q]) \in Seq(Messages)
  BY OffHead DEF HandleMessage, MayDeliver, TypeOK
<1>4. d \in Deliveries /\ d.channel = channel /\ d.tag = tag + 1
  BY <1>1, <1>2, <1>3 DEF Deliveries, TypeOK
<1>5. \A e \in unacked \cup handling :
        /\ e.channel <= opened /\ e.channel \in Nat /\ e.tag \in Nat
        /\ e.channel = opened => e.tag <= tag
  BY DEF TypeOK, TagsCounted, Deliveries
<1>6. opened \in Nat /\ tag \in Nat
  BY DEF TypeOK
<1>7. TagsCounted'
  BY <1>1, <1>2, <1>4, <1>5, <1>6 DEF TagsCounted
<1>8. \A e \in unacked \cup handling : ~(e.channel = channel /\ e.tag = tag + 1)
  BY <1>2, <1>5, <1>6
<1>9. \A e, f \in unacked' \cup handling' :
        e.channel = f.channel /\ e.tag = f.tag => e = f
  BY <1>1, <1>4, <1>8 DEF TypeOK
<1>10. queue' \in [Queues -> Seq(Messages)]
  BY <1>2, <1>3 DEF TypeOK
<1> QED
  BY <1>1, <1>2, <1>4, <1>6, <1>7, <1>9, <1>10
  DEF TypeOK, publisherVars, linkVars, historyVars, sentVars

\* handleMessage ends with the types kept, however it ends.
LEMMA HandlerType ==
    ASSUME TypeInv, NEW d \in handling, Handled(d) \/ Failed(d)
    PROVE  TypeInv'
<1> USE DEF TypeInv
<1>1. /\ Ack(d) \/ Nack(d)
      /\ handling' = handling \ {d}
      /\ UNCHANGED <<publisherVars, opened, tag, mailer>>
  BY DEF Handled, Failed
<1>2. Copy(d) \in Copies
  BY DEF TypeOK, Deliveries, Copy, Copies
<1>3. faults' \in Nat /\ failed' \in [Copies -> Nat]
  <2>1. CASE Handled(d)
    BY <2>1 DEF Handled, TypeOK
  <2>2. CASE Failed(d)
    BY <1>2, <2>2 DEF Failed, Fault, TypeOK
  <2> QED
    BY <2>1, <2>2
<1>4. sent' \subseteq Copies /\ sentHere' \subseteq Copies /\ repeated' \subseteq Copies
  BY <1>2 DEF Handled, Failed, Sent, sentVars, TypeOK
<1>5. /\ unacked' \subseteq Deliveries /\ handling' \subseteq Deliveries
      /\ channel' \in {0, opened'}
      /\ \A e \in unacked' : e.channel = channel'
      /\ \A e, f \in unacked' \cup handling' :
            e.channel = f.channel /\ e.tag = f.tag => e = f
      /\ TagsCounted'
  BY <1>1, SettleType, FewerDeliveries
<1>6. channel' \in {0, channel}
  BY <1>1, SettleType
<1> QED
  BY <1>1, <1>4, <1>5, <1>6, <1>3, SettleType DEF TypeOK, publisherVars

\* The type invariant.
THEOREM TypeInvariant == Spec => []TypeInv
<1>1. Init => TypeInv
  BY NotificationsAssumption DEF Init, TypeInv, TypeOK, TagsCounted, Outcomes
<1>2. TypeInv /\ [Next]_vars => TypeInv'
  <2> SUFFICES ASSUME TypeInv, [Next]_vars PROVE TypeInv'
    OBVIOUS
  <2> USE DEF publisherVars, brokerVars, linkVars, serviceVars, sentVars,
              historyVars
  <2>1. ASSUME NEW m \in Messages,
               PublishNotification(m) \/ Confirm(m) PROVE TypeInv'
    BY <2>1 DEF PublishNotification, Confirm, Advance, TypeInv, TypeOK,
                TagsCounted, Outcomes
  <2>2. ASSUME NEW m \in Messages, Route(m) PROVE TypeInv'
    <3>1. queue' \in [Queues -> Seq(Messages)]
      <4>1. \A q \in Queues : Append(queue[q], m) \in Seq(Messages)
        BY AtEnd DEF TypeInv, TypeOK
      <4> QED
        BY <2>2, <4>1 DEF Route, TypeInv, TypeOK
    <3> QED
      BY <2>2, <3>1 DEF Route, Advance, TypeInv, TypeOK, TagsCounted, Outcomes
  <2>3. CASE PublisherLost \/ PublisherReconnects \/ PublisherRestarts
    <3>1. Unconfirmed \in [Messages -> Outcomes]
      BY DEF Unconfirmed, TypeInv, TypeOK, Outcomes
    <3> QED
      BY <2>3, <3>1 DEF PublisherLost, PublisherReconnects, PublisherRestarts,
                        Fault, TypeInv, TypeOK, TagsCounted
  <2>4. CASE Start
    <3>1. unacked = {}
      BY <2>4, NoneUnackedWhenClosed DEF Start, TypeInv
    <3>2. \A d \in handling : d.channel <= opened /\ d.channel \in Nat
      BY DEF TypeInv, TypeOK, TagsCounted, Deliveries
    <3>3. opened \in Nat
      BY DEF TypeInv, TypeOK
    <3>4. TagsCounted'
      BY <2>4, <3>1, <3>2, <3>3 DEF Start, TagsCounted
    <3> QED
      BY <2>4, <3>1, <3>4 DEF Start, TypeInv, TypeOK
  <2>5. ASSUME NEW q \in Queues, Consume(q) \/ HandleMessage(q) PROVE TypeInv'
    <3>1. CASE Consume(q)
      BY <3>1 DEF Consume, TypeInv, TypeOK, TagsCounted
    <3> QED
      BY <2>5, <3>1, HandleMessageType
  <2>6. ASSUME NEW d \in handling, Handled(d) \/ Failed(d) PROVE TypeInv'
    BY <2>6, HandlerType
  <2>7. CASE InitTransporter
    BY <2>7 DEF InitTransporter, Fault, TypeInv, TypeOK, TagsCounted
  <2>8. CASE ConnectionLost \/ Stop \/ Exit
    <3>1. /\ ChannelCloses
          /\ UNCHANGED <<publisherVars, deaths, opened, tag, historyVars>>
          /\ handling' \subseteq handling
          /\ faults' \in Nat /\ process' \in {"up", "stopping"}
          /\ mailer' \in {"none", "ready", "broken"}
      BY <2>8 DEF ConnectionLost, Stop, Exit, Fault, TypeInv, TypeOK
    <3>2. /\ channel' = 0 /\ consuming' = {} /\ unacked' = {}
          /\ queue' \in [Queues -> Seq(Messages)]
      BY <3>1, ClosesType
    <3> QED
      BY <3>1, <3>2 DEF TypeInv, TypeOK, TagsCounted
  <2>9. CASE UNCHANGED vars
    BY <2>9 DEF vars, TypeInv, TypeOK, TagsCounted
  <2> QED
    BY <2>1, <2>2, <2>3, <2>4, <2>5, <2>6, <2>7, <2>8, <2>9 DEF Next
<1> QED
  BY <1>1, <1>2, PTL DEF Spec

\* Every variable keeps its type, and no two deliveries of a channel share a
\* tag.
THEOREM TypeCorrect == Spec => []TypeOK
BY TypeInvariant, PTL DEF TypeInv

\* A handler settles another delivery than its own only on a channel opened
\* while it was sending.
THEOREM OnlyStaleHandlersDo == Spec => OnlyStaleHandlersMislead
<1>1. TypeInv /\ [Next]_vars =>
        [misled' # misled =>
           \E d \in handling \ handling' : d.channel \notin {0, channel}]_vars
  <2> SUFFICES ASSUME TypeInv, [Next]_vars, misled' # misled
               PROVE  \E d \in handling \ handling' : d.channel \notin {0, channel}
    OBVIOUS
  <2>1. PICK d \in handling : Handled(d) \/ Failed(d)
    BY DEF Next, vars, historyVars, sentVars, PublishNotification, Route,
           Confirm, PublisherLost, PublisherReconnects, PublisherRestarts,
           Start, Consume, HandleMessage, InitTransporter, ConnectionLost,
           Stop, Exit
  <2>2. d \in handling \ handling' /\ (Ack(d) \/ Nack(d))
    BY <2>1 DEF Handled, Failed
  <2>3. Mislead(d)
    BY <2>2 DEF Ack, Nack, Unsettled
  <2>4. d.channel # channel
    BY <2>3, NamedOnce DEF Mislead, TypeInv, TypeOK
  <2>5. d.channel # 0
    BY DEF TypeInv, TypeOK, Deliveries
  <2> QED
    BY <2>2, <2>4, <2>5
<1> QED
  BY <1>1, TypeInvariant, PTL DEF Spec, OnlyStaleHandlersMislead

(***************************************************************************)
(* The broker.                                                             *)
(***************************************************************************)

\* prefetch(1): one delivery of a queue at a time.
OneAtATime == \A d, e \in unacked : d.queue = e.queue => d = e

\* A copy is in its queue once, or delivered, and not both.
EachOnce ==
    /\ \A q \in Queues : NoRepeats(queue[q])
    /\ \A d \in unacked : ~Ready(Copy(d))

\* x-death counts nothing.
NoneDead == \A c \in Copies : deaths[c] = 0

BrokerInv == OneAtATime /\ EachOnce /\ NoneDead

\* A delivery is of a copy.
LEMMA CopyType ==
    ASSUME TypeOK, NEW d \in unacked \cup handling
    PROVE  /\ Copy(d) \in Copies /\ d.channel # 0
           /\ d.message \in Messages /\ d.queue \in Queues
           /\ Copy(d)[1] = d.message /\ Copy(d)[2] = d.queue
BY DEF TypeOK, Deliveries, Copy, Copies

\* What is requeued is ready again, once, and so is what was ready.
LEMMA RequeuedReady ==
    ASSUME TypeInv, BrokerInv, NEW ds \in SUBSET unacked
    PROVE  /\ \A c \in Copies :
                 (\E i \in DOMAIN Requeued(ds)[c[2]] : Requeued(ds)[c[2]][i] = c[1])
                 <=> (Ready(c) \/ \E d \in ds : Copy(d) = c)
           /\ \A q \in Queues : NoRepeats(Requeued(ds)[q])
<1> USE DEF TypeInv, BrokerInv
<1>1. ASSUME NEW q \in Queues
      PROVE  /\ \A m \in Messages :
                   (\E i \in DOMAIN Requeued(ds)[q] : Requeued(ds)[q][i] = m)
                   <=> \/ \E i \in DOMAIN queue[q] : queue[q][i] = m
                       \/ \E d \in ds : d.queue = q /\ d.message = m
             /\ NoRepeats(Requeued(ds)[q])
  <2>1. CASE \E d \in ds : d.queue = q
    <3>1. PICK e \in ds : e = CHOOSE d \in ds : d.queue = q
      BY <2>1
    <3>2. e.queue = q
      BY <2>1, <3>1
    <3>3. Requeued(ds)[q] = <<e.message>> \o queue[q]
      BY <2>1, <3>1 DEF Requeued
    <3>4. \A d \in ds : d.queue = q => d = e
      BY <3>2 DEF OneAtATime
    <3>5. e.message \in Messages /\ queue[q] \in Seq(Messages)
      BY CopyType DEF TypeOK
    <3>6. NoRepeats(queue[q]) /\ \A i \in DOMAIN queue[q] : queue[q][i] # e.message
      BY <3>2, CopyType DEF EachOnce, Ready
    <3>7. NoRepeats(Requeued(ds)[q])
      BY <3>3, <3>5, <3>6, AtHead
    <3>8. ASSUME NEW m \in Messages
          PROVE  (\E i \in DOMAIN Requeued(ds)[q] : Requeued(ds)[q][i] = m)
                 <=> (m = e.message \/ \E i \in DOMAIN queue[q] : queue[q][i] = m)
      <4>1. (\E i \in DOMAIN (<<e.message>> \o queue[q]) :
                (<<e.message>> \o queue[q])[i] = m)
            <=> (m = e.message \/ \E i \in DOMAIN queue[q] : queue[q][i] = m)
        BY <3>5, AtHead
      <4> QED
        BY <3>3, <4>1, Zenon
    <3> QED
      BY <3>2, <3>4, <3>7, <3>8
  <2>2. CASE ~\E d \in ds : d.queue = q
    BY <2>2 DEF Requeued, EachOnce
  <2> QED
    BY <2>1, <2>2
<1>2. ASSUME NEW c \in Copies
      PROVE  (\E i \in DOMAIN Requeued(ds)[c[2]] : Requeued(ds)[c[2]][i] = c[1])
             <=> (Ready(c) \/ \E d \in ds : Copy(d) = c)
  <2>1. c[1] \in Messages /\ c[2] \in Queues /\ c = <<c[1], c[2]>>
    BY DEF Copies
  <2>2. \A d \in ds : Copy(d) = c <=> d.queue = c[2] /\ d.message = c[1]
    BY <2>1 DEF Copy
  <2> QED
    BY <1>1, <2>1, <2>2 DEF Ready
<1> QED
  BY <1>1, <1>2

\* Nothing is lost when a channel ends, and nothing doubled.
LEMMA ClosesKeeps ==
    ASSUME TypeInv, BrokerInv, ChannelCloses, UNCHANGED deaths
    PROVE  BrokerInv' /\ \A c \in Copies : Held(c)' <=> Held(c)
<1>1. queue' = Requeued(unacked) /\ unacked' = {}
  BY DEF ChannelCloses
<1> QED
  BY <1>1, RequeuedReady
  DEF BrokerInv, OneAtATime, EachOnce, NoneDead, Held, Ready

\* What an acknowledgement of either kind does to the copies: none is added,
\* none is dead-lettered, and ack lets go of the delivery it names only.
LEMMA SettleKeeps ==
    ASSUME TypeInv, BrokerInv, NEW d \in handling, Ack(d) \/ Nack(d)
    PROVE  /\ BrokerInv'
           /\ \A c \in Copies : Held(c)' => Held(c)
           /\ \A c \in Copies :
                 Held(c) => Held(c)' \/ c = Copy(d) \/ c \in misled'
           /\ Nack(d) => \A c \in Copies : Held(c) => Held(c)'
           /\ \A e \in unacked : \/ e \in unacked' \/ channel' = 0
                                 \/ e = d \/ Copy(e) \in misled'
           /\ Ack(d) /\ d \in unacked => ~Held(Copy(d))'
<1> USE DEF TypeInv
<1>1. Named(d) \in SUBSET unacked /\ (d \in unacked => d \in Named(d))
  BY DEF Named
<1>2. CASE Unsettled(d)
  <2>1. d \notin unacked /\ UNCHANGED deaths
    BY <1>1, <1>2 DEF Unsettled
  <2>2. CASE UNCHANGED <<unacked, queue, linkVars>>
    BY <2>1, <2>2
    DEF linkVars, BrokerInv, OneAtATime, EachOnce, NoneDead, Held, Ready
  <2>3. CASE ChannelCloses
    <3>1. channel' = 0
      BY <2>3 DEF ChannelCloses
    <3> QED
      BY <2>1, <2>3, <3>1, ClosesKeeps
  <2> QED
    BY <1>2, <2>2, <2>3 DEF Unsettled
<1>3. CASE ~Unsettled(d)
  <2>1. /\ unacked' = unacked \ Named(d)
        /\ misled' = misled \cup {Copy(u) : u \in Named(d) \ {d}}
    BY <1>3 DEF Ack, Nack, Mislead
  <2>2. \A u \in Named(d) : u = d \/ Copy(u) \in misled'
    BY <2>1
  <2>3. \A e \in unacked : e \in unacked' \/ e = d \/ Copy(e) \in misled'
    BY <2>1, <2>2
  <2>4. ASSUME Ack(d)
        PROVE  /\ BrokerInv'
               /\ \A c \in Copies : Held(c)' => Held(c)
               /\ \A c \in Copies :
                     Held(c) => Held(c)' \/ c = Copy(d) \/ c \in misled'
               /\ d \in unacked => ~Held(Copy(d))'
    <3>1. UNCHANGED <<queue, deaths>>
      BY <1>3, <2>4 DEF Ack
    <3>2. BrokerInv'
      BY <2>1, <3>1 DEF BrokerInv, OneAtATime, EachOnce, NoneDead, Ready
    <3>3. \A c \in Copies : Held(c)' => Held(c)
      BY <2>1, <3>1 DEF Held, Ready
    <3>4. \A c \in Copies : Held(c) => Held(c)' \/ c = Copy(d) \/ c \in misled'
      BY <2>3, <3>1 DEF Held, Ready
    <3>5. ASSUME d \in unacked PROVE ~Held(Copy(d))'
      <4>1. ~Ready(Copy(d))'
        BY <3>1, <3>5 DEF BrokerInv, EachOnce, Ready
      <4>2. ASSUME NEW e \in unacked', Copy(e) = Copy(d) PROVE FALSE
        <5>1. e \in unacked /\ e # d
          BY <1>1, <2>1, <3>5
        <5>2. e.queue = d.queue
          BY <3>5, <4>2, <5>1, CopyType
        <5> QED
          BY <3>5, <5>1, <5>2 DEF BrokerInv, OneAtATime
      <4> QED
        BY <4>1, <4>2 DEF Held
    <3> QED
      BY <3>2, <3>3, <3>4, <3>5
  <2>5. ASSUME Nack(d) PROVE BrokerInv' /\ \A c \in Copies : Held(c)' <=> Held(c)
    <3>1. Requeues(d)
      BY CopyType, NotificationsAssumption DEF Requeues, BrokerInv, NoneDead
    <3>2. queue' = Requeued(Named(d)) /\ deaths' = deaths
      BY <1>3, <2>5, <3>1 DEF Nack, TypeOK
    <3>3. /\ \A c \in Copies :
                Ready(c)' <=> (Ready(c) \/ \E u \in Named(d) : Copy(u) = c)
          /\ \A q \in Queues : NoRepeats(queue'[q])
      BY <1>1, <3>2, RequeuedReady DEF Ready
    <3>4. \A c \in Copies : Held(c)' <=> Held(c)
      BY <1>1, <2>1, <3>3 DEF Held
    <3>5. ASSUME NEW e \in unacked' PROVE ~Ready(Copy(e))'
      <4>1. e \in unacked /\ e \notin Named(d) /\ Copy(e) \in Copies
        BY <2>1, CopyType
      <4>2. ~Ready(Copy(e))
        BY <4>1 DEF BrokerInv, EachOnce
      <4>3. ASSUME NEW u \in Named(d) PROVE Copy(u) # Copy(e)
        BY <1>1, <4>1, CopyType DEF BrokerInv, OneAtATime
      <4> QED
        BY <3>3, <4>1, <4>2, <4>3
    <3>6. BrokerInv'
      BY <2>1, <3>2, <3>3, <3>5 DEF BrokerInv, OneAtATime, EachOnce, NoneDead
    <3> QED
      BY <3>4, <3>6
  <2> QED
    BY <2>3, <2>4, <2>5
<1> QED
  BY <1>2, <1>3

(***************************************************************************)
(* Nothing is lost, and nothing is sent twice on a channel.                *)
(***************************************************************************)

\* Of a message the exchange has not taken there is no copy anywhere.
Fresh ==
    \A c \in Copies :
        outcome[c[1]] \in {"none", "published"} =>
            /\ ~Held(c)
            /\ c \notin sentHere
            /\ \A d \in handling : Copy(d) # c

\* A handler's delivery of the open channel is unacknowledged, unless another
\* handler has settled it.
OwnUnacked ==
    \A d \in handling :
        d.channel = channel => d \in unacked \/ Copy(d) \in misled

\* A copy sent on the open channel is gone from the broker and the handlers.
SentIsGone ==
    channel # 0 =>
        \A c \in sentHere : c \notin misled =>
            /\ ~Held(c)
            /\ \A d \in handling : d.channel = channel => Copy(d) # c

\* What makes the two properties inductive.
NotificationsInv ==
    /\ BrokerInv
    /\ Fresh
    /\ OwnUnacked
    /\ SentIsGone
    /\ KeptUntilSent
    /\ SentOncePerChannel

\* The publisher's steps touch the outcomes only, and route nothing.
LEMMA OutcomeInv ==
    ASSUME NotificationsInv,
           UNCHANGED <<brokerVars, channel, handling, historyVars>>,
           \A m \in Messages :
              \/ outcome'[m] = outcome[m]
              \/ outcome'[m] \notin {"none", "routed", "confirmed"}
                 /\ (outcome'[m] = "published" => outcome[m] = "none")
              \/ outcome[m] = "routed" /\ outcome'[m] = "confirmed"
    PROVE  NotificationsInv'
<1> USE DEF brokerVars, historyVars, sentVars
<1>1. \A c \in Copies : c[1] \in Messages /\ Ready(c)' = Ready(c)
  BY DEF Copies, Ready
<1>2. \A c \in Copies : Held(c)' = Held(c)
  BY <1>1 DEF Held
<1>3. BrokerInv'
  BY DEF NotificationsInv, BrokerInv, OneAtATime, EachOnce, NoneDead, Ready
<1>4. Fresh'
  BY <1>1, <1>2 DEF NotificationsInv, Fresh
<1>5. KeptUntilSent'
  BY <1>1, <1>2 DEF NotificationsInv, KeptUntilSent
<1>6. OwnUnacked' /\ SentIsGone' /\ SentOncePerChannel'
  BY DEF NotificationsInv, OwnUnacked, SentIsGone, SentOncePerChannel, Held,
         Ready
<1> QED
  BY <1>3, <1>4, <1>5, <1>6 DEF NotificationsInv

\* The exchange puts one copy of the message into each queue.
LEMMA RouteInv ==
    ASSUME TypeInv, NotificationsInv, NEW m \in Messages, Route(m)
    PROVE  /\ NotificationsInv'
           /\ \A c \in Copies : Held(c)' <=> (Held(c) \/ c[1] = m)
<1> USE DEF TypeInv, NotificationsInv
<1>1. /\ outcome[m] = "published" /\ outcome' = [outcome EXCEPT ![m] = "routed"]
      /\ \A q \in Queues : queue'[q] = Append(queue[q], m)
      /\ UNCHANGED <<unacked, deaths, channel, handling, sent, sentHere,
                     repeated, misled>>
  BY DEF Route, Advance, Bound, linkVars, serviceVars, historyVars, sentVars
<1>2. ASSUME NEW q \in Queues
      PROVE  ~Held(<<m, q>>) /\ <<m, q>> \in Copies /\ queue[q] \in Seq(Messages)
  BY <1>1 DEF Fresh, Copies, TypeOK
<1>3. ASSUME NEW q \in Queues
      PROVE  /\ \A x \in Messages :
                   (\E i \in DOMAIN queue'[q] : queue'[q][i] = x)
                   <=> (x = m \/ \E i \in DOMAIN queue[q] : queue[q][i] = x)
             /\ NoRepeats(queue'[q])
  <2>1. \A i \in DOMAIN queue[q] : queue[q][i] # m
    BY <1>2 DEF Held, Ready
  <2>2. queue[q] \in Seq(Messages) /\ NoRepeats(queue[q])
    BY <1>2 DEF BrokerInv, EachOnce
  <2>3. NoRepeats(Append(queue[q], m))
    BY <2>1, <2>2, AtEnd
  <2>4. ASSUME NEW x \in Messages
        PROVE  (\E i \in DOMAIN Append(queue[q], m) : Append(queue[q], m)[i] = x)
               <=> (x = m \/ \E i \in DOMAIN queue[q] : queue[q][i] = x)
    BY <2>2, AtEnd
  <2> QED
    BY <1>1, <2>3, <2>4, Zenon
<1>4. ASSUME NEW c \in Copies
      PROVE  /\ Ready(c)' <=> (Ready(c) \/ c[1] = m)
             /\ Held(c)' <=> (Held(c) \/ c[1] = m)
             /\ c[1] = m => ~Held(c)
  <2>1. c[1] \in Messages /\ c[2] \in Queues /\ c = <<c[1], c[2]>>
    BY DEF Copies
  <2>2. Ready(c)' <=> (Ready(c) \/ c[1] = m)
    BY <1>3, <2>1 DEF Ready
  <2> QED
    BY <1>1, <1>2, <2>1, <2>2 DEF Held
<1>5. BrokerInv'
  <2>1. ASSUME NEW d \in unacked PROVE ~Ready(Copy(d))'
    <3>1. Copy(d) \in Copies /\ Held(Copy(d)) /\ ~Ready(Copy(d))
      BY CopyType DEF Held, BrokerInv, EachOnce
    <3> QED
      BY <1>4, <3>1
  <2> QED
    BY <1>1, <1>3, <2>1 DEF BrokerInv, OneAtATime, EachOnce, NoneDead
<1>6. \A c \in Copies : /\ c[1] \in Messages
                        /\ c[1] # m => outcome'[c[1]] = outcome[c[1]]
                        /\ c[1] = m => outcome'[c[1]] = "routed"
  BY <1>1 DEF Copies, TypeOK
<1>7. Fresh'
  BY <1>1, <1>4, <1>6 DEF Fresh
<1>8. KeptUntilSent'
  BY <1>1, <1>4, <1>6 DEF KeptUntilSent
<1>9. SentIsGone'
  <2>1. ASSUME NEW c \in sentHere PROVE c \in Copies /\ c[1] # m
    BY <1>1 DEF Fresh, TypeOK
  <2> QED
    BY <1>1, <1>4, <2>1 DEF SentIsGone
<1> QED
  BY <1>1, <1>4, <1>5, <1>7, <1>8, <1>9 DEF OwnUnacked, SentOncePerChannel

\* A delivery takes the head off the queue.
LEMMA HandleMessageInv ==
    ASSUME TypeInv, NotificationsInv, NEW q \in Queues, HandleMessage(q)
    PROVE  /\ NotificationsInv'
           /\ \A c \in Copies : Held(c)' <=> Held(c)
           /\ \A d \in handling' : d \in handling \/ Held(Copy(d))
<1> USE DEF TypeInv, NotificationsInv
<1>1. PICK d : /\ d = [channel |-> channel, tag |-> tag + 1, queue |-> q,
                       message |-> Head(queue[q])]
               /\ unacked' = unacked \cup {d}
               /\ handling' = handling \cup {d}
  BY DEF HandleMessage
<1>2. /\ queue[q] # <<>> /\ queue[q] \in Seq(Messages)
      /\ \A u \in unacked : u.queue # q
      /\ queue' = [queue EXCEPT ![q] = Tail(queue[q])]
      /\ UNCHANGED <<outcome, deaths, channel, sent, sentHere, repeated, misled>>
  BY DEF HandleMessage, MayDeliver, TypeOK, publisherVars, linkVars,
         historyVars, sentVars
<1>3. /\ d.channel = channel /\ d.queue = q /\ d.message = Head(queue[q])
      /\ Copy(d) = <<Head(queue[q]), q>>
      /\ Copy(d) \in Copies
  BY <1>1, <1>2, OffHead DEF Copy, Copies
<1>4. /\ \A x \in Messages : (\E i \in DOMAIN queue[q] : queue[q][i] = x)
                 => (x = Head(queue[q]) \/ \E i \in DOMAIN queue'[q] : queue'[q][i] = x)
      /\ \A x \in Messages : (\E i \in DOMAIN queue'[q] : queue'[q][i] = x)
                 => \E i \in DOMAIN queue[q] : queue[q][i] = x
      /\ \E i \in DOMAIN queue[q] : queue[q][i] = Head(queue[q])
      /\ NoRepeats(queue'[q])
      /\ \A i \in DOMAIN queue'[q] : queue'[q][i] # Head(queue[q])
  <2>1. queue'[q] = Tail(queue[q])
    BY <1>2 DEF TypeOK
  <2>2. NoRepeats(queue[q])
    BY DEF BrokerInv, EachOnce
  <2>3. /\ \A x \in Messages : (\E i \in DOMAIN queue[q] : queue[q][i] = x)
              => \/ x = Head(queue[q])
                 \/ \E i \in DOMAIN Tail(queue[q]) : Tail(queue[q])[i] = x
        /\ \A x \in Messages :
              (\E i \in DOMAIN Tail(queue[q]) : Tail(queue[q])[i] = x)
              => \E i \in DOMAIN queue[q] : queue[q][i] = x
        /\ \E i \in DOMAIN queue[q] : queue[q][i] = Head(queue[q])
    BY <1>2, OffHead
  <2>4. /\ NoRepeats(Tail(queue[q]))
        /\ \A i \in DOMAIN Tail(queue[q]) : Tail(queue[q])[i] # Head(queue[q])
    BY <1>2, <2>2, OffHead
  <2> QED
    BY <2>1, <2>3, <2>4, Zenon
<1>5. \A p \in Queues : p # q => queue'[p] = queue[p]
  BY <1>2 DEF TypeOK
<1>6. Ready(Copy(d)) /\ ~Ready(Copy(d))'
  BY <1>3, <1>4 DEF Ready
<1>7. ASSUME NEW c \in Copies
      PROVE  /\ Ready(c)' => Ready(c)
             /\ Ready(c) => Ready(c)' \/ c = Copy(d)
  <2>1. c[1] \in Messages /\ c[2] \in Queues /\ c = <<c[1], c[2]>>
    BY DEF Copies
  <2>2. CASE c[2] = q
    BY <1>3, <1>4, <2>1, <2>2 DEF Ready
  <2>3. CASE c[2] # q
    BY <1>5, <2>1, <2>3 DEF Ready
  <2> QED
    BY <2>2, <2>3
<1>8. \A c \in Copies : Held(c)' <=> Held(c)
  BY <1>1, <1>6, <1>7 DEF Held
<1>9. Held(Copy(d))
  BY <1>6 DEF Held
<1>10. BrokerInv'
  <2>1. OneAtATime'
    BY <1>1, <1>2, <1>3 DEF BrokerInv, OneAtATime
  <2>2. \A p \in Queues : NoRepeats(queue'[p])
    BY <1>4, <1>5 DEF BrokerInv, EachOnce
  <2>3. \A u \in unacked : ~Ready(Copy(u))'
    BY <1>7, CopyType DEF BrokerInv, EachOnce
  <2> QED
    BY <1>1, <1>2, <1>6, <2>1, <2>2, <2>3 DEF BrokerInv, EachOnce, NoneDead
<1>11. Fresh'
  BY <1>1, <1>2, <1>3, <1>8, <1>9 DEF Fresh
<1>12. OwnUnacked'
  BY <1>1, <1>2 DEF OwnUnacked
<1>13. SentIsGone'
  BY <1>1, <1>2, <1>8, <1>9 DEF SentIsGone, TypeOK
<1>14. KeptUntilSent' /\ SentOncePerChannel'
  BY <1>2, <1>8 DEF KeptUntilSent, SentOncePerChannel
<1> QED
  BY <1>1, <1>8, <1>9, <1>10, <1>11, <1>12, <1>13, <1>14

\* Nothing is sent twice on a channel, and what is sent may go.
LEMMA HandledInv ==
    ASSUME TypeInv, NotificationsInv, NEW d \in handling, Handled(d)
    PROVE  NotificationsInv'
<1> USE DEF TypeInv, NotificationsInv
<1>1. /\ Ack(d) /\ handling' = handling \ {d} /\ outcome' = outcome
      /\ channel' \in {0, channel} /\ misled \subseteq misled'
      /\ sent \subseteq sent' /\ sentHere \subseteq sentHere'
  BY SettleType DEF Handled, Sent, sentVars, publisherVars
<1>2. /\ Kind[d.message] # "unknown" => Copy(d) \in sent'
      /\ sentHere' \subseteq sentHere \cup {Copy(d)}
      /\ \A c \in sentHere' : c \in sentHere \/ d.channel = channel
      /\ \A c \in repeated' : \/ c \in repeated
                              \/ c = Copy(d) /\ c \in sentHere /\ d.channel = channel
  BY DEF Handled, Sent, sentVars
<1>3. /\ BrokerInv'
      /\ \A c \in Copies : Held(c)' => Held(c)
      /\ \A c \in Copies : Held(c) => Held(c)' \/ c = Copy(d) \/ c \in misled'
      /\ \A e \in unacked : \/ e \in unacked' \/ channel' = 0
                            \/ e = d \/ Copy(e) \in misled'
      /\ d \in unacked => ~Held(Copy(d))'
  BY <1>1, SettleKeeps
<1>4. /\ Copy(d) \in Copies /\ Copy(d)[1] = d.message
      /\ \A e \in handling : e.channel # 0
  BY CopyType
<1>5. Fresh'
  BY <1>1, <1>2, <1>3, <1>4 DEF Fresh
<1>6. OwnUnacked'
  BY <1>1, <1>3, <1>4 DEF OwnUnacked
<1>7. SentIsGone'
  <2> SUFFICES ASSUME channel' # 0, NEW c \in sentHere', c \notin misled'
               PROVE  /\ ~Held(c)'
                      /\ \A e \in handling' : e.channel = channel' => Copy(e) # c
    BY DEF SentIsGone
  <2>1. channel' = channel /\ channel # 0 /\ c \notin misled
    BY <1>1
  <2>2. CASE c \in sentHere
    <3>1. c \in Copies
      BY <2>2 DEF TypeOK
    <3> QED
      BY <1>1, <1>3, <2>1, <2>2, <3>1 DEF SentIsGone
  <2>3. CASE c \notin sentHere
    <3>1. c = Copy(d) /\ d.channel = channel
      BY <1>2, <2>3
    <3>2. d \in unacked
      BY <2>1, <3>1 DEF OwnUnacked
    <3>3. ASSUME NEW e \in handling', e.channel = channel', Copy(e) = c
          PROVE  FALSE
      <4>1. e \in handling /\ e # d /\ e \in unacked
        BY <1>1, <2>1, <3>3 DEF OwnUnacked
      <4>2. e.queue = d.queue
        BY <3>1, <3>3, <4>1, CopyType
      <4> QED
        BY <3>2, <4>1, <4>2 DEF BrokerInv, OneAtATime
    <3> QED
      BY <1>3, <3>1, <3>2, <3>3
  <2> QED
    BY <2>2, <2>3
<1>8. KeptUntilSent'
  <2> SUFFICES ASSUME NEW c \in Copies, outcome[c[1]] \in {"routed", "confirmed"}
               PROVE  \/ Held(c)' \/ Kind[c[1]] = "unknown"
                      \/ c \in sent' \/ c \in misled'
    BY <1>1 DEF KeptUntilSent
  <2>1. Held(c) \/ Kind[c[1]] = "unknown" \/ c \in sent \/ c \in misled
    BY DEF KeptUntilSent
  <2> QED
    BY <1>1, <1>2, <1>3, <1>4, <2>1
<1>9. SentOncePerChannel'
  BY <1>1, <1>2, <1>4 DEF SentOncePerChannel, SentIsGone
<1> QED
  BY <1>3, <1>5, <1>6, <1>7, <1>8, <1>9

\* A failed send loses nothing.
LEMMA FailedInv ==
    ASSUME TypeInv, NotificationsInv, NEW d \in handling, Failed(d)
    PROVE  NotificationsInv'
<1> USE DEF TypeInv, NotificationsInv
<1>1. /\ Nack(d) /\ handling' = handling \ {d}
      /\ UNCHANGED <<outcome, sent, sentHere, repeated>>
      /\ channel' \in {0, channel} /\ misled \subseteq misled'
  BY SettleType DEF Failed, sentVars, publisherVars
<1>2. /\ BrokerInv'
      /\ \A c \in Copies : Held(c)' => Held(c)
      /\ \A c \in Copies : Held(c) => Held(c)'
      /\ \A e \in unacked : \/ e \in unacked' \/ channel' = 0
                            \/ e = d \/ Copy(e) \in misled'
  BY <1>1, SettleKeeps
<1>3. \A e \in handling : e.channel # 0
  BY CopyType
<1>4. Fresh' /\ SentOncePerChannel'
  BY <1>1, <1>2 DEF Fresh, SentOncePerChannel
<1>5. OwnUnacked'
  BY <1>1, <1>2, <1>3 DEF OwnUnacked
<1>6. SentIsGone'
  <2>1. sentHere \subseteq Copies
    BY DEF TypeOK
  <2> QED
    BY <1>1, <1>2, <2>1 DEF SentIsGone
<1>7. KeptUntilSent'
  BY <1>1, <1>2 DEF KeptUntilSent
<1> QED
  BY <1>2, <1>4, <1>5, <1>6, <1>7

\* The end of a channel loses nothing.
LEMMA ClosesInv ==
    ASSUME TypeInv, NotificationsInv, ChannelCloses, handling' \subseteq handling,
           UNCHANGED <<outcome, deaths, sent, sentHere, repeated, misled>>
    PROVE  NotificationsInv'
<1> USE DEF TypeInv, NotificationsInv
<1>1. channel' = 0
  BY DEF ChannelCloses
<1>2. BrokerInv' /\ \A c \in Copies : Held(c)' <=> Held(c)
  BY ClosesKeeps
<1>3. \A e \in handling : e.channel # 0
  BY CopyType
<1>4. Fresh' /\ KeptUntilSent'
  BY <1>2 DEF Fresh, KeptUntilSent
<1> QED
  BY <1>1, <1>2, <1>3, <1>4 DEF OwnUnacked, SentIsGone, SentOncePerChannel

\* NotificationsInv is an invariant of the notifications.
THEOREM NotificationsInvariant == Spec => []NotificationsInv
<1>1. Init => NotificationsInv
  BY DEF Init, NotificationsInv, BrokerInv, OneAtATime, EachOnce, NoneDead,
         NoRepeats, Fresh, Held, Ready, OwnUnacked, SentIsGone, KeptUntilSent,
         SentOncePerChannel, Copies
<1>2. TypeInv /\ NotificationsInv /\ [Next]_vars => NotificationsInv'
  <2> SUFFICES ASSUME TypeInv, NotificationsInv, [Next]_vars
               PROVE  NotificationsInv'
    OBVIOUS
  <2> USE DEF publisherVars, brokerVars, linkVars, serviceVars, sentVars,
              historyVars
  <2>1. ASSUME NEW m \in Messages, PublishNotification(m) \/ Confirm(m)
        PROVE  NotificationsInv'
    BY <2>1, OutcomeInv
    DEF PublishNotification, Confirm, Advance, TypeInv, TypeOK
  <2>2. ASSUME NEW m \in Messages, Route(m) PROVE NotificationsInv'
    BY <2>2, RouteInv
  <2>3. CASE PublisherLost \/ PublisherReconnects \/ PublisherRestarts
    BY <2>3, OutcomeInv
    DEF PublisherLost, PublisherReconnects, PublisherRestarts, Unconfirmed
  <2>4. CASE Start
    <3>1. \A d \in handling : d.channel # opened + 1
      BY DEF TypeInv, TypeOK, TagsCounted, Deliveries
    <3>2. /\ channel' = opened + 1 /\ sentHere' = {}
          /\ UNCHANGED <<outcome, queue, unacked, deaths, handling, sent,
                         repeated, misled>>
      BY <2>4 DEF Start
    <3> QED
      BY <3>1, <3>2
      DEF NotificationsInv, BrokerInv, OneAtATime, EachOnce, NoneDead, Fresh,
          Held, Ready, OwnUnacked, SentIsGone, KeptUntilSent, SentOncePerChannel
  <2>5. ASSUME NEW q \in Queues, Consume(q) \/ HandleMessage(q)
        PROVE  NotificationsInv'
    <3>1. CASE Consume(q)
      BY <3>1, OutcomeInv DEF Consume
    <3> QED
      BY <2>5, <3>1, HandleMessageInv
  <2>6. ASSUME NEW d \in handling, Handled(d) \/ Failed(d)
        PROVE  NotificationsInv'
    BY <2>6, HandledInv, FailedInv
  <2>7. CASE InitTransporter
    BY <2>7, OutcomeInv DEF InitTransporter
  <2>8. CASE ConnectionLost \/ Stop \/ Exit
    BY <2>8, ClosesInv DEF ConnectionLost, Stop, Exit
  <2>9. CASE UNCHANGED vars
    BY <2>9, OutcomeInv DEF vars
  <2> QED
    BY <2>1, <2>2, <2>3, <2>4, <2>5, <2>6, <2>7, <2>8, <2>9 DEF Next
<1> QED
  BY <1>1, <1>2, TypeInvariant, PTL DEF Spec

\* What the exchange took is held until it is sent.
THEOREM NothingIsLost == Spec => []KeptUntilSent
BY NotificationsInvariant, PTL DEF NotificationsInv

\* While its channel stays open a copy is sent once.
THEOREM NothingIsRepeated == Spec => []SentOncePerChannel
BY NotificationsInvariant, PTL DEF NotificationsInv

\* No copy is ever dead-lettered, however often its sends fail: a requeued
\* message gets no x-death, and the count that is read from it stays 0.
THEOREM NothingIsDeadLettered == Spec => [](\A c \in Copies : deaths[c] = 0)
BY NotificationsInvariant, PTL DEF NotificationsInv, BrokerInv, NoneDead

(***************************************************************************)
(* The notifications implement AtLeastOnce.                                *)
(***************************************************************************)

\* Nothing is sent for a message of an unknown kind, or sent or misled of one
\* the exchange has not taken; and what a handler is sending is owed, unless it
\* was sent or misled meanwhile.
PromiseInv ==
    /\ sent \subseteq Sendable
    /\ \A c \in sent \cup misled : outcome[c[1]] \notin {"none", "published"}
    /\ \A d \in handling :
          Copy(d) \in Sendable => Held(Copy(d)) \/ Copy(d) \in sent \cup misled

\* An acknowledgement misleads copies the broker has.
LEMMA SettleMisleads ==
    ASSUME TypeInv, NEW d \in handling, Ack(d) \/ Nack(d)
    PROVE  /\ misled \subseteq misled'
           /\ \A c \in misled' : c \in misled \/ (c \in Copies /\ Held(c))
<1>1. CASE UNCHANGED misled
  BY <1>1
<1>2. CASE Mislead(d)
  <2>1. \A u \in Named(d) : u \in unacked /\ Copy(u) \in Copies
    BY CopyType DEF Named, TypeInv
  <2> QED
    BY <1>2, <2>1 DEF Mislead, Held
<1> QED
  BY <1>1, <1>2 DEF Ack, Nack, Unsettled

\* What a step may do to the copies without breaking the promise: let go of
\* what it sends or misleads, and send or mislead what is known.
LetsGo ==
    /\ \A c \in Copies : Held(c)' => Held(c)
    /\ \A c \in Sendable : Held(c) => Held(c)' \/ c \in sent' \cup misled'
    /\ sent \subseteq sent' /\ misled \subseteq misled'
    /\ \A c \in sent' : c \in Sendable /\ c \in Promise!Known
    /\ \A c \in misled' : c \in misled \/ Held(c)

LEMMA LetsGoProceeds ==
    ASSUME TypeOK, TypeOK', LetsGo
    PROVE  Promise!Proceed
<1>1. Owed' \in SUBSET Owed
  BY DEF LetsGo, Owed, Sendable
<1>2. Owed \ Owed' \subseteq sent' \cup (misled' \cap Sendable)
  BY DEF LetsGo, Owed
<1>3. \A c \in misled' \cap Sendable : c \in Promise!Known
  BY DEF LetsGo, Promise!Known, Owed
<1> QED
  BY <1>1, <1>2, <1>3 DEF LetsGo, Promise!Proceed

\* Such a step keeps PromiseInv, if its handlers send what the broker has.
LEMMA LetsGoPromise ==
    ASSUME TypeInv, TypeOK', NotificationsInv, PromiseInv, LetsGo,
           \A d \in handling' : d \in handling \/ Held(Copy(d)),
           \A m \in Messages :
              outcome'[m] \in {"none", "published"} =>
                 outcome[m] \in {"none", "published"}
    PROVE  PromiseInv'
<1> USE DEF TypeInv
<1>1. \A c \in sent' \cup misled' : c \in sent \cup misled \/ Held(c)
  BY DEF LetsGo, Promise!Known, Owed
<1>2. sent' \cup misled' \subseteq Copies
  BY DEF TypeOK
<1>3. ASSUME NEW c \in sent' \cup misled'
      PROVE  outcome'[c[1]] \notin {"none", "published"}
  <2>1. c \in Copies /\ c[1] \in Messages
    BY <1>2 DEF Copies
  <2>2. outcome[c[1]] \notin {"none", "published"}
    BY <1>1, <2>1 DEF PromiseInv, NotificationsInv, Fresh
  <2> QED
    BY <2>1, <2>2
<1>4. ASSUME NEW d \in handling', Copy(d) \in Sendable
      PROVE  Held(Copy(d))' \/ Copy(d)' \in sent' \cup misled'
  <2>1. Held(Copy(d)) \/ Copy(d) \in sent \cup misled
    BY <1>4 DEF PromiseInv
  <2> QED
    BY <1>4, <2>1 DEF LetsGo, Copy
<1> QED
  BY <1>3, <1>4 DEF PromiseInv, LetsGo, Sendable, Copy

\* So is any step that sends nothing and leaves to the broker what it has.
LEMMA HoldingLetsGo ==
    ASSUME PromiseInv, UNCHANGED <<sent, misled>>,
           \A c \in Copies : Held(c)' <=> Held(c)
    PROVE  LetsGo
BY DEF LetsGo, PromiseInv, Sendable, Promise!Known

\* The steps of the publisher and of the mailer touch no copy.
LEMMA UntouchedLetsGo ==
    ASSUME PromiseInv, UNCHANGED <<queue, unacked, sent, misled>>
    PROVE  LetsGo
BY HoldingLetsGo DEF Held, Ready

\* A handler sends and settles what the broker has, or what is already known.
LEMMA HandlerLetsGo ==
    ASSUME TypeInv, NotificationsInv, PromiseInv,
           NEW d \in handling, Handled(d) \/ Failed(d)
    PROVE  LetsGo /\ handling' \subseteq handling /\ UNCHANGED outcome
<1> USE DEF TypeInv, NotificationsInv
<1>1. /\ Copy(d) \in Copies /\ Copy(d)[1] = d.message
      /\ Copy(d) \in Sendable <=> Kind[d.message] # "unknown"
  BY CopyType DEF Sendable
<1>2. Copy(d) \in Sendable => Copy(d) \in Promise!Known
  BY DEF PromiseInv, Promise!Known, Owed
<1>3. CASE Handled(d)
  <2>1. Ack(d) /\ handling' \subseteq handling /\ UNCHANGED outcome
    BY <1>3 DEF Handled, publisherVars
  <2>2. /\ sent \subseteq sent' /\ sent' \subseteq sent \cup {Copy(d)}
        /\ Kind[d.message] = "unknown" => sent' = sent
        /\ Kind[d.message] # "unknown" => Copy(d) \in sent'
    BY <1>3 DEF Handled, Sent, sentVars
  <2>3. \A c \in sent' : c \in Sendable /\ c \in Promise!Known
    BY <1>1, <1>2, <2>2 DEF PromiseInv, Promise!Known
  <2>4. /\ \A c \in Copies : Held(c)' => Held(c)
        /\ \A c \in Copies : Held(c) => Held(c)' \/ c = Copy(d) \/ c \in misled'
    BY <2>1, SettleKeeps
  <2>5. /\ misled \subseteq misled'
        /\ \A c \in misled' : c \in misled \/ Held(c)
    BY <2>1, SettleMisleads
  <2>6. \A c \in Sendable : Held(c) => Held(c)' \/ c \in sent' \cup misled'
    BY <1>1, <2>2, <2>4 DEF Sendable
  <2> QED
    BY <2>1, <2>2, <2>3, <2>4, <2>5, <2>6 DEF LetsGo
<1>4. CASE Failed(d)
  <2>1. /\ Nack(d) /\ handling' \subseteq handling
        /\ UNCHANGED <<outcome, sent>>
    BY <1>4 DEF Failed, publisherVars, sentVars
  <2>2. /\ \A c \in Copies : Held(c)' => Held(c)
        /\ \A c \in Copies : Held(c) => Held(c)'
    BY <2>1, SettleKeeps
  <2>3. /\ misled \subseteq misled'
        /\ \A c \in misled' : c \in misled \/ Held(c)
    BY <2>1, SettleMisleads
  <2> QED
    BY <2>1, <2>2, <2>3 DEF LetsGo, PromiseInv, Sendable, Promise!Known
<1> QED
  BY <1>3, <1>4

\* The exchange takes a message in once.
LEMMA RouteAccepts ==
    ASSUME TypeInv, NotificationsInv, PromiseInv, NEW m \in Messages, Route(m)
    PROVE  (\E S \in SUBSET Sendable : Promise!Accept(S)) /\ PromiseInv'
<1> USE DEF TypeInv, NotificationsInv
<1>1. /\ outcome[m] = "published" /\ outcome' = [outcome EXCEPT ![m] = "routed"]
      /\ UNCHANGED <<handling, sent, misled>>
  BY DEF Route, Advance, serviceVars, historyVars, sentVars
<1>2. \A c \in Copies : Held(c)' <=> (Held(c) \/ c[1] = m)
  BY RouteInv
<1> DEFINE S == {c \in Sendable : c[1] = m}
<1>3. \A c \in S : ~Held(c) /\ c \notin sent \cup misled
  BY <1>1 DEF Fresh, PromiseInv, Sendable
<1>4. Owed' = Owed \cup S
  BY <1>2 DEF Owed, Sendable
<1>5. Promise!Accept(S)
  BY <1>1, <1>3, <1>4 DEF Promise!Accept, Promise!Known, Owed
<1>6. PromiseInv'
  <2>1. \A c \in sent \cup misled : c \in Copies /\ c[1] \in Messages /\ c[1] # m
    BY <1>1 DEF PromiseInv, TypeOK, Copies
  <2>2. \A c \in sent' \cup misled' : outcome'[c[1]] \notin {"none", "published"}
    BY <1>1, <2>1 DEF PromiseInv, TypeOK
  <2>3. ASSUME NEW d \in handling, Copy(d) \in Sendable
        PROVE  Held(Copy(d))' \/ Copy(d) \in sent \cup misled
    BY <1>2, <2>3 DEF PromiseInv, Sendable, Copy
  <2> QED
    BY <1>1, <2>2, <2>3 DEF PromiseInv, Sendable, Copy
<1> QED
  BY <1>5, <1>6

\* What every step but Route does.
LEMMA OthersLetGo ==
    ASSUME TypeInv, NotificationsInv, PromiseInv, [Next]_vars,
           \A m \in Messages : ~Route(m)
    PROVE  /\ LetsGo
           /\ \A d \in handling' : d \in handling \/ Held(Copy(d))
           /\ \A m \in Messages :
                 outcome'[m] \in {"none", "published"} =>
                    outcome[m] \in {"none", "published"}
<1> USE DEF publisherVars, brokerVars, linkVars, serviceVars, sentVars,
              historyVars
<1> DEFINE Goal == /\ LetsGo
                   /\ \A d \in handling' : d \in handling \/ Held(Copy(d))
                   /\ \A m \in Messages :
                         outcome'[m] \in {"none", "published"} =>
                            outcome[m] \in {"none", "published"}
<1>1. ASSUME NEW m \in Messages, PublishNotification(m) \/ Confirm(m)
      PROVE  Goal
  BY <1>1, UntouchedLetsGo
  DEF PublishNotification, Confirm, Advance, TypeInv, TypeOK
<1>2. CASE PublisherLost \/ PublisherReconnects \/ PublisherRestarts
  BY <1>2, UntouchedLetsGo
  DEF PublisherLost, PublisherReconnects, PublisherRestarts, Unconfirmed
<1>3. CASE Start \/ InitTransporter \/ UNCHANGED vars
  BY <1>3, UntouchedLetsGo DEF Start, InitTransporter, vars
<1>4. ASSUME NEW q \in Queues, Consume(q) \/ HandleMessage(q) PROVE Goal
  <2>1. CASE Consume(q)
    BY <2>1, UntouchedLetsGo DEF Consume
  <2>2. CASE HandleMessage(q)
    <3>1. UNCHANGED <<outcome, sent, misled>>
      BY <2>2 DEF HandleMessage
    <3> QED
      BY <2>2, <3>1, HandleMessageInv, HoldingLetsGo
  <2> QED
    BY <1>4, <2>1, <2>2
<1>5. ASSUME NEW d \in handling, Handled(d) \/ Failed(d) PROVE Goal
  BY <1>5, HandlerLetsGo
<1>6. CASE ConnectionLost \/ Stop \/ Exit
  <2>1. /\ ChannelCloses /\ handling' \subseteq handling
        /\ UNCHANGED <<outcome, deaths, sent, misled>>
    BY <1>6 DEF ConnectionLost, Stop, Exit
  <2> QED
    BY <2>1, ClosesKeeps, HoldingLetsGo DEF NotificationsInv
<1> QED
  BY <1>1, <1>2, <1>3, <1>4, <1>5, <1>6 DEF Next

\* PromiseInv is an invariant of the notifications.
THEOREM PromiseInvariant == Spec => []PromiseInv
<1>1. Init => PromiseInv
  BY DEF Init, PromiseInv
<1>2. TypeInv /\ TypeInv' /\ NotificationsInv /\ PromiseInv /\ [Next]_vars
      => PromiseInv'
  <2> SUFFICES ASSUME TypeInv, TypeInv', NotificationsInv, PromiseInv,
                      [Next]_vars
               PROVE  PromiseInv'
    OBVIOUS
  <2>1. ASSUME NEW m \in Messages, Route(m) PROVE PromiseInv'
    BY <2>1, RouteAccepts
  <2>2. CASE \A m \in Messages : ~Route(m)
    BY <2>2, OthersLetGo, LetsGoPromise DEF TypeInv
  <2> QED
    BY <2>1, <2>2
<1> QED
  BY <1>1, <1>2, TypeInvariant, NotificationsInvariant, PTL DEF Spec

\* The notifications deliver at least once: routing takes a message in, every
\* other step proceeds.
THEOREM DeliveredAtLeastOnce == Spec => DeliversAtLeastOnce
<1>1. Init => Promise!Init
  BY DEF Init, Promise!Init, Owed, Held, Ready, Sendable, Copies
<1>2. TypeInv /\ TypeInv' /\ NotificationsInv /\ PromiseInv /\ [Next]_vars
      => [Promise!Next]_(Promise!vars)
  <2> SUFFICES ASSUME TypeInv, TypeInv', NotificationsInv, PromiseInv,
                      [Next]_vars
               PROVE  Promise!Next
    OBVIOUS
  <2>1. ASSUME NEW m \in Messages, Route(m) PROVE Promise!Next
    BY <2>1, RouteAccepts DEF Promise!Next
  <2>2. CASE \A m \in Messages : ~Route(m)
    BY <2>2, OthersLetGo, LetsGoProceeds DEF TypeInv, Promise!Next
  <2> QED
    BY <2>1, <2>2
<1> QED
  BY <1>1, <1>2, TypeInvariant, NotificationsInvariant, PromiseInvariant, PTL
  DEF Spec, DeliversAtLeastOnce, Promise!Spec
================================================================================
