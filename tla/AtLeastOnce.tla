---------------------------- MODULE AtLeastOnce -----------------------------
(***************************************************************************)
(* What the documentation promises of both message paths, Kafka with       *)
(* offsets committed after processing and RabbitMQ with an acknowledgement *)
(* after the send: what a path took in it owes until it is done, or there  *)
(* is an excuse; none is forgotten, none appears from nowhere, and what    *)
(* was let go is not owed again.  KafkaConsumer and Notifications          *)
(* implement this specification, each with excuses of its own.             *)
(***************************************************************************)
CONSTANT Items

VARIABLES
    owed,    \* taken in and not let go
    done,    \* processed at least once
    excused  \* may be let go undone

vars == <<owed, done, excused>>

Known == owed \cup done \cup excused

Init ==
    /\ owed = {}
    /\ done = {}
    /\ excused = {}

\* The path takes in what it has not seen before.
Accept(S) ==
    /\ S \cap Known = {}
    /\ owed' = owed \cup S
    /\ UNCHANGED <<done, excused>>

\* Some is done, perhaps again, and some let go: what is no longer owed is
\* done or excused by now.
Proceed ==
    /\ owed' \in SUBSET owed
    /\ done' \in SUBSET Known /\ done \subseteq done'
    /\ excused' \in SUBSET Known /\ excused \subseteq excused'
    /\ owed \ owed' \subseteq done' \cup excused'

Next == (\E S \in SUBSET Items : Accept(S)) \/ Proceed

Spec == Init /\ [][Next]_vars
=============================================================================
