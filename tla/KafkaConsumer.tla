----------------------------- MODULE KafkaConsumer -----------------------------
(***************************************************************************)
(* The booking service's Kafka consumer on one partition of one topic: the *)
(* log, the offset the group committed, and the members of the group, one  *)
(* in each booking service process.  Partitions do not touch each other's  *)
(* state.  Kafka and kafkajs are external.                                 *)
(*                                                                         *)
(* Kafka gives the partition to one member at a time, and refuses a commit *)
(* by another.  A member that lost the partition learns of it later, and   *)
(* until then goes on with what it has fetched.                            *)
(*                                                                         *)
(* handled, failed, overtaken and missed are history variables.            *)
(*                                                                         *)
(* An operator standing just before the one it resembles, such as          *)
(* NextOffsetSkipping before NextOffset, is the slip the properties must   *)
(* catch.                                                                  *)
(***************************************************************************)
EXTENDS Naturals, Sequences

CONSTANTS
    Members,     \* KafkaConsumer objects
    MaxRetries,  \* MAX_RETRIES
    MaxLog,      \* bound: messages published
    MaxFaults,   \* bound: handlers and commits that fail, lost memberships,
                 \* ended processes
    None

ASSUME ConsumerAssumption ==
    /\ MaxRetries \in Nat \ {0}
    /\ MaxLog \in Nat
    /\ MaxFaults \in Nat
    /\ None \notin Nat
    /\ None \notin Members

VARIABLES
    log,        \* what each message is: an "event" with a handler, or "other",
                \* empty or without a handler; offset o is log[o + 1]
    committed,  \* the offset the group resumes at, None before any commit
    owner,      \* the member Kafka gave the partition to, or None
    joined,     \* members that take themselves for its owner
    position,   \* per member: the offset it takes next
    pc,         \* where its processMessage is, with the message at position
    retries,    \* retryCounts, per member and offset
    handled,    \* offsets whose handler returned
    failed,     \* per offset: attempts that ended in the catch block
    overtaken,  \* offsets passed by the commit of a later one
    missed,     \* offsets below this one were there when a member joined
                \* before any commit
    faults

memberVars == <<joined, position, pc, retries>>
historyVars == <<handled, failed, overtaken, missed>>
vars == <<log, committed, owner, memberVars, historyVars, faults>>

Offsets == 0..(MaxLog - 1)
Steps == {"idle", "handler", "commit", "skip", "giveUp"}

Init ==
    /\ log = <<>>
    /\ committed = None
    /\ owner = None
    /\ joined = {}
    /\ position = [k \in Members |-> 0]
    /\ pc = [k \in Members |-> "idle"]
    /\ retries = [k \in Members |-> [o \in Offsets |-> 0]]
    /\ handled = {}
    /\ failed = [o \in Offsets |-> 0]
    /\ overtaken = {}
    /\ missed = 0
    /\ faults = 0

Fault == faults < MaxFaults /\ faults' = faults + 1

Goto(k, step) == pc' = [pc EXCEPT ![k] = step]

\* KafkaProducer.publish, by whichever service.
Publish(kind) ==
    /\ Len(log) < MaxLog
    /\ log' = Append(log, kind)
    /\ UNCHANGED <<committed, owner, memberVars, historyVars, faults>>

(***************************************************************************)
(* start, and the group's rebalances.                                      *)
(***************************************************************************)

\* fromBeginning: false.  A group that has committed nothing begins at the end.
ResumeAtEnd == Len(log)
ResumeAt == IF committed = None THEN Len(log) ELSE committed

Join(k) ==
    /\ owner = None
    /\ pc[k] = "idle"
    /\ owner' = k
    /\ joined' = joined \cup {k}
    /\ position' = [position EXCEPT ![k] = ResumeAt]
    /\ missed' = IF committed = None THEN Len(log) ELSE missed
    /\ UNCHANGED <<log, committed, pc, retries, handled, failed, overtaken,
                   faults>>

\* The session times out, or another process joins.
Revoke ==
    /\ owner # None
    /\ Fault
    /\ owner' = None
    /\ UNCHANGED <<log, committed, memberVars, historyVars>>

\* The member learns of it between two messages.
Leave(k) ==
    /\ k \in joined
    /\ owner # k
    /\ pc[k] = "idle"
    /\ joined' = joined \ {k}
    /\ UNCHANGED <<log, committed, owner, position, pc, retries, historyVars,
                   faults>>

\* retryCounts is in memory.
Restart(k) ==
    /\ Fault
    /\ owner' = IF owner = k THEN None ELSE owner
    /\ joined' = joined \ {k}
    /\ Goto(k, "idle")
    /\ retries' = [retries EXCEPT ![k] = [o \in Offsets |-> 0]]
    /\ UNCHANGED <<log, committed, position, historyVars>>

(***************************************************************************)
(* processMessage.                                                         *)
(***************************************************************************)
Take(k) ==
    /\ k \in joined
    /\ pc[k] = "idle"
    /\ position[k] < Len(log)
    /\ Goto(k, IF log[position[k] + 1] = "event" THEN "handler" ELSE "skip")
    /\ UNCHANGED <<log, committed, owner, joined, position, retries,
                   historyVars, faults>>

HandlerReturns(k) ==
    /\ pc[k] = "handler"
    /\ handled' = handled \cup {position[k]}
    /\ Goto(k, "commit")
    /\ UNCHANGED <<log, committed, owner, joined, position, retries, failed,
                   overtaken, missed, faults>>

\* kafkajs goes on to the next message when processMessage returns.
Advance(k) == position' = [position EXCEPT ![k] = @ + 1]

\* The catch block.  Below MAX_RETRIES it returns, and the message is passed
\* over without a commit.
ExhaustedEarly(k) == retries[k][position[k]] + 2 >= MaxRetries
Exhausted(k) == retries[k][position[k]] + 1 >= MaxRetries

Catch(k) ==
    /\ retries' = [retries EXCEPT ![k][position[k]] = @ + 1]
    /\ failed' = [failed EXCEPT ![position[k]] = @ + 1]
    /\ IF Exhausted(k) THEN Goto(k, "giveUp") /\ UNCHANGED position
                       ELSE Goto(k, "idle") /\ Advance(k)

HandlerThrows(k) ==
    /\ pc[k] = "handler"
    /\ Fault
    /\ Catch(k)
    /\ UNCHANGED <<log, committed, owner, joined, handled, overtaken, missed>>

\* The commit names the group's generation.
MayCommit(k) == owner = k

NextOffsetSkipping(o) == o + 2
NextOffsetBefore(o) == IF o = 0 THEN 0 ELSE o - 1
NextOffset(o) == o + 1

\* Where the group stands: it will take nothing before this offset.
Base == IF committed = None THEN missed ELSE committed

\* Offsets the commit passes without a word about them.
Passed(k) == Base..(position[k] - 1)

Accept(k) ==
    /\ pc[k] \in {"commit", "skip", "giveUp"}
    /\ MayCommit(k)
    /\ committed' = NextOffset(position[k])
    /\ overtaken' = overtaken \cup Passed(k)

CommitOffset(k) ==
    /\ Accept(k)
    /\ retries' = IF pc[k] = "skip" THEN retries
                  ELSE [retries EXCEPT ![k][position[k]] = 0]
    /\ Goto(k, "idle")
    /\ Advance(k)
    /\ UNCHANGED <<log, owner, joined, handled, failed, missed, faults>>

\* Kafka has the commit, and its answer is on the way: kafkajs may ask again,
\* and without an answer the commit fails.
CommitUnanswered(k) ==
    /\ Accept(k)
    /\ UNCHANGED <<log, owner, memberVars, handled, failed, missed, faults>>

\* Refused, or unanswered.  Inside the try it counts as a failed attempt; in the
\* catch block it leaves processMessage, and kafkajs takes the message again, or
\* joins again if the commit was refused for another owner.
CommitFails(k) ==
    /\ IF MayCommit(k) THEN Fault ELSE UNCHANGED faults
    /\ \/ pc[k] \in {"commit", "skip"} /\ Catch(k) /\ UNCHANGED joined
       \/ /\ pc[k] = "giveUp"
          /\ joined' = IF MayCommit(k) THEN joined ELSE joined \ {k}
          /\ Goto(k, "idle")
          /\ UNCHANGED <<position, retries, failed>>
    /\ UNCHANGED <<log, committed, owner, handled, overtaken, missed>>

Next ==
    \/ \E kind \in {"event", "other"} : Publish(kind)
    \/ Revoke
    \/ \E k \in Members :
          \/ Join(k) \/ Leave(k) \/ Restart(k)
          \/ Take(k) \/ HandlerReturns(k) \/ HandlerThrows(k)
          \/ CommitOffset(k) \/ CommitUnanswered(k) \/ CommitFails(k)

Spec == Init /\ [][Next]_vars

\* Kafka gives the partition to somebody, members learn of what they lost, and
\* what a member began goes on: handlers and commits return or throw.
Fairness ==
    /\ WF_vars(\E k \in Members : Join(k))
    /\ \A k \in Members :
          /\ WF_vars(Leave(k))
          /\ WF_vars(Take(k))
          /\ WF_vars(HandlerReturns(k) \/ HandlerThrows(k))
          /\ WF_vars(CommitOffset(k) \/ CommitFails(k))

FairSpec == Spec /\ Fairness

(***************************************************************************)
(* Properties.                                                             *)
(***************************************************************************)

\* Every variable has its type; the owner takes itself for it, and is behind
\* what is committed by one message at most, whose commit was not answered.
TypeOK ==
    /\ log \in Seq({"event", "other"})
    /\ Len(log) <= MaxLog
    /\ committed \in Nat \cup {None}
    /\ owner \in Members \cup {None}
    /\ joined \subseteq Members
    /\ position \in [Members -> Nat]
    /\ pc \in [Members -> Steps]
    /\ retries \in [Members -> [Offsets -> Nat]]
    /\ handled \subseteq Offsets
    /\ failed \in [Offsets -> Nat]
    /\ overtaken \subseteq Offsets
    /\ missed \in Nat
    /\ faults \in Nat
    /\ missed <= Len(log)
    /\ committed # None => committed <= Len(log)
    /\ \A k \in Members :
          /\ position[k] <= Len(log)
          /\ pc[k] # "idle" => k \in joined /\ position[k] < Len(log)
          /\ pc[k] \in {"handler", "commit"} => log[position[k] + 1] = "event"
    /\ owner # None =>
          /\ owner \in joined
          /\ committed # None => committed <= position[owner] + 1

\* The group is past offset o.
Past(o) == committed # None /\ o < committed

\* An event is left behind only after its handler returned, or after the
\* attempts MAX_RETRIES allows, or after one failed and a later message of the
\* partition was committed.  None is left behind that nobody tried, through
\* rebalances, zombie members and restarts.
LeftBehindForCause ==
    \A o \in Offsets :
        Past(o) /\ o >= missed /\ log[o + 1] = "event" =>
            \/ o \in handled
            \/ failed[o] >= MaxRetries
            \/ failed[o] > 0 /\ o \in overtaken

\* The group's offset never goes back, whoever commits.
NeverRewinds == [][committed # None => committed' >= committed]_vars

\* What the group owes to a handler are the events it will still take.  It is
\* excused of one that came before it had committed anything and a member
\* joined, of one that failed as often as MAX_RETRIES allows, and of one that
\* failed and was overtaken.
Events == {o \in 0..(Len(log) - 1) : log[o + 1] = "event"}
Owed == {o \in Events : o >= Base}
Excused ==
    {o \in Events : \/ o < missed
                    \/ failed[o] >= MaxRetries
                    \/ failed[o] > 0 /\ o \in overtaken}

\* Committing after processing delivers at least once, as AtLeastOnce says: a
\* commit lets go only of what was handled or is excused, and what it let go is
\* never taken up again, whichever members the partition went through.
Promise == INSTANCE AtLeastOnce WITH
    Items <- Offsets, owed <- Owed, done <- handled, excused <- Excused
DeliversAtLeastOnce == Promise!Spec

\* Every message that comes after the first commit is looked at in the end:
\* the group passes it, or it failed and no later message carries the commit on.
EveryMessageTried ==
    \A o \in Offsets :
        (committed # None /\ o < Len(log)) ~>
            (Past(o) \/ failed[o] > 0)
=============================================================================
