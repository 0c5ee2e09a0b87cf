-------------------------- MODULE KafkaConsumerProofs --------------------------
(***************************************************************************)
(* Theorems about KafkaConsumer, for any number of members, any log, any   *)
(* limit of retries and any faults.                                        *)
(***************************************************************************)
EXTENDS KafkaConsumer, TLAPS

(***************************************************************************)
(* Types.                                                                  *)
(***************************************************************************)

\* The message a member is at is in the log, and its offset is an offset.
LEMMA AtAMessage ==
    ASSUME TypeOK, NEW k \in Members, pc[k] # "idle"
    PROVE  /\ k \in joined
           /\ position[k] \in Offsets
           /\ position[k] < Len(log)
BY ConsumerAssumption DEF TypeOK, Offsets

\* A message put on the log leaves the others where they are.
LEMMA PublishType ==
    ASSUME TypeOK, NEW kind \in {"event", "other"}, Publish(kind)
    PROVE  /\ TypeOK'
           /\ Len(log') = Len(log) + 1
           /\ \A i \in 1..Len(log) : log'[i] = log[i]
<1>1. /\ log' \in Seq({"event", "other"})
      /\ Len(log') = Len(log) + 1 /\ Len(log') <= MaxLog
      /\ Len(log) \in Nat
      /\ \A i \in 1..Len(log) : log'[i] = log[i]
  <2>1. log \in Seq({"event", "other"}) /\ log' = Append(log, kind)
    BY DEF TypeOK, Publish
  <2>2. Len(log) < MaxLog
    BY DEF Publish
  <2> QED
    BY <2>1, <2>2, ConsumerAssumption
<1>2. ASSUME NEW k \in Members, pc[k] \in {"handler", "commit"}
      PROVE  log'[position[k] + 1] = "event"
  <2>1. /\ position[k] \in Nat /\ position[k] < Len(log)
        /\ log[position[k] + 1] = "event"
    BY <1>2 DEF TypeOK
  <2> QED
    BY <1>1, <2>1
<1>3. UNCHANGED <<committed, owner, memberVars, historyVars, faults>>
  BY DEF Publish
<1> USE ConsumerAssumption DEF TypeOK
<1>4. /\ missed' <= Len(log')
      /\ committed' # None => committed' <= Len(log')
  BY <1>1, <1>3 DEF historyVars
<1>5. \A k \in Members :
         /\ position'[k] <= Len(log')
         /\ pc'[k] # "idle" => k \in joined' /\ position'[k] < Len(log')
         /\ pc'[k] \in {"handler", "commit"} => log'[position'[k] + 1] = "event"
  BY <1>1, <1>2, <1>3 DEF memberVars
<1> QED
  BY <1>1, <1>3, <1>4, <1>5 DEF memberVars, historyVars

\* What Join resumes at is the log's end or what was committed.
LEMMA JoinType ==
    ASSUME TypeOK, NEW k \in Members, Join(k)
    PROVE  TypeOK'
BY ConsumerAssumption DEF TypeOK, Join, ResumeAt

\* The catch block keeps the types.
LEMMA CatchType ==
    ASSUME TypeOK, NEW k \in Members, pc[k] # "idle", Catch(k),
           UNCHANGED <<log, committed, owner, joined, handled, overtaken,
                       missed>>,
           faults' \in Nat
    PROVE  TypeOK'
<1> USE ConsumerAssumption DEF TypeOK
<1>1. k \in joined /\ position[k] \in Offsets /\ position[k] < Len(log)
  BY AtAMessage
<1>2. /\ retries' \in [Members -> [Offsets -> Nat]]
      /\ failed' \in [Offsets -> Nat]
  BY <1>1 DEF Catch
<1>3. CASE Exhausted(k)
  <2>1. position' = position /\ pc' = [pc EXCEPT ![k] = "giveUp"]
    BY <1>3 DEF Catch, Goto
  <2> QED
    BY <1>1, <1>2, <2>1 DEF Steps
<1>4. CASE ~Exhausted(k)
  <2>1. /\ position' = [position EXCEPT ![k] = @ + 1]
        /\ pc' = [pc EXCEPT ![k] = "idle"]
    BY <1>4 DEF Catch, Goto, Advance
  <2> QED
    BY <1>1, <1>2, <2>1 DEF Steps
<1> QED
  BY <1>3, <1>4

\* A commit, which only the owner makes, keeps the types.
LEMMA CommitType ==
    ASSUME TypeOK, NEW k \in Members, CommitOffset(k) \/ CommitUnanswered(k)
    PROVE  /\ TypeOK'
           /\ pc[k] # "idle" /\ owner = k
           /\ committed' = position[k] + 1
           /\ committed # None => committed <= position[k] + 1
           /\ overtaken' = overtaken \cup Passed(k)
           /\ UNCHANGED <<log, owner, handled, failed, missed>>
           /\ \/ UNCHANGED <<position, pc, retries>>
              \/ /\ position' = [position EXCEPT ![k] = @ + 1]
                 /\ pc' = [pc EXCEPT ![k] = "idle"]
<1> USE ConsumerAssumption DEF TypeOK
<1>1. /\ owner = k /\ k \in joined
      /\ position[k] \in Offsets /\ position[k] < Len(log)
  BY AtAMessage DEF CommitOffset, CommitUnanswered, Accept, MayCommit
<1>2. Passed(k) \subseteq Offsets
  <2>1. Base \in Nat
    BY DEF Base
  <2>2. position[k] \in Nat /\ MaxLog \in Nat /\ position[k] <= MaxLog - 1
    BY <1>1 DEF Offsets
  <2>3. \A o \in Base..(position[k] - 1) : o \in 0..(MaxLog - 1)
    BY <2>1, <2>2
  <2> QED
    BY <2>3 DEF Passed, Offsets
<1>3. retries' \in [Members -> [Offsets -> Nat]]
  <2>1. CASE CommitOffset(k)
    BY <1>1, <2>1 DEF CommitOffset
  <2>2. CASE CommitUnanswered(k)
    BY <2>2 DEF CommitUnanswered, memberVars
  <2> QED
    BY <2>1, <2>2
<1>4. /\ committed' = position[k] + 1
      /\ pc[k] # "idle"
      /\ \/ UNCHANGED <<position, pc, retries>>
         \/ /\ position' = [position EXCEPT ![k] = @ + 1]
            /\ pc' = [pc EXCEPT ![k] = "idle"]
      /\ overtaken' = overtaken \cup Passed(k)
      /\ UNCHANGED <<log, owner, joined, handled, failed, missed, faults>>
  <2>1. CASE CommitOffset(k)
    BY <2>1 DEF CommitOffset, Accept, NextOffset, Advance, Goto
  <2>2. CASE CommitUnanswered(k)
    BY <2>2 DEF CommitUnanswered, Accept, NextOffset, memberVars
  <2> QED
    BY <2>1, <2>2
<1>5. /\ committed' \in Nat /\ committed' <= Len(log')
      /\ committed' <= position'[k] + 1
  <2>1. position[k] \in Nat /\ Len(log) \in Nat
    BY DEF TypeOK
  <2>2. position'[k] \in {position[k], position[k] + 1}
    BY <1>4
  <2> QED
    BY <1>1, <1>4, <2>1, <2>2
<1>6. /\ position' \in [Members -> Nat]
      /\ pc' \in [Members -> Steps]
  <2>1. CASE UNCHANGED <<position, pc>>
    BY <2>1
  <2>2. CASE position' = [position EXCEPT ![k] = @ + 1] /\ pc' = [pc EXCEPT ![k] = "idle"]
    BY <2>2 DEF Steps
  <2> QED
    BY <1>4, <2>1, <2>2
<1>7. ASSUME NEW j \in Members
      PROVE  /\ position'[j] <= Len(log')
             /\ pc'[j] # "idle" => j \in joined' /\ position'[j] < Len(log')
             /\ pc'[j] \in {"handler", "commit"} =>
                   log'[position'[j] + 1] = "event"
  <2>1. CASE UNCHANGED <<position, pc>>
    BY <1>4, <2>1
  <2>2. CASE position' = [position EXCEPT ![k] = @ + 1] /\ pc' = [pc EXCEPT ![k] = "idle"]
    BY <1>1, <1>4, <2>2
  <2> QED
    BY <1>4, <2>1, <2>2
<1>8. TypeOK'
  BY <1>1, <1>2, <1>3, <1>4, <1>5, <1>6, <1>7
<1> QED
  BY <1>1, <1>4, <1>8

\* The type invariant.  That the owner is behind what is committed by one
\* message at most, which its own next commit names again, is what makes the
\* group's offset go forward.
THEOREM TypeCorrect == Spec => []TypeOK
<1>1. Init => TypeOK
  BY ConsumerAssumption DEF Init, TypeOK, Steps
<1>2. TypeOK /\ [Next]_vars => TypeOK'
  <2> SUFFICES ASSUME TypeOK, [Next]_vars PROVE TypeOK'
    OBVIOUS
  <2> USE ConsumerAssumption DEF memberVars, historyVars
  <2>1. ASSUME NEW kind \in {"event", "other"}, Publish(kind) PROVE TypeOK'
    BY <2>1, PublishType
  <2>2. CASE Revoke
    BY <2>2 DEF Revoke, Fault, TypeOK
  <2>3. ASSUME NEW k \in Members, Join(k) PROVE TypeOK'
    BY <2>3, JoinType
  <2>4. ASSUME NEW k \in Members, Leave(k) PROVE TypeOK'
    BY <2>4 DEF Leave, TypeOK
  <2>5. ASSUME NEW k \in Members, Restart(k) PROVE TypeOK'
    BY <2>5 DEF Restart, Fault, Goto, Steps, TypeOK
  <2>6. ASSUME NEW k \in Members, Take(k) PROVE TypeOK'
    BY <2>6 DEF Take, Goto, Steps, TypeOK
  <2>7. ASSUME NEW k \in Members, HandlerReturns(k) PROVE TypeOK'
    <3>1. position[k] \in Offsets
      BY <2>7, AtAMessage DEF HandlerReturns
    <3> QED
      BY <2>7, <3>1 DEF HandlerReturns, Goto, Steps, TypeOK
  <2>8. ASSUME NEW k \in Members, HandlerThrows(k) PROVE TypeOK'
    BY <2>8, CatchType DEF HandlerThrows, Fault, TypeOK
  <2>9. ASSUME NEW k \in Members, CommitOffset(k) \/ CommitUnanswered(k)
        PROVE  TypeOK'
    BY <2>9, CommitType
  <2>10. ASSUME NEW k \in Members, CommitFails(k) PROVE TypeOK'
    <3>1. faults' \in Nat
      BY <2>10 DEF CommitFails, Fault, TypeOK
    <3>2. CASE pc[k] \in {"commit", "skip"} /\ Catch(k) /\ UNCHANGED joined
      BY <2>10, <3>1, <3>2, CatchType DEF CommitFails
    <3>3. CASE pc[k] = "giveUp"
      BY <2>10, <3>1, <3>3 DEF CommitFails, MayCommit, Goto, Steps, TypeOK
    <3> QED
      BY <2>10, <3>2, <3>3 DEF CommitFails
  <2>11. CASE UNCHANGED vars
    BY <2>11 DEF vars, TypeOK
  <2> QED
    BY <2>1, <2>2, <2>3, <2>4, <2>5, <2>6, <2>7, <2>8, <2>9, <2>10, <2>11
    DEF Next
<1> QED
  BY <1>1, <1>2, PTL DEF Spec

(***************************************************************************)
(* The offset of the group.                                                *)
(***************************************************************************)

\* The group's offset never goes back: Kafka takes a commit only from the
\* owner, and the owner has resumed where the group stood.
THEOREM OffsetsNeverRewind == Spec => NeverRewinds
<1>1. TypeOK /\ [Next]_vars => [committed # None => committed' >= committed]_vars
  <2> SUFFICES ASSUME TypeOK, [Next]_vars, committed # None
               PROVE  committed' >= committed
    OBVIOUS
  <2>1. ASSUME NEW k \in Members, CommitOffset(k) \/ CommitUnanswered(k)
        PROVE  committed' >= committed
    <3>1. position[k] \in Nat /\ committed \in Nat
      BY DEF TypeOK
    <3> QED
      BY <2>1, <3>1, CommitType
  <2>2. CASE UNCHANGED committed
    BY <2>2 DEF TypeOK
  <2> QED
    BY <2>1, <2>2
    DEF Next, vars, Publish, Revoke, Join, Leave, Restart, Take,
        HandlerReturns, HandlerThrows, CommitFails
<1> QED
  BY <1>1, TypeCorrect, PTL DEF Spec, NeverRewinds

(***************************************************************************)
(* What is left behind.                                                    *)
(***************************************************************************)

\* What pc and the retry counts say of the message a member is at.
StepsAgree ==
    \A k \in Members :
        /\ pc[k] = "skip" => log[position[k] + 1] = "other"
        /\ pc[k] = "commit" => position[k] \in handled
        /\ pc[k] = "giveUp" => retries[k][position[k]] >= MaxRetries
        /\ \A o \in Offsets : retries[k][o] <= failed[o]

\* What the owner has passed without a commit has failed.
OwnerTried ==
    owner # None =>
        \A o \in Offsets : Base <= o /\ o < position[owner] => failed[o] > 0

\* What makes the property inductive.
ConsumerInv == StepsAgree /\ OwnerTried /\ LeftBehindForCause

\* The catch block counts the failure before it passes the message over.
LEMMA CatchInv ==
    ASSUME TypeOK, ConsumerInv, NEW k \in Members, pc[k] # "idle", Catch(k),
           UNCHANGED <<log, committed, owner, joined, handled, overtaken,
                       missed>>
    PROVE  ConsumerInv'
<1> USE ConsumerAssumption DEF ConsumerInv
<1>1. position[k] \in Offsets /\ position[k] \in Nat
  BY AtAMessage DEF TypeOK
<1>2. /\ failed' = [failed EXCEPT ![position[k]] = @ + 1]
      /\ retries' = [retries EXCEPT ![k][position[k]] = @ + 1]
  BY DEF Catch
<1>3. ASSUME NEW o \in Offsets
      PROVE  /\ failed[o] \in Nat
             /\ failed'[o] = IF o = position[k] THEN failed[o] + 1 ELSE failed[o]
  BY <1>1, <1>2 DEF TypeOK
<1>4. \A j \in Members, o \in Offsets :
        /\ retries[j][o] \in Nat
        /\ retries'[j][o] = IF j = k /\ o = position[k] THEN retries[j][o] + 1
                                                       ELSE retries[j][o]
  BY <1>1, <1>2 DEF TypeOK
<1>5. /\ \A j \in Members : j # k => pc'[j] = pc[j] /\ position'[j] = position[j]
      /\ \/ Exhausted(k) /\ pc'[k] = "giveUp" /\ position'[k] = position[k]
         \/ pc'[k] = "idle" /\ position'[k] = position[k] + 1
  BY DEF Catch, Goto, Advance, TypeOK
<1>6. StepsAgree'
  <2> SUFFICES ASSUME NEW j \in Members
               PROVE  /\ pc'[j] = "skip" => log'[position'[j] + 1] = "other"
                      /\ pc'[j] = "commit" => position'[j] \in handled'
                      /\ pc'[j] = "giveUp" =>
                            retries'[j][position'[j]] >= MaxRetries
                      /\ \A o \in Offsets : retries'[j][o] <= failed'[o]
    BY DEF StepsAgree
  <2>1. ASSUME NEW o \in Offsets PROVE retries'[j][o] <= failed'[o]
    <3>1. retries[j][o] <= failed[o]
      BY DEF StepsAgree
    <3> QED
      BY <1>3, <1>4, <3>1
  <2>2. CASE j = k
    BY <1>1, <1>4, <1>5, <2>1, <2>2 DEF Exhausted
  <2>3. CASE j # k
    <3>1. pc[j] = "giveUp" => position[j] \in Offsets
      BY AtAMessage
    <3> QED
      BY <1>4, <1>5, <2>1, <2>3, <3>1 DEF StepsAgree
  <2> QED
    BY <2>2, <2>3
<1>7. OwnerTried'
  <2> SUFFICES ASSUME owner # None, NEW o \in Offsets,
                      Base <= o, o < position'[owner]
               PROVE  failed'[o] > 0
    BY DEF OwnerTried, Base
  <2>1. owner \in Members
    BY DEF TypeOK
  <2>2. CASE o < position[owner]
    <3>1. failed[o] > 0
      BY <2>2 DEF OwnerTried
    <3> QED
      BY <1>3, <3>1
  <2>3. CASE ~(o < position[owner])
    <3>1. position[owner] \in Nat /\ o \in Nat
      BY <2>1 DEF TypeOK, Offsets
    <3>2. owner = k /\ o = position[k]
      BY <1>5, <2>1, <2>3, <3>1
    <3> QED
      BY <1>3, <3>2
  <2> QED
    BY <2>2, <2>3
<1>8. LeftBehindForCause'
  <2> SUFFICES ASSUME NEW o \in Offsets, Past(o), o >= missed,
                      log[o + 1] = "event"
               PROVE  \/ o \in handled
                      \/ failed'[o] >= MaxRetries
                      \/ failed'[o] > 0 /\ o \in overtaken
    BY DEF LeftBehindForCause, Past
  <2>1. \/ o \in handled
        \/ failed[o] >= MaxRetries
        \/ failed[o] > 0 /\ o \in overtaken
    BY DEF LeftBehindForCause
  <2> QED
    BY <1>3, <2>1
<1> QED
  BY <1>6, <1>7, <1>8

\* A commit leaves behind what its member handled, gave up or passed over.
LEMMA CommitInv ==
    ASSUME TypeOK, ConsumerInv, NEW k \in Members,
           CommitOffset(k) \/ CommitUnanswered(k)
    PROVE  ConsumerInv'
<1> USE ConsumerAssumption DEF ConsumerInv
<1>1. /\ owner = k /\ owner' = k /\ k # None
      /\ pc[k] \in {"commit", "skip", "giveUp"}
      /\ \/ UNCHANGED <<position, pc, retries>>
         \/ /\ position' = [position EXCEPT ![k] = @ + 1]
            /\ pc' = [pc EXCEPT ![k] = "idle"]
      /\ overtaken' = overtaken \cup Passed(k)
      /\ UNCHANGED <<log, handled, failed, missed>>
  BY CommitType DEF CommitOffset, CommitUnanswered, Accept
<1>2. /\ committed' = position[k] + 1
      /\ committed # None => committed <= position[k] + 1
      /\ position[k] \in Offsets
  BY CommitType, AtAMessage, <1>1
<1>3. /\ \A j \in Members, o \in Offsets :
            retries'[j][o] = retries[j][o] \/ retries'[j][o] = 0
      /\ \A j \in Members : j # k => retries'[j] = retries[j]
  <2>1. CASE CommitOffset(k)
    BY <1>2, <2>1 DEF CommitOffset, TypeOK
  <2>2. CASE CommitUnanswered(k)
    BY <2>2 DEF CommitUnanswered, memberVars
  <2> QED
    BY <2>1, <2>2
<1>4. StepsAgree'
  <2> SUFFICES ASSUME NEW j \in Members
               PROVE  /\ pc'[j] = "skip" => log'[position'[j] + 1] = "other"
                      /\ pc'[j] = "commit" => position'[j] \in handled'
                      /\ pc'[j] = "giveUp" =>
                            retries'[j][position'[j]] >= MaxRetries
                      /\ \A o \in Offsets : retries'[j][o] <= failed'[o]
    BY DEF StepsAgree
  <2>1. ASSUME NEW o \in Offsets PROVE retries'[j][o] <= failed'[o]
    <3>1. retries[j][o] <= failed[o] /\ failed[o] \in Nat
      BY DEF StepsAgree, TypeOK
    <3> QED
      BY <1>1, <1>3, <3>1
  <2> QED
    BY <1>1, <1>3, <2>1 DEF StepsAgree, TypeOK
<1>5. OwnerTried'
  <2>1. Base' = position[k] + 1 /\ position[k] \in Nat
    BY <1>2 DEF Base, TypeOK
  <2>2. position'[k] <= position[k] + 1 /\ position'[k] \in Nat
    BY <1>1, <2>1 DEF TypeOK
  <2> QED
    BY <1>1, <2>1, <2>2 DEF OwnerTried, Offsets
<1>6. LeftBehindForCause'
  <2> SUFFICES ASSUME NEW o \in Offsets, o < position[k] + 1, o >= missed,
                      log[o + 1] = "event"
               PROVE  \/ o \in handled
                      \/ failed[o] >= MaxRetries
                      \/ failed[o] > 0 /\ o \in overtaken'
    BY <1>1, <1>2 DEF LeftBehindForCause, Past
  <2>1. CASE Past(o)
    BY <1>1, <2>1 DEF LeftBehindForCause
  <2>2. CASE ~Past(o) /\ o < position[k]
    <3>1. Base <= o
      BY <2>2 DEF Base, Past, TypeOK, Offsets
    <3>2. o \in Passed(k)
      BY <2>2, <3>1 DEF Passed, Base, TypeOK, Offsets
    <3> QED
      BY <1>1, <2>2, <3>1, <3>2 DEF OwnerTried
  <2>3. CASE o = position[k]
    <3>1. retries[k][o] \in Nat /\ failed[o] \in Nat
      BY DEF TypeOK
    <3> QED
      BY <1>1, <2>3, <3>1 DEF StepsAgree
  <2> QED
    BY <1>2, <2>1, <2>2, <2>3 DEF Offsets
<1> QED
  BY <1>4, <1>5, <1>6

\* A member that joins has passed nothing: it begins where the group stands.
LEMMA JoinInv ==
    ASSUME TypeOK, ConsumerInv, NEW k \in Members, Join(k)
    PROVE  ConsumerInv'
<1> USE ConsumerAssumption DEF ConsumerInv
<1>1. /\ owner' = k /\ k # None /\ pc[k] = "idle"
      /\ position' = [position EXCEPT ![k] = ResumeAt]
      /\ missed' = IF committed = None THEN Len(log) ELSE missed
      /\ UNCHANGED <<log, committed, pc, retries, handled, failed, overtaken>>
  BY DEF Join
<1>2. StepsAgree'
  BY <1>1 DEF StepsAgree, TypeOK
<1>3. OwnerTried'
  <2>1. position'[k] = Base' /\ Base' \in Nat
    BY <1>1 DEF Base, ResumeAt, TypeOK
  <2> QED
    BY <1>1, <2>1 DEF OwnerTried, Offsets
<1>4. LeftBehindForCause'
  BY <1>1 DEF LeftBehindForCause, Past
<1> QED
  BY <1>2, <1>3, <1>4

\* ConsumerInv is an invariant of the consumer.
THEOREM ConsumerInvariant == Spec => []ConsumerInv
<1>1. Init => ConsumerInv
  BY ConsumerAssumption
  DEF Init, ConsumerInv, StepsAgree, OwnerTried, LeftBehindForCause, Past
<1>2. TypeOK /\ ConsumerInv /\ [Next]_vars => ConsumerInv'
  <2> SUFFICES ASSUME TypeOK, ConsumerInv, [Next]_vars PROVE ConsumerInv'
    OBVIOUS
  <2> USE ConsumerAssumption
      DEF ConsumerInv, memberVars, historyVars, StepsAgree, OwnerTried,
          LeftBehindForCause, Past, Base
  <2>1. ASSUME NEW kind \in {"event", "other"}, Publish(kind)
        PROVE  ConsumerInv'
    <3>1. /\ \A i \in 1..Len(log) : log'[i] = log[i]
          /\ UNCHANGED <<committed, owner, memberVars, historyVars, faults>>
      BY <2>1, PublishType DEF Publish
    <3>2. \A j \in Members : pc[j] = "skip" => position[j] + 1 \in 1..Len(log)
      <4> SUFFICES ASSUME NEW j \in Members, pc[j] = "skip"
                   PROVE  position[j] + 1 \in 1..Len(log)
        OBVIOUS
      <4>1. position[j] < Len(log) /\ position[j] \in Nat /\ Len(log) \in Nat
        BY AtAMessage DEF TypeOK
      <4> QED
        BY <4>1
    <3>3. \A o \in Offsets : Past(o) => o + 1 \in 1..Len(log)
      BY DEF TypeOK, Offsets
    <3> QED
      BY <3>1, <3>2, <3>3
  <2>2. CASE Revoke
    BY <2>2 DEF Revoke
  <2>3. ASSUME NEW k \in Members, Join(k) PROVE ConsumerInv'
    BY <2>3, JoinInv
  <2>4. ASSUME NEW k \in Members, Leave(k) PROVE ConsumerInv'
    BY <2>4 DEF Leave
  <2>5. ASSUME NEW k \in Members, Restart(k) PROVE ConsumerInv'
    <3>1. \A j \in Members, o \in Offsets :
             retries'[j][o] = retries[j][o] \/ retries'[j][o] = 0
      BY <2>5 DEF Restart, TypeOK
    <3> QED
      BY <2>5, <3>1 DEF Restart, Goto, TypeOK
  <2>6. ASSUME NEW k \in Members, Take(k) PROVE ConsumerInv'
    BY <2>6 DEF Take, Goto, TypeOK
  <2>7. ASSUME NEW k \in Members, HandlerReturns(k) PROVE ConsumerInv'
    BY <2>7 DEF HandlerReturns, Goto, TypeOK
  <2>8. ASSUME NEW k \in Members, HandlerThrows(k) PROVE ConsumerInv'
    BY <2>8, CatchInv DEF HandlerThrows
  <2>9. ASSUME NEW k \in Members, CommitOffset(k) \/ CommitUnanswered(k)
        PROVE  ConsumerInv'
    BY <2>9, CommitInv
  <2>10. ASSUME NEW k \in Members, CommitFails(k) PROVE ConsumerInv'
    <3>1. CASE pc[k] \in {"commit", "skip"} /\ Catch(k) /\ UNCHANGED joined
      BY <2>10, <3>1, CatchInv DEF CommitFails
    <3>2. CASE pc[k] = "giveUp"
      BY <2>10, <3>2 DEF CommitFails, Goto, TypeOK
    <3> QED
      BY <2>10, <3>1, <3>2 DEF CommitFails
  <2>11. CASE UNCHANGED vars
    BY <2>11 DEF vars
  <2> QED
    BY <2>1, <2>2, <2>3, <2>4, <2>5, <2>6, <2>7, <2>8, <2>9, <2>10, <2>11
    DEF Next
<1> QED
  BY <1>1, <1>2, TypeCorrect, PTL DEF Spec

\* An event is left behind for cause: none is passed that nobody tried.
THEOREM NothingUntriedIsLeftBehind == Spec => []LeftBehindForCause
BY ConsumerInvariant, PTL DEF ConsumerInv

(***************************************************************************)
(* The consumer implements AtLeastOnce.                                    *)
(***************************************************************************)

\* Nothing has happened to an offset without a message; handlers get events
\* only, and the owner stands before what the group resumes at by one message at
\* most.
PromiseInv ==
    /\ \A o \in Offsets : o >= Len(log) => failed[o] = 0
    /\ handled \subseteq Events
    /\ owner # None => Base <= position[owner] + 1

\* An event stays one.
LEMMA EventsAppended ==
    ASSUME TypeOK, NEW kind \in {"event", "other"}, Publish(kind)
    PROVE  /\ Events' = IF kind = "event" THEN Events \cup {Len(log)} ELSE Events
           /\ Len(log) \notin Events /\ Len(log) \in Offsets
           /\ Len(log') = Len(log) + 1
<1>1. /\ Len(log) \in Nat /\ Len(log) < MaxLog
      /\ log' = Append(log, kind) /\ Len(log') = Len(log) + 1
      /\ \A i \in 1..Len(log) : log'[i] = log[i]
      /\ log'[Len(log) + 1] = kind
  BY DEF Publish, TypeOK
<1>2. ASSUME NEW o \in 0..(Len(log) - 1) PROVE o + 1 \in 1..Len(log)
  BY <1>1
<1>3. 0..(Len(log') - 1) = 0..(Len(log) - 1) \cup {Len(log)}
  BY <1>1
<1>4. Events' = IF kind = "event" THEN Events \cup {Len(log)} ELSE Events
  BY <1>1, <1>2, <1>3 DEF Events
<1> QED
  BY <1>1, <1>4, ConsumerAssumption DEF Events, Offsets

\* What a member works on is an event of the log.
LEMMA WorksOnEvents ==
    ASSUME TypeOK, NEW k \in Members, pc[k] \in {"handler", "commit"}
    PROVE  position[k] \in Events
<1>1. position[k] \in Nat /\ position[k] < Len(log) /\ Len(log) \in Nat
      /\ log[position[k] + 1] = "event"
  BY DEF TypeOK
<1> QED
  BY <1>1 DEF Events

\* Failures are of messages there are.
LEMMA CatchPromise ==
    ASSUME TypeOK, PromiseInv, NEW k \in Members, pc[k] # "idle", Catch(k),
           UNCHANGED <<log, committed, owner, handled, missed>>
    PROVE  PromiseInv'
<1>1. /\ position[k] \in Offsets /\ position[k] < Len(log)
      /\ position[k] \in Nat /\ Len(log) \in Nat
  BY AtAMessage DEF TypeOK
<1>2. /\ failed' = [failed EXCEPT ![position[k]] = @ + 1]
      /\ \/ position' = position
         \/ position' = [position EXCEPT ![k] = @ + 1]
  BY DEF Catch, Advance
<1>3. \A o \in Offsets : o >= Len(log) => failed'[o] = 0
  BY <1>1, <1>2 DEF PromiseInv, TypeOK, Offsets
<1>4. ASSUME owner # None PROVE Base <= position'[owner] + 1
  <2>1. /\ owner \in Members /\ position[owner] \in Nat
        /\ Base \in Nat /\ Base <= position[owner] + 1
    BY <1>4 DEF PromiseInv, TypeOK, Base
  <2>2. position'[owner] \in {position[owner], position[owner] + 1}
    BY <1>1, <1>2, <2>1 DEF TypeOK
  <2> QED
    BY <2>1, <2>2
<1> QED
  BY <1>3, <1>4 DEF PromiseInv, Events, Base

\* PromiseInv is an invariant of the consumer.
THEOREM PromiseInvariant == Spec => []PromiseInv
<1>1. Init => PromiseInv
  BY ConsumerAssumption DEF Init, PromiseInv, Events
<1>2. TypeOK /\ PromiseInv /\ [Next]_vars => PromiseInv'
  <2> SUFFICES ASSUME TypeOK, PromiseInv, [Next]_vars PROVE PromiseInv'
    OBVIOUS
  <2> USE ConsumerAssumption DEF memberVars, historyVars
  <2>1. ASSUME NEW kind \in {"event", "other"}, Publish(kind)
        PROVE  PromiseInv'
    <3>1. Events \subseteq Events' /\ Len(log') = Len(log) + 1
      BY <2>1, EventsAppended
    <3>2. Len(log) \in Nat
      BY DEF TypeOK
    <3> QED
      BY <2>1, <3>1, <3>2 DEF Publish, PromiseInv, Base, Offsets
  <2>2. CASE Revoke \/ UNCHANGED vars
    BY <2>2 DEF Revoke, vars, PromiseInv, Events, Base
  <2>3. ASSUME NEW k \in Members, Join(k) PROVE PromiseInv'
    <3>1. /\ owner' = k
          /\ position' = [position EXCEPT ![k] = ResumeAt]
          /\ missed' = IF committed = None THEN Len(log) ELSE missed
          /\ UNCHANGED <<log, committed, handled, failed>>
      BY <2>3 DEF Join
    <3>2. Base' = position'[k] /\ Base' \in Nat
      BY <3>1 DEF Base, ResumeAt, TypeOK
    <3> QED
      BY <3>1, <3>2 DEF PromiseInv, Events
  <2>4. ASSUME NEW k \in Members, Leave(k) \/ Restart(k) \/ Take(k)
        PROVE  PromiseInv'
    BY <2>4 DEF Leave, Restart, Take, Goto, PromiseInv, Events, Base
  <2>5. ASSUME NEW k \in Members, HandlerReturns(k) PROVE PromiseInv'
    <3>1. position[k] \in Events
      BY <2>5, WorksOnEvents DEF HandlerReturns
    <3> QED
      BY <2>5, <3>1 DEF HandlerReturns, PromiseInv, Events, Base
  <2>6. ASSUME NEW k \in Members, HandlerThrows(k) PROVE PromiseInv'
    BY <2>6, CatchPromise DEF HandlerThrows
  <2>7. ASSUME NEW k \in Members, CommitOffset(k) \/ CommitUnanswered(k)
        PROVE  PromiseInv'
    <3>1. /\ owner = k /\ owner' = k
          /\ \/ UNCHANGED position
             \/ position' = [position EXCEPT ![k] = @ + 1]
          /\ UNCHANGED <<log, handled, failed>>
      BY <2>7, CommitType
    <3>2. committed' = position[k] + 1 /\ position[k] \in Nat
      BY <2>7, CommitType DEF TypeOK
    <3> QED
      BY <3>1, <3>2 DEF PromiseInv, Events, Base, TypeOK
  <2>8. ASSUME NEW k \in Members, CommitFails(k) PROVE PromiseInv'
    <3>1. CASE pc[k] \in {"commit", "skip"} /\ Catch(k) /\ UNCHANGED joined
      BY <2>8, <3>1, CatchPromise DEF CommitFails
    <3>2. CASE pc[k] = "giveUp"
      BY <2>8, <3>2 DEF CommitFails, PromiseInv, Events, Base
    <3> QED
      BY <2>8, <3>1, <3>2 DEF CommitFails
  <2> QED
    BY <2>1, <2>2, <2>3, <2>4, <2>5, <2>6, <2>7, <2>8 DEF Next
<1> QED
  BY <1>1, <1>2, TypeCorrect, PTL DEF Spec

\* What the promise speaks of are the events of the log, each owed, handled or
\* excused: none is forgotten.
LEMMA AllEventsKnown ==
    TypeOK /\ ConsumerInv /\ PromiseInv => Promise!Known = Events
<1> SUFFICES ASSUME TypeOK, ConsumerInv, PromiseInv PROVE Promise!Known = Events
  OBVIOUS
<1>1. ASSUME NEW o \in Events PROVE o \in Owed \cup handled \cup Excused
  <2>1. o \in Offsets /\ o \in Nat /\ log[o + 1] = "event"
    BY ConsumerAssumption DEF Events, Offsets, TypeOK
  <2>2. Base \in Nat /\ missed \in Nat
    BY DEF Base, TypeOK
  <2>3. CASE o >= Base
    BY <2>3 DEF Owed
  <2>4. CASE o < Base
    <3>1. o < missed \/ Past(o)
      BY <2>4 DEF Base, Past
    <3> QED
      BY <2>1, <2>2, <3>1 DEF Excused, ConsumerInv, LeftBehindForCause
  <2> QED
    BY <2>1, <2>2, <2>3, <2>4
<1> QED
  BY <1>1 DEF Promise!Known, Owed, Excused, PromiseInv

\* A step that publishes nothing proceeds, if it takes up nothing again and
\* takes back neither work nor excuse.
LEMMA Proceeds ==
    ASSUME TypeOK, ConsumerInv, PromiseInv,
           TypeOK', ConsumerInv', PromiseInv',
           UNCHANGED log, Base' >= Base, missed' >= missed,
           handled \subseteq handled', overtaken \subseteq overtaken',
           \A o \in Offsets : failed'[o] >= failed[o]
    PROVE  Promise!Proceed
<1>1. Events' = Events
  BY DEF Events
<1>2. Promise!Known = Events
  BY AllEventsKnown
<1>3. Promise!Known' = Events
  <2>1. (TypeOK /\ ConsumerInv /\ PromiseInv => Promise!Known = Events)'
    BY AllEventsKnown, PTL
  <2> QED
    BY <1>1, <2>1
<1>4. Events \subseteq Offsets /\ Events \subseteq Nat
  BY ConsumerAssumption DEF Events, Offsets, TypeOK
<1>5. /\ Base \in Nat /\ Base' \in Nat /\ missed \in Nat /\ missed' \in Nat
      /\ \A o \in Offsets : failed[o] \in Nat /\ failed'[o] \in Nat
  BY DEF Base, TypeOK
<1>6. Owed' \subseteq Owed
  <2> SUFFICES ASSUME NEW o \in Events, o >= Base' PROVE o >= Base
    BY <1>1 DEF Owed
  <2> QED
    BY <1>4, <1>5
<1>7. Excused \subseteq Excused'
  <2> SUFFICES ASSUME NEW o \in Events,
                      o < missed \/ failed[o] >= MaxRetries
                         \/ (failed[o] > 0 /\ o \in overtaken)
               PROVE  o < missed' \/ failed'[o] >= MaxRetries
                         \/ (failed'[o] > 0 /\ o \in overtaken')
    BY <1>1 DEF Excused
  <2>1. o \in Offsets /\ o \in Nat /\ failed[o] \in Nat /\ failed'[o] \in Nat
        /\ failed'[o] >= failed[o] /\ MaxRetries \in Nat
    BY <1>4, <1>5, ConsumerAssumption
  <2> QED
    BY <1>5, <2>1
<1>8. Owed' \cup handled' \cup Excused' = Events
  BY <1>3 DEF Promise!Known
<1> QED
  BY <1>2, <1>6, <1>7, <1>8 DEF Promise!Proceed, Promise!Known

\* A message of no handler is not owed, an event is taken in.
LEMMA PublishAccepts ==
    ASSUME TypeOK, ConsumerInv, PromiseInv,
           NEW kind \in {"event", "other"}, Publish(kind)
    PROVE  \E S \in SUBSET Offsets : Promise!Accept(S)
<1>1. /\ Events' = IF kind = "event" THEN Events \cup {Len(log)} ELSE Events
      /\ Len(log) \notin Events /\ Len(log) \in Offsets
  BY EventsAppended
<1>2. UNCHANGED <<committed, handled, failed, overtaken, missed>>
  BY DEF Publish, historyVars
<1>3. Base \in Nat /\ Base <= Len(log) /\ missed <= Len(log) /\ Base' = Base
  BY <1>2 DEF Base, TypeOK
<1>4. failed[Len(log)] = 0 /\ MaxRetries \in Nat \ {0}
  BY <1>1, ConsumerAssumption DEF PromiseInv, TypeOK
<1>5. Excused' = Excused
  <2>1. ~(Len(log) < missed) /\ ~(failed[Len(log)] >= MaxRetries)
        /\ ~(failed[Len(log)] > 0)
    BY <1>3, <1>4 DEF TypeOK
  <2> QED
    BY <1>1, <1>2, <2>1 DEF Excused
<1>6. Owed' = IF kind = "event" THEN Owed \cup {Len(log)} ELSE Owed
  <2>1. Len(log) >= Base
    BY <1>3 DEF TypeOK
  <2> QED
    BY <1>1, <1>3, <2>1 DEF Owed
<1>7. Promise!Known = Events
  BY AllEventsKnown
<1> DEFINE S == IF kind = "event" THEN {Len(log)} ELSE {}
<1>8. Promise!Accept(S)
  BY <1>1, <1>2, <1>5, <1>6, <1>7 DEF Promise!Accept
<1> QED
  BY <1>1, <1>8

\* The consumer delivers at least once: publishing takes an event in, every
\* other step proceeds or is not seen.
THEOREM DeliveredAtLeastOnce == Spec => DeliversAtLeastOnce
<1> DEFINE IInv == TypeOK /\ ConsumerInv /\ PromiseInv
<1>1. Init => Promise!Init
  BY DEF Init, Promise!Init, Owed, Excused, Events
<1>2. IInv /\ IInv' /\ [Next]_vars => [Promise!Next]_(Promise!vars)
  <2> SUFFICES ASSUME IInv, IInv', [Next]_vars
               PROVE  Promise!Next \/ UNCHANGED Promise!vars
    OBVIOUS
  <2> USE DEF memberVars, historyVars
  <2>1. ASSUME NEW kind \in {"event", "other"}, Publish(kind)
        PROVE  Promise!Next
    BY <2>1, PublishAccepts DEF Promise!Next
  <2>2. /\ Base \in Nat /\ missed \in Nat /\ Len(log) \in Nat
        /\ missed <= Len(log)
        /\ \A o \in Offsets : failed[o] \in Nat
    BY DEF Base, TypeOK
  <2>3. CASE Revoke \/ UNCHANGED vars
    BY <2>3 DEF Revoke, vars, Promise!vars, Owed, Excused, Events, Base
  <2>4. ASSUME NEW k \in Members, Leave(k) \/ Restart(k) \/ Take(k)
        PROVE  UNCHANGED Promise!vars
    BY <2>4 DEF Leave, Restart, Take, Promise!vars, Owed, Excused, Events, Base
  <2>5. ASSUME NEW k \in Members, Join(k) PROVE Promise!Next
    BY <2>2, <2>5, Proceeds DEF Join, Base, Promise!Next
  <2>6. ASSUME NEW k \in Members, HandlerReturns(k) PROVE Promise!Next
    BY <2>2, <2>6, Proceeds DEF HandlerReturns, Base, Promise!Next
  <2>7. ASSUME NEW k \in Members, pc[k] # "idle", Catch(k),
               UNCHANGED <<log, committed, owner, handled, overtaken, missed>>
        PROVE  Promise!Next
    <3>1. \A o \in Offsets : failed'[o] >= failed[o]
      BY <2>2, <2>7 DEF Catch, TypeOK
    <3> QED
      BY <2>2, <2>7, <3>1, Proceeds DEF Base, Promise!Next
  <2>8. ASSUME NEW k \in Members, CommitOffset(k) \/ CommitUnanswered(k)
        PROVE  Promise!Next
    <3>1. /\ owner = k /\ k # None
          /\ UNCHANGED <<log, handled, failed, missed>>
          /\ overtaken \subseteq overtaken'
      BY <2>8, CommitType, ConsumerAssumption
    <3>2. committed' = position[k] + 1 /\ position[k] \in Nat
      BY <2>8, CommitType DEF TypeOK
    <3>3. Base' >= Base
      BY <2>2, <3>1, <3>2, ConsumerAssumption DEF Base, PromiseInv, TypeOK
    <3> QED
      BY <2>2, <3>1, <3>3, Proceeds DEF Promise!Next
  <2>9. ASSUME NEW k \in Members, CommitFails(k)
        PROVE  Promise!Next \/ UNCHANGED Promise!vars
    <3>1. CASE pc[k] \in {"commit", "skip"} /\ Catch(k) /\ UNCHANGED joined
      BY <2>7, <2>9, <3>1 DEF CommitFails
    <3>2. CASE pc[k] = "giveUp"
      BY <2>9, <3>2
      DEF CommitFails, Promise!vars, Owed, Excused, Events, Base
    <3> QED
      BY <2>9, <3>1, <3>2 DEF CommitFails
  <2>10. ASSUME NEW k \in Members, HandlerThrows(k) PROVE Promise!Next
    BY <2>7, <2>10 DEF HandlerThrows
  <2> QED
    BY <2>1, <2>3, <2>4, <2>5, <2>6, <2>8, <2>9, <2>10 DEF Next
<1> QED
  BY <1>1, <1>2, TypeCorrect, ConsumerInvariant, PromiseInvariant, PTL
  DEF Spec, DeliversAtLeastOnce, Promise!Spec
=============================================================================
