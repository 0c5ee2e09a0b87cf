---------------------------- MODULE SessionsProofs ----------------------------
(***************************************************************************)
(* Theorems about Sessions, for any sets of users, passwords and calls,    *)
(* any life of a token and any faults.                                     *)
(***************************************************************************)
EXTENDS Sessions, TLAPS

(***************************************************************************)
(* Types.                                                                  *)
(***************************************************************************)

\* A token is its user and a second; None is neither.
LEMMA TokenParts ==
    ASSUME NEW t \in Tokens
    PROVE  t[1] \in Users /\ t[2] \in Nat /\ t = <<t[1], t[2]>> /\ t # None
BY SessionsAssumption DEF Tokens

\* register and login keep the types.
LEMMA IssueType ==
    ASSUME TypeOK, NEW c \in Calls,
           \/ \E u \in Users, p \in Passwords :
                 Register(c, u, p) \/ Login(c, u, p)
           \/ LoginSign(c)
           \/ Store(c)
    PROVE  TypeOK'
<1> USE DEF userVars, tokenVars, historyVars, BeginSession, Steps
<1>1. ASSUME NEW u \in Users, NEW p \in Passwords, Register(c, u, p)
      PROVE  TypeOK'
  BY <1>1 DEF Register, Begin, Goto, Sign, Tokens, TypeOK
<1>2. ASSUME NEW u \in Users, NEW p \in Passwords, Login(c, u, p)
      PROVE  TypeOK'
  BY <1>2 DEF Login, Begin, Goto, TypeOK
<1>3. CASE LoginSign(c)
  BY <1>3 DEF LoginSign, Goto, Sign, Tokens, TypeOK
<1>4. CASE Store(c)
  <2>1. token[c] \in Tokens /\ token[c][1] = user[c]
    BY <1>4 DEF Store, TypeOK, Tokens
  <2> QED
    BY <1>4, <2>1 DEF Store, Goto, Fault, TypeOK
<1> QED
  BY <1>1, <1>2, <1>3, <1>4

\* refresh and logout keep the types.
LEMMA RefreshType ==
    ASSUME TypeOK, NEW c \in Calls,
           \/ \E t \in handed : FindToken(c, t) \/ Logout(c, t)
           \/ UseToken(c)
           \/ ReadUser(c)
    PROVE  TypeOK'
<1> USE DEF userVars, tokenVars, historyVars, BeginSession, Steps
<1>1. ASSUME NEW t \in handed, FindToken(c, t) PROVE TypeOK'
  <2>1. t[1] \in Users
    BY TokenParts DEF TypeOK
  <2> QED
    BY <1>1, <2>1 DEF FindToken, Begin, Goto, TypeOK
<1>2. ASSUME NEW t \in handed, Logout(c, t) PROVE TypeOK'
  <2>1. t[1] \in Users
    BY TokenParts DEF TypeOK
  <2> QED
    BY <1>2, <2>1 DEF Logout, Begin, Goto, TypeOK
<1>3. CASE UseToken(c)
  BY <1>3 DEF UseToken, Goto, TypeOK
<1>4. CASE ReadUser(c)
  BY <1>4 DEF ReadUser, Goto, Sign, Tokens, TypeOK
<1> QED
  BY <1>1, <1>2, <1>3, <1>4

\* changePassword and deleteAccount keep the types.
LEMMA AccountType ==
    ASSUME TypeOK, NEW c \in Calls,
           \/ \E u \in Users, p \in Passwords :
                 \/ DeleteAccount(c, u, p)
                 \/ \E q \in Passwords : ChangePassword(c, u, p, q)
           \/ SavePassword(c)
           \/ Deactivate(c)
           \/ RevokeAll(c)
    PROVE  TypeOK'
<1> USE DEF userVars, tokenVars, historyVars, BeginSession, Steps
<1>1. ASSUME NEW u \in Users, NEW p \in Passwords, DeleteAccount(c, u, p)
      PROVE  TypeOK'
  BY <1>1 DEF DeleteAccount, Begin, Goto, TypeOK
<1>2. ASSUME NEW u \in Users, NEW p \in Passwords, NEW q \in Passwords,
             ChangePassword(c, u, p, q)
      PROVE  TypeOK'
  BY <1>2 DEF ChangePassword, Begin, Goto, TypeOK
<1>3. CASE SavePassword(c)
  BY <1>3 DEF SavePassword, Goto, TypeOK
<1>4. CASE Deactivate(c)
  BY <1>4 DEF Deactivate, Goto, TypeOK
<1>5. CASE RevokeAll(c)
  BY <1>5 DEF RevokeAll, Overtake, SessionsOf, Goto, TypeOK
<1> QED
  BY <1>1, <1>2, <1>3, <1>4, <1>5

\* Every step keeps the types.
LEMMA TypeStep == TypeOK /\ [Next]_vars => TypeOK'
<1> SUFFICES ASSUME TypeOK, [Next]_vars PROVE TypeOK'
  OBVIOUS
<1> USE DEF userVars, tokenVars, historyVars, BeginSession, callVars
<1>1. ASSUME NEW c \in Calls, CallFails(c) PROVE TypeOK'
  BY <1>1 DEF CallFails, Fault, Goto, TypeOK, Steps
<1>2. ASSUME NEW c \in Calls, Expire(c) PROVE TypeOK'
  BY <1>2 DEF Expire, TypeOK
<1>3. CASE Tick
  BY <1>3 DEF Tick, TypeOK
<1>4. CASE UNCHANGED vars
  BY <1>4 DEF vars, TypeOK
<1> QED
  BY <1>1, <1>2, <1>3, <1>4, IssueType, RefreshType, AccountType
  DEF Next, PasswordCall, DeletionCall

\* Every reachable state is well typed.
THEOREM TypeCorrect == Spec => []TypeOK
<1>1. Init => TypeOK
  BY DEF Init, TypeOK, Steps
<1> QED
  BY <1>1, TypeStep, PTL DEF Spec

(***************************************************************************)
(* Revocation.  A session lives in its document, or in the call that has   *)
(* proven a password or found a token and has not stored its own yet.      *)
(***************************************************************************)
Lives(c) == doc[c] # None \/ pc[c] \in InFlight
Outdated(c) ==
    account[user[c]] = "deleted" \/ root[c] # password[user[c]]

\* Only a registered user has sessions.
Registered == \A c \in Calls : Lives(c) => account[user[c]] # "none"

\* A session that is out of date is about to be revoked, or was overtaken.
Revoked ==
    \A c \in Calls : Lives(c) /\ Outdated(c) => raced[c] \/ Revoking(user[c])

Inv == TypeOK /\ Registered /\ Revoked

\* register and login: the session begins with the password of now.
LEMMA IssueInv ==
    ASSUME Inv, TypeOK', NEW c \in Calls,
           \/ \E u \in Users, p \in Passwords :
                 Register(c, u, p) \/ Login(c, u, p)
           \/ LoginSign(c)
           \/ Store(c)
    PROVE  Inv'
<1> USE DEF userVars, tokenVars, historyVars, BeginSession, Inv
<1>1. ASSUME NEW u \in Users, NEW p \in Passwords, Register(c, u, p)
      PROVE  Inv'
  <2>1. /\ pc[c] = "idle" /\ doc[c] = None /\ ~Lives(c)
        /\ account[u] = "none"
        /\ account' = [account EXCEPT ![u] = "active"]
        /\ password' = [password EXCEPT ![u] = p]
        /\ user' = [user EXCEPT ![c] = u] /\ root' = [root EXCEPT ![c] = p]
        /\ pc' = [pc EXCEPT ![c] = "store"]
        /\ doc' = doc /\ raced' = raced
    BY <1>1 DEF Register, Begin, Goto, Lives, InFlight, TypeOK
  <2>2. \A d \in Calls \ {c} : Lives(d) =>
            user[d] # u /\ user[d] \in Users
    BY <2>1 DEF Registered, Lives, TypeOK, InFlight, Steps
  <2>3. \A v : Revoking(v) => Revoking(v)'
    BY <2>1 DEF Revoking, TypeOK
  <2>4. \A d \in Calls \ {c} : Lives(d)' <=> Lives(d)
    BY <2>1 DEF Lives, TypeOK
  <2>5. Registered'
    BY <2>1, <2>2, <2>4 DEF Registered, TypeOK
  <2>6. ~Outdated(c)'
    BY <2>1 DEF Outdated, TypeOK
  <2>7. \A d \in Calls \ {c} : Lives(d) => (Outdated(d)' <=> Outdated(d))
    BY <2>1, <2>2 DEF Outdated, TypeOK
  <2>8. Revoked'
    BY <2>1, <2>3, <2>4, <2>6, <2>7 DEF Revoked, TypeOK
  <2> QED
    BY <2>5, <2>8
<1>2. ASSUME NEW u \in Users, NEW p \in Passwords, Login(c, u, p)
      PROVE  Inv'
  <2>1. \A v : Revoking(v) => Revoking(v)'
    BY <1>2 DEF Login, Begin, Goto, Revoking, TypeOK
  <2> QED
    BY <1>2, <2>1
    DEF Login, Begin, Goto, Proves, Registered, Revoked, Lives, Outdated,
        InFlight, TypeOK
<1>3. CASE LoginSign(c)
  <2>1. \A v : Revoking(v) => Revoking(v)'
    BY <1>3 DEF LoginSign, Goto, Revoking, TypeOK
  <2> QED
    BY <1>3, <2>1
    DEF LoginSign, Goto, Registered, Revoked, Lives, Outdated, InFlight, TypeOK
<1>4. CASE Store(c)
  <2>1. \A v : Revoking(v) => Revoking(v)'
    BY <1>4 DEF Store, Goto, Revoking, TypeOK
  <2> QED
    BY <1>4, <2>1
    DEF Store, Goto, Registered, Revoked, Lives, Outdated, InFlight, TypeOK
<1> QED
  BY <1>1, <1>2, <1>3, <1>4

\* refresh and logout: the new session goes back to where the old one began.
LEMMA RefreshInv ==
    ASSUME Inv, TypeOK', NEW c \in Calls,
           \/ \E t \in handed : FindToken(c, t) \/ Logout(c, t)
           \/ UseToken(c)
           \/ ReadUser(c)
    PROVE  Inv'
<1> USE DEF userVars, tokenVars, historyVars, BeginSession, Inv
<1>1. ASSUME NEW t \in handed, FindToken(c, t) PROVE Inv'
  <2>1. /\ pc[c] = "idle" /\ t # None
        /\ account' = account /\ password' = password /\ doc' = doc
        /\ user' = [user EXCEPT ![c] = t[1]]
    BY <1>1, TokenParts DEF FindToken, Begin, TypeOK
  <2>2. \A v : Revoking(v) => Revoking(v)'
    BY <1>1 DEF FindToken, Begin, Goto, Revoking, TypeOK
  <2>3. \A d \in Calls \ {c} :
          /\ Lives(d)' <=> Lives(d)
          /\ Outdated(d)' <=> Outdated(d)
          /\ raced'[d] = raced[d] /\ user'[d] = user[d]
    BY <1>1, <2>1 DEF FindToken, Begin, Goto, Lives, Outdated, TypeOK
  <2>4. CASE Lives(c)'
    <3>1. PICK d \in Calls : /\ doc[d] = t
                             /\ root' = [root EXCEPT ![c] = root[d]]
                             /\ raced' = [raced EXCEPT ![c] = raced[d]]
      BY <1>1, <2>1, <2>4 DEF FindToken, Begin, Goto, Lives, InFlight, TypeOK
    <3>2. Lives(d) /\ user[d] = t[1]
      BY <2>1, <3>1 DEF Lives, TypeOK
    <3>3. /\ user'[c] = user[d] /\ raced'[c] = raced[d]
          /\ Outdated(c)' <=> Outdated(d)
      BY <2>1, <3>1, <3>2 DEF Outdated, TypeOK
    <3> QED
      BY <2>1, <2>2, <2>3, <3>2, <3>3 DEF Registered, Revoked
  <2> QED
    BY <2>1, <2>2, <2>3, <2>4 DEF Registered, Revoked
<1>2. ASSUME NEW t \in handed, Logout(c, t) PROVE Inv'
  <2>1. \A v : Revoking(v) => Revoking(v)'
    BY <1>2 DEF Logout, Begin, Goto, Revoking, TypeOK
  <2> QED
    BY <1>2, <2>1
    DEF Logout, Begin, Goto, Registered, Revoked, Lives, Outdated, InFlight,
        TypeOK
<1>3. CASE UseToken(c)
  <2>1. \A v : Revoking(v) => Revoking(v)'
    BY <1>3 DEF UseToken, Goto, Revoking, TypeOK
  <2> QED
    BY <1>3, <2>1
    DEF UseToken, Goto, Registered, Revoked, Lives, Outdated, InFlight, TypeOK
<1>4. CASE ReadUser(c)
  <2>1. \A v : Revoking(v) => Revoking(v)'
    BY <1>4 DEF ReadUser, Goto, Revoking, TypeOK
  <2> QED
    BY <1>4, <2>1
    DEF ReadUser, Goto, Registered, Revoked, Lives, Outdated, InFlight, TypeOK
<1> QED
  BY <1>1, <1>2, <1>3, <1>4

\* changePassword, deleteAccount and the revocation they end with.
LEMMA AccountInv ==
    ASSUME Inv, TypeOK', NEW c \in Calls,
           \/ \E u \in Users, p \in Passwords :
                 \/ DeleteAccount(c, u, p)
                 \/ \E q \in Passwords : ChangePassword(c, u, p, q)
           \/ SavePassword(c)
           \/ Deactivate(c)
           \/ RevokeAll(c)
    PROVE  Inv'
<1> USE DEF userVars, tokenVars, historyVars, BeginSession, Inv
<1>1. ASSUME NEW u \in Users, NEW p \in Passwords, DeleteAccount(c, u, p)
      PROVE  Inv'
  <2>1. \A v : Revoking(v) => Revoking(v)'
    BY <1>1 DEF DeleteAccount, Begin, Goto, Revoking, TypeOK
  <2> QED
    BY <1>1, <2>1
    DEF DeleteAccount, Begin, Goto, Registered, Revoked, Lives, Outdated,
        InFlight, TypeOK
<1>2. ASSUME NEW u \in Users, NEW p \in Passwords, NEW q \in Passwords,
             ChangePassword(c, u, p, q)
      PROVE  Inv'
  <2>1. \A v : Revoking(v) => Revoking(v)'
    BY <1>2 DEF ChangePassword, Begin, Goto, Revoking, TypeOK
  <2> QED
    BY <1>2, <2>1
    DEF ChangePassword, Begin, Goto, Registered, Revoked, Lives, Outdated,
        InFlight, TypeOK
<1>3. ASSUME SavePassword(c) \/ Deactivate(c) PROVE Inv'
  <2>1. Revoking(user[c])' /\ \A v : Revoking(v) => Revoking(v)'
    BY <1>3 DEF SavePassword, Deactivate, Goto, Revoking, TypeOK
  <2>2. \A d \in Calls :
          /\ Lives(d)' => Lives(d) /\ d # c
          /\ user'[d] = user[d] /\ raced'[d] = raced[d] /\ root'[d] = root[d]
    BY <1>3 DEF SavePassword, Deactivate, Goto, Lives, InFlight, TypeOK
  <2>3. \A d \in Calls : Lives(d) =>
          /\ account'[user[d]] # "none"
          /\ user[d] # user[c] => (Outdated(d)' <=> Outdated(d))
    BY <1>3 DEF SavePassword, Deactivate, Registered, Lives, Outdated,
      InFlight, Steps, TypeOK
  <2> QED
    BY <2>1, <2>2, <2>3 DEF Registered, Revoked
<1>4. CASE RevokeAll(c)
  <2>1. /\ account' = account /\ password' = password
        /\ user' = user /\ root' = root
    BY <1>4 DEF RevokeAll
  <2>2. ASSUME NEW d \in Calls
        PROVE  /\ Lives(d)' => Lives(d)
               /\ Lives(d)' /\ user[d] = user[c] => raced'[d]
               /\ raced[d] => raced'[d]
    <3>1. raced'[d] = (raced[d] \/ (user[d] = user[c] /\ pc[d] \in InFlight))
      BY <1>4, Zenon DEF RevokeAll, Overtake
    <3>2. pc'[d] = IF d = c THEN "done" ELSE pc[d]
      BY <1>4 DEF RevokeAll, Goto, TypeOK
    <3>3. doc'[d] # None => doc[d] # None /\ user[d] # user[c]
      BY <1>4 DEF RevokeAll, SessionsOf, TypeOK
    <3> QED
      BY <3>1, <3>2, <3>3 DEF Lives, InFlight
  <2>3. \A v : v # user[c] /\ Revoking(v) => Revoking(v)'
    BY <1>4 DEF RevokeAll, Goto, Revoking, TypeOK
  <2> QED
    BY <2>1, <2>2, <2>3 DEF Registered, Revoked, Outdated
<1> QED
  BY <1>1, <1>2, <1>3, <1>4

\* Every step keeps the invariant.
LEMMA InvStep == Inv /\ [Next]_vars => Inv'
<1> SUFFICES ASSUME Inv, [Next]_vars PROVE Inv'
  OBVIOUS
<1>1. TypeOK'
  BY TypeStep DEF Inv
<1> USE DEF userVars, tokenVars, historyVars, BeginSession, callVars, Inv
<1>2. ASSUME NEW c \in Calls, CallFails(c) PROVE Inv'
  <2>1. \A v : Revoking(v) => Revoking(v)'
    BY <1>2 DEF CallFails, Goto, Revoking, TypeOK
  <2> QED
    BY <1>1, <1>2, <2>1
    DEF CallFails, Goto, Registered, Revoked, Lives, Outdated, InFlight, TypeOK
<1>3. ASSUME NEW c \in Calls, Expire(c) PROVE Inv'
  BY <1>1, <1>3
  DEF Expire, Registered, Revoked, Lives, Outdated, Revoking, TypeOK
<1>4. CASE Tick
  BY <1>1, <1>4
  DEF Tick, Registered, Revoked, Lives, Outdated, Revoking
<1>5. CASE UNCHANGED vars
  BY <1>1, <1>5
  DEF vars, Registered, Revoked, Lives, Outdated, Revoking
<1> QED
  BY <1>1, <1>2, <1>3, <1>4, <1>5, IssueInv, RefreshInv, AccountInv
  DEF Next, PasswordCall, DeletionCall

\* The inductive invariant: a session out of date, stored or on its way, is
\* about to be revoked or was overtaken by a revocation.
THEOREM Invariant == Spec => []Inv
<1>1. Init => Inv
  BY DEF Init, Inv, TypeOK, Steps, Registered, Revoked, Lives, InFlight
<1> QED
  BY <1>1, InvStep, PTL DEF Spec

\* A password change ends every session begun with an older password that no
\* revocation overtook.
THEOREM PasswordAlwaysEndsSessions == Spec => []PasswordEndsSessions
<1>1. Inv => PasswordEndsSessions
  BY DEF Inv, Revoked, Lives, Outdated, PasswordEndsSessions
<1> QED
  BY <1>1, Invariant, PTL

\* The deletion of an account ends every session of it that no revocation
\* overtook.
THEOREM DeletionAlwaysEndsSessions == Spec => []DeletionEndsSessions
<1>1. Inv => DeletionEndsSessions
  BY DEF Inv, Revoked, Lives, Outdated, DeletionEndsSessions
<1> QED
  BY <1>1, Invariant, PTL

(***************************************************************************)
(* The sessions that go back to one login.                                 *)
(***************************************************************************)

\* A session lives in its document, or in the call that will store its next.
Current(c) == doc[c] # None \/ pc[c] \in InFlight

\* Two refreshes raced for a token of the session that began with o.
ForkedFrom(o) == \E f \in forked : origin[f] = o

\* A session began with a call that was made; a refresh found the document of
\* a call that is over and whose session it continues.
Descends ==
    \A c \in Calls :
        /\ Current(c) => origin[c] \in Calls
        /\ origin[c] # None => origin[c] \in Calls /\ pc[origin[c]] # "idle"
        /\ pc[c] = "idle" => origin[c] = None
        /\ pc[c] = "use" => pc[found[c]] = "done" /\ origin[found[c]] = origin[c]

\* A session that has not forked lives in one place, but for the moment in
\* which a refresh has found its document and not deleted it.
Linear ==
    \A c, d \in Calls :
        Current(c) /\ Current(d) /\ origin[c] = origin[d] =>
            c = d \/ Using(c, d) \/ Using(d, c) \/ ForkedFrom(origin[c])

LineInv == TypeOK /\ Descends /\ Linear

\* Neither a session nor a refresh is new in a step, and a refresh that goes on
\* has ended the session it found.
Continues ==
    /\ UNCHANGED <<origin, forked, found>>
    /\ \A c \in Calls :
          /\ Current(c)' => Current(c)
          /\ pc'[c] = "idle" => pc[c] = "idle"
          /\ pc[c] = "done" => pc'[c] = "done"
          /\ pc'[c] = "use" => pc[c] = "use"
          /\ pc[c] = "use" /\ pc'[c] # "use" =>
                ~Current(c)' \/ ~Current(found[c])'

\* After such a step the sessions stay in line.
LEMMA LineStays ==
    ASSUME LineInv, TypeOK', Continues
    PROVE  LineInv'
<1>1. Descends'
  BY DEF LineInv, TypeOK, Descends, Continues
<1>2. \A o : ForkedFrom(o) => ForkedFrom(o)'
  BY DEF ForkedFrom, Continues
<1>3. ASSUME NEW c \in Calls, NEW d \in Calls, Using(c, d),
             Current(c)', Current(d)'
      PROVE  Using(c, d)'
  BY <1>3 DEF Using, Continues
<1>4. \A c \in Calls : Current(c)' => Current(c) /\ origin'[c] = origin[c]
  BY DEF Continues
<1> QED
  BY <1>1, <1>2, <1>3, <1>4 DEF LineInv, Linear

\* A session that begins is the first to go back to its call.
LEMMA BeginsLine ==
    ASSUME LineInv, TypeOK', NEW c \in Calls, pc[c] = "idle",
           origin' = [origin EXCEPT ![c] = c], UNCHANGED <<doc, found, forked>>,
           NEW step, step \notin {"idle", "use"}, pc' = [pc EXCEPT ![c] = step]
    PROVE  LineInv'
<1>0. /\ origin \in [Calls -> Calls \cup {None}]
      /\ pc \in [Calls -> Steps]
      /\ found \in [Calls -> Calls \cup {None}]
      /\ forked \subseteq Calls
      /\ doc[c] = None
      /\ \A d \in Calls : pc[d] = "use" => found[d] \in Calls
      /\ Descends /\ Linear
  BY DEF LineInv, TypeOK
<1>1. origin[c] = None /\ \A d \in Calls : origin[d] # c
  BY <1>0, SessionsAssumption DEF Descends
<1>2. ASSUME NEW d \in Calls \ {c}
      PROVE  /\ origin'[d] = origin[d]
             /\ pc'[d] = pc[d]
             /\ Current(d)' <=> Current(d)
             /\ pc[d] = "use" => found[d] \in Calls \ {c}
  <2>1. origin'[d] = origin[d] /\ pc'[d] = pc[d]
    BY <1>0
  <2>2. Current(d)' <=> Current(d)
    BY <2>1 DEF Current
  <2>3. pc[d] = "use" => found[d] \in Calls \ {c}
    BY <1>0 DEF Descends
  <2> QED
    BY <2>1, <2>2, <2>3
<1>3. origin'[c] = c /\ pc'[c] = step
  BY <1>0
<1>4. Descends'
  BY <1>0, <1>1, <1>2, <1>3 DEF Descends
<1>5. \A o \in Calls \ {c} : ForkedFrom(o) => ForkedFrom(o)'
  <2> SUFFICES ASSUME NEW o \in Calls \ {c}, NEW f \in forked, origin[f] = o
               PROVE  origin'[f] = o
    BY DEF ForkedFrom
  <2>1. f \in Calls \ {c}
    BY <1>0, <1>1, SessionsAssumption
  <2> QED
    BY <1>2, <2>1
<1>6. Linear'
  <2> SUFFICES ASSUME NEW a \in Calls, NEW b \in Calls, Current(a)', Current(b)',
                      origin'[a] = origin'[b], a # b
               PROVE  Using(a, b)' \/ Using(b, a)' \/ ForkedFrom(origin[a])'
    BY DEF Linear
  <2>1. a # c /\ b # c
    BY <1>1, <1>2, <1>3
  <2>2. Using(a, b) \/ Using(b, a) \/ ForkedFrom(origin[a])
    BY <1>0, <1>2, <2>1 DEF Linear
  <2>3. origin[a] \in Calls \ {c} /\ origin'[a] = origin[a]
    BY <1>0, <1>1, <1>2, <2>1 DEF Descends
  <2> QED
    BY <1>2, <1>5, <2>1, <2>2, <2>3 DEF Using
<1> QED
  BY <1>4, <1>6 DEF LineInv

\* A refresh that finds a document continues its session; if another refresh
\* has found it too, the session forks.
LEMMA FindContinuesLine ==
    ASSUME LineInv, TypeOK', NEW c \in Calls, NEW d \in Calls, doc[d] # None,
           pc[c] = "idle", pc' = [pc EXCEPT ![c] = "use"],
           found' = [found EXCEPT ![c] = d],
           origin' = [origin EXCEPT ![c] = origin[d]],
           forked' = forked \cup {f \in {d} : \E e \in Calls : Using(e, f)},
           UNCHANGED doc
    PROVE  LineInv'
<1>1. Current(d) /\ pc[d] = "done" /\ d # c /\ origin[c] = None
  BY DEF LineInv, TypeOK, Descends, Current
<1>2. /\ origin'[c] = origin[d] /\ found'[c] = d /\ pc'[c] = "use"
      /\ \A e \in Calls \ {c} : /\ origin'[e] = origin[e] /\ pc'[e] = pc[e]
                                 /\ found'[e] = found[e]
                                 /\ Current(e)' <=> Current(e)
  BY DEF LineInv, TypeOK, Current
<1>3. origin[d] \in Calls
  BY <1>1 DEF LineInv, Descends
<1>4. Descends'
  <2>1. ASSUME NEW e \in Calls \ {c}, pc[e] = "use" PROVE found[e] \in Calls \ {c}
    BY <2>1 DEF LineInv, TypeOK, Descends
  <2> QED
    BY <1>1, <1>2, <1>3, <2>1 DEF LineInv, Descends, TypeOK
<1>5. ASSUME NEW o \in Calls, ForkedFrom(o) PROVE ForkedFrom(o)'
  <2>1. PICK f \in forked : origin[f] = o
    BY <1>5 DEF ForkedFrom
  <2>2. f \in Calls /\ f # c
    BY <1>1, <2>1, SessionsAssumption DEF LineInv, TypeOK, Descends
  <2> QED
    BY <1>2, <2>1, <2>2 DEF ForkedFrom
<1>6. ASSUME NEW a \in Calls \ {c}, Current(a), origin[a] = origin[d]
      PROVE  a = d \/ ForkedFrom(origin[d])'
  <2>1. ~Using(d, a)
    BY <1>1 DEF Using
  <2>2. a = d \/ Using(a, d) \/ ForkedFrom(origin[d])
    BY <1>1, <1>6, <2>1 DEF LineInv, Linear
  <2>3. CASE Using(a, d)
    BY <1>1, <1>2, <2>3 DEF ForkedFrom
  <2> QED
    BY <1>3, <1>5, <2>2, <2>3
<1>7. Linear'
  <2> SUFFICES ASSUME NEW a \in Calls, NEW b \in Calls, Current(a)', Current(b)',
                      origin'[a] = origin'[b], a # b
               PROVE  Using(a, b)' \/ Using(b, a)' \/ ForkedFrom(origin[a])'
    BY DEF Linear
  <2>1. CASE a = c
    BY <1>2, <1>6, <2>1 DEF Using, ForkedFrom
  <2>2. CASE b = c
    BY <1>2, <1>6, <2>2 DEF Using, ForkedFrom
  <2>3. CASE a # c /\ b # c
    <3>1. Using(a, b) \/ Using(b, a) \/ ForkedFrom(origin[a])
      BY <1>2, <2>3 DEF LineInv, Linear
    <3>2. origin[a] \in Calls /\ origin'[a] = origin[a]
      BY <1>2, <2>3 DEF LineInv, Descends
    <3> QED
      BY <1>2, <1>5, <2>3, <3>1, <3>2 DEF Using, ForkedFrom
  <2> QED
    BY <2>1, <2>2, <2>3
<1> QED
  BY <1>4, <1>7 DEF LineInv

\* The steps of register, login and refresh keep the sessions in line.
LEMMA IssueLine ==
    ASSUME LineInv, TypeOK', NEW c \in Calls,
           \/ \E u \in Users, p \in Passwords :
                 Register(c, u, p) \/ Login(c, u, p)
           \/ \E t \in handed : FindToken(c, t)
           \/ LoginSign(c) \/ Store(c) \/ UseToken(c) \/ ReadUser(c)
    PROVE  LineInv'
<1>0. TypeOK /\ Descends
  BY DEF LineInv
<1> USE DEF userVars, tokenVars, historyVars, callVars
<1>1. ASSUME NEW u \in Users, NEW p \in Passwords,
             Register(c, u, p) \/ Login(c, u, p)
      PROVE  LineInv'
  <2>1. PICK step \in {"store", "sign", "done"} :
           pc[c] = "idle" /\ pc' = [pc EXCEPT ![c] = step]
    BY <1>1 DEF Register, Login, Begin, Goto
  <2>2. origin' = [origin EXCEPT ![c] = c] /\ UNCHANGED <<doc, found, forked>>
    BY <1>1 DEF Register, Login, BeginSession
  <2> QED
    BY <2>1, <2>2, BeginsLine
<1>2. ASSUME NEW t \in handed, FindToken(c, t) PROVE LineInv'
  <2>1. CASE /\ Begin(c, t[1], "done") \/ Begin(c, t[1], "reuse")
             /\ UNCHANGED <<tokenVars, found, historyVars>>
    BY <1>0, <2>1, LineStays
    DEF Continues, Begin, Goto, Current, InFlight, TypeOK
  <2>2. ASSUME NEW d \in Calls, doc[d] = t, Begin(c, t[1], "use"),
               found' = [found EXCEPT ![c] = d],
               origin' = [origin EXCEPT ![c] = origin[d]],
               forked' = forked \cup {f \in {d} : \E e \in Calls : Using(e, f)},
               UNCHANGED tokenVars
        PROVE  LineInv'
    <3>1. doc[d] # None
      BY <1>0, <2>2, TokenParts DEF TypeOK
    <3>2. pc[c] = "idle" /\ pc' = [pc EXCEPT ![c] = "use"]
      BY <2>2 DEF Begin, Goto
    <3> QED
      BY <2>2, <3>1, <3>2, FindContinuesLine
  <2> QED
    BY <1>2, <2>1, <2>2 DEF FindToken
<1>3. CASE LoginSign(c) \/ Store(c) \/ ReadUser(c)
  BY <1>0, <1>3, LineStays
  DEF LoginSign, Store, ReadUser, Goto, Continues, Current, InFlight, TypeOK
<1>4. CASE UseToken(c)
  <2>1. /\ found[c] \in Calls \ {c}
        /\ pc[found[c]] = "done"
        /\ pc' = [pc EXCEPT ![c] = "read"]
        /\ doc' = [doc EXCEPT ![found[c]] = None]
        /\ UNCHANGED <<origin, forked, found>>
    BY <1>0, <1>4 DEF UseToken, Goto, TypeOK, Descends
  <2>2. ~Current(found[c])'
    BY <1>0, <2>1 DEF Current, InFlight, TypeOK
  <2>3. pc[c] = "use" /\ pc'[c] = "read"
    BY <1>0, <1>4, <2>1 DEF UseToken, TypeOK
  <2>4. ASSUME NEW d \in Calls \ {c}
        PROVE  pc'[d] = pc[d] /\ (doc'[d] # None => doc[d] # None)
    BY <1>0, <2>1 DEF TypeOK
  <2>5. Current(c)
    BY <2>3 DEF Current, InFlight
  <2>6. \A d \in Calls : Current(d)' => Current(d)
    BY <2>4, <2>5 DEF Current
  <2> QED
    BY <2>1, <2>2, <2>3, <2>4, <2>6, LineStays DEF Continues
<1> QED
  BY <1>1, <1>2, <1>3, <1>4

\* Every step keeps the sessions in line.
LEMMA LineStep == LineInv /\ [Next]_vars => LineInv'
<1> SUFFICES ASSUME LineInv, [Next]_vars PROVE LineInv'
  OBVIOUS
<1>0. TypeOK /\ TypeOK'
  BY TypeStep DEF LineInv
<1> USE DEF userVars, tokenVars, historyVars, callVars
<1>1. ASSUME NEW c \in Calls,
             \/ \E t \in handed : Logout(c, t)
             \/ \E u \in Users, p \in Passwords :
                   \/ DeleteAccount(c, u, p)
                   \/ \E q \in Passwords : ChangePassword(c, u, p, q)
      PROVE  LineInv'
  BY <1>0, <1>1, LineStays
  DEF Logout, DeleteAccount, ChangePassword, Begin, Goto, Continues, Current,
      InFlight, TypeOK
<1>2. ASSUME NEW c \in Calls, SavePassword(c) \/ Deactivate(c) \/ CallFails(c)
      PROVE  LineInv'
  BY <1>0, <1>2, LineStays
  DEF SavePassword, Deactivate, CallFails, Goto, Continues, Current, InFlight,
      TypeOK
<1>3. ASSUME NEW c \in Calls, RevokeAll(c) PROVE LineInv'
  BY <1>0, <1>3, LineStays
  DEF RevokeAll, SessionsOf, Goto, Continues, Current, InFlight, TypeOK
<1>4. ASSUME NEW c \in Calls, Expire(c) PROVE LineInv'
  BY <1>0, <1>4, LineStays DEF Expire, Continues, Current, TypeOK
<1>5. CASE Tick \/ UNCHANGED vars
  BY <1>0, <1>5, LineStays DEF Tick, vars, Continues, Current
<1> QED
  BY <1>0, <1>1, <1>2, <1>3, <1>4, <1>5, IssueLine DEF Next, PasswordCall, DeletionCall

\* Whatever is refreshed, retried and revoked, a login has one session at a
\* time, unless two refreshes raced for a token of it.
THEOREM AlwaysOneSessionPerLogin == Spec => []OneSessionPerLogin
<1>1. Init => LineInv
  <2>1. Init => TypeOK
    BY DEF Init, TypeOK, Steps
  <2>2. Init => Descends /\ Linear
    BY DEF Init, Descends, Linear, Current, InFlight
  <2> QED
    BY <2>1, <2>2 DEF LineInv
<1>2. LineInv => OneSessionPerLogin
  <2> SUFFICES ASSUME LineInv, NEW c \in Calls, NEW d \in Calls,
                      doc[c] # None, doc[d] # None, origin[c] = origin[d]
               PROVE  c = d \/ \E f \in forked : origin[f] = origin[c]
    BY DEF OneSessionPerLogin
  <2>1. ~Using(c, d) /\ ~Using(d, c)
    BY DEF Using, LineInv, TypeOK
  <2> QED
    BY <2>1 DEF LineInv, Linear, Current, ForkedFrom
<1> QED
  BY <1>1, <1>2, LineStep, PTL DEF Spec

(***************************************************************************)
(* One-time use.                                                           *)
(***************************************************************************)

\* A call comes to store a token only by signing it, in the second that is.
LEMMA SignedNow ==
    ASSUME TypeOK, [Next]_vars, NEW c \in Calls,
           pc'[c] = "store", ~(pc[c] = "store" /\ token[c] = token'[c])
    PROVE  token'[c][2] = clock
<1> USE DEF userVars, tokenVars, historyVars, BeginSession, callVars
<1>1. ASSUME NEW d \in Calls, NEW u \in Users, NEW p \in Passwords,
             Register(d, u, p)
      PROVE  token'[c][2] = clock
  BY <1>1 DEF Register, Begin, Goto, Sign, TypeOK
<1>2. ASSUME NEW d \in Calls, LoginSign(d) \/ ReadUser(d)
      PROVE  token'[c][2] = clock
  BY <1>2 DEF LoginSign, ReadUser, Goto, Sign, TypeOK
<1>3. ASSUME NEW d \in Calls, NEW u \in Users, NEW p \in Passwords,
             \/ Login(d, u, p)
             \/ DeleteAccount(d, u, p)
             \/ \E q \in Passwords : ChangePassword(d, u, p, q)
      PROVE  FALSE
  BY <1>3 DEF Login, DeleteAccount, ChangePassword, Begin, Goto, TypeOK
<1>4. ASSUME NEW d \in Calls,
             \/ \E t \in handed : FindToken(d, t) \/ Logout(d, t)
             \/ Store(d) \/ UseToken(d) \/ CallFails(d) \/ Expire(d)
      PROVE  FALSE
  BY <1>4
  DEF FindToken, Logout, Store, UseToken, CallFails, Expire, Begin, Goto,
      TypeOK
<1>5. ASSUME NEW d \in Calls,
             SavePassword(d) \/ Deactivate(d) \/ RevokeAll(d)
      PROVE  FALSE
  BY <1>5 DEF SavePassword, Deactivate, RevokeAll, Goto, TypeOK
<1>6. CASE Tick \/ UNCHANGED vars
  BY <1>6 DEF Tick, vars
<1> QED
  BY <1>1, <1>2, <1>3, <1>4, <1>5, <1>6 DEF Next, PasswordCall, DeletionCall

\* A document comes to hold a token only by a call that was about to store it.
LEMMA StoredByStore ==
    ASSUME TypeOK, [Next]_vars, NEW t \in Tokens, Stored(t)', ~Stored(t)
    PROVE  \E c \in Calls : pc[c] = "store" /\ token[c] = t
<1> USE TokenParts DEF userVars, tokenVars, historyVars, BeginSession, callVars, Stored
<1>1. ASSUME NEW c \in Calls, Store(c)
      PROVE  pc[c] = "store" /\ token[c] = t
  BY <1>1 DEF Store, TypeOK
<1>2. ASSUME NEW c \in Calls, NEW u \in Users, NEW p \in Passwords,
             \/ Register(c, u, p)
             \/ Login(c, u, p)
             \/ DeleteAccount(c, u, p)
             \/ \E q \in Passwords : ChangePassword(c, u, p, q)
      PROVE  FALSE
  BY <1>2 DEF Register, Login, DeleteAccount, ChangePassword
<1>3. ASSUME NEW c \in Calls,
             \/ LoginSign(c) \/ UseToken(c) \/ ReadUser(c)
             \/ \E s \in handed : FindToken(c, s) \/ Logout(c, s)
      PROVE  FALSE
  BY <1>3 DEF LoginSign, UseToken, ReadUser, FindToken, Logout, TypeOK
<1>4. ASSUME NEW c \in Calls,
             \/ SavePassword(c) \/ Deactivate(c) \/ RevokeAll(c)
             \/ CallFails(c) \/ Expire(c)
      PROVE  FALSE
  BY <1>4
  DEF SavePassword, Deactivate, RevokeAll, CallFails, Expire, TypeOK
<1>5. ~(Tick \/ UNCHANGED vars)
  BY DEF Tick, vars
<1> QED
  BY <1>1, <1>2, <1>3, <1>4, <1>5 DEF Next, PasswordCall, DeletionCall

\* The clock and the tokens handed out only grow.
LEMMA HandedGrows ==
    ASSUME TypeOK, [Next]_vars
    PROVE  handed \subseteq handed' /\ clock \in Nat /\ clock <= clock'
BY DEF Next, PasswordCall, DeletionCall, Register, Login, LoginSign, Store,
  FindToken, UseToken, ReadUser,
  Logout, ChangePassword, SavePassword, DeleteAccount, Deactivate, RevokeAll,
  CallFails, Expire, Tick, vars, userVars, tokenVars, historyVars, BeginSession, callVars,
  TypeOK

\* A token that was used, revoked or logged out stays out.
THEOREM UsedTokenAlwaysStaysOut == Spec => UsedTokenStaysOut
<1>1. ASSUME TypeOK, [Next]_vars
      PROVE  \A t \in handed : Gone(t) => Gone(t)'
  <2>1. SUFFICES ASSUME NEW t \in handed, Gone(t) PROVE Gone(t)'
    OBVIOUS
  <2>2. t \in Tokens /\ t[2] \in Nat
    BY <1>1, TokenParts DEF TypeOK
  <2>3. t \in handed' /\ t[2] < clock'
    <3>1. handed \subseteq handed' /\ clock \in Nat /\ clock <= clock'
      BY <1>1, HandedGrows
    <3>2. t[2] < clock
      BY <2>1 DEF Gone
    <3>3. clock' \in Nat
      BY <1>1, TypeStep DEF TypeOK
    <3> QED
      BY <2>2, <3>1, <3>2, <3>3
  <2>4. ~Stored(t)'
    BY <1>1, <2>1, <2>2, StoredByStore DEF Gone
  <2>5. ASSUME NEW c \in Calls, pc'[c] = "store", token'[c] = t PROVE FALSE
    <3>1. ~(pc[c] = "store" /\ token[c] = token'[c])
      BY <2>1, <2>5 DEF Gone
    <3>2. t[2] = clock
      BY <1>1, <2>5, <3>1, SignedNow
    <3> QED
      BY <2>1, <2>2, <3>2 DEF Gone
  <2> QED
    BY <2>3, <2>4, <2>5 DEF Gone
<1> QED
  BY <1>1, TypeCorrect, PTL DEF Spec, UsedTokenStaysOut
=============================================================================
