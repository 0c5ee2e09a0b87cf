------------------------------ MODULE Sessions ------------------------------
(***************************************************************************)
(* The user service's sessions: registration, login, the rotation of       *)
(* refresh tokens, logout, password change and account deletion on the     *)
(* User and RefreshToken collections.  An action is what a call does       *)
(* between two awaits.                                                     *)
(*                                                                         *)
(* A refresh token is the user and the second it was signed in: jwt.sign   *)
(* puts nothing else into it that differs between two sessions of a user.  *)
(* A call stores one RefreshToken document at most, so the document is     *)
(* named by the call (its _id).  Each user has an email of its own.        *)
(*                                                                         *)
(* root, raced, origin and forked are history variables: what a session    *)
(* goes back to.                                                           *)
(*                                                                         *)
(* An operator standing just before the one it resembles, such as          *)
(* SignUndated before Sign, is the slip the properties must catch.         *)
(***************************************************************************)
EXTENDS Naturals

CONSTANTS
    Users,      \* userIds, and the emails they register with
    Passwords,
    Calls,      \* calls of the service, and the documents they store
    None,
    Life,       \* JWT_REFRESH_EXPIRES_IN, in seconds of the model's clock
    MaxTime,    \* bound: the clock stops here
    MaxFaults   \* bound: failed store operations, ended processes, lost answers

ASSUME SessionsAssumption ==
    /\ None \notin Users \X Nat
    /\ None \notin Calls
    /\ Life \in Nat
    /\ MaxTime \in Nat
    /\ MaxFaults \in Nat

VARIABLES
    clock,
    account,   \* per user: "none", "active" or "deleted" (isActive FALSE)
    password,  \* the password User.password is a hash of
    doc,       \* the token in the document each call stored, None once deleted
    handed,    \* tokens clients were given
    pc,        \* the await each call is at
    user,      \* the user it is about
    token,     \* the token it will store
    found,     \* the document a refresh found
    new,       \* the password a change will set
    root,      \* the password proven where the call's session began
    raced,     \* a revocation overtook the session's calls on their way
    origin,    \* the login or registration the call's session began with
    forked,    \* documents two refreshes found before either deleted them
    faults

userVars == <<account, password>>
tokenVars == <<doc, handed>>
callVars == <<pc, user, token, found, new>>
historyVars == <<root, raced, origin, forked>>
vars == <<clock, userVars, tokenVars, callVars, historyVars, faults>>

Tokens == Users \X Nat
Steps == {"idle", "sign", "store", "use", "read", "save", "deactivate",
          "reuse", "revoke", "unrevoked", "done"}
InFlight == {"sign", "store", "use", "read"}   \* on the way to a new token

SignUndated(u) == <<u, 0>>
Sign(u) == <<u, clock>>
Stored(t) == \E c \in Calls : doc[c] = t

Init ==
    /\ clock = 0
    /\ account = [u \in Users |-> "none"]
    /\ password = [u \in Users |-> None]
    /\ doc = [c \in Calls |-> None]
    /\ handed = {}
    /\ pc = [c \in Calls |-> "idle"]
    /\ user = [c \in Calls |-> None]
    /\ token = [c \in Calls |-> None]
    /\ found = [c \in Calls |-> None]
    /\ new = [c \in Calls |-> None]
    /\ root = [c \in Calls |-> None]
    /\ raced = [c \in Calls |-> FALSE]
    /\ origin = [c \in Calls |-> None]
    /\ forked = {}
    /\ faults = 0

Fault == faults < MaxFaults /\ faults' = faults + 1

Goto(c, step) == pc' = [pc EXCEPT ![c] = step]

\* A new call about user u goes to step.
Begin(c, u, step) ==
    /\ pc[c] = "idle"
    /\ user' = [user EXCEPT ![c] = u]
    /\ Goto(c, step)

\* A session begins with this call and password p.
BeginSession(c, p) ==
    /\ root' = [root EXCEPT ![c] = p]
    /\ origin' = [origin EXCEPT ![c] = c]
    /\ UNCHANGED <<raced, forked>>

\* User.findOne({ isActive: true }) and comparePassword.
Proves(u, p) == account[u] = "active" /\ password[u] = p

(***************************************************************************)
(* register and login, issueTokens.                                        *)
(***************************************************************************)
Register(c, u, p) ==
    /\ account[u] = "none"
    /\ account' = [account EXCEPT ![u] = "active"]
    /\ password' = [password EXCEPT ![u] = p]
    /\ Begin(c, u, "store")
    /\ token' = [token EXCEPT ![c] = Sign(u)]
    /\ BeginSession(c, p)
    /\ UNCHANGED <<clock, tokenVars, found, new, faults>>

\* The user is read here; comparing the password takes until LoginSign.
Login(c, u, p) ==
    /\ Begin(c, u, IF Proves(u, p) THEN "sign" ELSE "done")
    /\ BeginSession(c, p)
    /\ UNCHANGED <<clock, userVars, tokenVars, token, found, new, faults>>

LoginSign(c) ==
    /\ pc[c] = "sign"
    /\ token' = [token EXCEPT ![c] = Sign(user[c])]
    /\ Goto(c, "store")
    /\ UNCHANGED <<clock, userVars, tokenVars, user, found, new, historyVars,
                   faults>>

\* RefreshToken.create, under the unique index on token.  The answer with the
\* token reaches the client, or is lost.
Store(c) ==
    /\ pc[c] = "store"
    /\ \/ /\ ~Stored(token[c])
          /\ doc' = [doc EXCEPT ![c] = token[c]]
          /\ \/ handed' = handed \cup {token[c]} /\ UNCHANGED faults
             \/ Fault /\ UNCHANGED handed
       \/ /\ Stored(token[c])
          /\ UNCHANGED <<tokenVars, faults>>
    /\ Goto(c, "done")
    /\ UNCHANGED <<clock, userVars, user, token, found, new, historyVars>>

(***************************************************************************)
(* refresh.                                                                *)
(***************************************************************************)

\* jwt.verify, then RefreshToken.findOne({ token, userId }).
Unexpired(t) == clock < t[2] + Life

\* Refresh e has found document d and not deleted it yet.
Using(e, d) == pc[e] = "use" /\ found[e] = d

FindTokenUnnamed(c, t) ==
    /\ Begin(c, t[1], IF ~Unexpired(t) THEN "done"
                      ELSE IF Stored(t) THEN "use" ELSE "reuse")
    /\ UNCHANGED <<clock, userVars, tokenVars, token, found, new, historyVars,
                   faults>>

FindToken(c, t) ==
    \/ /\ \/ ~Unexpired(t) /\ Begin(c, t[1], "done")
          \/ Unexpired(t) /\ ~Stored(t) /\ Begin(c, t[1], "reuse")
       /\ UNCHANGED <<clock, userVars, tokenVars, token, found, new,
                      historyVars, faults>>
    \/ /\ Unexpired(t)
       /\ \E d \in Calls :
             /\ doc[d] = t
             /\ Begin(c, t[1], "use")
             /\ found' = [found EXCEPT ![c] = d]
             /\ root' = [root EXCEPT ![c] = root[d]]
             /\ raced' = [raced EXCEPT ![c] = raced[d]]
             /\ origin' = [origin EXCEPT ![c] = origin[d]]
             /\ forked' = forked \cup {f \in {d} : \E e \in Calls : Using(e, f)}
       /\ UNCHANGED <<clock, userVars, tokenVars, token, new, faults>>

UseNothing(c) ==
    /\ pc[c] = "use"
    /\ Goto(c, "read")
    /\ UNCHANGED <<clock, userVars, tokenVars, user, token, found, new,
                   historyVars, faults>>

\* deleteOne({ _id }): the document found, whoever deletes it first.
UseToken(c) ==
    /\ pc[c] = "use"
    /\ doc' = [doc EXCEPT ![found[c]] = None]
    /\ Goto(c, "read")
    /\ UNCHANGED <<clock, userVars, handed, user, token, found, new,
                   historyVars, faults>>

ReadUser(c) ==
    /\ pc[c] = "read"
    /\ \/ /\ account[user[c]] = "active"
          /\ token' = [token EXCEPT ![c] = Sign(user[c])]
          /\ Goto(c, "store")
       \/ /\ account[user[c]] # "active"
          /\ Goto(c, "done")
          /\ UNCHANGED token
    /\ UNCHANGED <<clock, userVars, tokenVars, user, found, new, historyVars,
                   faults>>

(***************************************************************************)
(* logout: deleteOne({ token }), whether or not the token is good.         *)
(***************************************************************************)
Logout(c, t) ==
    /\ Begin(c, t[1], "done")
    /\ doc' = [d \in Calls |-> IF doc[d] = t THEN None ELSE doc[d]]
    /\ UNCHANGED <<clock, userVars, handed, token, found, new, historyVars,
                   faults>>

(***************************************************************************)
(* changePassword and deleteAccount.                                       *)
(***************************************************************************)
ChangePassword(c, u, p, q) ==
    /\ p # q
    /\ Begin(c, u, IF Proves(u, p) THEN "save" ELSE "done")
    /\ new' = [new EXCEPT ![c] = q]
    /\ UNCHANGED <<clock, userVars, tokenVars, token, found, historyVars,
                   faults>>

\* user.save() writes the one modified field, whatever became of the account.
SavePassword(c) ==
    /\ pc[c] = "save"
    /\ password' = [password EXCEPT ![user[c]] = new[c]]
    /\ Goto(c, "revoke")
    /\ UNCHANGED <<clock, account, tokenVars, user, token, found, new,
                   historyVars, faults>>

DeleteAccount(c, u, p) ==
    /\ Begin(c, u, IF Proves(u, p) THEN "deactivate" ELSE "done")
    /\ UNCHANGED <<clock, userVars, tokenVars, token, found, new, historyVars,
                   faults>>

DeactivateOnly(c) ==
    /\ pc[c] = "deactivate"
    /\ account' = [account EXCEPT ![user[c]] = "deleted"]
    /\ Goto(c, "done")
    /\ UNCHANGED <<clock, password, tokenVars, user, token, found, new,
                   historyVars, faults>>

Deactivate(c) ==
    /\ pc[c] = "deactivate"
    /\ account' = [account EXCEPT ![user[c]] = "deleted"]
    /\ Goto(c, "revoke")
    /\ UNCHANGED <<clock, password, tokenVars, user, token, found, new,
                   historyVars, faults>>

\* deleteMany({ userId }) of a refresh that found no token, of a password
\* change and of a deletion.
Overtake(u) ==
    raced' = [c \in Calls |-> raced[c] \/ (user[c] = u /\ pc[c] \in InFlight)]

SessionsOf(u) == {c \in Calls : doc[c] # None /\ doc[c][1] = u}

RevokeOne(c) ==
    /\ pc[c] \in {"reuse", "revoke"}
    /\ \/ SessionsOf(user[c]) = {} /\ UNCHANGED doc
       \/ \E d \in SessionsOf(user[c]) : doc' = [doc EXCEPT ![d] = None]
    /\ Overtake(user[c])
    /\ Goto(c, "done")
    /\ UNCHANGED <<clock, userVars, handed, user, token, found, new, root,
                   origin, forked, faults>>

RevokeAll(c) ==
    /\ pc[c] \in {"reuse", "revoke"}
    /\ doc' = [d \in Calls |->
                 IF d \in SessionsOf(user[c]) THEN None ELSE doc[d]]
    /\ Overtake(user[c])
    /\ Goto(c, "done")
    /\ UNCHANGED <<clock, userVars, handed, user, token, found, new, root,
                   origin, forked, faults>>

\* A store operation throws or the process ends: what was done stays done.
CallFails(c) ==
    /\ pc[c] \notin {"idle", "done", "unrevoked"}
    /\ Fault
    /\ Goto(c, IF pc[c] = "revoke" THEN "unrevoked" ELSE "done")
    /\ UNCHANGED <<clock, userVars, tokenVars, user, token, found, new,
                   historyVars>>

(***************************************************************************)
(* The TTL index on expiresAt, some time after the token's life is over.   *)
(***************************************************************************)
Expire(c) ==
    /\ doc[c] # None
    /\ ~Unexpired(doc[c])
    /\ doc' = [doc EXCEPT ![c] = None]
    /\ UNCHANGED <<clock, userVars, handed, callVars, historyVars, faults>>

Tick ==
    /\ clock < MaxTime
    /\ clock' = clock + 1
    /\ UNCHANGED <<userVars, tokenVars, callVars, historyVars, faults>>

\* The two handlers of an account; RevokeAll ends both.
PasswordCall(c) ==
    \/ \E u \in Users, p, q \in Passwords : ChangePassword(c, u, p, q)
    \/ SavePassword(c)

DeletionCall(c) ==
    \/ \E u \in Users, p \in Passwords : DeleteAccount(c, u, p)
    \/ Deactivate(c)

Next ==
    \/ \E c \in Calls :
          \/ \E u \in Users, p \in Passwords : Register(c, u, p) \/ Login(c, u, p)
          \/ LoginSign(c)
          \/ Store(c)
          \/ \E t \in handed : FindToken(c, t) \/ Logout(c, t)
          \/ UseToken(c)
          \/ ReadUser(c)
          \/ PasswordCall(c) \/ DeletionCall(c)
          \/ RevokeAll(c)
          \/ CallFails(c)
          \/ Expire(c)
    \/ Tick

Spec == Init /\ [][Next]_vars

(***************************************************************************)
(* Properties.                                                             *)
(***************************************************************************)

\* Every variable has its type; a call under way is about a user, a token is
\* stored by a call about its user, and a refresh uses a document it found.
TypeOK ==
    /\ clock \in Nat
    /\ account \in [Users -> {"none", "active", "deleted"}]
    /\ password \in [Users -> Passwords \cup {None}]
    /\ doc \in [Calls -> Tokens \cup {None}]
    /\ handed \subseteq Tokens
    /\ pc \in [Calls -> Steps]
    /\ user \in [Calls -> Users \cup {None}]
    /\ token \in [Calls -> Tokens \cup {None}]
    /\ found \in [Calls -> Calls \cup {None}]
    /\ new \in [Calls -> Passwords \cup {None}]
    /\ root \in [Calls -> Passwords \cup {None}]
    /\ raced \in [Calls -> BOOLEAN]
    /\ origin \in [Calls -> Calls \cup {None}]
    /\ forked \subseteq Calls
    /\ faults \in Nat
    /\ \A c \in Calls :
          /\ pc[c] # "idle" => user[c] \in Users
          /\ pc[c] = "use" => found[c] \in Calls
          /\ pc[c] = "store" => token[c] \in {user[c]} \X Nat
          /\ doc[c] # None => doc[c][1] = user[c] /\ pc[c] = "done"

\* The tokens of u have yet to be revoked, or their revocation failed.
Revoking(u) ==
    \E c \in Calls : user[c] = u /\ pc[c] \in {"revoke", "unrevoked"}

\* Once a password change has revoked the sessions, every session stored goes
\* back to a login with the password of now, except those of calls the
\* revocation overtook between their look-up and their insert.
PasswordEndsSessions ==
    \A c \in Calls :
        doc[c] # None /\ root[c] # password[user[c]] =>
            raced[c] \/ Revoking(user[c])

\* Once an account is deleted and its sessions are revoked, it has no session
\* but those of calls the revocation overtook.
DeletionEndsSessions ==
    \A c \in Calls :
        doc[c] # None /\ account[user[c]] = "deleted" =>
            raced[c] \/ Revoking(user[c])

\* Rotation never multiplies a session: of all that was refreshed from a login,
\* directly or over many tokens, one session is stored at a time, unless two
\* refreshes of one token of it had both found the token before either deleted
\* it.
OneSessionPerLogin ==
    \A c, d \in Calls :
        doc[c] # None /\ doc[d] # None /\ origin[c] = origin[d] =>
            c = d \/ \E f \in forked : origin[f] = origin[c]

\* t was used, revoked or logged out, no call is about to store it, and the
\* second it was signed in is over.
Gone(t) ==
    /\ t \in handed
    /\ t[2] < clock
    /\ ~Stored(t)
    /\ \A c \in Calls : ~(pc[c] = "store" /\ token[c] = t)

\* One-time use: a token that is gone stays gone, so whoever presents it again
\* is refused.  Within the second it was signed in, a login or a rotation can
\* sign and store the very same token.
UsedTokenStaysOut ==
    [][\A t \in handed : Gone(t) => Gone(t)']_vars
=============================================================================
