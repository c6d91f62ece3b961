-------------------------- MODULE CredentialsProofs --------------------------
(***************************************************************************)
(* For any accounts, handlers and sessions: the types of Credentials, that *)
(* no session outlives a revocation, that a link that works is for its     *)
(* account's address, and that messages carry links that work.             *)
(*                                                                         *)
(* The second is not inductive, because RevokeOtherSessions keeps the      *)
(* session that asked.  Its new version must be no less than what has been *)
(* revoked since its handler wrote the password, and `Kept` says so: every *)
(* revocation meanwhile either deleted that session or went through it.    *)
(***************************************************************************)
EXTENDS Credentials, TLAPS

Op == {"none", "login", "change", "set", "forgot", "send", "invite", "profile"}
Place == {"done", "verified", "session", "compared", "target", "counted",
          "written", "dropped", "retired", "issued"}
Account == [version : Version, usable : BOOLEAN, disabled : BOOLEAN,
            email : Address, revoked : Version]
Handler == [op : Op, at : Place, user : User \cup {None}, version : Version,
            session : Session \cup {None}, to : Address \cup {None}, serial : Serial]
Login == [user : User, version : Version, late : BOOLEAN]
Link == [serial : Serial, user : User, purpose : Purpose, to : Address,
         stale : BOOLEAN, mailed : BOOLEAN]
Letter == [serial : Serial, user : User, purpose : Purpose, late : BOOLEAN]

(* A handler that runs names its account, and what else its kind needs. *)
Bound(q) ==
    \/ q = Idle
    \/ /\ q.op # "none" /\ q.at # "done" /\ q.user \in User
       /\ q.op \in {"forgot", "send", "invite", "profile"} => q.to \in Address
       /\ q.op = "change" => q.session \in Session
       /\ q.at = "issued" => q.op \in {"forgot", "send", "invite"}

Typed == TypeOK /\ \A r \in Request : Bound(request[r])

RevokedIsPast == \A u \in User : account[u].revoked <= account[u].version

KeptBy(r) ==
    LET u == request[r].user
        own == request[r].session
    IN  At(r, "change", "written") \/ At(r, "change", "retired") =>
          /\ request[r].version <= account[u].version
          /\ session[own] = None \/ session[own].user # u
             \/ account[u].revoked <= Later(request[r].version, session[own].version)
Kept == \A r \in Request : KeptBy(r)

-----------------------------------------------------------------------------
(* Typing *)

LEMMA TypedMeans ==
  Typed <=> /\ account \in [User -> Account]
            /\ session \in [Session -> {None} \cup Login]
            /\ link \subseteq Link /\ mail \subseteq Letter
            /\ request \in [Request -> Handler]
            /\ serial \in Serial
            /\ \A r \in Request : Bound(request[r])
  BY DEF Typed, TypeOK, Account, Login, Link, Letter, Handler, Op, Place

LEMMA IdleHandler == Idle \in Handler /\ Bound(Idle)
  BY CredentialsAssumption DEF Idle, Handler, Bound, Op, Place, Version, Serial

LEMMA InitTyped == Init => Typed
  <1> SUFFICES ASSUME Init PROVE Typed
    OBVIOUS
  <1>1. 0 \in Version /\ 0 \in Serial
    BY CredentialsAssumption DEF Version, Serial
  <1>2. [version : {0}, usable : BOOLEAN, disabled : {FALSE}, email : Address, revoked : {0}]
          \subseteq Account
    BY <1>1 DEF Account
  <1>3. account \in [User -> Account]
    BY <1>2 DEF Init
  <1> QED
    BY <1>1, <1>3, IdleHandler, TypedMeans DEF Init

(* A handler's next record decides the type of all of them. *)
LEMMA HandlerMoves ==
  ASSUME Typed, NEW r \in Request, NEW q \in Handler, Bound(q),
         request' = [request EXCEPT ![r] = q]
  PROVE  request' \in [Request -> Handler] /\ \A p \in Request : Bound(request'[p])
  BY TypedMeans

LEMMA HandlerEnds ==
  ASSUME Typed, NEW r \in Request, Finish(r)
  PROVE  request' \in [Request -> Handler] /\ \A p \in Request : Bound(request'[p])
  BY HandlerMoves, IdleHandler DEF Finish

(* What Typed says of a handler that runs. *)
LEMMA Running ==
  ASSUME Typed, NEW r \in Request, request[r].op # "none" \/ request[r].at # "done"
  PROVE  /\ request[r] \in Handler /\ request[r] # Idle /\ request[r].op # "none"
         /\ request[r].at # "done"
         /\ request[r].user \in User
         /\ request[r].op \in {"forgot", "send", "invite", "profile"} => request[r].to \in Address
         /\ request[r].op = "change" => request[r].session \in Session
         /\ request[r].at = "issued" => request[r].op \in {"forgot", "send", "invite"}
  BY TypedMeans DEF Bound, Idle

LEMMA HandlerSteps ==
  ASSUME Typed, NEW r \in Request, request[r].op # "none", NEW at \in Place \ {"done", "issued"},
         MoveTo(r, at)
  PROVE  request' \in [Request -> Handler] /\ \A p \in Request : Bound(request'[p])
  <1> DEFINE q == [request[r] EXCEPT !.at = at]
  <1>1. q \in Handler /\ Bound(q)
    BY Running DEF Handler, Bound
  <1>2. request' = [request EXCEPT ![r] = q]
    BY DEF MoveTo
  <1> QED
    BY <1>1, <1>2, HandlerMoves

LEMMA SessionsLeft ==
  ASSUME Typed, NEW u
  PROVE  SessionsWithout(u) \in [Session -> {None} \cup Login]
  BY TypedMeans DEF SessionsWithout

LEMMA LinksLeft ==
  ASSUME Typed, NEW u, NEW purposes
  PROVE  LinksWithout(u) \subseteq Link /\ MailWithout(u, purposes) \subseteq Letter
  BY TypedMeans DEF LinksWithout, MailWithout

LEMMA NextTyped ==
  ASSUME Typed, [Next]_vars
  PROVE  Typed'
  <1>0. Typed' <=> /\ account' \in [User -> Account]
                  /\ session' \in [Session -> {None} \cup Login]
                  /\ link' \subseteq Link /\ mail' \subseteq Letter
                  /\ request' \in [Request -> Handler]
                  /\ serial' \in Serial
                  /\ \A r \in Request : Bound(request'[r])
    BY DEF Typed, TypeOK, Account, Login, Link, Letter, Handler, Op, Place
  <1> DEFINE RequestTyped == /\ request \in [Request -> Handler]
                             /\ \A p \in Request : Bound(request[p])
  <1>a. CASE UNCHANGED vars
    BY <1>a, <1>0, TypedMeans DEF vars
  <1>b. ASSUME NEW r \in Request, NEW u \in User, VerifyLogin(r, u) PROVE Typed'
    <2> DEFINE q == [Idle EXCEPT !.op = "login", !.at = "verified", !.user = u,
                                 !.version = account[u].version]
    <2>1. q \in Handler /\ Bound(q)
      BY IdleHandler, TypedMeans DEF Handler, Bound, Idle, Op, Place, Account
    <2>2. RequestTyped'
      BY <1>b, <2>1, HandlerMoves DEF VerifyLogin
    <2> QED
      BY <1>b, <2>2, <1>0, TypedMeans DEF VerifyLogin
  <1>c. ASSUME NEW r \in Request, NEW s \in Session, OpenSession(r, s) PROVE Typed'
    <2>1. request[r].user \in User /\ request[r].version \in Version
      BY <1>c, Running DEF OpenSession, At, Handler
    <2>2. RequestTyped'
      BY <1>c, HandlerEnds DEF OpenSession
    <2>3. session' \in [Session -> {None} \cup Login]
      BY <1>c, <2>1, TypedMeans DEF OpenSession, Login
    <2> QED
      BY <1>c, <2>2, <2>3, <1>0, TypedMeans DEF OpenSession
  <1>d. ASSUME NEW s \in Session, CloseSession(s) PROVE Typed'
    BY <1>d, <1>0, TypedMeans DEF CloseSession
  <1>e. ASSUME NEW r \in Request, NEW s \in Session, FindSessionUser(r, s) PROVE Typed'
    <2> DEFINE q == [Idle EXCEPT !.op = "change", !.at = "session", !.user = session[s].user,
                                 !.session = s]
    <2>0. session[s].user \in User
      BY <1>e, TypedMeans DEF FindSessionUser, Login
    <2>1. q \in Handler /\ Bound(q)
      BY <2>0, IdleHandler DEF Handler, Bound, Idle, Op, Place
    <2>2. RequestTyped'
      BY <1>e, <2>1, HandlerMoves DEF FindSessionUser
    <2> QED
      BY <1>e, <2>2, <1>0, TypedMeans DEF FindSessionUser
  <1>f. ASSUME NEW r \in Request, ComparePassword(r) PROVE Typed'
    <2>1. RequestTyped'
      BY <1>f, HandlerSteps DEF ComparePassword, At, Place
    <2> QED
      BY <1>f, <2>1, <1>0, TypedMeans DEF ComparePassword
  <1>g. ASSUME NEW r \in Request, NEW u \in User, FindTarget(r, u) PROVE Typed'
    <2> DEFINE q == [Idle EXCEPT !.op = "set", !.at = "target", !.user = u]
    <2>1. q \in Handler /\ Bound(q)
      BY IdleHandler DEF Handler, Bound, Idle, Op, Place
    <2>2. RequestTyped'
      BY <1>g, <2>1, HandlerMoves DEF FindTarget
    <2> QED
      BY <1>g, <2>2, <1>0, TypedMeans DEF FindTarget
  <1>h. ASSUME NEW r \in Request, UpdateUserPassword(r) PROVE Typed'
    <2> DEFINE u == request[r].user
               q == [request[r] EXCEPT !.at = "written", !.version = account[u].version + 1]
    <2>1. u \in User /\ account[u].version + 1 \in Version
      BY <1>h, Running, TypedMeans, CredentialsAssumption
         DEF UpdateUserPassword, At, Account, Version
    <2>2. q \in Handler /\ Bound(q)
      BY <1>h, <2>1, Running DEF UpdateUserPassword, At, Handler, Bound, Place
    <2>3. request' = [request EXCEPT ![r] = q]
      BY <1>h DEF UpdateUserPassword
    <2>4. RequestTyped'
      BY <2>2, <2>3, HandlerMoves
    <2>5. account' \in [User -> Account]
      BY <1>h, <2>1, TypedMeans DEF UpdateUserPassword, Account
    <2> QED
      BY <1>h, <2>4, <2>5, <1>0, TypedMeans DEF UpdateUserPassword
  <1>i. ASSUME NEW r \in Request, DeleteSessionsForUser(r) PROVE Typed'
    <2>1. RequestTyped'
      BY <1>i, HandlerSteps DEF DeleteSessionsForUser, At, Place
    <2>2. account' \in [User -> Account]
      BY <1>i, TypedMeans DEF DeleteSessionsForUser, Account
    <2> QED
      BY <1>i, <2>1, <2>2, SessionsLeft, <1>0, TypedMeans DEF DeleteSessionsForUser
  <1>j. ASSUME NEW r \in Request, InvalidateUserCredentialTokens(r) PROVE Typed'
    <2>1. RequestTyped'
      BY <1>j, HandlerSteps, HandlerEnds DEF InvalidateUserCredentialTokens, At, Place
    <2> QED
      BY <1>j, <2>1, LinksLeft, <1>0, TypedMeans DEF InvalidateUserCredentialTokens, Retire
  <1>k. ASSUME NEW r \in Request, RevokeOtherSessions(r) PROVE Typed'
    <2> DEFINE u == request[r].user
               own == request[r].session
    <2>1. u \in User /\ own \in Session /\ request[r].version \in Version
      BY <1>k, Running DEF RevokeOtherSessions, At, Handler
    <2>2. RequestTyped'
      BY <1>k, HandlerEnds DEF RevokeOtherSessions
    <2>3. account' \in [User -> Account]
      BY <1>k, <2>1, TypedMeans DEF RevokeOtherSessions, Account, Later
    <2>4. session[own] # None => session[own].version \in Version
      BY <2>1, TypedMeans DEF Login
    <2>5. session' \in [Session -> {None} \cup Login]
      BY <1>k, <2>1, <2>4, SessionsLeft DEF RevokeOtherSessions, Login, Later
    <2> QED
      BY <1>k, <2>2, <2>3, <2>5, <1>0, TypedMeans DEF RevokeOtherSessions
  <1>l. ASSUME NEW r \in Request, RevocationIgnored(r) \/ Abandon(r) PROVE Typed'
    <2>1. RequestTyped'
      BY <1>l, HandlerEnds DEF RevocationIgnored, Abandon
    <2> QED
      BY <1>l, <2>1, <1>0, TypedMeans DEF RevocationIgnored, Abandon
  <1>m. ASSUME NEW r \in Request, NEW u \in User, NEW op \in {"forgot", "send", "invite"},
               FindLinkTarget(r, op, u) PROVE Typed'
    <2> DEFINE q == [Idle EXCEPT !.op = op, !.at = "target", !.user = u, !.to = account[u].email]
    <2>1. q \in Handler /\ Bound(q)
      BY IdleHandler, TypedMeans DEF Handler, Bound, Idle, Op, Place, Account
    <2>2. RequestTyped'
      BY <1>m, <2>1, HandlerMoves DEF FindLinkTarget
    <2> QED
      BY <1>m, <2>2, <1>0, TypedMeans DEF FindLinkTarget
  <1>n. ASSUME NEW r \in Request, CountRecentEmailMessages(r) PROVE Typed'
    <2>1. RequestTyped'
      BY <1>n, HandlerSteps DEF CountRecentEmailMessages, At, Place
    <2> QED
      BY <1>n, <2>1, <1>0, TypedMeans DEF CountRecentEmailMessages
  <1>o. ASSUME NEW r \in Request, CreatePasswordResetToken(r) PROVE Typed'
    <2> DEFINE u == request[r].user
               p == PurposeOf(request[r].op)
               q == [request[r] EXCEPT !.at = "issued", !.serial = serial']
    <2>1. request[r].op \in {"forgot", "send", "invite"}
      BY <1>o DEF CreatePasswordResetToken, At
    <2>2. u \in User /\ request[r].to \in Address
      BY <2>1, Running
    <2>3. serial' \in Serial
      BY <1>o, TypedMeans, CredentialsAssumption DEF CreatePasswordResetToken, Serial
    <2>4. p \in Purpose
      BY DEF PurposeOf, Purpose
    <2>5. q \in Handler /\ Bound(q)
      BY <2>1, <2>3, Running DEF Handler, Bound, Place
    <2>6. request' = [request EXCEPT ![r] = q]
      BY <1>o DEF CreatePasswordResetToken
    <2>7. RequestTyped'
      BY <2>5, <2>6, HandlerMoves
    <2> DEFINE new == [serial |-> serial', user |-> u, purpose |-> p, to |-> request[r].to,
                       stale |-> request[r].to # account[u].email, mailed |-> FALSE]
    <2>a. new \in Link
      BY <2>2, <2>3, <2>4 DEF Link
    <2>b. link' = {l \in link : l.user # u \/ l.purpose # p} \cup {new}
      BY <1>o DEF CreatePasswordResetToken
    <2>8. link' \subseteq Link
      <3> HIDE DEF new
      <3> QED BY <2>a, <2>b, TypedMeans
    <2>9. mail' \subseteq Letter
      BY <1>o, LinksLeft DEF CreatePasswordResetToken
    <2> QED
      BY <1>o, <2>3, <2>7, <2>8, <2>9, <1>0, TypedMeans DEF CreatePasswordResetToken
  <1>p. ASSUME NEW r \in Request, QueueLink(r) PROVE Typed'
    <2>1. request[r].user \in User /\ request[r].serial \in Serial
      BY <1>p, Running DEF QueueLink, Handler
    <2>2. RequestTyped'
      BY <1>p, HandlerEnds DEF QueueLink
    <2>3. PurposeOf(request[r].op) \in Purpose
      BY DEF PurposeOf, Purpose
    <2> DEFINE new == [serial |-> request[r].serial, user |-> request[r].user,
                       purpose |-> PurposeOf(request[r].op),
                       late |-> ~\E l \in link : l.serial = request[r].serial]
    <2>a. new \in Letter
      BY <2>1, <2>3 DEF Letter
    <2>b. mail' = mail \cup {new}
      BY <1>p DEF QueueLink
    <2>4. mail' \subseteq Letter
      <3> HIDE DEF new
      <3> QED BY <2>a, <2>b, TypedMeans
    <2> QED
      BY <1>p, <2>2, <2>4, <1>0, TypedMeans DEF QueueLink
  <1>q. ASSUME NEW m \in mail, DeliverMail(m) PROVE Typed'
    <2>1. link' \subseteq Link
      BY <1>q, TypedMeans DEF DeliverMail, Link
    <2> QED
      BY <1>q, <2>1, <1>0, TypedMeans DEF DeliverMail
  <1>r. ASSUME NEW l \in link, ResetPasswordUsingToken(l) PROVE Typed'
    <2>1. l.user \in User
      BY TypedMeans DEF Link
    <2>2. account' \in [User -> Account]
      BY <1>r, <2>1, TypedMeans, CredentialsAssumption
         DEF ResetPasswordUsingToken, Account, Version
    <2> QED
      BY <1>r, <2>2, SessionsLeft, LinksLeft, <1>0, TypedMeans
         DEF ResetPasswordUsingToken, Retire
  <1>s. ASSUME NEW r \in Request, NEW u \in User, NEW a \in Address, CheckAddress(r, u, a)
        PROVE Typed'
    <2> DEFINE q == [Idle EXCEPT !.op = "profile", !.at = "target", !.user = u, !.to = a]
    <2>1. q \in Handler /\ Bound(q)
      BY IdleHandler DEF Handler, Bound, Idle, Op, Place
    <2>2. RequestTyped'
      BY <1>s, <2>1, HandlerMoves DEF CheckAddress
    <2> QED
      BY <1>s, <2>2, <1>0, TypedMeans DEF CheckAddress
  <1>t. ASSUME NEW r \in Request, UpdateUserProfile(r) PROVE Typed'
    <2>1. request[r].user \in User /\ request[r].to \in Address
      BY <1>t, Running DEF UpdateUserProfile, At
    <2>2. RequestTyped'
      BY <1>t, HandlerEnds DEF UpdateUserProfile
    <2>3. account' \in [User -> Account] /\ link' \subseteq Link /\ mail' \subseteq Letter
      BY <1>t, <2>1, LinksLeft, TypedMeans DEF UpdateUserProfile, Retire, Account
    <2> QED
      BY <1>t, <2>2, <2>3, <1>0, TypedMeans DEF UpdateUserProfile
  <1>u. ASSUME NEW u \in User, NEW a \in Address, ImportAddress(u, a) PROVE Typed'
    <2>1. account' \in [User -> Account]
      BY <1>u, TypedMeans DEF ImportAddress, Account
    <2>3. link' \subseteq Link
      <3>1. \A l \in Link : [l EXCEPT !.stale = TRUE] \in Link
        BY DEF Link
      <3> QED
        BY <1>u, <3>1, TypedMeans DEF ImportAddress
    <2> QED
      BY <1>u, <2>1, <2>3, <1>0, TypedMeans DEF ImportAddress
  <1>v. ASSUME NEW u \in User, DisableUser(u) PROVE Typed'
    <2>1. account[u].version + 1 \in Version
      BY <1>v, TypedMeans, CredentialsAssumption DEF DisableUser, Account, Version
    <2>2. account' \in [User -> Account]
      BY <1>v, <2>1, TypedMeans DEF DisableUser, Account
    <2> QED
      BY <1>v, <2>2, SessionsLeft, <1>0, TypedMeans DEF DisableUser
  <1>w. ASSUME NEW u \in User, EnableUser(u) PROVE Typed'
    <2>1. account' \in [User -> Account]
      BY <1>w, TypedMeans DEF EnableUser, Account
    <2> QED
      BY <1>w, <2>1, <1>0, TypedMeans DEF EnableUser
  <1> QED
    BY <1>a, <1>b, <1>c, <1>d, <1>e, <1>f, <1>g, <1>h, <1>i, <1>j, <1>k, <1>l, <1>m, <1>n,
       <1>o, <1>p, <1>q, <1>r, <1>s, <1>t, <1>u, <1>v, <1>w DEF Next

-----------------------------------------------------------------------------
(* Revocation *)

Inv == RevokedIsPast /\ RevocationIsComplete /\ Kept

LEMMA Facts ==
  ASSUME Typed
  PROVE  /\ \A u \in User : account[u].version \in Nat /\ account[u].revoked \in Nat
         /\ \A s \in Session : session[s] # None =>
               session[s].version \in Nat /\ session[s].user \in User /\ session[s].late \in BOOLEAN
         /\ \A r \in Request : request[r].version \in Nat
  BY TypedMeans, CredentialsAssumption DEF Account, Login, Handler, Version

LEMMA FactsPrimed ==
  ASSUME Typed'
  PROVE  /\ \A u \in User : account'[u].version \in Nat /\ account'[u].revoked \in Nat
         /\ \A s \in Session : session'[s] # None =>
               session'[s].version \in Nat /\ session'[s].user \in User
         /\ \A r \in Request : request'[r].version \in Nat
  BY CredentialsAssumption DEF Typed, TypeOK, Version

(* Neither an account's revocations nor its sessions' versions go back.    *)
(* What is left to show of a step is then what it does itself.             *)
LEMMA StepsThatRevokeNothing ==
  ASSUME Typed, Typed', Inv,
         \A u \in User : /\ account'[u].revoked = account[u].revoked
                         /\ account'[u].version >= account[u].version,
         \A s \in Session : session'[s] \in {session[s], None},
         \A r \in Request :
            At(r, "change", "written")' \/ At(r, "change", "retired")' =>
               /\ At(r, "change", "written") \/ At(r, "change", "retired")
               /\ request'[r].session = request[r].session
               /\ request'[r].user = request[r].user
               /\ request'[r].version = request[r].version
  PROVE  Inv'
  <1>1. RevokedIsPast'
    BY Facts, FactsPrimed DEF Inv, RevokedIsPast
  <1>2. RevocationIsComplete'
    BY Facts DEF Inv, RevocationIsComplete
  <1>3. Kept'
    <2> SUFFICES ASSUME NEW r \in Request,
                        At(r, "change", "written")' \/ At(r, "change", "retired")'
                 PROVE  KeptBy(r)'
      BY DEF Kept, KeptBy
    <2>1. At(r, "change", "written") \/ At(r, "change", "retired")
      OBVIOUS
    <2>2. request[r].session \in Session /\ request[r].user \in User
      BY <2>1, Running DEF At
    <2>3. KeptBy(r)
      BY DEF Inv, Kept
    <2>4. /\ request'[r].session = request[r].session /\ request'[r].user = request[r].user
          /\ request'[r].version = request[r].version
      OBVIOUS
    <2> QED
      BY <2>1, <2>2, <2>3, <2>4, Facts, FactsPrimed DEF KeptBy
  <1> QED
    BY <1>1, <1>2, <1>3 DEF Inv

(* A step that takes every session of an account may revoke what it likes. *)
LEMMA StepsThatRevokeAll ==
  ASSUME Typed, Typed', Inv, NEW u \in User,
         account'[u].revoked <= account'[u].version,
         account'[u].version >= account[u].version,
         \A v \in User \ {u} : account'[v] = account[v],
         session' = SessionsWithout(u),
         \A r \in Request :
            At(r, "change", "written")' \/ At(r, "change", "retired")' =>
               /\ At(r, "change", "written") \/ At(r, "change", "retired")
               /\ request'[r].session = request[r].session
               /\ request'[r].user = request[r].user
               /\ request'[r].version = request[r].version
  PROVE  Inv'
  <1>0. \A s \in Session :
           /\ session'[s] \in {session[s], None}
           /\ session[s] # None /\ session[s].user = u => session'[s] = None
    BY DEF SessionsWithout
  <1>1. RevokedIsPast'
    BY DEF Inv, RevokedIsPast
  <1>2. RevocationIsComplete'
    BY <1>0, Facts DEF Inv, RevocationIsComplete
  <1>3. Kept'
    <2> SUFFICES ASSUME NEW r \in Request,
                        At(r, "change", "written")' \/ At(r, "change", "retired")'
                 PROVE  KeptBy(r)'
      BY DEF Kept, KeptBy
    <2>1. At(r, "change", "written") \/ At(r, "change", "retired")
      OBVIOUS
    <2>2. request[r].session \in Session /\ request[r].user \in User
      BY <2>1, Running DEF At
    <2>3. KeptBy(r)
      BY DEF Inv, Kept
    <2>4. /\ request'[r].session = request[r].session /\ request'[r].user = request[r].user
          /\ request'[r].version = request[r].version
      OBVIOUS
    <2> QED
      BY <1>0, <2>1, <2>2, <2>3, <2>4, Facts, FactsPrimed DEF KeptBy
  <1> QED
    BY <1>1, <1>2, <1>3 DEF Inv

LEMMA OpenSessionInv ==
  ASSUME Typed, Typed', Inv, NEW r \in Request, NEW s \in Session, OpenSession(r, s)
  PROVE  Inv'
  <1>1. /\ account' = account
        /\ \A t \in Session \ {s} : session'[t] = session[t]
        /\ request' = [request EXCEPT ![r] = Idle]
    BY TypedMeans DEF OpenSession, Finish
  <1>2. RevokedIsPast'
    BY <1>1 DEF Inv, RevokedIsPast
  <1>3. /\ session'[s].user = request[r].user
        /\ session'[s].late \/ session'[s].version >= account[request[r].user].revoked
    <2> DEFINE late == request[r].version < account[request[r].user].revoked
    <2>1. session'[s] = [user |-> request[r].user, version |-> request[r].version, late |-> late]
      BY TypedMeans DEF OpenSession
    <2>2. request[r].version \in Nat /\ account[request[r].user].revoked \in Nat
      BY Facts, Running DEF OpenSession, At
    <2>3. late \/ request[r].version >= account[request[r].user].revoked
      BY <2>2
    <2> HIDE DEF late
    <2> QED
      BY <2>1, <2>3
  <1>4. RevocationIsComplete'
    BY <1>1, <1>3 DEF Inv, RevocationIsComplete
  <1>5. Kept'
    <2> SUFFICES ASSUME NEW q \in Request,
                        At(q, "change", "written")' \/ At(q, "change", "retired")'
                 PROVE  KeptBy(q)'
      BY DEF Kept, KeptBy
    <2>1. q # r /\ request'[q] = request[q]
      BY <1>1, TypedMeans DEF At, Idle
    <2>2. request[q].session \in Session /\ request[q].session # s
      BY <2>1, Running DEF At, OpenSession
    <2> QED
      BY <1>1, <2>1, <2>2 DEF Inv, Kept, KeptBy, At
  <1> QED
    BY <1>2, <1>4, <1>5 DEF Inv

LEMMA UpdateUserPasswordInv ==
  ASSUME Typed, Typed', Inv, NEW r \in Request, UpdateUserPassword(r)
  PROVE  Inv'
  <1> DEFINE u == request[r].user
  <1>0. u \in User
    BY Running DEF UpdateUserPassword, At
  <1>1. /\ session' = session
        /\ account'[u].version = account[u].version + 1 /\ account'[u].revoked = account[u].revoked
        /\ \A v \in User \ {u} : account'[v] = account[v]
        /\ request'[r].version = account[u].version + 1 /\ request'[r].user = u
        /\ request'[r].session = request[r].session
        /\ \A q \in Request \ {r} : request'[q] = request[q]
    BY <1>0, TypedMeans DEF UpdateUserPassword, Account, Handler
  <1>2. RevokedIsPast'
    BY <1>0, <1>1, Facts DEF Inv, RevokedIsPast
  <1>3. RevocationIsComplete'
    BY <1>0, <1>1, Facts DEF Inv, RevocationIsComplete
  <1>4. ASSUME NEW q \in Request \ {r} PROVE KeptBy(q)'
    <2>1. CASE ~(At(q, "change", "written")' \/ At(q, "change", "retired")')
      BY <2>1 DEF KeptBy
    <2>2. CASE At(q, "change", "written")' \/ At(q, "change", "retired")'
      <3>1. At(q, "change", "written") \/ At(q, "change", "retired")
        BY <1>1, <2>2 DEF At
      <3>2. request[q].user \in User /\ request[q].session \in Session
        BY <3>1, Running DEF At
      <3> QED
        BY <1>0, <1>1, <3>1, <3>2, Facts DEF Inv, Kept, KeptBy
    <2> QED
      BY <2>1, <2>2
  <1>5. KeptBy(r)'
    <2>1. account'[u].revoked <= account[u].version + 1
      BY <1>0, <1>1, Facts DEF Inv, RevokedIsPast
    <2>2. CASE ~(At(r, "change", "written")' \/ At(r, "change", "retired")')
      BY <2>2 DEF KeptBy
    <2>3. CASE At(r, "change", "written")' \/ At(r, "change", "retired")'
      <3>1. request'[r].session \in Session
        BY <2>3, FactsPrimed DEF At, Typed, Bound, Idle
      <3> QED
        BY <1>0, <1>1, <2>1, <3>1, Facts, FactsPrimed DEF KeptBy, Later
    <2> QED
      BY <2>2, <2>3
  <1> QED
    BY <1>2, <1>3, <1>4, <1>5 DEF Inv, Kept

(* The session that asked is kept only with a version that covers what is  *)
(* revoked by now.                                                         *)
LEMMA RevokeOtherSessionsInv ==
  ASSUME Typed, Typed', Inv, NEW r \in Request, RevokeOtherSessions(r)
  PROVE  Inv'
  <1> DEFINE u == request[r].user
             own == request[r].session
             kept == session[own] # None /\ session[own].user = u
             version == request[r].version
  <1>0. u \in User /\ own \in Session /\ At(r, "change", "retired")
    BY Running DEF RevokeOtherSessions, At
  <1>1. version <= account[u].version
    BY <1>0 DEF Inv, Kept, KeptBy
  <1>2. /\ account'[u].version = account[u].version
        /\ account'[u].revoked = Later(account[u].revoked, version)
        /\ \A v \in User \ {u} : account'[v] = account[v]
        /\ request' = [request EXCEPT ![r] = Idle]
    BY <1>0, TypedMeans DEF RevokeOtherSessions, Finish, Account
  <1>3. \A s \in Session \ {own} :
           /\ session'[s] \in {session[s], None}
           /\ session[s] # None /\ session[s].user = u => session'[s] = None
    BY <1>0 DEF RevokeOtherSessions, SessionsWithout
  <1>4. CASE kept
    <2>1. /\ session'[own].user = u
          /\ session'[own].version = Later(session[own].version, version)
      BY <1>0, <1>4 DEF RevokeOtherSessions, SessionsWithout
    <2>2. account[u].revoked <= Later(version, session[own].version)
      BY <1>0, <1>4 DEF Inv, Kept, KeptBy
    <2>3. RevokedIsPast'
      BY <1>0, <1>1, <1>2, Facts DEF Inv, RevokedIsPast, Later
    <2>4. session'[own].version >= account'[u].revoked
      BY <1>0, <1>2, <1>4, <2>1, <2>2, Facts DEF Later
    <2>5. RevocationIsComplete'
      BY <1>0, <1>2, <1>3, <2>1, <2>4, Facts DEF Inv, RevocationIsComplete
    <2>6. Kept'
      <3> SUFFICES ASSUME NEW q \in Request,
                          At(q, "change", "written")' \/ At(q, "change", "retired")'
                   PROVE  KeptBy(q)'
        BY DEF Kept, KeptBy
      <3>1. q # r /\ request'[q] = request[q]
        BY <1>2, TypedMeans DEF At, Idle
      <3>2. At(q, "change", "written") \/ At(q, "change", "retired")
        BY <3>1 DEF At
      <3>3. request[q].session \in Session /\ request[q].user \in User /\ KeptBy(q)
        BY <3>2, Running DEF At, Inv, Kept
      <3>4. CASE request[q].session = own
        BY <1>0, <1>2, <1>4, <2>1, <3>1, <3>2, <3>3, <3>4, Facts DEF KeptBy, Later
      <3>5. CASE request[q].session # own
        BY <1>0, <1>2, <1>3, <3>1, <3>2, <3>3, <3>5, Facts DEF KeptBy
      <3> QED
        BY <3>4, <3>5
    <2> QED
      BY <2>3, <2>5, <2>6 DEF Inv
  <1>5. CASE ~kept
    <2>1. session' = SessionsWithout(u)
      BY <1>5 DEF RevokeOtherSessions
    <2>2. account'[u].revoked <= account'[u].version /\ account'[u].version >= account[u].version
      BY <1>0, <1>1, <1>2, Facts DEF Inv, RevokedIsPast, Later
    <2>3. \A q \in Request :
            At(q, "change", "written")' \/ At(q, "change", "retired")' => request'[q] = request[q]
      BY <1>2, TypedMeans DEF At, Idle
    <2> QED
      BY <1>0, <1>2, <2>1, <2>2, <2>3, StepsThatRevokeAll DEF At
  <1> QED
    BY <1>4, <1>5

LEMMA InitInv == Init => Inv
  <1> SUFFICES ASSUME Init PROVE Inv
    OBVIOUS
  <1>1. \A r \in Request : request[r].at = "done"
    BY DEF Init, Idle
  <1>2. RevokedIsPast
    <2>1. \A u \in User : account[u].revoked = 0 /\ account[u].version = 0
      BY DEF Init
    <2> QED
      BY <2>1 DEF RevokedIsPast
  <1>3. RevocationIsComplete
    BY DEF Init, RevocationIsComplete
  <1>4. Kept
    BY <1>1 DEF Kept, KeptBy, At
  <1> QED
    BY <1>2, <1>3, <1>4 DEF Inv

(* A handler that only moves, and not into the steps after its password's  *)
(* replacement, leaves the rest as it was.                                 *)
LEMMA OtherHandlersStay ==
  ASSUME Typed, Typed', Inv, NEW r \in Request, NEW q, request' = [request EXCEPT ![r] = q],
         q.op = "change" /\ q.at \in {"written", "retired"} =>
            /\ At(r, "change", "written") \/ At(r, "change", "retired")
            /\ q.session = request[r].session /\ q.user = request[r].user
            /\ q.version = request[r].version,
         \A u \in User : /\ account'[u].revoked = account[u].revoked
                         /\ account'[u].version >= account[u].version,
         session' = session
  PROVE  Inv'
  <1>1. \A p \in Request :
           At(p, "change", "written")' \/ At(p, "change", "retired")' =>
              /\ At(p, "change", "written") \/ At(p, "change", "retired")
              /\ request'[p].session = request[p].session
              /\ request'[p].user = request[p].user
              /\ request'[p].version = request[p].version
    BY TypedMeans DEF At
  <1> QED
    BY <1>1, StepsThatRevokeNothing

LEMMA NextInv ==
  ASSUME Typed, Typed', Inv, [Next]_vars
  PROVE  Inv'
  <1>0. \A u \in User : account[u].version >= account[u].version
    BY Facts
  <1>a. CASE UNCHANGED vars
    BY <1>a DEF vars, Inv, RevokedIsPast, RevocationIsComplete, Kept, KeptBy, At
  <1>b. ASSUME NEW r \in Request, NEW u \in User, VerifyLogin(r, u) \/ FindTarget(r, u)
        PROVE  Inv'
    BY <1>b, <1>0, OtherHandlersStay DEF VerifyLogin, FindTarget, Idle
  <1>c. ASSUME NEW r \in Request, NEW s \in Session, FindSessionUser(r, s) PROVE Inv'
    BY <1>c, <1>0, OtherHandlersStay DEF FindSessionUser, Idle
  <1>d. ASSUME NEW s \in Session, CloseSession(s) PROVE Inv'
    <2>1. \A t \in Session : session'[t] \in {session[t], None}
      BY <1>d, TypedMeans DEF CloseSession
    <2> QED
      BY <1>d, <1>0, <2>1, StepsThatRevokeNothing DEF CloseSession, At
  <1>e. ASSUME NEW r \in Request, ComparePassword(r) PROVE Inv'
    <2>1. request' = [request EXCEPT ![r] = [request[r] EXCEPT !.at = "compared"]]
          /\ UNCHANGED <<account, session>>
      BY <1>e DEF ComparePassword, MoveTo
    <2>2. [request[r] EXCEPT !.at = "compared"].at = "compared"
      BY TypedMeans DEF Handler
    <2> QED
      BY <1>0, <2>1, <2>2, OtherHandlersStay
  <1>f. ASSUME NEW r \in Request, DeleteSessionsForUser(r) PROVE Inv'
    <2> DEFINE u == request[r].user
    <2>1. u \in User /\ request[r].op = "set"
      BY <1>f, Running DEF DeleteSessionsForUser, At
    <2>2. /\ account'[u].revoked = account[u].version /\ account'[u].version = account[u].version
          /\ \A v \in User \ {u} : account'[v] = account[v]
          /\ session' = SessionsWithout(u)
      BY <1>f, <2>1, TypedMeans DEF DeleteSessionsForUser, Account
    <2>3. \A q \in Request \ {r} : request'[q] = request[q]
      BY <1>f, TypedMeans DEF DeleteSessionsForUser, MoveTo
    <2>4. request'[r].op = "set"
      BY <1>f, <2>1, TypedMeans DEF DeleteSessionsForUser, MoveTo, Handler
    <2> QED
      BY <2>1, <2>2, <2>3, <2>4, Facts, StepsThatRevokeAll DEF At
  <1>g. ASSUME NEW r \in Request, InvalidateUserCredentialTokens(r) PROVE Inv'
    <2>1. CASE At(r, "change", "written") /\ MoveTo(r, "retired")
      <3> DEFINE q == [request[r] EXCEPT !.at = "retired"]
      <3>1. q.session = request[r].session /\ q.user = request[r].user
            /\ q.version = request[r].version
        BY TypedMeans DEF Handler
      <3>2. request' = [request EXCEPT ![r] = q] /\ UNCHANGED <<account, session>>
        BY <1>g, <2>1 DEF InvalidateUserCredentialTokens, MoveTo
      <3> HIDE DEF q
      <3> QED
        BY <1>0, <2>1, <3>1, <3>2, OtherHandlersStay
    <2>2. CASE At(r, "set", "dropped") /\ Finish(r)
      BY <1>g, <1>0, <2>2, OtherHandlersStay DEF InvalidateUserCredentialTokens, Finish, Idle
    <2> QED
      BY <1>g, <2>1, <2>2 DEF InvalidateUserCredentialTokens
  <1>h. ASSUME NEW r \in Request, RevocationIgnored(r) \/ Abandon(r) \/ QueueLink(r) PROVE Inv'
    BY <1>h, <1>0, OtherHandlersStay DEF RevocationIgnored, Abandon, QueueLink, Finish, Idle
  <1>i. ASSUME NEW r \in Request, NEW u \in User, NEW op \in {"forgot", "send", "invite"},
               FindLinkTarget(r, op, u) PROVE Inv'
    BY <1>i, <1>0, OtherHandlersStay DEF FindLinkTarget, Idle
  <1>j. ASSUME NEW r \in Request, CountRecentEmailMessages(r) PROVE Inv'
    <2>1. request' = [request EXCEPT ![r] = [request[r] EXCEPT !.at = "counted"]]
          /\ UNCHANGED <<account, session>>
      BY <1>j DEF CountRecentEmailMessages, MoveTo
    <2>2. [request[r] EXCEPT !.at = "counted"].at = "counted"
      BY TypedMeans DEF Handler
    <2> QED
      BY <1>0, <2>1, <2>2, OtherHandlersStay
  <1>k. ASSUME NEW r \in Request, CreatePasswordResetToken(r) PROVE Inv'
    <2> DEFINE q == [request[r] EXCEPT !.at = "issued", !.serial = serial']
    <2>1. request' = [request EXCEPT ![r] = q] /\ UNCHANGED <<account, session>>
      BY <1>k DEF CreatePasswordResetToken
    <2>2. q.at = "issued"
      BY TypedMeans DEF Handler
    <2> QED
      BY <1>0, <2>1, <2>2, OtherHandlersStay
  <1>l. ASSUME NEW m \in mail, DeliverMail(m) PROVE Inv'
    BY <1>l, <1>0, StepsThatRevokeNothing DEF DeliverMail, At
  <1>m. ASSUME NEW l \in link, ResetPasswordUsingToken(l) PROVE Inv'
    <2> DEFINE u == l.user
    <2>1. u \in User
      BY TypedMeans DEF Link
    <2>2. /\ account'[u].revoked = account[u].version + 1
          /\ account'[u].version = account[u].version + 1
          /\ \A v \in User \ {u} : account'[v] = account[v]
          /\ session' = SessionsWithout(u) /\ request' = request
      BY <1>m, <2>1, TypedMeans DEF ResetPasswordUsingToken, Account
    <2> QED
      BY <2>1, <2>2, Facts, StepsThatRevokeAll DEF At
  <1>n. ASSUME NEW r \in Request, NEW u \in User, NEW a \in Address, CheckAddress(r, u, a)
        PROVE Inv'
    BY <1>n, <1>0, OtherHandlersStay DEF CheckAddress, Idle
  <1>o. ASSUME NEW r \in Request, UpdateUserProfile(r) PROVE Inv'
    <2>1. request[r].user \in User
      BY <1>o, Running DEF UpdateUserProfile, At
    <2>2. \A u \in User : /\ account'[u].revoked = account[u].revoked
                          /\ account'[u].version = account[u].version
      BY <1>o, <2>1, TypedMeans DEF UpdateUserProfile, Account
    <2> QED
      BY <1>o, <2>2, <1>0, OtherHandlersStay DEF UpdateUserProfile, Finish, Idle
  <1>p. ASSUME NEW u \in User, NEW a \in Address, ImportAddress(u, a) PROVE Inv'
    <2>1. \A v \in User : /\ account'[v].revoked = account[v].revoked
                          /\ account'[v].version = account[v].version
      BY <1>p, TypedMeans DEF ImportAddress, Account
    <2> QED
      BY <1>p, <2>1, <1>0, StepsThatRevokeNothing DEF ImportAddress, At
  <1>q. ASSUME NEW u \in User, DisableUser(u) PROVE Inv'
    <2>1. /\ account'[u].revoked = account[u].version + 1
          /\ account'[u].version = account[u].version + 1
          /\ \A v \in User \ {u} : account'[v] = account[v]
          /\ session' = SessionsWithout(u) /\ request' = request
      BY <1>q, TypedMeans DEF DisableUser, Account
    <2> QED
      BY <2>1, Facts, StepsThatRevokeAll DEF At
  <1>r. ASSUME NEW u \in User, EnableUser(u) PROVE Inv'
    <2>1. \A v \in User : /\ account'[v].revoked = account[v].revoked
                          /\ account'[v].version = account[v].version
      BY <1>r, TypedMeans DEF EnableUser, Account
    <2> QED
      BY <1>r, <2>1, <1>0, StepsThatRevokeNothing DEF EnableUser, At
  <1> QED
    BY <1>a, <1>b, <1>c, <1>d, <1>e, <1>f, <1>g, <1>h, <1>i, <1>j, <1>k, <1>l, <1>m, <1>n,
       <1>o, <1>p, <1>q, <1>r, OpenSessionInv, UpdateUserPasswordInv, RevokeOtherSessionsInv
       DEF Next

-----------------------------------------------------------------------------
(* The tables and the handlers keep their types, for any number of         *)
(* accounts, handlers and sessions.                                        *)
THEOREM CredentialsTyped == Spec => []TypeOK
  <1>1. Init => Typed
    BY InitTyped
  <1>2. Typed /\ [Next]_vars => Typed'
    BY NextTyped
  <1>3. Typed => TypeOK
    BY DEF Typed
  <1> QED
    BY <1>1, <1>2, <1>3, PTL DEF Spec

(* No session but that of a login which verified the former password       *)
(* outlives a revocation (replaceCredential, ResetPasswordUsingToken,      *)
(* SetUserDisabled, RevokeOtherSessions), however many handlers overlap.   *)
THEOREM NoSessionOutlivesRevocation == Spec => []RevocationIsComplete
  <1>1. Init => Typed /\ Inv
    BY InitTyped, InitInv
  <1>2. (Typed /\ Inv) /\ [Next]_vars => (Typed /\ Inv)'
    BY NextTyped, NextInv
  <1>3. Typed /\ Inv => RevocationIsComplete
    BY DEF Inv
  <1> QED
    BY <1>1, <1>2, <1>3, PTL DEF Spec

-----------------------------------------------------------------------------
(* An administrator's replacement has revoked what it wrote once its       *)
(* sessions are gone, and revocations are never taken back.                *)

Covered == \A r \in Request :
    /\ At(r, "set", "written") => request[r].version <= account[request[r].user].version
    /\ At(r, "set", "dropped") => request[r].version <= account[request[r].user].revoked

LEMMA AccountsGoForward ==
  ASSUME Typed, Inv, Next, NEW u \in User
  PROVE  account'[u].version >= account[u].version /\ account'[u].revoked >= account[u].revoked
  <1>0. /\ account[u].version \in Nat /\ account[u].revoked \in Nat
        /\ account[u].revoked <= account[u].version
        /\ account[u] \in Account /\ account \in [User -> Account]
    BY Facts, TypedMeans DEF Inv, RevokedIsPast
  <1> USE <1>0 DEF Account
  <1>1. CASE account' = account
    BY <1>1
  <1>2. ASSUME NEW r \in Request, UpdateUserPassword(r)
        PROVE  account'[u].version >= account[u].version /\ account'[u].revoked >= account[u].revoked
    BY <1>2 DEF UpdateUserPassword
  <1>3. ASSUME NEW r \in Request, DeleteSessionsForUser(r)
        PROVE  account'[u].version >= account[u].version /\ account'[u].revoked >= account[u].revoked
    BY <1>3 DEF DeleteSessionsForUser
  <1>4. ASSUME NEW r \in Request, RevokeOtherSessions(r)
        PROVE  account'[u].version >= account[u].version /\ account'[u].revoked >= account[u].revoked
    <2>1. request[r].version \in Nat
      BY Facts
    <2> QED
      BY <1>4, <2>1 DEF RevokeOtherSessions, Later
  <1>5. ASSUME NEW l \in link, ResetPasswordUsingToken(l)
        PROVE  account'[u].version >= account[u].version /\ account'[u].revoked >= account[u].revoked
    BY <1>5 DEF ResetPasswordUsingToken
  <1>6. ASSUME NEW r \in Request, UpdateUserProfile(r)
        PROVE  account'[u].version >= account[u].version /\ account'[u].revoked >= account[u].revoked
    BY <1>6 DEF UpdateUserProfile
  <1>7. ASSUME NEW v \in User, DisableUser(v) \/ EnableUser(v) \/ \E a \in Address : ImportAddress(v, a)
        PROVE  account'[u].version >= account[u].version /\ account'[u].revoked >= account[u].revoked
    BY <1>7 DEF DisableUser, EnableUser, ImportAddress
  <1> QED
    BY <1>1, <1>2, <1>3, <1>4, <1>5, <1>6, <1>7
       DEF Next, VerifyLogin, FindTarget, OpenSession, FindSessionUser, CloseSession,
           ComparePassword, InvalidateUserCredentialTokens, RevocationIgnored, FindLinkTarget,
           CountRecentEmailMessages, CreatePasswordResetToken, QueueLink, DeliverMail,
           CheckAddress, Abandon

(* Only two steps lead to the places `Covered` speaks of. *)
LEMMA WaysToCovered ==
  ASSUME Typed, Next, NEW r \in Request,
         At(r, "set", "written")' \/ At(r, "set", "dropped")'
  PROVE  \/ request'[r] = request[r]
         \/ UpdateUserPassword(r)
         \/ DeleteSessionsForUser(r)
  <1>0. request \in [Request -> Handler] /\ \A p \in Request : request[p] \in Handler
    BY TypedMeans
  <1> USE <1>0
  <1>1. CASE request' = request
    BY <1>1
  <1>2. ASSUME NEW p \in Request, p # r, NEW q, request' = [request EXCEPT ![p] = q]
        PROVE  request'[r] = request[r]
    BY <1>2
  <1>3. ASSUME NEW p \in Request,
               \/ Finish(p) \/ ComparePassword(p) \/ CountRecentEmailMessages(p)
               \/ CreatePasswordResetToken(p) \/ InvalidateUserCredentialTokens(p)
               \/ \E u \in User : VerifyLogin(p, u) \/ FindTarget(p, u)
               \/ \E s \in Session : FindSessionUser(p, s)
               \/ \E u \in User, op \in {"forgot", "send", "invite"} : FindLinkTarget(p, op, u)
               \/ \E u \in User, a \in Address : CheckAddress(p, u, a)
        PROVE  request'[r] = request[r]
    <2> SUFFICES ASSUME p = r PROVE FALSE
      BY <1>3, <1>2 DEF Finish, ComparePassword, CountRecentEmailMessages, MoveTo,
                CreatePasswordResetToken, InvalidateUserCredentialTokens, VerifyLogin,
                FindTarget, FindSessionUser, FindLinkTarget, CheckAddress
    <2>1. ASSUME Finish(r) PROVE FALSE
      BY <2>1 DEF Finish, Idle, At
    <2>2. ASSUME NEW at \in Place \ {"written", "dropped"}, MoveTo(r, at) PROVE FALSE
      BY <2>2 DEF MoveTo, At, Handler
    <2>3. ASSUME CreatePasswordResetToken(r) PROVE FALSE
      BY <2>3 DEF CreatePasswordResetToken, At, Handler
    <2>4. ASSUME NEW u, VerifyLogin(r, u) \/ FindTarget(r, u) PROVE FALSE
      BY <2>4 DEF VerifyLogin, FindTarget, At, Idle
    <2>5. ASSUME NEW s, FindSessionUser(r, s) PROVE FALSE
      BY <2>5 DEF FindSessionUser, At, Idle
    <2>6. ASSUME NEW u, NEW op, FindLinkTarget(r, op, u) PROVE FALSE
      BY <2>6 DEF FindLinkTarget, At, Idle
    <2>7. ASSUME NEW u, NEW a, CheckAddress(r, u, a) PROVE FALSE
      BY <2>7 DEF CheckAddress, At, Idle
    <2>8. ComparePassword(r) \/ CountRecentEmailMessages(r) \/ InvalidateUserCredentialTokens(r)
             => Finish(r) \/ \E at \in Place \ {"written", "dropped"} : MoveTo(r, at)
      BY DEF ComparePassword, CountRecentEmailMessages, InvalidateUserCredentialTokens, Place
    <2> QED
      BY <1>3, <2>1, <2>2, <2>3, <2>4, <2>5, <2>6, <2>7, <2>8
  <1>4. ASSUME NEW p \in Request, UpdateUserPassword(p) \/ DeleteSessionsForUser(p)
        PROVE  \/ request'[r] = request[r] \/ UpdateUserPassword(r) \/ DeleteSessionsForUser(r)
    BY <1>2, <1>4 DEF UpdateUserPassword, DeleteSessionsForUser, MoveTo
  <1> QED
    BY <1>1, <1>3, <1>4
       DEF Next, OpenSession, CloseSession, RevokeOtherSessions, RevocationIgnored, QueueLink,
           DeliverMail, ResetPasswordUsingToken, UpdateUserProfile, ImportAddress, DisableUser,
           EnableUser, Abandon

LEMMA NextCovered ==
  ASSUME Typed, Typed', Inv, Covered, [Next]_vars
  PROVE  Covered'
  <1>1. CASE UNCHANGED vars
    BY <1>1 DEF vars, Covered, At
  <1>2. CASE Next
    <2> SUFFICES ASSUME NEW r \in Request,
                        At(r, "set", "written")' \/ At(r, "set", "dropped")'
                 PROVE  IF At(r, "set", "written")'
                        THEN request'[r].version <= account'[request'[r].user].version
                        ELSE request'[r].version <= account'[request'[r].user].revoked
      BY DEF Covered, At
    <2>1. CASE request'[r] = request[r]
      <3>1. At(r, "set", "written") \/ At(r, "set", "dropped")
        BY <2>1 DEF At
      <3>2. request[r].user \in User
        BY <3>1, Running DEF At
      <3> QED
        BY <1>2, <2>1, <3>1, <3>2, AccountsGoForward, Facts, FactsPrimed DEF Covered, At
    <2>2. CASE UpdateUserPassword(r)
      <3>1. request[r].user \in User
        BY <2>2, Running DEF UpdateUserPassword, At
      <3>2. /\ request'[r].user = request[r].user /\ request'[r].at = "written"
            /\ request'[r].version = account'[request[r].user].version
        BY <2>2, <3>1, TypedMeans DEF UpdateUserPassword, Handler, Account
      <3> QED
        BY <3>1, <3>2, FactsPrimed DEF At
    <2>3. CASE DeleteSessionsForUser(r)
      <3>1. request[r].user \in User /\ At(r, "set", "written")
        BY <2>3, Running DEF DeleteSessionsForUser, At
      <3>2. /\ request'[r].user = request[r].user /\ request'[r].at = "dropped"
            /\ request'[r].version = request[r].version
            /\ account'[request[r].user].revoked = account[request[r].user].version
        BY <2>3, <3>1, TypedMeans DEF DeleteSessionsForUser, MoveTo, Handler, Account
      <3> QED
        BY <3>1, <3>2 DEF Covered, At
    <2> QED
      BY <1>2, <2>1, <2>2, <2>3, WaysToCovered
  <1> QED
    BY <1>1, <1>2

(* The answer that a password was replaced comes after every session       *)
(* opened with the former one is gone (replaceCredential), for any number  *)
(* of accounts, handlers and sessions.                                     *)
THEOREM ReplacementRevokesFirst == Spec => ReplacedMeansRevoked
  <1> DEFINE Answered == \A r \in Request :
                request[r].op = "set" /\ InvalidateUserCredentialTokens(r) =>
                    account'[request[r].user].revoked >= request[r].version
  <1>1. Init => Typed /\ Inv /\ Covered
    <2>1. Init => Covered
      BY DEF Init, Covered, At, Idle
    <2> QED
      BY <2>1, InitTyped, InitInv
  <1>2. (Typed /\ Inv /\ Covered) /\ [Next]_vars => (Typed /\ Inv /\ Covered)'
    BY NextTyped, NextInv, NextCovered
  <1>3. (Typed /\ Inv /\ Covered) /\ [Next]_vars => [Answered]_vars
    <2> SUFFICES ASSUME Typed, Inv, Covered, NEW r \in Request,
                        request[r].op = "set", InvalidateUserCredentialTokens(r)
                 PROVE  account'[request[r].user].revoked >= request[r].version
      OBVIOUS
    <2>1. At(r, "set", "dropped") /\ account' = account
      BY DEF InvalidateUserCredentialTokens, At
    <2>2. request[r].user \in User
      BY <2>1, Running DEF At
    <2> QED
      BY <2>1, <2>2, Facts DEF Covered
  <1> QED
    BY <1>1, <1>2, <1>3, PTL DEF Spec, ReplacedMeansRevoked
-----------------------------------------------------------------------------
(* Links and the messages that carry them.  A link is dropped by account   *)
(* and purpose and a message by the same two, so that none is left behind  *)
(* needs that a message is of the account and the purpose of its link, and *)
(* so does the handler that is going to queue it (`Carried`); serials that *)
(* have not been issued yet name nothing.                                  *)

Names(n, u, p) == n <= serial /\ \A l \in link : l.serial = n => l.user = u /\ l.purpose = p

Holds(q) == q.at = "issued" => Names(q.serial, q.user, PurposeOf(q.op))

Carried ==
    /\ \A l \in link : l.serial <= serial
    /\ \A m \in mail : Names(m.serial, m.user, m.purpose)
    /\ \A r \in Request : Holds(request[r])

LinksInv == LinksFollowAddress /\ PendingMailOpens /\ Carried

LEMMA LinkFacts ==
  ASSUME Typed
  PROVE  /\ serial \in Nat
         /\ \A l \in link : l \in Link /\ l.serial \in Nat /\ l.user \in User
         /\ \A m \in mail : m.serial \in Nat /\ m.user \in User /\ m.purpose \in Purpose
         /\ \A r \in Request : request[r].serial \in Nat
  BY TypedMeans, CredentialsAssumption DEF Link, Letter, Handler, Serial

LEMMA InitLinksInv == Init => LinksInv
  BY DEF Init, LinksInv, LinksFollowAddress, PendingMailOpens, Carried, Holds, Idle

(* A step that issues nothing and drops all links of some accounts with    *)
(* the messages that carry them.                                           *)
LEMMA StepsThatRetire ==
  ASSUME Typed, LinksInv, NEW Retired,
         \A l : l \in link' <=> l \in link /\ l.user \notin Retired,
         \A m : m \in mail' <=> m \in mail /\ m.user \notin Retired,
         \A u \in User \ Retired : account'[u].email = account[u].email,
         serial' = serial,
         \A r \in Request : request'[r].at = "issued" => request'[r] = request[r]
  PROVE  LinksInv'
  <1>1. LinksFollowAddress'
    BY LinkFacts DEF LinksInv, LinksFollowAddress
  <1>2. PendingMailOpens'
    <2> SUFFICES ASSUME NEW m \in mail', ~m.late PROVE \E l \in link' : l.serial = m.serial
      BY DEF PendingMailOpens
    <2>1. PICK l \in link : l.serial = m.serial
      BY DEF LinksInv, PendingMailOpens
    <2>2. l.user = m.user
      BY <2>1 DEF LinksInv, Carried, Holds, Names
    <2> QED
      BY <2>1, <2>2
  <1>3. Carried'
    BY DEF LinksInv, Carried, Holds, Names
  <1> QED
    BY <1>1, <1>2, <1>3 DEF LinksInv

LEMMA StepsThatLeaveLinks ==
  ASSUME Typed, LinksInv, UNCHANGED <<link, mail, serial>>,
         \A u \in User : account'[u].email = account[u].email,
         \A r \in Request : request'[r].at = "issued" => request'[r] = request[r]
  PROVE  LinksInv'
  <1> DEFINE Retired == {}
  <1>1. /\ \A l : l \in link' <=> l \in link /\ l.user \notin Retired
        /\ \A m : m \in mail' <=> m \in mail /\ m.user \notin Retired
        /\ \A u \in User \ Retired : account'[u].email = account[u].email
    OBVIOUS
  <1> HIDE DEF Retired
  <1> QED
    BY <1>1, StepsThatRetire

(* A new link supersedes those of its account and purpose. *)
LEMMA CreatePasswordResetTokenLinks ==
  ASSUME Typed, LinksInv, NEW r \in Request, CreatePasswordResetToken(r)
  PROVE  LinksInv'
  <1> DEFINE u == request[r].user
             p == PurposeOf(request[r].op)
             new == [serial |-> serial', user |-> u, purpose |-> p, to |-> request[r].to,
                     stale |-> request[r].to # account[u].email, mailed |-> FALSE]
  <1>1. /\ link' = {l \in link : l.user # u \/ l.purpose # p} \cup {new}
        /\ mail' = {m \in mail : m.user # u \/ m.purpose # p}
        /\ serial' = serial + 1 /\ account' = account
        /\ request' = [request EXCEPT ![r].at = "issued", ![r].serial = serial']
    BY DEF CreatePasswordResetToken, MailWithout
  <1>2. /\ new.serial = serial' /\ new.user = u /\ new.purpose = p
        /\ new.stale \/ new.to = account[u].email
    OBVIOUS
  <1>3. /\ request'[r].serial = serial' /\ request'[r].user = u
        /\ request'[r].op = request[r].op
        /\ \A q \in Request \ {r} : request'[q] = request[q]
    BY <1>1, TypedMeans DEF Handler
  <1> HIDE DEF new, u, p
  <1>4. LinksFollowAddress'
    BY <1>1, <1>2 DEF LinksInv, LinksFollowAddress
  <1>5. PendingMailOpens'
    <2> SUFFICES ASSUME NEW m \in mail', ~m.late PROVE \E l \in link' : l.serial = m.serial
      BY DEF PendingMailOpens
    <2>1. PICK l \in link : l.serial = m.serial
      BY <1>1 DEF LinksInv, PendingMailOpens
    <2>2. l.user = m.user /\ l.purpose = m.purpose
      BY <1>1, <2>1 DEF LinksInv, Carried, Holds, Names
    <2> QED
      BY <1>1, <2>1, <2>2
  <1>6. Carried'
    <2>1. \A l \in link' : l.serial <= serial'
      BY <1>1, <1>2, LinkFacts DEF LinksInv, Carried
    <2>2. ASSUME NEW n \in Nat, NEW v, NEW purpose, Names(n, v, purpose)
          PROVE  Names(n, v, purpose)'
      BY <1>1, <1>2, <2>2, LinkFacts DEF Names
    <2>3. \A m \in mail' : Names(m.serial, m.user, m.purpose)'
      BY <1>1, <2>2, LinkFacts DEF LinksInv, Carried
    <2>4. ASSUME NEW q \in Request \ {r} PROVE Holds(request[q])'
      BY <1>3, <2>2, LinkFacts DEF LinksInv, Carried, Holds
    <2>5. Holds(request[r])'
      <3>1. \A l \in link : l.serial # serial'
        BY <1>1, LinkFacts DEF LinksInv, Carried
      <3>2. \A l \in link' : l.serial = serial' => l = new
        BY <1>1, <3>1
      <3>3. serial' \in Nat
        BY <1>1, LinkFacts
      <3>4. PurposeOf(request'[r].op) = new.purpose
        BY <1>2, <1>3 DEF p
      <3> QED
        BY <1>2, <1>3, <3>2, <3>3, <3>4 DEF Holds, Names, PurposeOf
    <2> QED
      BY <2>1, <2>3, <2>4, <2>5 DEF Carried
  <1> QED
    BY <1>4, <1>5, <1>6 DEF LinksInv

LEMMA QueueLinkLinks ==
  ASSUME Typed, LinksInv, NEW r \in Request, QueueLink(r)
  PROVE  LinksInv'
  <1> DEFINE q == request[r]
             new == [serial |-> q.serial, user |-> q.user, purpose |-> PurposeOf(q.op),
                     late |-> ~\E l \in link : l.serial = q.serial]
  <1>1. /\ mail' = mail \cup {new} /\ UNCHANGED <<account, link, serial>>
        /\ q.at = "issued" /\ request' = [request EXCEPT ![r] = Idle]
    BY DEF QueueLink, Finish
  <1>2. /\ new.serial = q.serial /\ new.user = q.user /\ new.purpose = PurposeOf(q.op)
        /\ new.late \/ \E l \in link : l.serial = q.serial
    OBVIOUS
  <1> HIDE DEF new
  <1>3. Names(new.serial, new.user, new.purpose)
    BY <1>1, <1>2 DEF LinksInv, Carried, Holds, Names
  <1>4. LinksFollowAddress' /\ PendingMailOpens'
    BY <1>1, <1>2 DEF LinksInv, LinksFollowAddress, PendingMailOpens
  <1>5. Carried'
    BY <1>1, <1>3, TypedMeans DEF LinksInv, Carried, Holds, Names, Idle
  <1> QED
    BY <1>4, <1>5 DEF LinksInv

(* What a delivery marks of a link, and an import of those of an account,  *)
(* is not what messages find it by.                                        *)
LEMMA StepsThatMarkLinks ==
  ASSUME Typed, LinksInv,
         \A k \in link' : \E l \in link :
            k.serial = l.serial /\ k.user = l.user /\ k.purpose = l.purpose,
         \A l \in link : \E k \in link' : k.serial = l.serial,
         mail' \subseteq mail, UNCHANGED <<request, serial>>
  PROVE  PendingMailOpens' /\ Carried'
  <1>1. PendingMailOpens'
    BY DEF LinksInv, PendingMailOpens
  <1>2. Carried'
    BY DEF LinksInv, Carried, Holds, Names
  <1> QED
    BY <1>1, <1>2

LEMMA DeliverMailLinks ==
  ASSUME Typed, LinksInv, NEW m \in mail, DeliverMail(m)
  PROVE  LinksInv'
  <1>1. \A k \in link' : \E l \in link :
           /\ k.serial = l.serial /\ k.user = l.user /\ k.purpose = l.purpose
           /\ k.stale = l.stale /\ k.to = l.to
    BY TypedMeans DEF DeliverMail, Link
  <1>2. ASSUME NEW l \in link PROVE \E k \in link' : k.serial = l.serial
    <2> DEFINE k == IF l.serial = m.serial THEN [l EXCEPT !.mailed = TRUE] ELSE l
    <2>1. k \in link' /\ k.serial = l.serial
      BY TypedMeans DEF DeliverMail, Link
    <2> QED
      BY <2>1
  <1>3. mail' \subseteq mail /\ UNCHANGED <<account, request, serial>>
    BY DEF DeliverMail
  <1>4. LinksFollowAddress'
    BY <1>1, <1>3 DEF LinksInv, LinksFollowAddress
  <1> QED
    BY <1>1, <1>2, <1>3, <1>4, StepsThatMarkLinks DEF LinksInv

LEMMA ImportAddressLinks ==
  ASSUME Typed, LinksInv, NEW u \in User, NEW a \in Address, ImportAddress(u, a)
  PROVE  LinksInv'
  <1>1. \A k \in link' : \E l \in link :
           /\ k.serial = l.serial /\ k.user = l.user /\ k.purpose = l.purpose
           /\ k.to = l.to
           /\ k.stale \/ (~l.stale /\ l.user # u)
    BY TypedMeans DEF ImportAddress, Link
  <1>2. ASSUME NEW l \in link PROVE \E k \in link' : k.serial = l.serial
    <2> DEFINE k == IF l.user = u THEN [l EXCEPT !.stale = TRUE] ELSE l
    <2>1. k \in link' /\ k.serial = l.serial
      BY TypedMeans DEF ImportAddress, Link
    <2> QED
      BY <2>1
  <1>3. /\ UNCHANGED <<mail, request, serial>>
        /\ \A v \in User \ {u} : account'[v] = account[v]
    BY TypedMeans DEF ImportAddress
  <1>4. LinksFollowAddress'
    BY <1>1, <1>3, LinkFacts DEF LinksInv, LinksFollowAddress
  <1> QED
    BY <1>1, <1>2, <1>3, <1>4, StepsThatMarkLinks DEF LinksInv

LEMMA NextLinksInv ==
  ASSUME Typed, LinksInv, [Next]_vars
  PROVE  LinksInv'
  <1>1. CASE UNCHANGED vars
    BY <1>1, StepsThatLeaveLinks DEF vars
  <1>2. ASSUME NEW r \in Request, NEW u \in User, VerifyLogin(r, u) \/ FindTarget(r, u)
        PROVE  LinksInv'
    <2>1. \A q \in Request : request'[q].at = "issued" => request'[q] = request[q]
      BY <1>2, TypedMeans DEF VerifyLogin, FindTarget, Idle
    <2> QED
      BY <1>2, <2>1, StepsThatLeaveLinks DEF VerifyLogin, FindTarget
  <1>3. ASSUME NEW r \in Request, NEW s \in Session, OpenSession(r, s) \/ FindSessionUser(r, s)
        PROVE  LinksInv'
    <2>1. \A q \in Request : request'[q].at = "issued" => request'[q] = request[q]
      <3>1. CASE Finish(r)
        BY <3>1, TypedMeans DEF Finish, Idle
      <3>2. CASE FindSessionUser(r, s)
        BY <3>2, TypedMeans DEF FindSessionUser, Idle
      <3> QED
        BY <1>3, <3>1, <3>2 DEF OpenSession
    <2> QED
      BY <1>3, <2>1, StepsThatLeaveLinks DEF OpenSession, FindSessionUser
  <1>4. ASSUME NEW s \in Session, CloseSession(s) PROVE LinksInv'
    BY <1>4, StepsThatLeaveLinks DEF CloseSession
  <1>5. ASSUME NEW r \in Request,
               \/ ComparePassword(r) \/ UpdateUserPassword(r) \/ DeleteSessionsForUser(r)
               \/ RevokeOtherSessions(r) \/ RevocationIgnored(r)
               \/ CountRecentEmailMessages(r) \/ Abandon(r)
        PROVE  LinksInv'
    <2>1. UNCHANGED <<link, mail, serial>>
      BY <1>5 DEF ComparePassword, UpdateUserPassword, DeleteSessionsForUser,
                  RevokeOtherSessions, RevocationIgnored, CountRecentEmailMessages, Abandon
    <2>2. \A v \in User : account'[v].email = account[v].email
      BY <1>5, TypedMeans
         DEF ComparePassword, UpdateUserPassword, DeleteSessionsForUser, RevokeOtherSessions,
             RevocationIgnored, CountRecentEmailMessages, Abandon, Account
    <2>3. \A q \in Request : request'[q].at = "issued" => request'[q] = request[q]
      BY <1>5, TypedMeans
         DEF ComparePassword, UpdateUserPassword, DeleteSessionsForUser, RevokeOtherSessions,
             RevocationIgnored, CountRecentEmailMessages, Abandon, MoveTo, Finish, Idle, Handler
    <2> QED
      BY <2>1, <2>2, <2>3, StepsThatLeaveLinks
  <1>6. ASSUME NEW r \in Request, InvalidateUserCredentialTokens(r) PROVE LinksInv'
    <2> DEFINE Retired == {request[r].user}
    <2>1. /\ \A l : l \in link' <=> l \in link /\ l.user \notin Retired
          /\ \A m : m \in mail' <=> m \in mail /\ m.user \notin Retired
          /\ account' = account /\ serial' = serial
      BY <1>6, LinkFacts DEF InvalidateUserCredentialTokens, Retire, LinksWithout, MailWithout
    <2>2. \A q \in Request : request'[q].at = "issued" => request'[q] = request[q]
      BY <1>6, TypedMeans DEF InvalidateUserCredentialTokens, MoveTo, Finish, Idle, Handler
    <2> HIDE DEF Retired
    <2> QED
      BY <2>1, <2>2, StepsThatRetire
  <1>7. ASSUME NEW r \in Request, NEW u \in User, NEW op \in {"forgot", "send", "invite"},
               FindLinkTarget(r, op, u)
        PROVE  LinksInv'
    BY <1>7, TypedMeans, StepsThatLeaveLinks DEF FindLinkTarget, Idle
  <1>8. ASSUME NEW l \in link, ResetPasswordUsingToken(l) PROVE LinksInv'
    <2> DEFINE Retired == {l.user}
    <2>1. /\ \A k : k \in link' <=> k \in link /\ k.user \notin Retired
          /\ \A m : m \in mail' <=> m \in mail /\ m.user \notin Retired
          /\ request' = request /\ serial' = serial
      BY <1>8, LinkFacts DEF ResetPasswordUsingToken, Retire, LinksWithout, MailWithout
    <2>2. \A v \in User : account'[v].email = account[v].email
      BY <1>8, TypedMeans DEF ResetPasswordUsingToken, Account
    <2> HIDE DEF Retired
    <2> QED
      BY <2>1, <2>2, StepsThatRetire
  <1>9. ASSUME NEW r \in Request, NEW u \in User, NEW a \in Address, CheckAddress(r, u, a)
        PROVE  LinksInv'
    BY <1>9, TypedMeans, StepsThatLeaveLinks DEF CheckAddress, Idle
  <1>10. ASSUME NEW r \in Request, UpdateUserProfile(r) PROVE LinksInv'
    <2> DEFINE Retired == {request[r].user}
    <2>1. \A q \in Request : request'[q].at = "issued" => request'[q] = request[q]
      BY <1>10, TypedMeans DEF UpdateUserProfile, Finish, Idle
    <2>2. CASE UNCHANGED <<account, link, mail>>
      BY <1>10, <2>1, <2>2, StepsThatLeaveLinks DEF UpdateUserProfile
    <2>3. CASE Retire(request[r].user) /\ request[r].to # account[request[r].user].email
      <3>1. /\ \A l : l \in link' <=> l \in link /\ l.user \notin Retired
            /\ \A m : m \in mail' <=> m \in mail /\ m.user \notin Retired
        BY <2>3, LinkFacts DEF Retire, LinksWithout, MailWithout
      <3>2. serial' = serial /\ \A u \in User \ Retired : account'[u].email = account[u].email
        BY <1>10, <2>3, TypedMeans DEF UpdateUserProfile
      <3> HIDE DEF Retired
      <3> QED
        BY <2>1, <3>1, <3>2, StepsThatRetire
    <2> QED
      BY <1>10, <2>2, <2>3 DEF UpdateUserProfile
  <1>11. ASSUME NEW u \in User, DisableUser(u) \/ EnableUser(u) PROVE LinksInv'
    <2>1. \A v \in User : account'[v].email = account[v].email
      BY <1>11, TypedMeans DEF DisableUser, EnableUser, Account
    <2> QED
      BY <1>11, <2>1, StepsThatLeaveLinks DEF DisableUser, EnableUser
  <1> QED
    BY <1>1, <1>2, <1>3, <1>4, <1>5, <1>6, <1>7, <1>8, <1>9, <1>10, <1>11,
       CreatePasswordResetTokenLinks, QueueLinkLinks, DeliverMailLinks, ImportAddressLinks
       DEF Next

(* A link that works was mailed to the address its account has now         *)
(* (UpdateUserProfile), but for those that a handler issued after the      *)
(* correction, with what it had read before, and those an import left.     *)
THEOREM LinksAreForTheAddress == Spec => []LinksFollowAddress
  <1>1. Init => Typed /\ LinksInv
    BY InitTyped, InitLinksInv
  <1>2. (Typed /\ LinksInv) /\ [Next]_vars => (Typed /\ LinksInv)'
    BY NextTyped, NextLinksInv
  <1>3. LinksInv => LinksFollowAddress
    BY DEF LinksInv
  <1> QED
    BY <1>1, <1>2, <1>3, PTL DEF Spec

(* Whatever supersedes or retires a link cancels the messages that carry   *)
(* it (CreatePasswordResetToken, invalidateCredentialTokensTx), for any    *)
(* number of accounts and handlers.                                        *)
THEOREM PendingMailCarriesALink == Spec => []PendingMailOpens
  <1>1. Init => Typed /\ LinksInv
    BY InitTyped, InitLinksInv
  <1>2. (Typed /\ LinksInv) /\ [Next]_vars => (Typed /\ LinksInv)'
    BY NextTyped, NextLinksInv
  <1>3. LinksInv => PendingMailOpens
    BY DEF LinksInv
  <1> QED
    BY <1>1, <1>2, <1>3, PTL DEF Spec
=============================================================================
