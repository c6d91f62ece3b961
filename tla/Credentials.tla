----------------------------- MODULE Credentials -----------------------------
(***************************************************************************)
(* Passwords, sessions and mailed links: the handlers of internal/web that *)
(* read or replace a credential, over internal/auth and the store.         *)
(*                                                                         *)
(* The store has one connection, so a statement or a transaction is one    *)
(* step; between two statements of a handler anything else may run, and    *)
(* its request may end there, because its context is canceled when the     *)
(* client leaves.  A password is modelled by the number of replacements    *)
(* before it; expiry is a link or a session nobody uses any more.  Who may *)
(* act on which account is the subject of Accounts.                        *)
(***************************************************************************)
EXTENDS Naturals, FiniteSets, TLC

CONSTANTS
    User, Address,
    Request,      \* handlers running at once
    Session,      \* rows of sessions
    MaxVersion,   \* bound: replacements and disablings of one account
    MaxSerial,    \* bound: links issued
    None

ASSUME CredentialsAssumption ==
    /\ IsFiniteSet(Request) /\ MaxVersion \in Nat /\ MaxSerial \in Nat
    /\ None \notin User \cup Session \cup Address

VARIABLES
    account,   \* users, with the version up to which sessions are revoked
    session,   \* sessions: the account, and the version its login verified
    link,      \* password_reset_tokens, used or unused
    mail,      \* the credential messages of email_messages that are pending
    request,   \* where each handler is, and what it read
    serial     \* links issued so far

vars == <<account, session, link, mail, request, serial>>

Purpose == {"reset", "invitation"}
Version == 0..MaxVersion
Serial == 0..MaxSerial
Idle == [op |-> "none", at |-> "done", user |-> None, version |-> 0,
         session |-> None, to |-> None, serial |-> 0]

TypeOK ==
    /\ account \in [User -> [version : Version, usable : BOOLEAN, disabled : BOOLEAN,
                             email : Address, revoked : Version]]
    /\ session \in [Session -> {None} \cup [user : User, version : Version, late : BOOLEAN]]
    /\ link \subseteq [serial : Serial, user : User, purpose : Purpose, to : Address,
                       stale : BOOLEAN, mailed : BOOLEAN]
    /\ mail \subseteq [serial : Serial, user : User, purpose : Purpose, late : BOOLEAN]
    /\ request \in [Request ->
          [op : {"none", "login", "change", "set", "forgot", "send", "invite", "profile"},
           at : {"done", "verified", "session", "compared", "target", "counted",
                 "written", "dropped", "retired", "issued"},
           user : User \cup {None}, version : Version, session : Session \cup {None},
           to : Address \cup {None}, serial : Serial]]
    /\ serial \in Serial

(* Accounts as an administrator creates them: with a password or invited. *)
Init ==
    /\ account \in [User -> [version : {0}, usable : BOOLEAN, disabled : {FALSE},
                             email : Address, revoked : {0}]]
    /\ \A u, v \in User : account[u].email = account[v].email => u = v
    /\ session = [s \in Session |-> None]
    /\ link = {} /\ mail = {} /\ serial = 0
    /\ request = [r \in Request |-> Idle]

Ready(r) == request[r].op = "none"
At(r, op, at) == request[r].op = op /\ request[r].at = at
MoveTo(r, at) == request' = [request EXCEPT ![r].at = at]
Finish(r) == request' = [request EXCEPT ![r] = Idle]
Later(v, w) == IF v > w THEN v ELSE w

-----------------------------------------------------------------------------
(* The statements, by what they leave of each table. *)

SessionsWithout(u) ==
    [s \in Session |-> IF session[s] # None /\ session[s].user = u THEN None ELSE session[s]]

LinksWithout(u) == {l \in link : l.user # u}

(* A slip: the test of the purpose the wrong way round. *)
CancelOtherPurpose(u, purposes) == {m \in mail : m.user # u \/ m.purpose \in purposes}

MailWithout(u, purposes) == {m \in mail : m.user # u \/ m.purpose \notin purposes}

(* invalidateCredentialTokensTx *)
Retire(u) ==
    /\ link' = LinksWithout(u)
    /\ mail' = MailWithout(u, Purpose)

-----------------------------------------------------------------------------
(* Signing in and out. *)

VerifyLogin(r, u) ==
    /\ Ready(r) /\ account[u].usable /\ ~account[u].disabled
    /\ request' = [request EXCEPT ![r] =
          [Idle EXCEPT !.op = "login", !.at = "verified", !.user = u,
                       !.version = account[u].version]]
    /\ UNCHANGED <<account, session, link, mail, serial>>

(* CreateSession: nothing of the account is read again.  A row inserted    *)
(* after the revocation that should have covered it is marked late.        *)
OpenSession(r, s) ==
    LET login == request[r]
        late == login.version < account[login.user].revoked
    IN /\ At(r, "login", "verified")
       /\ session[s] = None /\ \A q \in Request : request[q].session # s
       /\ session' = [session EXCEPT ![s] =
             [user |-> login.user, version |-> login.version, late |-> late]]
       /\ Finish(r)
       /\ UNCHANGED <<account, link, mail, serial>>

(* Logout, or DeleteExpiredSessions once the row has expired. *)
CloseSession(s) ==
    /\ session[s] # None
    /\ session' = [session EXCEPT ![s] = None]
    /\ UNCHANGED <<account, link, mail, request, serial>>

-----------------------------------------------------------------------------
(* Replacing a password: by its holder, or by an administrator or the      *)
(* recover-admin command (replaceCredential).                              *)

FindSessionUser(r, s) ==
    /\ Ready(r) /\ session[s] # None /\ ~account[session[s].user].disabled
    /\ request' = [request EXCEPT ![r] =
          [Idle EXCEPT !.op = "change", !.at = "session", !.user = session[s].user,
                       !.session = s]]
    /\ UNCHANGED <<account, session, link, mail, serial>>

ComparePassword(r) ==
    /\ At(r, "change", "session")
    /\ account[request[r].user].usable /\ ~account[request[r].user].disabled
    /\ MoveTo(r, "compared")
    /\ UNCHANGED <<account, session, link, mail, serial>>

FindTarget(r, u) ==
    /\ Ready(r) /\ ~account[u].disabled
    /\ request' = [request EXCEPT ![r] = [Idle EXCEPT !.op = "set", !.at = "target", !.user = u]]
    /\ UNCHANGED <<account, session, link, mail, serial>>

UpdateUserPassword(r) ==
    LET u == request[r].user IN
    /\ At(r, "change", "compared") \/ At(r, "set", "target")
    /\ account[u].version < MaxVersion
    /\ account' = [account EXCEPT ![u].version = @ + 1, ![u].usable = TRUE]
    /\ request' = [request EXCEPT ![r].at = "written", ![r].version = account[u].version + 1]
    /\ UNCHANGED <<session, link, mail, serial>>

DeleteSessionsForUser(r) ==
    LET u == request[r].user IN
    /\ At(r, "set", "written")
    /\ session' = SessionsWithout(u)
    /\ account' = [account EXCEPT ![u].revoked = account[u].version]
    /\ MoveTo(r, "dropped")
    /\ UNCHANGED <<link, mail, serial>>

(* A slip: links first, and the answer before the sessions are deleted. *)
InvalidateBeforeSessions(r) ==
    LET u == request[r].user IN
    /\ \/ At(r, "change", "written") /\ MoveTo(r, "retired")
       \/ request[r].op = "set" /\ request[r].at \in {"written", "dropped"} /\ Finish(r)
    /\ Retire(u)
    /\ UNCHANGED <<account, session, serial>>

InvalidateUserCredentialTokens(r) ==
    LET u == request[r].user IN
    /\ \/ At(r, "change", "written") /\ MoveTo(r, "retired")
       \/ At(r, "set", "dropped") /\ Finish(r)
    /\ Retire(u)
    /\ UNCHANGED <<account, session, serial>>

(* DeleteSessionsForUserExcept: the session that asked stays, and stands   *)
(* for the new password.                                                   *)
RevokeOtherSessions(r) ==
    LET u == request[r].user
        own == request[r].session
        kept == session[own] # None /\ session[own].user = u
    IN /\ At(r, "change", "retired")
       /\ session' = IF kept
                     THEN [SessionsWithout(u) EXCEPT ![own] =
                              [user |-> u, late |-> FALSE,
                               version |-> Later(session[own].version, request[r].version)]]
                     ELSE SessionsWithout(u)
       /\ account' = [account EXCEPT ![u].revoked = Later(@, request[r].version)]
       /\ Finish(r)
       /\ UNCHANGED <<link, mail, serial>>

(* passwordPost ignores a failure of that statement. *)
RevocationIgnored(r) ==
    /\ At(r, "change", "retired")
    /\ Finish(r)
    /\ UNCHANGED <<account, session, link, mail, serial>>

-----------------------------------------------------------------------------
(* Links: RequestPasswordReset, SendPasswordResetFor, ResendInvitation. *)

(* A slip: the recipient is not taken from the record. *)
FindLinkTargetOnly(r, op, u) ==
    /\ Ready(r) /\ ~account[u].disabled
    /\ request' = [request EXCEPT ![r] = [Idle EXCEPT !.op = op, !.at = "target", !.user = u]]
    /\ UNCHANGED <<account, session, link, mail, serial>>

FindLinkTarget(r, op, u) ==
    /\ Ready(r) /\ op \in {"forgot", "send", "invite"} /\ ~account[u].disabled
    /\ request' = [request EXCEPT ![r] =
          [Idle EXCEPT !.op = op, !.at = "target", !.user = u, !.to = account[u].email]]
    /\ UNCHANGED <<account, session, link, mail, serial>>

(* Whether a message was created within the interval is left open: if one  *)
(* was, the handler ends here.                                             *)
CountRecentEmailMessages(r) ==
    /\ At(r, "forgot", "target")
    /\ MoveTo(r, "counted")
    /\ UNCHANGED <<account, session, link, mail, serial>>

PurposeOf(op) == IF op = "invite" THEN "invitation" ELSE "reset"

CreatePasswordResetToken(r) ==
    LET u == request[r].user
        p == PurposeOf(request[r].op)
    IN /\ At(r, "forgot", "counted") \/ At(r, "send", "target") \/ At(r, "invite", "target")
       /\ serial < MaxSerial /\ serial' = serial + 1
       /\ link' = {l \in link : l.user # u \/ l.purpose # p}
                  \cup {[serial |-> serial', user |-> u, purpose |-> p, to |-> request[r].to,
                         stale |-> request[r].to # account[u].email, mailed |-> FALSE]}
       /\ mail' = MailWithout(u, {p})
       /\ request' = [request EXCEPT ![r].at = "issued", ![r].serial = serial']
       /\ UNCHANGED <<account, session>>

(* EnqueuePasswordReset, EnqueueInvitation: the message of a link that has *)
(* already gone is marked late.                                            *)
QueueLink(r) ==
    LET q == request[r]
    IN /\ q.at = "issued"
       /\ mail' = mail \cup {[serial |-> q.serial, user |-> q.user, purpose |-> PurposeOf(q.op),
                              late |-> ~\E l \in link : l.serial = q.serial]}
       /\ Finish(r)
       /\ UNCHANGED <<account, session, link, serial>>

(* The delivery loop, as far as it matters here; EmailOutbox has the rest. *)
DeliverMail(m) ==
    /\ mail' = mail \ {m}
    /\ link' = {IF l.serial = m.serial THEN [l EXCEPT !.mailed = TRUE] ELSE l : l \in link}
    /\ UNCHANGED <<account, session, request, serial>>

(* ResetPassword and AcceptInvitation, one transaction, with a link that   *)
(* was delivered.                                                          *)
ResetPasswordUsingToken(l) ==
    LET u == l.user
        version == account[u].version + 1
    IN /\ l.mailed /\ ~account[u].disabled /\ version <= MaxVersion
       /\ account' = [account EXCEPT ![u].version = version, ![u].usable = TRUE,
                                     ![u].revoked = version]
       /\ session' = SessionsWithout(u)
       /\ Retire(u)
       /\ UNCHANGED <<request, serial>>

-----------------------------------------------------------------------------
(* Administrators: the address and the state of an account. *)

CheckAddress(r, u, a) ==
    /\ Ready(r) /\ \A v \in User \ {u} : account[v].email # a
    /\ request' = [request EXCEPT ![r] =
          [Idle EXCEPT !.op = "profile", !.at = "target", !.user = u, !.to = a]]
    /\ UNCHANGED <<account, session, link, mail, serial>>

(* A slip: the address is changed and the links forgotten. *)
ProfileKeepsLinks(r) ==
    /\ At(r, "profile", "target")
    /\ account' = [account EXCEPT ![request[r].user].email = request[r].to]
    /\ Finish(r)
    /\ UNCHANGED <<session, link, mail, serial>>

UpdateUserProfile(r) ==
    LET u == request[r].user
        a == request[r].to
    IN /\ At(r, "profile", "target")
       /\ IF a = account[u].email
          THEN UNCHANGED <<account, link, mail>>
          ELSE /\ account' = [account EXCEPT ![u].email = a]
               /\ Retire(u)
       /\ Finish(r)
       /\ UNCHANGED <<session, serial>>

(* ImportUsers, a row of an account that exists: the links stay, and are   *)
(* marked stale.                                                           *)
ImportAddress(u, a) ==
    /\ a # account[u].email /\ \A v \in User : account[v].email # a
    /\ account' = [account EXCEPT ![u].email = a]
    /\ link' = {IF l.user = u THEN [l EXCEPT !.stale = TRUE] ELSE l : l \in link}
    /\ UNCHANGED <<session, mail, request, serial>>

(* A slip: the sessions are left to their expiry. *)
DisableKeepsSessions(u) ==
    /\ account[u].version < MaxVersion
    /\ account' = [account EXCEPT ![u].disabled = TRUE, ![u].version = @ + 1,
                                  ![u].revoked = account[u].version + 1]
    /\ UNCHANGED <<session, link, mail, request, serial>>

(* SetUserDisabled; disabling takes the sessions in its transaction. *)
DisableUser(u) ==
    /\ account[u].version < MaxVersion
    /\ account' = [account EXCEPT ![u].disabled = TRUE, ![u].version = @ + 1,
                                  ![u].revoked = account[u].version + 1]
    /\ session' = SessionsWithout(u)
    /\ UNCHANGED <<link, mail, request, serial>>

EnableUser(u) ==
    /\ account[u].disabled
    /\ account' = [account EXCEPT ![u].disabled = FALSE]
    /\ UNCHANGED <<session, link, mail, request, serial>>

(* A handler ends between two statements: one of them failed, the context  *)
(* was canceled, or the process died.                                      *)
Abandon(r) ==
    /\ ~Ready(r)
    /\ Finish(r)
    /\ UNCHANGED <<account, session, link, mail, serial>>

Next ==
    \/ \E r \in Request, u \in User : VerifyLogin(r, u) \/ FindTarget(r, u)
    \/ \E r \in Request, s \in Session : OpenSession(r, s) \/ FindSessionUser(r, s)
    \/ \E s \in Session : CloseSession(s)
    \/ \E r \in Request : ComparePassword(r) \/ UpdateUserPassword(r)
    \/ \E r \in Request : DeleteSessionsForUser(r) \/ InvalidateUserCredentialTokens(r)
    \/ \E r \in Request : RevokeOtherSessions(r) \/ RevocationIgnored(r)
    \/ \E r \in Request, u \in User, op \in {"forgot", "send", "invite"} : FindLinkTarget(r, op, u)
    \/ \E r \in Request : CountRecentEmailMessages(r) \/ CreatePasswordResetToken(r) \/ QueueLink(r)
    \/ \E m \in mail : DeliverMail(m)
    \/ \E l \in link : ResetPasswordUsingToken(l)
    \/ \E r \in Request, u \in User, a \in Address : CheckAddress(r, u, a)
    \/ \E r \in Request : UpdateUserProfile(r) \/ Abandon(r)
    \/ \E u \in User, a \in Address : ImportAddress(u, a)
    \/ \E u \in User : DisableUser(u) \/ EnableUser(u)

Spec == Init /\ [][Next]_vars

-----------------------------------------------------------------------------
(* No session outlives a revocation of its account (replaceCredential,     *)
(* ResetPasswordUsingToken, SetUserDisabled, RevokeOtherSessions), however *)
(* the handlers overlap and wherever one of them stops - but for a login   *)
(* that verified the former password and inserted its row afterwards.      *)
RevocationIsComplete ==
    \A s \in Session : session[s] # None =>
        session[s].late \/ session[s].version >= account[session[s].user].revoked

(* An administrator is not told that a password was replaced before every  *)
(* session opened with the former one is gone (replaceCredential).         *)
ReplacedMeansRevoked ==
    [][\A r \in Request : request[r].op = "set" /\ InvalidateUserCredentialTokens(r) =>
          account'[request[r].user].revoked >= request[r].version]_vars

(* A link that still works was mailed to the address the account has now:  *)
(* correcting an address takes the links with it (UpdateUserProfile).  The *)
(* exceptions are a handler that read the former address before the        *)
(* correction and issued its link after it, and an import, which corrects  *)
(* the address and leaves the links.                                       *)
LinksFollowAddress ==
    \A l \in link : l.stale \/ l.to = account[l.user].email

(* A message waiting in the outbox carries a link that works: whatever     *)
(* supersedes or retires a link cancels the messages that carry it, but    *)
(* for one that is queued only after its link has gone.                    *)
PendingMailOpens ==
    \A m \in mail : m.late \/ \E l \in link : l.serial = m.serial

(* For TLC: handlers, sessions and addresses are alike. *)
Alike == Permutations(Request) \cup Permutations(Session) \cup Permutations(Address)

=============================================================================
