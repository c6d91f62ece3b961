------------------------------ MODULE Accounts ------------------------------
(***************************************************************************)
(* Accounts: who administers them, which address each has, and which       *)
(* workspaces each owns - the handlers of internal/web for users, over     *)
(* internal/auth, with the removal of an account's workspaces.             *)
(*                                                                         *)
(* A handler checks in one statement and writes in a later one.  Nothing   *)
(* but the indexes of the schema binds the two, so a handler notes in      *)
(* `overtaken` what another one wrote after its check, and `raced` the     *)
(* subjects on which a handler wrote all the same.  An account is named by *)
(* its username, unique in the schema; a name once deleted stays unused.   *)
(***************************************************************************)
EXTENDS FiniteSets, Naturals, TLC

CONSTANTS
    User, Address, Workspace,
    Request,      \* handlers running at once
    MaxRows,      \* bound: rows of an import
    None

ASSUME AccountsAssumption ==
    /\ IsFiniteSet(User) /\ MaxRows \in Nat
    /\ None \notin User \cup Address

VARIABLES
    account,   \* users
    owner,     \* the owner of each workspace that has a row
    cascaded,  \* workspaces whose rows went with their owner's
    request,   \* where each handler is, and what it read
    raced      \* subjects on which a handler wrote after another one

vars == <<account, owner, cascaded, request, raced>>

Subject == {"administrator", "address", "owner"}
Row == [user : User, email : Address \cup {None}]
Absent == [state |-> "absent", role |-> "user", email |-> None]
Idle == [op |-> "none", at |-> "done", actor |-> None, user |-> None, email |-> None,
         rows |-> {}, left |-> {}, found |-> {}, overtaken |-> {}]

TypeOK ==
    /\ account \in [User -> [state : {"absent", "active", "disabled", "deleted"},
                             role : {"administrator", "user"}, email : Address \cup {None}]]
    /\ owner \in [Workspace -> User \cup {None}]
    /\ cascaded \subseteq Workspace
    /\ \A r \in Request : LET q == request[r] IN
          /\ q.op \in {"none", "disable", "enable", "delete", "create", "register", "profile",
                       "import", "workspace"}
          /\ q.at \in {"done", "allowed", "target", "cleanup", "empty", "validate", "prepare",
                       "checked"}
          /\ q.actor \in User \cup {None} /\ q.user \in User \cup {None}
          /\ q.email \in Address \cup {None} /\ q.rows \subseteq Row
          /\ q.left \subseteq User \cup Workspace /\ q.found \subseteq User
          /\ q.overtaken \subseteq Subject
    /\ raced \subseteq Subject

Exists(u) == account[u].state \in {"active", "disabled"}
IsAdministrator(u) == account[u].state = "active" /\ account[u].role = "administrator"
ActiveAdministrators == {u \in User : IsAdministrator(u)}

(* BootstrapAdministrator ran: users is not empty, its first administrator *)
(* is there, and every address has one account.                            *)
Init ==
    /\ account \in [User -> {Absent} \cup [state : {"active"}, role : {"administrator"},
                                           email : Address \cup {None}]]
    /\ ActiveAdministrators # {}
    /\ \A u, v \in User : account[u].email = account[v].email /\ u # v => account[u].email = None
    /\ owner = [w \in Workspace |-> None]
    /\ cascaded = {} /\ raced = {}
    /\ request = [r \in Request |-> Idle]

Ready(r) == request[r].op = "none"
At(r, ops, at) == request[r].op \in ops /\ request[r].at = at
Begin(r, fields) == request' = [request EXCEPT ![r] = fields]
MoveTo(r, at) == request' = [request EXCEPT ![r].at = at]
End(r) == request' = [request EXCEPT ![r] = Idle]

(* The subjects a handler has checked and will write on. *)
Bearing(q) ==
    CASE q.op = "disable" /\ q.at = "checked" -> {"administrator"}
      [] q.op = "delete" /\ q.at = "empty" -> {"administrator"}
      [] q.op = "delete" /\ q.at = "checked" -> {"administrator", "owner"}
      [] q.op \in {"create", "register", "profile"} /\ q.at = "checked" -> {"address"}
      [] q.op = "import" -> {"address"}
      [] OTHER -> {}

(* A handler ends with a write: the others that run are overtaken in what  *)
(* it touched, and what overtook this one is recorded.                     *)
EndWriting(r, touched) ==
    /\ raced' = raced \cup request[r].overtaken
    /\ request' = [q \in Request |->
          IF q = r THEN Idle
          ELSE [request[q] EXCEPT !.overtaken = @ \cup (touched \cap Bearing(request[q]))]]

Unwritten == UNCHANGED <<account, owner, cascaded, raced>>

-----------------------------------------------------------------------------
(* Every administrator's form: requireAdministrator, then what is asked.   *)
(* An actor that has to change its password first is refused (Abandon).    *)

RequireAdministrator(r, actor, op, u, a) ==
    /\ Ready(r) /\ IsAdministrator(actor)
    /\ op = "disable" => actor # u
    /\ Begin(r, [Idle EXCEPT !.op = op, !.at = "allowed", !.user = u, !.email = a,
                             !.actor = IF op = "delete" THEN actor ELSE None])
    /\ Unwritten

Register(r, u, a) ==
    /\ Ready(r) /\ a # None
    /\ Begin(r, [Idle EXCEPT !.op = "register", !.at = "allowed", !.user = u, !.email = a])
    /\ Unwritten

-----------------------------------------------------------------------------
(* SetUserDisabled *)

FindUser(r) ==
    /\ At(r, {"disable", "enable"}, "allowed") /\ Exists(request[r].user)
    /\ MoveTo(r, IF request[r].op = "disable" /\ IsAdministrator(request[r].user)
                 THEN "target" ELSE "checked")
    /\ Unwritten

(* A slip: any administrator will do, the target included. *)
CountAnyAdministrator(r) ==
    /\ At(r, {"disable"}, "target") /\ ActiveAdministrators # {}
    /\ MoveTo(r, "checked")
    /\ Unwritten

CountActiveAdministrators(r) ==
    /\ At(r, {"disable"}, "target") /\ Cardinality(ActiveAdministrators) > 1
    /\ MoveTo(r, "checked")
    /\ Unwritten

(* A slip: the state is what the form says, read as it stands. *)
SetStateFromForm(r) ==
    LET u == request[r].user IN
    /\ At(r, {"disable", "enable"}, "checked") /\ Exists(u)
    /\ account' = [account EXCEPT ![u].state = request[r].op]
    /\ EndWriting(r, {"administrator"})
    /\ UNCHANGED <<owner, cascaded>>

SetUserDisabled(r) ==
    LET u == request[r].user IN
    /\ At(r, {"disable", "enable"}, "checked") /\ Exists(u)
    /\ account' = [account EXCEPT ![u].state =
                      IF request[r].op = "disable" THEN "disabled" ELSE "active"]
    /\ EndWriting(r, {"administrator"})
    /\ UNCHANGED <<owner, cascaded>>

-----------------------------------------------------------------------------
(* adminUserDelete: DeleteUserWorkspaces, then DeleteUser. *)

DeleteUserWorkspaces(r) ==
    LET u == request[r].user IN
    /\ At(r, {"delete"}, "allowed") /\ account[u].state = "disabled"
    /\ request' = [request EXCEPT ![r].at = "cleanup",
                                  ![r].left = {w \in Workspace : owner[w] = u}]
    /\ Unwritten

(* One workspace of the list, archived and tombstoned on the way           *)
(* (RetainedStorage).  One that is gone already counts as failed.          *)
DeleteListedWorkspace(r, w) ==
    /\ At(r, {"delete"}, "cleanup") /\ w \in request[r].left /\ owner[w] # None
    /\ owner' = [owner EXCEPT ![w] = None]
    /\ request' = [request EXCEPT ![r].left = @ \ {w}]
    /\ UNCHANGED <<account, cascaded, raced>>

(* DeleteUser: the actor and the target are read again. *)
DeleteUserAllowed(r) ==
    LET q == request[r] IN
    /\ At(r, {"delete"}, "cleanup") /\ q.left = {}
    /\ IsAdministrator(q.actor) /\ q.actor # q.user /\ account[q.user].state = "disabled"
    /\ MoveTo(r, "empty")
    /\ Unwritten

(* A slip: the caller has removed the workspaces. *)
TrustCallersCleanup(r) ==
    /\ At(r, {"delete"}, "empty")
    /\ MoveTo(r, "checked")
    /\ Unwritten

ListWorkspacesForUser(r) ==
    /\ At(r, {"delete"}, "empty") /\ \A w \in Workspace : owner[w] # request[r].user
    /\ MoveTo(r, "checked")
    /\ Unwritten

(* The schema removes the workspaces of a deleted account. *)
DeleteUser(r) ==
    LET u == request[r].user
        owned == {w \in Workspace : owner[w] = u}
    IN /\ At(r, {"delete"}, "checked") /\ Exists(u)
       /\ account' = [account EXCEPT ![u] = [Absent EXCEPT !.state = "deleted"]]
       /\ owner' = [w \in Workspace |-> IF w \in owned THEN None ELSE owner[w]]
       /\ cascaded' = cascaded \cup owned
       /\ EndWriting(r, {})

-----------------------------------------------------------------------------
(* Workspaces, as far as their owners go. *)

RequireActor(r, u) ==
    /\ Ready(r) /\ account[u].state = "active"
    /\ Begin(r, [Idle EXCEPT !.op = "workspace", !.at = "allowed", !.user = u])
    /\ Unwritten

(* The owner's row must exist: a foreign key. *)
CreateWorkspace(r, w) ==
    LET u == request[r].user IN
    /\ At(r, {"workspace"}, "allowed") /\ owner[w] = None /\ Exists(u)
    /\ owner' = [owner EXCEPT ![w] = u]
    /\ EndWriting(r, {"owner"})
    /\ UNCHANGED <<account, cascaded>>

DeleteWorkspace(w) ==
    /\ owner[w] # None
    /\ owner' = [owner EXCEPT ![w] = None]
    /\ UNCHANGED <<account, cascaded, request, raced>>

-----------------------------------------------------------------------------
(* New accounts and corrected addresses. *)

(* FindUserByEmail returns one account that has the address. *)
EmailAvailable(a, u) ==
    LET holders == {v \in User : account[v].email = a}
    IN a = None \/ holders = {} \/ u \in holders

(* prepareUser: the name is free, and the address. *)
PrepareUser(r) ==
    LET q == request[r] IN
    /\ At(r, {"create", "register"}, "allowed")
    /\ account[q.user].state = "absent" /\ EmailAvailable(q.email, None)
    /\ MoveTo(r, "checked")
    /\ Unwritten

CreateUser(r, role) ==
    LET q == request[r] IN
    /\ At(r, {"create", "register"}, "checked") /\ account[q.user].state = "absent"
    /\ q.op = "register" => role = "user"
    /\ account' = [account EXCEPT ![q.user] =
                      [state |-> "active", role |-> role, email |-> q.email]]
    /\ EndWriting(r, {"address"})
    /\ UNCHANGED <<owner, cascaded>>

CheckProfile(r) ==
    LET q == request[r] IN
    /\ At(r, {"profile"}, "allowed")
    /\ Exists(q.user) /\ EmailAvailable(q.email, q.user)
    /\ MoveTo(r, "checked")
    /\ Unwritten

UpdateUserProfile(r) ==
    LET q == request[r] IN
    /\ At(r, {"profile"}, "checked") /\ Exists(q.user)
    /\ account' = [account EXCEPT ![q.user].email = q.email]
    /\ EndWriting(r, {"address"})
    /\ UNCHANGED <<owner, cascaded>>

-----------------------------------------------------------------------------
(* ImportUsers: every row is validated, then prepared, and one transaction *)
(* writes them all.                                                        *)

Batches ==
    {rows \in UNION {[users -> Address \cup {None}] :
                        users \in {us \in SUBSET User : Cardinality(us) \in 1..MaxRows}} :
        \A u, v \in DOMAIN rows : rows[u] = rows[v] /\ u # v => rows[u] = None}

(* validateImportInputs refuses a name or an address that comes twice. *)
BeginImport(r, actor, batch) ==
    /\ Ready(r) /\ IsAdministrator(actor)
    /\ Begin(r, [Idle EXCEPT !.op = "import", !.at = "validate", !.left = DOMAIN batch,
                    !.rows = {[user |-> u, email |-> batch[u]] : u \in DOMAIN batch}])
    /\ Unwritten

Target(u) == IF Exists(u) THEN u ELSE None

(* What another handler writes counts from the first row's check on. *)
RowChecked(r, row) ==
    LET first == Cardinality(request[r].left) = Cardinality(request[r].rows)
    IN request' = [request EXCEPT ![r].left = @ \ {row.user},
                                  ![r].overtaken = IF first THEN {} ELSE @]

(* A slip: an address is looked at for a new account only. *)
ValidateNewRow(r, row) ==
    /\ At(r, {"import"}, "validate") /\ row \in request[r].rows /\ row.user \in request[r].left
    /\ Exists(row.user) \/ EmailAvailable(row.email, None)
    /\ RowChecked(r, row)
    /\ Unwritten

ValidateRow(r, row) ==
    /\ At(r, {"import"}, "validate") /\ row \in request[r].rows /\ row.user \in request[r].left
    /\ EmailAvailable(row.email, Target(row.user))
    /\ RowChecked(r, row)
    /\ Unwritten

PrepareRows(r) ==
    /\ At(r, {"import"}, "validate") /\ request[r].left = {}
    /\ request' = [request EXCEPT ![r].at = "prepare",
                                  ![r].left = {row.user : row \in request[r].rows}]
    /\ Unwritten

(* A row whose name is known by now updates that account; any other is     *)
(* prepared as a new one.                                                  *)
PrepareRow(r, row) ==
    /\ At(r, {"import"}, "prepare") /\ row \in request[r].rows /\ row.user \in request[r].left
    /\ \/ Exists(row.user)
       \/ account[row.user].state = "absent" /\ EmailAvailable(row.email, None)
    /\ request' = [request EXCEPT ![r].left = @ \ {row.user},
                                  ![r].found = @ \cup {u \in {row.user} : Exists(u)}]
    /\ Unwritten

(* An empty address leaves the one the account has.  A row that can not be *)
(* written takes the others back with it.                                  *)
ImportUsers(r) ==
    LET q == request[r]
        new == {row.user : row \in q.rows} \ q.found
        email(u) == (CHOOSE row \in q.rows : row.user = u).email
    IN /\ At(r, {"import"}, "prepare") /\ q.left = {}
       /\ \A u \in q.found : Exists(u)
       /\ \A u \in new : account[u].state = "absent"
       /\ account' = [u \in User |->
             IF u \in new THEN [state |-> "active", role |-> "user", email |-> email(u)]
             ELSE IF u \in q.found /\ email(u) # None THEN [account[u] EXCEPT !.email = email(u)]
             ELSE account[u]]
       /\ EndWriting(r, {"address"})
       /\ UNCHANGED <<owner, cascaded>>

(* A check refuses, a statement fails, or the client leaves. *)
Abandon(r) ==
    /\ ~Ready(r)
    /\ End(r)
    /\ Unwritten

Next ==
    \/ \E r \in Request, actor, u \in User :
          \/ \E op \in {"disable", "enable", "delete"} :
                RequireAdministrator(r, actor, op, u, None)
          \/ \E op \in {"create", "profile"}, a \in Address \cup {None} :
                RequireAdministrator(r, actor, op, u, a)
    \/ \E r \in Request, u \in User, a \in Address : Register(r, u, a)
    \/ \E r \in Request : FindUser(r) \/ CountActiveAdministrators(r) \/ SetUserDisabled(r)
    \/ \E r \in Request : DeleteUserWorkspaces(r) \/ DeleteUserAllowed(r)
    \/ \E r \in Request : ListWorkspacesForUser(r) \/ DeleteUser(r)
    \/ \E r \in Request, w \in Workspace : DeleteListedWorkspace(r, w) \/ CreateWorkspace(r, w)
    \/ \E r \in Request, u \in User : RequireActor(r, u)
    \/ \E w \in Workspace : DeleteWorkspace(w)
    \/ \E r \in Request : PrepareUser(r) \/ CheckProfile(r) \/ UpdateUserProfile(r)
    \/ \E r \in Request, role \in {"administrator", "user"} : CreateUser(r, role)
    \/ \E r \in Request, actor \in User, batch \in Batches : BeginImport(r, actor, batch)
    \/ \E r \in Request : \E row \in request[r].rows : ValidateRow(r, row) \/ PrepareRow(r, row)
    \/ \E r \in Request : PrepareRows(r) \/ ImportUsers(r) \/ Abandon(r)

Spec == Init /\ [][Next]_vars

-----------------------------------------------------------------------------
(* An administrator who can sign in remains, whatever administrators do to *)
(* each other's accounts (SetUserDisabled, DeleteUser): the exception is a *)
(* handler that counted the administrators, or found its target disabled,  *)
(* before another one changed the state of an account.                     *)
AdministratorRemains == "administrator" \in raced \/ ActiveAdministrators # {}

(* An address belongs to one account, as the reset by address assumes      *)
(* (emailAvailable), unless two handlers checked it before either wrote.   *)
AddressesDistinct ==
    "address" \in raced \/
    \A u, v \in User : u # v /\ account[u].email = account[v].email => account[u].email = None

(* No workspace goes with the row of its owner, past its archival          *)
(* (DeleteUser): the exception is one whose creation began before the      *)
(* account was disabled and ended after its workspaces were listed.        *)
NoRowCascades == "owner" \in raced \/ cascaded = {}

(* What the handler's own words promise: the last active administrator     *)
(* cannot be disabled.  It can, by two administrators at once.             *)
LastAdministratorStays == ActiveAdministrators # {}

Alike == Permutations(User) \cup Permutations(Request)

=============================================================================
