---------------------------- MODULE AccountsProofs ----------------------------
(***************************************************************************)
(* For any accounts, workspaces and handlers: the types of Accounts, that  *)
(* an administrator remains, that no workspace goes with its owner's row,  *)
(* and that an address belongs to one account.                             *)
(*                                                                         *)
(* They rest on what a handler still knows when it comes to write, unless  *)
(* another one has overtaken it: that somebody other than the target       *)
(* administers accounts, or that the target is disabled (`Counted`), and   *)
(* that the target owns nothing (`Emptied`), or that an address is free    *)
(* (`Checked`).                                                            *)
(***************************************************************************)
EXTENDS Accounts, FiniteSetTheorems, TLAPS

Op == {"none", "disable", "enable", "delete", "create", "register", "profile", "import",
       "workspace"}
Place == {"done", "allowed", "target", "cleanup", "empty", "validate", "prepare", "checked"}
State == {"absent", "active", "disabled", "deleted"}
Account == [state : State, role : {"administrator", "user"}, email : Address \cup {None}]
Handler == [op : Op, at : Place, actor : User \cup {None}, user : User \cup {None},
            email : Address \cup {None}, rows : SUBSET Row, left : SUBSET (User \cup Workspace),
            found : SUBSET User, overtaken : SUBSET Subject]

(* Every handler but an import is about one account; an import finds none  *)
(* that it has no row for.                                                 *)
Bound(q) == /\ q.op \notin {"none", "import"} => q.user \in User
            /\ \A u \in q.found : \E row \in q.rows : row.user = u

Typed == TypeOK /\ request \in [Request -> Handler] /\ \A r \in Request : Bound(request[r])

Counted(q) == "administrator" \notin q.overtaken =>
    /\ q.op = "disable" /\ q.at = "checked" => ActiveAdministrators \ {q.user} # {}
    /\ q.op = "delete" /\ q.at \in {"empty", "checked"} =>
          account[q.user].state \in {"disabled", "deleted"}

Emptied(q) == q.op = "delete" /\ q.at = "checked" /\ "owner" \notin q.overtaken =>
    \A w \in Workspace : owner[w] # q.user

Administered == "administrator" \notin raced =>
    ActiveAdministrators # {} /\ \A r \in Request : Counted(request[r])

Owned == "owner" \notin raced =>
    cascaded = {} /\ \A r \in Request : Emptied(request[r])

IInv == Typed /\ Administered /\ Owned

-----------------------------------------------------------------------------
(* Typing *)

LEMMA TypedMeans ==
  Typed <=> /\ account \in [User -> Account]
            /\ owner \in [Workspace -> User \cup {None}]
            /\ cascaded \subseteq Workspace
            /\ raced \subseteq Subject
            /\ request \in [Request -> Handler]
            /\ \A r \in Request : Bound(request[r])
  BY DEF Typed, TypeOK, Account, State, Handler, Op, Place

LEMMA TypedNext ==
  Typed' <=> /\ account' \in [User -> Account]
             /\ owner' \in [Workspace -> User \cup {None}]
             /\ cascaded' \subseteq Workspace
             /\ raced' \subseteq Subject
             /\ request' \in [Request -> Handler]
             /\ \A r \in Request : Bound(request'[r])
  BY DEF Typed, TypeOK, Account, State, Handler, Op, Place

LEMMA IdleHandler == Idle \in Handler /\ Bound(Idle) /\ Counted(Idle) /\ Emptied(Idle)
  BY DEF Idle, Handler, Bound, Counted, Emptied, Op, Place

(* What a step of one handler that writes nothing must show.               *)
LEMMA HandlerMoves ==
  ASSUME IInv, NEW r \in Request, NEW q \in Handler, Bound(q),
         "administrator" \notin raced => Counted(q), "owner" \notin raced => Emptied(q),
         request' = [request EXCEPT ![r] = q], Unwritten
  PROVE  IInv'
  <1>1. request' \in [Request -> Handler] /\ \A p \in Request : Bound(request'[p])
    BY TypedMeans DEF IInv
  <1>2. Typed'
    BY <1>1, TypedMeans, TypedNext DEF IInv, Unwritten
  <1>3. \A p \in Request : request'[p] = IF p = r THEN q ELSE request[p]
    BY TypedMeans DEF IInv
  <1>4. Administered'
    BY <1>3 DEF IInv, Administered, Counted, ActiveAdministrators, IsAdministrator, Unwritten
  <1>5. Owned'
    BY <1>3 DEF IInv, Owned, Emptied, Unwritten
  <1> QED
    BY <1>2, <1>4, <1>5 DEF IInv

(* What a handler that writes leaves of the others. *)
LEMMA HandlerWrites ==
  ASSUME Typed, NEW r \in Request, NEW touched \in SUBSET Subject, EndWriting(r, touched)
  PROVE  /\ request' \in [Request -> Handler] /\ \A p \in Request : Bound(request'[p])
         /\ raced' \subseteq Subject /\ raced \subseteq raced'
         /\ request[r].overtaken \subseteq raced'
         /\ request'[r] = Idle
         /\ \A p \in Request \ {r} :
               /\ request'[p].op = request[p].op /\ request'[p].at = request[p].at
               /\ request'[p].user = request[p].user
               /\ request[p].overtaken \subseteq request'[p].overtaken
               /\ touched \cap Bearing(request[p]) \subseteq request'[p].overtaken
  <1> DEFINE q(p) == [request[p] EXCEPT !.overtaken =
                         request[p].overtaken \cup (touched \cap Bearing(request[p]))]
  <1>1. ASSUME NEW p \in Request
        PROVE  /\ q(p) \in Handler /\ Bound(q(p))
               /\ q(p).op = request[p].op /\ q(p).at = request[p].at
               /\ q(p).user = request[p].user
               /\ q(p).overtaken = request[p].overtaken \cup (touched \cap Bearing(request[p]))
    BY TypedMeans DEF Handler, Bound
  <1>2. request' = [p \in Request |-> IF p = r THEN Idle ELSE q(p)]
    BY DEF EndWriting
  <1>3. raced' = raced \cup request[r].overtaken /\ request[r].overtaken \subseteq Subject
    BY TypedMeans DEF EndWriting, Handler
  <1> HIDE DEF q
  <1> QED
    BY <1>1, <1>2, <1>3, IdleHandler, TypedMeans

LEMMA Overtaking ==
  ASSUME NEW q, q.op \in Op
  PROVE  /\ q.op = "disable" /\ q.at = "checked" => "administrator" \in Bearing(q)
         /\ q.op = "delete" /\ q.at \in {"empty", "checked"} => "administrator" \in Bearing(q)
         /\ q.op = "delete" /\ q.at = "checked" => "owner" \in Bearing(q)
  BY DEF Bearing, Op

(* A write that leaves every active administrator, and every account that  *)
(* is disabled or deleted.                                                 *)
LEMMA CountedKept ==
  ASSUME IInv, NEW r \in Request, NEW touched \in SUBSET Subject, EndWriting(r, touched),
         "administrator" \notin raced' =>
            /\ ActiveAdministrators \subseteq ActiveAdministrators'
            /\ \A u \in User : account[u].state \in {"disabled", "deleted"} =>
                  account'[u].state \in {"disabled", "deleted"}
  PROVE  Administered'
  <1> SUFFICES ASSUME "administrator" \notin raced'
               PROVE  ActiveAdministrators' # {} /\ \A p \in Request : Counted(request[p])'
    BY DEF Administered
  <1>1. "administrator" \notin raced
    BY HandlerWrites DEF IInv
  <1>2. ActiveAdministrators # {} /\ \A p \in Request : Counted(request[p])
    BY <1>1 DEF IInv, Administered
  <1>3. ASSUME NEW p \in Request PROVE Counted(request[p])'
    <2>1. CASE p = r
      BY <2>1, HandlerWrites DEF IInv, Counted, Idle
    <2>2. CASE p # r
      <3>1. /\ request'[p].op = request[p].op /\ request'[p].at = request[p].at
            /\ request'[p].user = request[p].user
            /\ request[p].overtaken \subseteq request'[p].overtaken
        BY <2>2, HandlerWrites DEF IInv
      <3>2. request[p].op = "delete" => request[p].user \in User
        BY TypedMeans DEF IInv, Bound
      <3> QED
        BY <1>2, <3>1, <3>2 DEF Counted
    <2> QED
      BY <2>1, <2>2
  <1> QED
    BY <1>2, <1>3

(* A write that gives no workspace a new owner. *)
LEMMA EmptiedKept ==
  ASSUME IInv, NEW r \in Request, NEW touched \in SUBSET Subject, EndWriting(r, touched),
         "owner" \notin raced' => cascaded' = {},
         \A w \in Workspace : owner'[w] # None => owner'[w] = owner[w]
  PROVE  Owned'
  <1> SUFFICES ASSUME "owner" \notin raced'
               PROVE  \A p \in Request : Emptied(request[p])'
    BY DEF Owned
  <1>1. \A p \in Request : Emptied(request[p])
    BY HandlerWrites DEF IInv, Owned
  <1>2. ASSUME NEW p \in Request PROVE Emptied(request[p])'
    <2>1. CASE p = r
      BY <2>1, HandlerWrites DEF IInv, Emptied, Idle
    <2>2. CASE p # r
      <3>1. /\ request'[p].op = request[p].op /\ request'[p].at = request[p].at
            /\ request'[p].user = request[p].user
            /\ request[p].overtaken \subseteq request'[p].overtaken
        BY <2>2, HandlerWrites DEF IInv
      <3>2. request[p].op = "delete" => request[p].user # None
        BY TypedMeans, AccountsAssumption DEF IInv, Bound
      <3> QED
        BY <1>1, <3>1, <3>2 DEF Emptied
    <2> QED
      BY <2>1, <2>2
  <1> QED
    BY <1>2

-----------------------------------------------------------------------------
(* The steps that write *)

LEMMA SetUserDisabledKeeps ==
  ASSUME IInv, NEW r \in Request, SetUserDisabled(r)
  PROVE  IInv'
  <1> DEFINE u == request[r].user
             state == IF request[r].op = "disable" THEN "disabled" ELSE "active"
             touched == {"administrator"}
  <1>0. /\ Typed /\ u \in User /\ EndWriting(r, touched) /\ touched \in SUBSET Subject
        /\ request[r].op \in {"disable", "enable"} /\ request[r].at = "checked"
    BY TypedMeans DEF IInv, SetUserDisabled, At, Bound, Subject
  <1>1. /\ account'[u].state = state /\ account'[u].role = account[u].role
        /\ \A v \in User \ {u} : account'[v] = account[v]
        /\ account' \in [User -> Account]
    BY <1>0, TypedMeans DEF SetUserDisabled, Account, State
  <1>2. Typed'
    BY <1>0, <1>1, HandlerWrites, TypedMeans, TypedNext DEF SetUserDisabled
  <1>3. ASSUME "administrator" \notin raced'
        PROVE  ActiveAdministrators' # {} /\ \A p \in Request : Counted(request[p])'
    <2>1. "administrator" \notin raced /\ "administrator" \notin request[r].overtaken
      BY <1>0, <1>3, HandlerWrites
    <2>2. ActiveAdministrators # {} /\ Counted(request[r])
      BY <2>1 DEF IInv, Administered
    <2>3. ASSUME request[r].op = "disable" PROVE ActiveAdministrators' # {}
      <3>1. PICK v \in ActiveAdministrators : v # u
        BY <2>1, <2>2, <2>3, <1>0 DEF Counted
      <3> QED
        BY <3>1, <1>1 DEF ActiveAdministrators, IsAdministrator
    <2>4. ASSUME request[r].op = "enable" PROVE ActiveAdministrators' # {}
      <3>1. ActiveAdministrators \subseteq ActiveAdministrators'
        BY <1>0, <1>1, <2>4 DEF ActiveAdministrators, IsAdministrator
      <3> QED
        BY <2>2, <3>1
    <2>5. ASSUME NEW p \in Request PROVE Counted(request[p])'
      <3>1. CASE p = r
        BY <3>1, <1>0, HandlerWrites DEF Counted, Idle
      <3>2. CASE p # r
        <4>1. /\ request'[p].op = request[p].op /\ request'[p].at = request[p].at
              /\ touched \cap Bearing(request[p]) \subseteq request'[p].overtaken
          BY <3>2, <1>0, HandlerWrites
        <4>2. request[p].op \in Op
          BY <1>0, TypedMeans DEF Handler
        <4> QED
          BY <4>1, <4>2, Overtaking DEF Counted
      <3> QED
        BY <3>1, <3>2
    <2> QED
      BY <2>3, <2>4, <2>5, <1>0
  <1>4. Owned'
    BY <1>0, EmptiedKept, HandlerWrites DEF SetUserDisabled, IInv, Owned
  <1> QED
    BY <1>2, <1>3, <1>4 DEF IInv, Administered

LEMMA DeleteUserKeeps ==
  ASSUME IInv, NEW r \in Request, DeleteUser(r)
  PROVE  IInv'
  <1> DEFINE u == request[r].user
             gone == [Absent EXCEPT !.state = "deleted"]
             owned == {w \in Workspace : owner[w] = u}
  <1>0. Typed /\ u \in User /\ EndWriting(r, {}) /\ {} \in SUBSET Subject
        /\ request[r].op = "delete" /\ request[r].at = "checked"
    BY TypedMeans DEF IInv, DeleteUser, At, Bound
  <1>1. gone \in Account /\ gone.state = "deleted"
    BY DEF Absent, Account, State
  <1>2. /\ account' = [account EXCEPT ![u] = gone]
        /\ owner' = [w \in Workspace |-> IF w \in owned THEN None ELSE owner[w]]
        /\ cascaded' = cascaded \cup owned
    BY DEF DeleteUser
  <1> HIDE DEF gone
  <1>3. Typed'
    BY <1>0, <1>1, <1>2, HandlerWrites, TypedMeans, TypedNext
  <1>4. ASSUME "administrator" \notin raced'
        PROVE  /\ ActiveAdministrators \subseteq ActiveAdministrators'
               /\ \A v \in User : account[v].state \in {"disabled", "deleted"} =>
                     account'[v].state \in {"disabled", "deleted"}
    <2>1. "administrator" \notin raced /\ "administrator" \notin request[r].overtaken
      BY <1>0, <1>4, HandlerWrites
    <2>2. account[u].state \in {"disabled", "deleted"}
      BY <1>0, <2>1 DEF IInv, Administered, Counted
    <2> QED
      BY <1>0, <1>1, <1>2, <2>2, TypedMeans DEF ActiveAdministrators, IsAdministrator
  <1>5. Administered'
    BY <1>0, <1>4, CountedKept
  <1>6. ASSUME "owner" \notin raced' PROVE cascaded' = {}
    <2>1. "owner" \notin raced /\ "owner" \notin request[r].overtaken
      BY <1>0, <1>6, HandlerWrites
    <2>2. cascaded = {} /\ owned = {}
      BY <1>0, <2>1 DEF IInv, Owned, Emptied
    <2> QED
      BY <1>2, <2>2
  <1>7. Owned'
    BY <1>0, <1>2, <1>6, EmptiedKept, TypedMeans
  <1> QED
    BY <1>3, <1>5, <1>7 DEF IInv

LEMMA CreateWorkspaceKeeps ==
  ASSUME IInv, NEW r \in Request, NEW w \in Workspace, CreateWorkspace(r, w)
  PROVE  IInv'
  <1> DEFINE touched == {"owner"}
  <1>0. /\ Typed /\ request[r].user \in User /\ EndWriting(r, touched)
        /\ touched \in SUBSET Subject
    BY TypedMeans DEF IInv, CreateWorkspace, At, Bound, Subject
  <1>1. Typed'
    BY <1>0, HandlerWrites, TypedMeans, TypedNext DEF CreateWorkspace
  <1>2. Administered'
    BY <1>0, CountedKept DEF CreateWorkspace, ActiveAdministrators, IsAdministrator
  <1>3. ASSUME "owner" \notin raced', NEW p \in Request PROVE Emptied(request[p])'
    <2>1. CASE p = r
      BY <2>1, <1>0, HandlerWrites DEF Emptied, Idle
    <2>2. CASE p # r
      <3>1. /\ request'[p].op = request[p].op /\ request'[p].at = request[p].at
            /\ touched \cap Bearing(request[p]) \subseteq request'[p].overtaken
        BY <2>2, <1>0, HandlerWrites
      <3>2. request[p].op \in Op
        BY <1>0, TypedMeans DEF Handler
      <3> QED
        BY <3>1, <3>2, Overtaking DEF Emptied
    <2> QED
      BY <2>1, <2>2
  <1>4. Owned'
    BY <1>0, <1>3, HandlerWrites DEF IInv, Owned, CreateWorkspace
  <1> QED
    BY <1>1, <1>2, <1>4 DEF IInv

(* CreateUser and UpdateUserProfile leave the state and the role of every  *)
(* account that exists.                                                    *)
LEMMA CreateUserKeeps ==
  ASSUME IInv, NEW r \in Request, NEW role \in {"administrator", "user"}, CreateUser(r, role)
  PROVE  IInv'
  <1> DEFINE u == request[r].user
             new == [state |-> "active", role |-> role, email |-> request[r].email]
             touched == {"address"}
  <1>0. /\ Typed /\ u \in User /\ EndWriting(r, touched) /\ touched \in SUBSET Subject
        /\ account[u].state = "absent" /\ new \in Account
    BY TypedMeans DEF IInv, CreateUser, At, Bound, Subject, Handler, Account, State
  <1>1. account' = [account EXCEPT ![u] = new] /\ UNCHANGED <<owner, cascaded>>
    BY DEF CreateUser
  <1> HIDE DEF new
  <1>2. Typed'
    BY <1>0, <1>1, HandlerWrites, TypedMeans, TypedNext
  <1>3. /\ ActiveAdministrators \subseteq ActiveAdministrators'
        /\ \A v \in User : account[v].state \in {"disabled", "deleted"} =>
              account'[v].state \in {"disabled", "deleted"}
    BY <1>0, <1>1, TypedMeans DEF ActiveAdministrators, IsAdministrator
  <1>4. Administered'
    BY <1>0, <1>3, CountedKept
  <1>5. Owned'
    BY <1>0, <1>1, EmptiedKept, HandlerWrites DEF IInv, Owned
  <1> QED
    BY <1>2, <1>4, <1>5 DEF IInv

LEMMA UpdateUserProfileKeeps ==
  ASSUME IInv, NEW r \in Request, UpdateUserProfile(r)
  PROVE  IInv'
  <1> DEFINE u == request[r].user
             touched == {"address"}
  <1>0. /\ Typed /\ u \in User /\ EndWriting(r, touched) /\ touched \in SUBSET Subject
    BY TypedMeans DEF IInv, UpdateUserProfile, At, Bound, Subject
  <1>1. /\ account' \in [User -> Account]
        /\ \A v \in User : account'[v].state = account[v].state
                           /\ account'[v].role = account[v].role
    BY <1>0, TypedMeans DEF UpdateUserProfile, Handler, Account
  <1>2. Typed'
    BY <1>0, <1>1, HandlerWrites, TypedMeans, TypedNext DEF UpdateUserProfile
  <1>3. /\ ActiveAdministrators \subseteq ActiveAdministrators'
        /\ \A v \in User : account[v].state \in {"disabled", "deleted"} =>
              account'[v].state \in {"disabled", "deleted"}
    BY <1>1 DEF ActiveAdministrators, IsAdministrator
  <1>4. Administered'
    BY <1>0, <1>3, CountedKept
  <1>5. Owned'
    BY <1>0, EmptiedKept, HandlerWrites DEF IInv, Owned, UpdateUserProfile
  <1> QED
    BY <1>2, <1>4, <1>5 DEF IInv

LEMMA ImportUsersKeeps ==
  ASSUME IInv, NEW r \in Request, ImportUsers(r)
  PROVE  IInv'
  <1> DEFINE q == request[r]
             new == {row.user : row \in q.rows} \ q.found
             email(u) == (CHOOSE row \in q.rows : row.user = u).email
             touched == {"address"}
  <1>0. Typed /\ EndWriting(r, touched) /\ touched \in SUBSET Subject /\ q \in Handler /\ Bound(q)
    BY TypedMeans DEF IInv, ImportUsers, Subject
  <1>1. ASSUME NEW u \in new \cup q.found PROVE email(u) \in Address \cup {None}
    <2>1. \E row \in q.rows : row.user = u
      BY <1>0 DEF Bound
    <2>2. (CHOOSE row \in q.rows : row.user = u) \in Row
      BY <1>0, <2>1 DEF Handler
    <2> QED
      BY <2>2 DEF Row
  <1> HIDE DEF email
  <1>2. account' = [u \in User |->
             IF u \in new THEN [state |-> "active", role |-> "user", email |-> email(u)]
             ELSE IF u \in q.found /\ email(u) # None THEN [account[u] EXCEPT !.email = email(u)]
             ELSE account[u]]
    BY DEF ImportUsers, email
  <1>3. \A u \in new : account[u].state = "absent"
    BY DEF ImportUsers
  <1> HIDE DEF new
  <1>4. ASSUME NEW u \in User
        PROVE  /\ account'[u] \in Account
               /\ u \notin new => account'[u].state = account[u].state
                                  /\ account'[u].role = account[u].role
    <2>0. account[u] \in Account
      BY <1>0, TypedMeans
    <2>1. CASE u \in new
      BY <1>1, <1>2, <2>1 DEF Account, State
    <2>2. CASE u \notin new /\ u \in q.found /\ email(u) # None
      BY <1>1, <1>2, <2>0, <2>2 DEF Account
    <2>3. CASE u \notin new /\ ~(u \in q.found /\ email(u) # None)
      BY <1>2, <2>0, <2>3
    <2> QED
      BY <2>1, <2>2, <2>3
  <1>5. Typed'
    <2>1. account' \in [User -> Account]
      BY <1>2, <1>4
    <2> QED
      BY <1>0, <2>1, HandlerWrites, TypedMeans, TypedNext DEF ImportUsers
  <1>6. /\ ActiveAdministrators \subseteq ActiveAdministrators'
        /\ \A v \in User : account[v].state \in {"disabled", "deleted"} =>
              account'[v].state \in {"disabled", "deleted"}
    BY <1>3, <1>4 DEF ActiveAdministrators, IsAdministrator
  <1>7. Administered'
    BY <1>0, <1>6, CountedKept
  <1>8. Owned'
    BY <1>0, EmptiedKept, HandlerWrites DEF IInv, Owned, ImportUsers
  <1> QED
    BY <1>5, <1>7, <1>8 DEF IInv

(* A workspace that goes changes nothing that a handler knows. *)
LEMMA WorkspaceGoes ==
  ASSUME IInv, NEW w \in Workspace, owner' = [owner EXCEPT ![w] = None],
         UNCHANGED <<account, cascaded, raced>>,
         request' \in [Request -> Handler], \A p \in Request : Bound(request'[p]),
         \A p \in Request : /\ request'[p].op = request[p].op /\ request'[p].at = request[p].at
                            /\ request'[p].user = request[p].user
                            /\ request'[p].overtaken = request[p].overtaken
  PROVE  IInv'
  <1>1. Typed'
    BY TypedMeans, TypedNext DEF IInv
  <1>2. Administered'
    BY DEF IInv, Administered, Counted, ActiveAdministrators, IsAdministrator
  <1>3. ASSUME NEW p \in Request, Emptied(request[p]) PROVE Emptied(request[p])'
    <2>1. request[p].op = "delete" => request[p].user # None
      BY TypedMeans, AccountsAssumption DEF IInv, Bound
    <2> QED
      BY <1>3, <2>1, TypedMeans DEF IInv, Emptied
  <1>4. Owned'
    BY <1>3 DEF IInv, Owned
  <1> QED
    BY <1>1, <1>2, <1>4 DEF IInv

-----------------------------------------------------------------------------
(* The steps that only check *)

(* A handler that has not come to its checks knows nothing yet. *)
LEMMA HandlerAsks ==
  ASSUME IInv, NEW r \in Request, NEW q \in Handler, Bound(q),
         q.at \notin {"empty", "checked"} \/ q.op \notin {"disable", "delete"},
         request' = [request EXCEPT ![r] = q], Unwritten
  PROVE  IInv'
  BY HandlerMoves DEF Counted, Emptied

LEMMA AsksKeep ==
  ASSUME IInv, NEW r \in Request
  PROVE  /\ \A actor, u \in User, a \in Address \cup {None},
               op \in {"disable", "enable", "delete", "create", "profile"} :
               RequireAdministrator(r, actor, op, u, a) => IInv'
         /\ \A u \in User, a \in Address : Register(r, u, a) => IInv'
         /\ \A u \in User : RequireActor(r, u) => IInv'
         /\ Abandon(r) => IInv'
  <1>1. ASSUME NEW actor \in User, NEW u \in User, NEW a \in Address \cup {None},
               NEW op \in {"disable", "enable", "delete", "create", "profile"},
               RequireAdministrator(r, actor, op, u, a)
        PROVE  IInv'
    <2> DEFINE q == [Idle EXCEPT !.op = op, !.at = "allowed", !.user = u, !.email = a,
                                 !.actor = IF op = "delete" THEN actor ELSE None]
    <2>1. q \in Handler /\ Bound(q) /\ q.at = "allowed"
      BY DEF Handler, Bound, Idle, Op, Place
    <2> QED
      BY <1>1, <2>1, HandlerAsks DEF RequireAdministrator, Begin
  <1>2. ASSUME NEW u \in User, NEW a \in Address, Register(r, u, a) PROVE IInv'
    <2> DEFINE q == [Idle EXCEPT !.op = "register", !.at = "allowed", !.user = u, !.email = a]
    <2>1. q \in Handler /\ Bound(q) /\ q.at = "allowed"
      BY DEF Handler, Bound, Idle, Op, Place
    <2> QED
      BY <1>2, <2>1, HandlerAsks DEF Register, Begin
  <1>3. ASSUME NEW u \in User, RequireActor(r, u) PROVE IInv'
    <2> DEFINE q == [Idle EXCEPT !.op = "workspace", !.at = "allowed", !.user = u]
    <2>1. q \in Handler /\ Bound(q) /\ q.at = "allowed"
      BY DEF Handler, Bound, Idle, Op, Place
    <2> QED
      BY <1>3, <2>1, HandlerAsks DEF RequireActor, Begin
  <1>4. ASSUME Abandon(r) PROVE IInv'
    BY <1>4, IdleHandler, HandlerMoves DEF Abandon, End
  <1> QED
    BY <1>1, <1>2, <1>3, <1>4

(* Moving to another place keeps a handler's type. *)
LEMMA MovesTyped ==
  ASSUME IInv, NEW r \in Request, NEW at \in Place, MoveTo(r, at)
  PROVE  LET q == [request[r] EXCEPT !.at = at]
         IN  /\ q \in Handler /\ Bound(q) /\ request' = [request EXCEPT ![r] = q]
             /\ q.op = request[r].op /\ q.at = at /\ q.user = request[r].user
             /\ q.overtaken = request[r].overtaken
  BY TypedMeans DEF IInv, MoveTo, Handler, Bound

LEMMA FindUserKeeps ==
  ASSUME IInv, NEW r \in Request, FindUser(r)
  PROVE  IInv'
  <1> DEFINE u == request[r].user
             at == IF request[r].op = "disable" /\ IsAdministrator(u) THEN "target" ELSE "checked"
             q == [request[r] EXCEPT !.at = at]
  <1>1. at \in Place /\ MoveTo(r, at) /\ Unwritten /\ request[r].op \in {"disable", "enable"}
    BY DEF FindUser, At, Place
  <1>2. /\ q \in Handler /\ Bound(q) /\ request' = [request EXCEPT ![r] = q]
        /\ q.op = request[r].op /\ q.at = at /\ q.user = u
    BY <1>1, MovesTyped
  <1> HIDE DEF q
  <1>3. ASSUME "administrator" \notin raced PROVE Counted(q)
    BY <1>1, <1>2, <1>3 DEF IInv, Administered, Counted, ActiveAdministrators
  <1>4. Emptied(q)
    BY <1>1, <1>2 DEF Emptied
  <1> QED
    BY <1>1, <1>2, <1>3, <1>4, HandlerMoves

(* More than one administrator: one of them is not the target. *)
LEMMA CountKeeps ==
  ASSUME IInv, NEW r \in Request, CountActiveAdministrators(r)
  PROVE  IInv'
  <1> DEFINE u == request[r].user
             q == [request[r] EXCEPT !.at = "checked"]
  <1>1. MoveTo(r, "checked") /\ Unwritten /\ request[r].op = "disable"
    BY DEF CountActiveAdministrators, At
  <1>2. /\ q \in Handler /\ Bound(q) /\ request' = [request EXCEPT ![r] = q]
        /\ q.op = "disable" /\ q.user = u
    BY <1>1, MovesTyped DEF Place
  <1> HIDE DEF q
  <1>3. ActiveAdministrators \ {u} # {}
    <2> SUFFICES ASSUME ActiveAdministrators \subseteq {u} PROVE FALSE
      OBVIOUS
    <2>1. IsFiniteSet({u}) /\ Cardinality({u}) = 1
      BY FS_Singleton
    <2>2. IsFiniteSet(ActiveAdministrators) /\ Cardinality(ActiveAdministrators) <= 1
      BY <2>1, FS_Subset
    <2>3. Cardinality(ActiveAdministrators) \in Nat
      BY <2>2, FS_CardinalityType
    <2> QED
      BY <2>2, <2>3 DEF CountActiveAdministrators
  <1>4. Counted(q) /\ Emptied(q)
    BY <1>2, <1>3 DEF Counted, Emptied
  <1> QED
    BY <1>1, <1>2, <1>4, HandlerMoves

LEMMA DeletionKeeps ==
  ASSUME IInv, NEW r \in Request
  PROVE  /\ DeleteUserWorkspaces(r) => IInv'
         /\ DeleteUserAllowed(r) => IInv'
         /\ ListWorkspacesForUser(r) => IInv'
         /\ \A w \in Workspace : DeleteListedWorkspace(r, w) => IInv'
  <1>0. request[r] \in Handler /\ Bound(request[r])
    BY TypedMeans DEF IInv
  <1>1. ASSUME DeleteUserWorkspaces(r) PROVE IInv'
    <2> DEFINE listed == {w \in Workspace : owner[w] = request[r].user}
               q == [request[r] EXCEPT !.at = "cleanup", !.left = listed]
    <2>1. q \in Handler /\ Bound(q) /\ q.at = "cleanup"
      BY <1>0 DEF Handler, Bound, Place
    <2>2. request' = [request EXCEPT ![r] = q] /\ Unwritten
      BY <1>0, <1>1, TypedMeans DEF DeleteUserWorkspaces, Handler, IInv
    <2> HIDE DEF q
    <2> QED
      BY <2>1, <2>2, HandlerAsks
  <1>2. ASSUME DeleteUserAllowed(r) PROVE IInv'
    <2> DEFINE q == [request[r] EXCEPT !.at = "empty"]
    <2>1. MoveTo(r, "empty") /\ Unwritten /\ account[request[r].user].state = "disabled"
          /\ request[r].op = "delete"
      BY <1>2 DEF DeleteUserAllowed, At
    <2>2. /\ q \in Handler /\ Bound(q) /\ request' = [request EXCEPT ![r] = q]
          /\ q.op = "delete" /\ q.at = "empty" /\ q.user = request[r].user
      BY <2>1, MovesTyped DEF Place
    <2> HIDE DEF q
    <2>3. Counted(q) /\ Emptied(q)
      BY <2>1, <2>2 DEF Counted, Emptied
    <2> QED
      BY <2>1, <2>2, <2>3, HandlerMoves
  <1>3. ASSUME ListWorkspacesForUser(r) PROVE IInv'
    <2> DEFINE q == [request[r] EXCEPT !.at = "checked"]
    <2>1. MoveTo(r, "checked") /\ Unwritten /\ (\A w \in Workspace : owner[w] # request[r].user)
          /\ request[r].op = "delete" /\ request[r].at = "empty"
      BY <1>3 DEF ListWorkspacesForUser, At
    <2>2. /\ q \in Handler /\ Bound(q) /\ request' = [request EXCEPT ![r] = q]
          /\ q.op = "delete" /\ q.user = request[r].user /\ q.overtaken = request[r].overtaken
      BY <2>1, MovesTyped DEF Place
    <2> HIDE DEF q
    <2>3. Emptied(q)
      BY <2>1, <2>2 DEF Emptied
    <2>4. ASSUME "administrator" \notin raced PROVE Counted(q)
      BY <2>1, <2>2, <2>4 DEF IInv, Administered, Counted
    <2> QED
      BY <2>1, <2>2, <2>3, <2>4, HandlerMoves
  <1>4. ASSUME NEW w \in Workspace, DeleteListedWorkspace(r, w) PROVE IInv'
    <2> DEFINE rest == request[r].left \ {w}
               q == [request[r] EXCEPT !.left = rest]
    <2>1. /\ q \in Handler /\ Bound(q) /\ q.op = request[r].op /\ q.at = request[r].at
          /\ q.user = request[r].user /\ q.overtaken = request[r].overtaken
      BY <1>0 DEF Handler, Bound
    <2>2. request' = [request EXCEPT ![r] = q]
      BY <1>0, <1>4, TypedMeans DEF DeleteListedWorkspace, Handler, IInv
    <2> HIDE DEF q
    <2>3. /\ request' \in [Request -> Handler] /\ \A p \in Request : Bound(request'[p])
          /\ \A p \in Request : /\ request'[p].op = request[p].op
                                /\ request'[p].at = request[p].at
                                /\ request'[p].user = request[p].user
                                /\ request'[p].overtaken = request[p].overtaken
      BY <2>1, <2>2, TypedMeans DEF IInv
    <2> QED
      BY <1>4, <2>3, WorkspaceGoes DEF DeleteListedWorkspace
  <1> QED
    BY <1>1, <1>2, <1>3, <1>4

LEMMA AddressChecksKeep ==
  ASSUME IInv, NEW r \in Request, PrepareUser(r) \/ CheckProfile(r)
  PROVE  IInv'
  <1> DEFINE q == [request[r] EXCEPT !.at = "checked"]
  <1>1. MoveTo(r, "checked") /\ Unwritten /\ request[r].op \in {"create", "register", "profile"}
    BY DEF PrepareUser, CheckProfile, At
  <1>2. /\ q \in Handler /\ Bound(q) /\ request' = [request EXCEPT ![r] = q]
        /\ q.op = request[r].op
    BY <1>1, MovesTyped DEF Place
  <1> HIDE DEF q
  <1> QED
    BY <1>1, <1>2, HandlerAsks

LEMMA BatchRows ==
  ASSUME NEW batch \in Batches
  PROVE  /\ DOMAIN batch \subseteq User
         /\ \A u \in DOMAIN batch : batch[u] \in Address \cup {None}
  BY DEF Batches

LEMMA ImportKeeps ==
  ASSUME IInv, NEW r \in Request
  PROVE  /\ \A actor \in User, batch \in Batches : BeginImport(r, actor, batch) => IInv'
         /\ \A row \in request[r].rows : ValidateRow(r, row) \/ PrepareRow(r, row) => IInv'
         /\ PrepareRows(r) => IInv'
  <1>0. request[r] \in Handler /\ Bound(request[r])
    BY TypedMeans DEF IInv
  <1>1. ASSUME NEW actor \in User, NEW batch \in Batches, BeginImport(r, actor, batch)
        PROVE  IInv'
    <2> DEFINE rows == {[user |-> u, email |-> batch[u]] : u \in DOMAIN batch}
               q == [Idle EXCEPT !.op = "import", !.at = "validate", !.left = DOMAIN batch,
                                 !.rows = rows]
    <2>1. rows \subseteq Row
      BY BatchRows DEF Row
    <2> HIDE DEF rows
    <2>2. q \in Handler /\ Bound(q) /\ q.op = "import"
      BY <2>1, BatchRows DEF Handler, Bound, Idle, Op, Place
    <2>3. request' = [request EXCEPT ![r] = q] /\ Unwritten
      BY <1>1 DEF BeginImport, Begin, rows
    <2> HIDE DEF q
    <2> QED
      BY <2>2, <2>3, HandlerAsks
  <1>2. ASSUME NEW row \in request[r].rows, ValidateRow(r, row) PROVE IInv'
    <2> DEFINE rest == request[r].left \ {row.user}
               first == Cardinality(request[r].left) = Cardinality(request[r].rows)
               overtaken == IF first THEN {} ELSE request[r].overtaken
               q == [request[r] EXCEPT !.left = rest, !.overtaken = overtaken]
    <2>1. request' = [request EXCEPT ![r] = q] /\ Unwritten /\ request[r].op = "import"
      BY <1>0, <1>2, TypedMeans DEF ValidateRow, RowChecked, At, Handler, IInv
    <2>a. rest \in SUBSET (User \cup Workspace) /\ overtaken \in SUBSET Subject
      BY <1>0 DEF Handler
    <2> HIDE DEF rest, overtaken
    <2>2. q \in Handler /\ Bound(q) /\ q.op = request[r].op
      BY <1>0, <2>a DEF Handler, Bound
    <2> HIDE DEF q
    <2> QED
      BY <2>1, <2>2, HandlerAsks
  <1>3. ASSUME PrepareRows(r) PROVE IInv'
    <2> DEFINE users == {row.user : row \in request[r].rows}
               q == [request[r] EXCEPT !.at = "prepare", !.left = users]
    <2>1. request' = [request EXCEPT ![r] = q] /\ Unwritten /\ request[r].op = "import"
      BY <1>0, <1>3, TypedMeans DEF PrepareRows, At, Handler, IInv
    <2>a. users \in SUBSET (User \cup Workspace)
      BY <1>0 DEF Handler, Row
    <2> HIDE DEF users
    <2>2. q \in Handler /\ Bound(q) /\ q.op = request[r].op
      BY <1>0, <2>a DEF Handler, Bound, Place
    <2> HIDE DEF q
    <2> QED
      BY <2>1, <2>2, HandlerAsks
  <1>4. ASSUME NEW row \in request[r].rows, PrepareRow(r, row) PROVE IInv'
    <2> DEFINE rest == request[r].left \ {row.user}
               found == request[r].found \cup {u \in {row.user} : Exists(u)}
               q == [request[r] EXCEPT !.left = rest, !.found = found]
    <2>1. request' = [request EXCEPT ![r] = q] /\ Unwritten /\ request[r].op = "import"
      BY <1>0, <1>4, TypedMeans DEF PrepareRow, At, Handler, IInv
    <2>a. rest \in SUBSET (User \cup Workspace) /\ found \in SUBSET User
          /\ \A u \in found : \E line \in request[r].rows : line.user = u
      BY <1>0 DEF Handler, Row, Bound
    <2> HIDE DEF rest, found
    <2>2. q \in Handler /\ Bound(q) /\ q.op = request[r].op
      BY <1>0, <2>a DEF Handler, Bound
    <2> HIDE DEF q
    <2> QED
      BY <2>1, <2>2, HandlerAsks
  <1> QED
    BY <1>1, <1>2, <1>3, <1>4

-----------------------------------------------------------------------------

LEMMA InitKeeps == Init => IInv
  <1> SUFFICES ASSUME Init PROVE IInv
    OBVIOUS
  <1>1. ASSUME NEW u \in User PROVE account[u] \in Account
    <2>1. account[u] \in {Absent} \cup [state : {"active"}, role : {"administrator"},
                                        email : Address \cup {None}]
      BY DEF Init
    <2> QED
      BY <2>1 DEF Account, Absent, State
  <1>2. account \in [User -> Account]
    BY <1>1 DEF Init
  <1>3. Typed
    BY <1>2, IdleHandler, TypedMeans DEF Init
  <1>4. Administered /\ Owned
    BY IdleHandler DEF Init, Administered, Owned
  <1> QED
    BY <1>3, <1>4 DEF IInv

LEMMA NextKeeps ==
  ASSUME IInv, [Next]_vars
  PROVE  IInv'
  <1>1. CASE UNCHANGED vars
    <2>1. Typed'
      BY <1>1, TypedMeans, TypedNext DEF vars, IInv
    <2>2. Administered' /\ Owned'
      BY <1>1 DEF vars, IInv, Administered, Owned, Counted, Emptied, ActiveAdministrators,
                  IsAdministrator
    <2> QED
      BY <2>1, <2>2 DEF IInv
  <1>2. ASSUME NEW w \in Workspace, DeleteWorkspace(w) PROVE IInv'
    BY <1>2, WorkspaceGoes, TypedMeans DEF DeleteWorkspace, IInv
  <1>3. CASE Next
    BY <1>2, <1>3, AsksKeep, FindUserKeeps, CountKeeps, SetUserDisabledKeeps, DeletionKeeps,
       DeleteUserKeeps, CreateWorkspaceKeeps, AddressChecksKeep, UpdateUserProfileKeeps,
       CreateUserKeeps, ImportKeeps, ImportUsersKeeps DEF Next
  <1> QED
    BY <1>1, <1>3

(* Every variable of Accounts keeps its type. *)
THEOREM AccountsTyped == Spec => []TypeOK
  <1>1. IInv => TypeOK
    BY DEF IInv, Typed
  <1> QED
    BY <1>1, InitKeeps, NextKeeps, PTL DEF Spec

(* An administrator who can sign in remains (SetUserDisabled, DeleteUser), *)
(* but for handlers that were overtaken.                                   *)
THEOREM SomebodyAdministers == Spec => []AdministratorRemains
  <1>1. IInv => AdministratorRemains
    BY DEF IInv, Administered, AdministratorRemains
  <1> QED
    BY <1>1, InitKeeps, NextKeeps, PTL DEF Spec

(* No workspace goes with the row of its owner (DeleteUser), but one       *)
(* created while the account was being deleted.                            *)
THEOREM WorkspacesGoFirst == Spec => []NoRowCascades
  <1>1. IInv => NoRowCascades
    BY DEF IInv, Owned, NoRowCascades
  <1> QED
    BY <1>1, InitKeeps, NextKeeps, PTL DEF Spec
-----------------------------------------------------------------------------
(* Addresses.  A handler that has found one free and was not overtaken     *)
(* still finds it free; an import knows that of every row it has           *)
(* validated, and its rows are of different accounts with different        *)
(* addresses.  An import is overtaken from its first row's check on, and   *)
(* the number of rows left is that of all rows only before it (`Batched`). *)

Free(a, u) == a = None \/ \A v \in User \ {u} : account[v].email # a

Distinct == \A u, v \in User : u # v /\ account[u].email = account[v].email => account[u].email = None

Checked(q) == "address" \notin q.overtaken =>
    /\ q.op \in {"create", "register", "profile"} /\ q.at = "checked" => Free(q.email, q.user)
    /\ q.op = "import" => \A row \in q.rows :
          q.at = "prepare" \/ (q.at = "validate" /\ row.user \notin q.left) =>
             Free(row.email, row.user)

Users(rows) == {row.user : row \in rows}

Batched(q) == q.op = "import" =>
    /\ IsFiniteSet(q.rows)
    /\ \A x, y \in q.rows : x # y => x.user # y.user /\ (x.email = y.email => x.email = None)
    /\ q.at = "validate" => q.left \subseteq Users(q.rows)
    /\ q.at = "validate" => q.left = Users(q.rows) \/ Cardinality(q.left) < Cardinality(q.rows)

Addressed ==
    /\ \A r \in Request : Batched(request[r])
    /\ "address" \notin raced => Distinct /\ \A r \in Request : Checked(request[r])

LEMMA RowsOfUsers ==
  ASSUME NEW rows, IsFiniteSet(rows)
  PROVE  IsFiniteSet(Users(rows)) /\ Cardinality(Users(rows)) <= Cardinality(rows)
  <1> DEFINE f == [row \in rows |-> row.user]
  <1>1. f \in Surjection(rows, Users(rows))
    BY DEF Surjection, Users
  <1> QED
    BY <1>1, FS_Surjection

LEMMA AddressMoves ==
  ASSUME IInv, Addressed, NEW r \in Request, NEW q, Batched(q),
         "address" \notin raced => Checked(q), request' = [request EXCEPT ![r] = q],
         \A u \in User : account'[u].email = account[u].email, raced' = raced
  PROVE  Addressed'
  <1>1. \A p \in Request : request'[p] = IF p = r THEN q ELSE request[p]
    BY TypedMeans DEF IInv
  <1>2. \A p \in Request : Batched(request[p])'
    BY <1>1 DEF Addressed, Batched, Users
  <1>3. ASSUME "address" \notin raced'
        PROVE  Distinct' /\ \A p \in Request : Checked(request[p])'
    <2>1. Distinct /\ \A p \in Request : Checked(request'[p])
      BY <1>1, <1>3 DEF Addressed
    <2>2. Distinct'
      BY <2>1 DEF Distinct
    <2>3. ASSUME NEW a, NEW u, Free(a, u) PROVE Free(a, u)'
      BY <2>3 DEF Free
    <2> QED
      BY <2>1, <2>2, <2>3 DEF Checked
  <1> QED
    BY <1>2, <1>3 DEF Addressed

(* What a handler that writes leaves of what the others have checked.      *)
LEMMA WritesLeave ==
  ASSUME IInv, Addressed, NEW r \in Request, NEW touched \in SUBSET Subject, EndWriting(r, touched)
  PROVE  /\ "address" \notin raced' => "address" \notin raced /\ "address" \notin request[r].overtaken
         /\ request'[r] = Idle
         /\ \A p \in Request \ {r} :
               /\ request'[p].op = request[p].op /\ request'[p].at = request[p].at
               /\ request'[p].user = request[p].user /\ request'[p].email = request[p].email
               /\ request'[p].rows = request[p].rows /\ request'[p].left = request[p].left
               /\ request'[p].overtaken = request[p].overtaken \cup (touched \cap Bearing(request[p]))
         /\ \A p \in Request : Batched(request[p])'
  <1>1. \A p \in Request : request[p] \in Handler
    BY TypedMeans DEF IInv
  <1>2. request'[r] = Idle
    BY DEF EndWriting
  <1>3. ASSUME NEW p \in Request \ {r}
        PROVE  /\ request'[p].op = request[p].op /\ request'[p].at = request[p].at
               /\ request'[p].user = request[p].user /\ request'[p].email = request[p].email
               /\ request'[p].rows = request[p].rows /\ request'[p].left = request[p].left
               /\ request'[p].overtaken = request[p].overtaken \cup (touched \cap Bearing(request[p]))
    <2>1. request'[p] = [request[p] EXCEPT !.overtaken =
                            request[p].overtaken \cup (touched \cap Bearing(request[p]))]
      BY DEF EndWriting
    <2> HIDE DEF EndWriting
    <2> QED
      BY <1>1, <2>1 DEF Handler
  <1>4. ASSUME NEW p \in Request PROVE Batched(request[p])'
    BY <1>2, <1>3 DEF Addressed, Batched, Users, Idle
  <1> QED
    BY <1>2, <1>3, <1>4 DEF EndWriting

(* A write of addresses overtakes everybody who has checked one. *)
LEMMA AddressWrites ==
  ASSUME IInv, Addressed, NEW r \in Request, EndWriting(r, {"address"}),
         "address" \notin raced' => Distinct'
  PROVE  Addressed'
  <1>0. {"address"} \in SUBSET Subject
    BY DEF Subject
  <1>1. ASSUME NEW p \in Request PROVE Checked(request[p])'
    <2>1. CASE p = r
      BY <1>0, <2>1, WritesLeave DEF Checked, Idle
    <2>2. CASE p # r
      <3>1. /\ request'[p].op = request[p].op /\ request'[p].at = request[p].at
            /\ "address" \in Bearing(request[p]) => "address" \in request'[p].overtaken
        BY <1>0, <2>2, WritesLeave
      <3>2. /\ request[p].op \in {"create", "register", "profile"} /\ request[p].at = "checked" =>
                  "address" \in Bearing(request[p])
            /\ request[p].op = "import" => "address" \in Bearing(request[p])
        BY DEF Bearing
      <3> QED
        BY <3>1, <3>2 DEF Checked
    <2> QED
      BY <2>1, <2>2
  <1> QED
    BY <1>0, <1>1, WritesLeave DEF Addressed

(* Any other write takes addresses at most away. *)
LEMMA AddressesLeft ==
  ASSUME IInv, Addressed, NEW r \in Request, NEW touched \in SUBSET Subject, EndWriting(r, touched),
         \A u \in User : account'[u].email \in {account[u].email, None}
  PROVE  Addressed'
  <1>1. ASSUME "address" \notin raced'
        PROVE  Distinct' /\ \A p \in Request : Checked(request[p])'
    <2>1. Distinct /\ \A p \in Request : Checked(request[p])
      BY <1>1, WritesLeave DEF Addressed
    <2>2. Distinct'
      BY <2>1 DEF Distinct
    <2>3. ASSUME NEW a, NEW u, Free(a, u) PROVE Free(a, u)'
      BY <2>3 DEF Free
    <2>4. ASSUME NEW p \in Request PROVE Checked(request[p])'
      <3>1. CASE p = r
        BY <3>1, WritesLeave DEF Checked, Idle
      <3>2. CASE p # r
        <4>1. /\ request'[p].op = request[p].op /\ request'[p].at = request[p].at
              /\ request'[p].user = request[p].user /\ request'[p].email = request[p].email
              /\ request'[p].rows = request[p].rows /\ request'[p].left = request[p].left
              /\ request[p].overtaken \subseteq request'[p].overtaken
          BY <3>2, WritesLeave
        <4> QED
          BY <2>1, <2>3, <4>1 DEF Checked
      <3> QED
        BY <3>1, <3>2
    <2> QED
      BY <2>2, <2>4
  <1> QED
    BY <1>1, WritesLeave DEF Addressed
-----------------------------------------------------------------------------
(* The steps, by what they do to addresses *)

(* Whoever finds an address available for an account finds it free of      *)
(* others.                                                                 *)
LEMMA AvailableIsFree ==
  ASSUME Distinct, NEW a, NEW u, NEW v \in {u, None}, EmailAvailable(a, v)
  PROVE  Free(a, u)
  BY AccountsAssumption DEF EmailAvailable, Distinct, Free

(* A handler that is about one account and has not checked its address, or *)
(* has none to check.                                                      *)
LEMMA Unaddressed ==
  ASSUME NEW q, q.op # "import", q.at # "checked" \/ q.op \notin {"create", "register", "profile"}
  PROVE  Batched(q) /\ Checked(q)
  BY DEF Batched, Checked

LEMMA AddressSteps ==
  ASSUME IInv, Addressed, NEW r \in Request
  PROVE  /\ \A actor, u \in User, a \in Address \cup {None},
               op \in {"disable", "enable", "delete", "create", "profile"} :
               RequireAdministrator(r, actor, op, u, a) => Addressed'
         /\ \A u \in User, a \in Address : Register(r, u, a) => Addressed'
         /\ \A u \in User : RequireActor(r, u) => Addressed'
         /\ FindUser(r) \/ CountActiveAdministrators(r) => Addressed'
         /\ DeleteUserWorkspaces(r) \/ DeleteUserAllowed(r) \/ ListWorkspacesForUser(r) => Addressed'
         /\ \A w \in Workspace : DeleteListedWorkspace(r, w) => Addressed'
         /\ Abandon(r) => Addressed'
  <1>0. request[r] \in Handler
    BY TypedMeans DEF IInv
  <1>1. ASSUME NEW actor \in User, NEW u \in User, NEW a \in Address \cup {None},
               NEW op \in {"disable", "enable", "delete", "create", "profile"},
               RequireAdministrator(r, actor, op, u, a)
        PROVE  Addressed'
    <2> DEFINE q == [Idle EXCEPT !.op = op, !.at = "allowed", !.user = u, !.email = a,
                                 !.actor = IF op = "delete" THEN actor ELSE None]
    <2>1. q.op # "import" /\ q.at # "checked"
      BY DEF Idle
    <2>2. request' = [request EXCEPT ![r] = q] /\ Unwritten
      BY <1>1 DEF RequireAdministrator, Begin
    <2> HIDE DEF q
    <2> QED
      BY <2>1, <2>2, Unaddressed, AddressMoves DEF Unwritten
  <1>3. ASSUME NEW u \in User, RequireActor(r, u) PROVE Addressed'
    <2> DEFINE q == [Idle EXCEPT !.op = "workspace", !.at = "allowed", !.user = u]
    <2>1. q.op # "import" /\ q.at # "checked"
      BY DEF Idle
    <2>2. request' = [request EXCEPT ![r] = q] /\ Unwritten
      BY <1>3 DEF RequireActor, Begin
    <2> HIDE DEF q
    <2> QED
      BY <2>1, <2>2, Unaddressed, AddressMoves DEF Unwritten
  <1>4. ASSUME NEW u \in User, NEW a \in Address, Register(r, u, a) PROVE Addressed'
    <2> DEFINE q == [Idle EXCEPT !.op = "register", !.at = "allowed", !.user = u, !.email = a]
    <2>1. q.op # "import" /\ q.at # "checked"
      BY DEF Idle
    <2>2. request' = [request EXCEPT ![r] = q] /\ Unwritten
      BY <1>4 DEF Register, Begin
    <2> HIDE DEF q
    <2> QED
      BY <2>1, <2>2, Unaddressed, AddressMoves DEF Unwritten
  <1>5. ASSUME NEW at \in Place, MoveTo(r, at), Unwritten,
               request[r].op \in {"disable", "enable", "delete"}
        PROVE  Addressed'
    <2> DEFINE q == [request[r] EXCEPT !.at = at]
    <2>1. q.op = request[r].op
      BY <1>0 DEF Handler
    <2>2. request' = [request EXCEPT ![r] = q]
      BY <1>5 DEF MoveTo
    <2> HIDE DEF q
    <2> QED
      BY <1>5, <2>1, <2>2, Unaddressed, AddressMoves DEF Unwritten
  <1>6. ASSUME FindUser(r) \/ CountActiveAdministrators(r) \/ DeleteUserAllowed(r)
               \/ ListWorkspacesForUser(r)
        PROVE  Addressed'
    BY <1>5, <1>6 DEF FindUser, CountActiveAdministrators, DeleteUserAllowed,
                      ListWorkspacesForUser, At, Place
  <1>7. ASSUME NEW at, NEW left, request[r].op = "delete",
               request' = [request EXCEPT ![r] = [request[r] EXCEPT !.at = at, !.left = left]],
               UNCHANGED <<account, raced>>
        PROVE  Addressed'
    <2> DEFINE q == [request[r] EXCEPT !.at = at, !.left = left]
    <2>1. q.op = "delete"
      BY <1>0, <1>7 DEF Handler
    <2> HIDE DEF q
    <2> QED
      BY <1>7, <2>1, Unaddressed, AddressMoves DEF q
  <1>8. ASSUME DeleteUserWorkspaces(r) PROVE Addressed'
    <2> DEFINE listed == {w \in Workspace : owner[w] = request[r].user}
    <2>1. /\ request[r].op = "delete" /\ Unwritten
          /\ request' = [request EXCEPT ![r] = [request[r] EXCEPT !.at = "cleanup", !.left = listed]]
      BY <1>0, <1>8, TypedMeans DEF DeleteUserWorkspaces, At, IInv, Handler
    <2> QED
      BY <1>7, <2>1 DEF Unwritten
  <1>9. ASSUME NEW w \in Workspace, DeleteListedWorkspace(r, w) PROVE Addressed'
    <2> DEFINE rest == request[r].left \ {w}
    <2>1. /\ request[r].op = "delete" /\ UNCHANGED <<account, raced>>
          /\ request' = [request EXCEPT ![r] = [request[r] EXCEPT !.at = request[r].at, !.left = rest]]
      BY <1>0, <1>9, TypedMeans DEF DeleteListedWorkspace, At, IInv, Handler
    <2> QED
      BY <1>7, <2>1
  <1>10. ASSUME Abandon(r) PROVE Addressed'
    <2>1. Batched(Idle) /\ Checked(Idle)
      BY DEF Batched, Checked, Idle
    <2> QED
      BY <1>10, <2>1, AddressMoves DEF Abandon, End, Unwritten
  <1> QED
    BY <1>1, <1>3, <1>4, <1>6, <1>8, <1>9, <1>10

LEMMA AddressChecks ==
  ASSUME IInv, Addressed, NEW r \in Request, PrepareUser(r) \/ CheckProfile(r)
  PROVE  Addressed'
  <1> DEFINE q == [request[r] EXCEPT !.at = "checked"]
             v == IF request[r].op = "profile" THEN request[r].user ELSE None
  <1>1. /\ request' = [request EXCEPT ![r] = q] /\ Unwritten
        /\ request[r].op \in {"create", "register", "profile"}
        /\ EmailAvailable(request[r].email, v)
    BY DEF PrepareUser, CheckProfile, MoveTo, At
  <1>2. /\ q.op = request[r].op /\ q.user = request[r].user /\ q.email = request[r].email
    BY TypedMeans DEF IInv, Handler
  <1> HIDE DEF q
  <1>3. Batched(q)
    BY <1>1, <1>2 DEF Batched
  <1>4. ASSUME "address" \notin raced PROVE Checked(q)
    <2>1. Distinct
      BY <1>4 DEF Addressed
    <2>2. Free(request[r].email, request[r].user)
      BY <1>1, <2>1, AvailableIsFree
    <2> QED
      BY <1>1, <1>2, <2>2 DEF Checked
  <1> QED
    BY <1>1, <1>3, <1>4, AddressMoves DEF Unwritten

LEMMA AccountWrites ==
  ASSUME IInv, Addressed, NEW r \in Request,
         \/ SetUserDisabled(r) \/ DeleteUser(r) \/ \E w \in Workspace : CreateWorkspace(r, w)
  PROVE  Addressed'
  <1>1. ASSUME SetUserDisabled(r) PROVE Addressed'
    <2>1. \A u \in User : account'[u].email = account[u].email
      BY <1>1, TypedMeans DEF SetUserDisabled, IInv, Account
    <2> QED
      BY <1>1, <2>1, AddressesLeft DEF SetUserDisabled, Subject
  <1>2. ASSUME DeleteUser(r) PROVE Addressed'
    <2>1. \A u \in User : account'[u].email \in {account[u].email, None}
      BY <1>2, TypedMeans DEF DeleteUser, IInv, Absent
    <2> QED
      BY <1>2, <2>1, AddressesLeft DEF DeleteUser
  <1>3. ASSUME NEW w \in Workspace, CreateWorkspace(r, w) PROVE Addressed'
    BY <1>3, AddressesLeft DEF CreateWorkspace, Subject
  <1> QED
    BY <1>1, <1>2, <1>3

(* One account gets an address that is free. *)
LEMMA OneAddressWritten ==
  ASSUME IInv, Addressed, NEW r \in Request,
         UpdateUserProfile(r) \/ \E role \in {"administrator", "user"} : CreateUser(r, role)
  PROVE  Addressed'
  <1> DEFINE u == request[r].user
             a == request[r].email
  <1>1. /\ EndWriting(r, {"address"}) /\ u \in User
        /\ request[r].op \in {"create", "register", "profile"} /\ request[r].at = "checked"
    BY TypedMeans DEF UpdateUserProfile, CreateUser, At, IInv, Bound
  <1>2. account'[u].email = a /\ \A v \in User \ {u} : account'[v].email = account[v].email
    BY <1>1, TypedMeans DEF UpdateUserProfile, CreateUser, IInv, Account
  <1>3. ASSUME "address" \notin raced' PROVE Distinct'
    <2>1. Distinct /\ Free(a, u)
      BY <1>1, <1>3, WritesLeave DEF Addressed, Checked, Subject
    <2> QED
      BY <1>1, <1>2, <2>1 DEF Distinct, Free
  <1> QED
    BY <1>1, <1>3, AddressWrites
-----------------------------------------------------------------------------
(* An import, row by row *)

LEMMA BatchBegins ==
  ASSUME IInv, Addressed, NEW r \in Request, NEW actor \in User, NEW batch \in Batches,
         BeginImport(r, actor, batch)
  PROVE  Addressed'
  <1> DEFINE users == DOMAIN batch
             rows == {[user |-> u, email |-> batch[u]] : u \in users}
             q == [Idle EXCEPT !.op = "import", !.at = "validate", !.left = users, !.rows = rows]
  <1>1. \A u, v \in users : batch[u] = batch[v] /\ u # v => batch[u] = None
    BY DEF Batches
  <1>2. IsFiniteSet(rows)
    <2> DEFINE f == [u \in users |-> [user |-> u, email |-> batch[u]]]
    <2>1. f \in Surjection(users, rows)
      BY DEF Surjection
    <2>2. IsFiniteSet(users)
      BY BatchRows, AccountsAssumption, FS_Subset
    <2> QED
      BY <2>1, <2>2, FS_Surjection
  <1>3. \A x, y \in rows : x # y => x.user # y.user /\ (x.email = y.email => x.email = None)
    BY <1>1
  <1>4. users = Users(rows)
    <2>1. ASSUME NEW u \in users PROVE u \in Users(rows)
      <3> DEFINE row == [user |-> u, email |-> batch[u]]
      <3>1. row \in rows /\ row.user = u
        OBVIOUS
      <3> QED
        BY <3>1 DEF Users
    <2>2. ASSUME NEW u \in Users(rows) PROVE u \in users
      BY DEF Users
    <2> QED
      BY <2>1, <2>2
  <1> HIDE DEF rows, users
  <1>5. q.op = "import" /\ q.at = "validate" /\ q.left = users /\ q.rows = rows
    BY DEF Idle
  <1>6. request' = [request EXCEPT ![r] = q] /\ Unwritten
    BY DEF BeginImport, Begin, rows, users
  <1> HIDE DEF q
  <1>7. Batched(q)
    BY <1>2, <1>3, <1>4, <1>5 DEF Batched
  <1>8. Checked(q)
    <2>1. \A row \in rows : row.user \in users
      BY <1>4 DEF Users
    <2> QED
      BY <1>5, <2>1 DEF Checked
  <1> QED
    BY <1>6, <1>7, <1>8, AddressMoves DEF Unwritten

LEMMA RowValidated ==
  ASSUME IInv, Addressed, NEW r \in Request, NEW row \in request[r].rows, ValidateRow(r, row)
  PROVE  Addressed'
  <1> DEFINE old == request[r]
             rest == old.left \ {row.user}
             first == Cardinality(old.left) = Cardinality(old.rows)
             overtaken == IF first THEN {} ELSE old.overtaken
             q == [old EXCEPT !.left = rest, !.overtaken = overtaken]
  <1>1. /\ old.op = "import" /\ old.at = "validate" /\ row.user \in old.left
        /\ EmailAvailable(row.email, Target(row.user)) /\ Unwritten
        /\ request' = [request EXCEPT ![r] = q]
    BY TypedMeans DEF ValidateRow, RowChecked, At, Handler, IInv
  <1>2. /\ q.op = "import" /\ q.at = "validate" /\ q.rows = old.rows /\ q.left = rest
        /\ q.overtaken = overtaken
    BY <1>1, TypedMeans DEF IInv, Handler
  <1> HIDE DEF q
  <1>3. /\ IsFiniteSet(old.rows) /\ old.left \subseteq Users(old.rows)
        /\ \A x, y \in old.rows : x # y => x.user # y.user /\ (x.email = y.email => x.email = None)
        /\ old.left = Users(old.rows) \/ Cardinality(old.left) < Cardinality(old.rows)
    BY <1>1 DEF Addressed, Batched
  <1>4. /\ IsFiniteSet(old.left) /\ Cardinality(old.left) \in Nat /\ Cardinality(old.rows) \in Nat
        /\ Cardinality(rest) = Cardinality(old.left) - 1
        /\ Cardinality(old.left) <= Cardinality(old.rows)
    <2>1. IsFiniteSet(Users(old.rows)) /\ Cardinality(Users(old.rows)) <= Cardinality(old.rows)
      BY <1>3, RowsOfUsers
    <2>2. IsFiniteSet(old.left)
      BY <1>3, <2>1, FS_Subset
    <2>3. Cardinality(old.left) \in Nat /\ Cardinality(old.rows) \in Nat
      BY <1>3, <2>2, FS_CardinalityType
    <2>4. Cardinality(rest) = Cardinality(old.left) - 1
      BY <1>1, <2>2, FS_RemoveElement
    <2> QED
      BY <1>3, <2>1, <2>2, <2>3, <2>4
  <1>5. Batched(q)
    <2>1. Cardinality(rest) < Cardinality(old.rows)
      BY <1>4
    <2>2. rest \subseteq Users(old.rows)
      BY <1>3
    <2> QED
      BY <1>2, <1>3, <2>1, <2>2 DEF Batched
  <1>6. ASSUME "address" \notin raced PROVE Checked(q)
    <2> SUFFICES ASSUME "address" \notin overtaken, NEW line \in old.rows, line.user \notin rest
                 PROVE  Free(line.email, line.user)
      BY <1>2 DEF Checked
    <2>1. Distinct /\ Checked(old)
      BY <1>6 DEF Addressed
    <2>2. CASE line.user = row.user
      <3>1. line = row
        BY <1>3, <2>2
      <3>2. Target(row.user) \in {row.user, None}
        BY DEF Target
      <3> QED
        BY <1>1, <2>1, <3>1, <3>2, AvailableIsFree
    <2>3. CASE line.user # row.user
      <3>1. line.user \notin old.left
        BY <2>3
      <3>2. old.left # Users(old.rows)
        BY <3>1 DEF Users
      <3>3. "address" \notin old.overtaken
        BY <1>3, <1>4, <3>2
      <3> QED
        BY <1>1, <2>1, <3>1, <3>3 DEF Checked
    <2> QED
      BY <2>2, <2>3
  <1> QED
    BY <1>1, <1>5, <1>6, AddressMoves DEF Unwritten

(* Once all rows are validated, what is left of them is of no account.     *)
LEMMA RowsPrepared ==
  ASSUME IInv, Addressed, NEW r \in Request,
         PrepareRows(r) \/ \E row \in request[r].rows : PrepareRow(r, row)
  PROVE  Addressed'
  <1> DEFINE old == request[r]
  <1>1. ASSUME NEW q, request' = [request EXCEPT ![r] = q], Unwritten, old.op = "import",
               q.op = "import", q.at = "prepare", q.rows = old.rows,
               q.overtaken = old.overtaken, old.at = "prepare" \/ (old.at = "validate" /\ old.left = {})
        PROVE  Addressed'
    <2>1. Batched(q)
      BY <1>1 DEF Addressed, Batched
    <2>2. "address" \notin raced => Checked(q)
      BY <1>1 DEF Addressed, Checked
    <2> QED
      BY <1>1, <2>1, <2>2, AddressMoves DEF Unwritten
  <1>2. CASE PrepareRows(r)
    <2> DEFINE users == {row.user : row \in old.rows}
               q == [old EXCEPT !.at = "prepare", !.left = users]
    <2>1. /\ request' = [request EXCEPT ![r] = q] /\ Unwritten /\ old.op = "import"
          /\ old.at = "validate" /\ old.left = {}
      BY <1>2, TypedMeans DEF PrepareRows, At, Handler, IInv
    <2>2. /\ q.op = "import" /\ q.at = "prepare" /\ q.rows = old.rows
          /\ q.overtaken = old.overtaken
      BY <2>1, TypedMeans DEF Handler, IInv
    <2> HIDE DEF q
    <2> QED
      BY <1>1, <2>1, <2>2
  <1>3. ASSUME NEW row \in old.rows, PrepareRow(r, row) PROVE Addressed'
    <2> DEFINE rest == old.left \ {row.user}
               found == old.found \cup {u \in {row.user} : Exists(u)}
               q == [old EXCEPT !.left = rest, !.found = found]
    <2>1. /\ request' = [request EXCEPT ![r] = q] /\ Unwritten /\ old.op = "import"
          /\ old.at = "prepare"
      BY <1>3, TypedMeans DEF PrepareRow, At, Handler, IInv
    <2> HIDE DEF rest, found
    <2>2. /\ q.op = "import" /\ q.at = "prepare" /\ q.rows = old.rows
          /\ q.overtaken = old.overtaken
      BY <2>1, TypedMeans DEF Handler, IInv
    <2> HIDE DEF q
    <2> QED
      BY <1>1, <2>1, <2>2
  <1> QED
    BY <1>2, <1>3

(* One transaction writes all rows: each address is free of the accounts   *)
(* outside the import, and none of its rows shares it.                     *)
LEMMA BatchWritten ==
  ASSUME IInv, Addressed, NEW r \in Request, ImportUsers(r)
  PROVE  Addressed'
  <1> DEFINE q == request[r]
             new == {row.user : row \in q.rows} \ q.found
             email(u) == (CHOOSE row \in q.rows : row.user = u).email
  <1>1. EndWriting(r, {"address"}) /\ q.op = "import" /\ q.at = "prepare"
    BY DEF ImportUsers, At
  <1>2. \A u \in User :
           account'[u].email = IF u \in new THEN email(u)
                               ELSE IF u \in q.found /\ email(u) # None THEN email(u)
                               ELSE account[u].email
    BY TypedMeans DEF ImportUsers, IInv, Account
  <1>3. \A u \in new \cup q.found : \E row \in q.rows : row.user = u /\ email(u) = row.email
    <2>1. Bound(q)
      BY TypedMeans DEF IInv
    <2>2. \A u \in new \cup q.found : \E row \in q.rows : row.user = u
      BY <2>1 DEF Bound
    <2> QED
      BY <2>2
  <1> HIDE DEF new, email
  <1>4. ASSUME "address" \notin raced' PROVE Distinct'
    <2>1. Distinct /\ \A row \in q.rows : Free(row.email, row.user)
      BY <1>1, <1>4, WritesLeave DEF Addressed, Checked, Subject
    <2>2. \A x, y \in q.rows : x # y /\ x.email = y.email => x.email = None
      BY <1>1 DEF Addressed, Batched
    <2>3. ASSUME NEW u \in User
          PROVE  \/ account'[u].email = account[u].email
                 \/ \E row \in q.rows : row.user = u /\ account'[u].email = row.email
      BY <1>2, <1>3
    <2> QED
      BY <2>1, <2>2, <2>3 DEF Distinct, Free
  <1> QED
    BY <1>1, <1>4, AddressWrites

LEMMA InitAddressed == Init => Addressed
  BY DEF Init, Addressed, Batched, Checked, Distinct, Idle

LEMMA NextAddressed ==
  ASSUME IInv, Addressed, [Next]_vars
  PROVE  Addressed'
  <1>1. CASE UNCHANGED vars
    BY <1>1 DEF vars, Addressed, Batched, Users, Checked, Distinct, Free
  <1>2. ASSUME NEW w \in Workspace, DeleteWorkspace(w) PROVE Addressed'
    BY <1>2 DEF DeleteWorkspace, Addressed, Batched, Users, Checked, Distinct, Free
  <1>3. CASE Next
    BY <1>2, <1>3, AddressSteps, AddressChecks, AccountWrites, OneAddressWritten, BatchBegins,
       RowValidated, RowsPrepared, BatchWritten DEF Next
  <1> QED
    BY <1>1, <1>3

(* An address belongs to one account (emailAvailable, UpdateUserProfile,   *)
(* ImportUsers), but for handlers that were overtaken.                     *)
THEOREM AddressesHaveOneAccount == Spec => []AddressesDistinct
  <1>1. Init => IInv /\ Addressed
    BY InitKeeps, InitAddressed
  <1>2. (IInv /\ Addressed) /\ [Next]_vars => (IInv /\ Addressed)'
    BY NextKeeps, NextAddressed
  <1>3. Addressed => AddressesDistinct
    BY DEF Addressed, Distinct, AddressesDistinct
  <1> QED
    BY <1>1, <1>2, <1>3, PTL DEF Spec
=============================================================================
