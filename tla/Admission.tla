----------------------------- MODULE Admission -----------------------------
(***************************************************************************)
(* Admission: what internal/workspace asks of internal/quota before it     *)
(* records or starts a workspace, and the host ports it reserves for the   *)
(* workspace's services.  Every operation that changes a workspace holds   *)
(* the admission mutex from its check to its last write; two things do     *)
(* not: reconciliation, which writes what an earlier inspection of the     *)
(* runtime saw, and an administrator's change of the limits.  The lock of  *)
(* the single workspace only adds waiting here (LifecycleLocks).           *)
(*                                                                         *)
(* CPU stands for both of the summed resources; a limit of zero means      *)
(* none.  A refusal for another reason - storage in use, unknown capacity, *)
(* a name that is taken, a failing statement - is Abandon.                 *)
(***************************************************************************)
EXTENDS FiniteSets, Functions, Integers, TLC

CONSTANTS
    User, Administrator,
    Groups,         \* the groups are 1..Groups, in the order of their identifiers
    Workspace, Service, Port,
    Request,        \* operations running at once, of handlers and of the loop
    Size,           \* CPU a workspace may ask for
    Quota,          \* quotas an administrator may assign
    Capacity, Host, \* what the host can be said to have, and has at first
    MaxLimit,       \* the largest limit there is
    MaxContainer,   \* bound: containers ever made for a workspace
    MaxChange,      \* bound: changes of the limits
    MaxReconcile,   \* bound: reconciliations at once
    None

ASSUME AdmissionAssumption ==
    /\ Administrator \subseteq User /\ Groups \in Nat
    /\ Quota \subseteq [cpu : 0..MaxLimit, workspaces : 0..MaxLimit]
    /\ Capacity \subseteq Nat \ {0} /\ Host \in Capacity
    /\ MaxLimit \in Nat \ {0} /\ MaxContainer \in Nat /\ MaxChange \in Nat /\ MaxReconcile \in Nat
    /\ IsFiniteSet(Workspace) /\ IsFiniteSet(Service) /\ IsFiniteSet(Port)
    /\ Size \subseteq 1..MaxLimit
    /\ None \notin User \cup Workspace \cup Port \cup Request /\ None \notin Quota

VARIABLES
    quota,      \* user_quotas and group_quotas
    capacity,   \* host capacity under the overbooking factor
    row,        \* workspaces
    port,       \* workspace_port_allocations
    container,  \* what Podman has for each workspace
    made,       \* containers made for each workspace
    admission,  \* the holder of the mutex
    task,       \* where each handler is, and what it read
    raised,     \* workspaces that reconciliation, not a start, last took to running
    changes

policy == <<quota, capacity, changes>>
world == <<row, port, container, made>>
vars == <<policy, world, admission, task, raised>>

Group == 1..Groups
State == {"unknown", "created", "running", "stopped", "removed", "failed", "missing"}
Unlimited == [cpu |-> 0, workspaces |-> 0]
NoRow == [owner |-> None, cpu |-> 0, state |-> "unknown", rid |-> 0]
NoPorts == [s \in Service |-> None]
NoContainer == [id |-> 0, state |-> "absent", port |-> NoPorts]
Idle == [op |-> "none", at |-> "done", ws |-> None, row |-> NoRow, limit |-> Unlimited,
         host |-> 0]

Row == [owner : User \cup {None}, cpu : 0..MaxLimit, state : State, rid : 0..MaxContainer]
Allocation == [Service -> Port \cup {None}]
Limits == [cpu : 0..MaxLimit, workspaces : 0..MaxLimit]
Step == {"done", "await", "check", "insert", "ports", "reserve", "unrecord", "create", "created",
         "boot", "booted", "act", "halted", "removed", "inspected", "write"}

TypeOK ==
    /\ quota \in [User \cup Group -> Quota \cup {None}]
    /\ capacity \in Capacity
    /\ row \in [Workspace -> Row]
    /\ port \in [Workspace -> Allocation]
    /\ container \in [Workspace -> [id : 0..MaxContainer, port : Allocation,
                                    state : {"absent", "created", "running", "exited"}]]
    /\ made \in [Workspace -> 0..MaxContainer]
    /\ admission \in Request \cup {None}
    /\ \A p \in Request : LET t == task[p] IN
          /\ t.op \in {"none", "create", "start", "stop", "delete", "timeout", "reconcile"}
          /\ t.at \in Step /\ t.ws \in Workspace \cup {None} /\ t.row \in Row
          /\ t.limit \in Limits /\ t.host \in Capacity \cup {0}
    /\ raised \subseteq Workspace
    /\ changes \in 0..MaxChange

Init ==
    /\ quota = [x \in User \cup Group |-> None]
    /\ capacity = Host
    /\ row = [w \in Workspace |-> NoRow]
    /\ port = [w \in Workspace |-> NoPorts]
    /\ container = [w \in Workspace |-> NoContainer]
    /\ made = [w \in Workspace |-> 0]
    /\ admission = None
    /\ task = [p \in Request |-> Idle]
    /\ raised = {} /\ changes = 0

Present(w) == row[w].owner # None
At(p, ops, at) == task[p].op \in ops /\ task[p].at = at
Goto(p, at) == task' = [task EXCEPT ![p].at = at]
Seen(p) == task[p].row

(* The handler returns; the deferred release gives the mutex back. *)
End(p) ==
    /\ task' = [task EXCEPT ![p] = Idle]
    /\ admission' = IF admission = p THEN None ELSE admission

(* UpdateWorkspaceObservedState; nothing when the row is gone. *)
Observe(w, state, rid) ==
    row' = IF Present(w) THEN [row EXCEPT ![w].state = state, ![w].rid = rid] ELSE row

-----------------------------------------------------------------------------
(* Limits *)

SumOver(f, S) == FoldFunctionOnSet(+, 0, f, S)

(* aggregateLimit: the groups are added in order, until one has no limit   *)
(* or the sum would pass the largest limit there is.                       *)
AggregateLimit(G, limit) ==
    LET Before(g) == SumOver(limit, {h \in G : h < g})
        Last == {g \in G : limit[g] = 0 \/ Before(g) > MaxLimit - limit[g]}
    IN  IF Last = {} THEN SumOver(limit, G)
        ELSE IF limit[CHOOSE g \in Last : \A h \in Last : g <= h] = 0 THEN 0 ELSE MaxLimit

Assigned == {g \in Group : quota[g] # None}

(* effectiveQuota of a user, who belongs to every group: the user's own    *)
(* quota, else what those of the groups come to.  None is ErrNotFound.     *)
EffectiveQuota(u) ==
    IF quota[u] # None THEN quota[u]
    ELSE IF Assigned = {} THEN None
    ELSE [cpu |-> AggregateLimit(Assigned, [g \in Assigned |-> quota[g].cpu]),
          workspaces |-> AggregateLimit(Assigned, [g \in Assigned |-> quota[g].workspaces])]

(* Without a quota an administrator has no limit, and others get nothing. *)
Entitled(u) == EffectiveQuota(u) # None \/ u \in Administrator
LimitOf(u) == IF EffectiveQuota(u) = None THEN Unlimited ELSE EffectiveQuota(u)

OwnedBy(u) == {w \in Workspace : row[w].owner = u}
Running == {w \in Workspace : row[w].state = "running"}

(* workspaceAllocations: only rows that say running count. *)
Allocated(S) == SumOver([w \in Workspace |-> row[w].cpu], S \cap Running)

Within(n, limit) == limit = 0 \/ n <= limit

(* SetHostSettings, or another capacity reported by the host. *)
SetCapacity(c) ==
    /\ changes < MaxChange /\ c \in Capacity \ {capacity}
    /\ capacity' = c /\ changes' = changes + 1
    /\ UNCHANGED <<quota, world, admission, task, raised>>

Assign(x, q) ==
    /\ changes < MaxChange /\ quota[x] # q
    /\ quota' = [quota EXCEPT ![x] = q] /\ changes' = changes + 1
    /\ UNCHANGED <<capacity, world, admission, task, raised>>

(* Set, or Unset when q is None; SetGroup and UnsetGroup. *)
SetQuota(u, q) == Assign(u, q)
SetGroupQuota(g, q) == Assign(g, q)

-----------------------------------------------------------------------------
(* A handler begins.  Create and start take the mutex, then read; stop,    *)
(* delete and the timeout pass have read the row by the time they wait for *)
(* it.  There is one loop.                                                 *)

(* A slip: admissions of one workspace exclude each other, no others. *)
AcquireForWorkspace(p, w) ==
    /\ \A q \in Request : task[q].at \in {"done", "await"} \/ task[q].ws # w
    /\ admission' = p

AcquireAdmission(p, w) == admission = None /\ admission' = p

BeginCreate(p, w, u, cpu) ==
    /\ task[p] = Idle /\ AcquireAdmission(p, w)
    /\ ~Present(w) /\ made[w] = 0 /\ \A q \in Request : task[q].ws # w
    /\ task' = [task EXCEPT ![p] = [Idle EXCEPT !.op = "create", !.at = "check", !.ws = w,
                       !.row = [NoRow EXCEPT !.owner = u, !.cpu = cpu]]]
    /\ UNCHANGED <<policy, world, raised>>

BeginStart(p, w) ==
    /\ task[p] = Idle /\ AcquireAdmission(p, w) /\ Present(w)
    /\ task' = [task EXCEPT ![p] = [Idle EXCEPT !.op = "start", !.at = "check", !.ws = w,
                                                !.row = row[w]]]
    /\ UNCHANGED <<policy, world, raised>>

(* What an operation does is settled by the row it has read; one that      *)
(* finds nothing to do leaves no trace here.                               *)
Due(op, r) ==
    \/ op = "stop" /\ r.rid # 0 /\ r.state \notin {"stopped", "missing"}
    \/ op = "timeout" /\ r.rid # 0 /\ r.state \in {"running", "stopped"}
    \/ op = "delete" /\ (r.rid = 0 \/ r.state # "running")

BeginChange(p, op, w) ==
    /\ task[p] = Idle /\ Present(w) /\ Due(op, row[w])
    /\ op = "timeout" => \A q \in Request : task[q].op # "timeout"
    /\ task' = [task EXCEPT ![p] = [Idle EXCEPT !.op = op, !.at = "await", !.ws = w,
                                                !.row = row[w]]]
    /\ UNCHANGED <<policy, world, admission, raised>>

ProceedToChange(p) ==
    /\ task[p].at = "await" /\ AcquireAdmission(p, task[p].ws)
    /\ Goto(p, "act")
    /\ UNCHANGED <<policy, world, raised>>

(* The client goes away, or a statement or Podman fails, and with it what  *)
(* the handler would have undone.  A wait for the mutex goes on.           *)
Abandon(p) ==
    /\ task[p].op # "none" /\ task[p].at # "await"
    /\ End(p)
    /\ UNCHANGED <<policy, world, raised>>

-----------------------------------------------------------------------------
(* CreateWorkspace *)

CheckCreate(p) ==
    LET u == Seen(p).owner  limit == LimitOf(u)  cpu == Seen(p).cpu IN
    /\ At(p, {"create"}, "check") /\ Entitled(u)
    /\ Within(Cardinality(OwnedBy(u)) + 1, limit.workspaces)
    /\ Within(Allocated(OwnedBy(u)) + cpu, limit.cpu)
    /\ Allocated(Workspace) + cpu <= capacity
    /\ task' = [task EXCEPT ![p].limit = limit, ![p].at = "insert"]
    /\ UNCHANGED <<policy, world, admission, raised>>

RecordWorkspace(p) ==
    LET w == task[p].ws IN
    /\ At(p, {"create"}, "insert")
    /\ row' = [row EXCEPT ![w] = Seen(p)]
    /\ Goto(p, "reserve")
    /\ UNCHANGED <<policy, port, container, made, admission, raised>>

Reserved == {port[w][s] : w \in Workspace, s \in Service} \ {None}
Unreserved(w) == {s \in Service : port[w][s] = None}

(* reserveWorkspacePorts: the insertion of a port drawn from the range,    *)
(* which UNIQUE (protocol, host_port) refuses when it is taken.            *)
ReservePort(p, n) ==
    LET w == task[p].ws IN
    /\ task[p].at = "reserve" /\ n \in Port \ Reserved
    /\ \E s \in Unreserved(w) : port' = [port EXCEPT ![w][s] = n]
    /\ UNCHANGED <<policy, row, container, made, admission, task, raised>>

AllReserved(p) ==
    /\ task[p].at = "reserve" /\ Unreserved(task[p].ws) = {}
    /\ IF task[p].op = "start" THEN Goto(p, "create") /\ UNCHANGED admission ELSE End(p)
    /\ UNCHANGED <<policy, world, raised>>

(* Every port drawn was taken; a port drawn twice counts twice. *)
PoolUnavailable(p) ==
    LET w == task[p].ws IN
    /\ task[p].at = "reserve" /\ Unreserved(w) # {} /\ Reserved # {}
    /\ port' = [port EXCEPT ![w] = NoPorts]
    /\ IF task[p].op = "create" THEN Goto(p, "unrecord") /\ UNCHANGED admission ELSE End(p)
    /\ UNCHANGED <<policy, row, container, made, raised>>

(* The row goes, and its ports with it (ON DELETE CASCADE). *)
DeleteRow(w) ==
    /\ row' = [row EXCEPT ![w] = NoRow]
    /\ port' = [port EXCEPT ![w] = NoPorts]
    /\ raised' = raised \ {w}

Unrecord(p) ==
    /\ At(p, {"create"}, "unrecord")
    /\ DeleteRow(task[p].ws) /\ End(p)
    /\ UNCHANGED <<policy, container, made>>

-----------------------------------------------------------------------------
(* StartWorkspace *)

NeedsContainer(r) == r.rid = 0 \/ r.state \in {"removed", "missing"}

CheckStart(p) ==
    LET u == Seen(p).owner  limit == LimitOf(u)  cpu == Seen(p).cpu IN
    /\ At(p, {"start"}, "check") /\ Seen(p).state # "running" /\ Entitled(u)
    /\ Within(Allocated(OwnedBy(u)) + cpu, limit.cpu)
    /\ Allocated(Workspace) + cpu <= capacity
    /\ task' = [task EXCEPT ![p].limit = limit, ![p].host = capacity,
                            ![p].at = IF NeedsContainer(Seen(p)) THEN "ports" ELSE "boot"]
    /\ UNCHANGED <<policy, world, admission, raised>>

(* A slip: the create has reserved them. *)
TrustReservedPorts(p) ==
    /\ At(p, {"start"}, "ports")
    /\ Goto(p, "create")
    /\ UNCHANGED <<policy, world, admission, raised>>

(* ensureWorkspacePorts: all over again unless every service has one. *)
EnsurePorts(p) ==
    LET w == task[p].ws  complete == Unreserved(w) = {} IN
    /\ At(p, {"start"}, "ports")
    /\ port' = IF complete THEN port ELSE [port EXCEPT ![w] = NoPorts]
    /\ Goto(p, IF complete THEN "create" ELSE "reserve")
    /\ UNCHANGED <<policy, row, container, made, admission, raised>>

(* The ports are read again: with one missing the start fails (Abandon).   *)
(* Podman refuses a second container of the workspace's name.              *)
CreateContainer(p) ==
    LET w == task[p].ws IN
    /\ At(p, {"start"}, "create") /\ Unreserved(w) = {}
    /\ container[w].id = 0 /\ made[w] < MaxContainer
    /\ made' = [made EXCEPT ![w] = @ + 1]
    /\ container' = [container EXCEPT ![w] = [id |-> made'[w], state |-> "created",
                                              port |-> port[w]]]
    /\ task' = [task EXCEPT ![p].at = "created", ![p].row.rid = made'[w]]
    /\ UNCHANGED <<policy, row, port, admission, raised>>

(* CreateWorkspace failed: the row forgets the runtime ID it had. *)
CreateRefused(p) ==
    /\ At(p, {"start"}, "create")
    /\ Observe(task[p].ws, "failed", 0) /\ raised' = raised \ {task[p].ws} /\ End(p)
    /\ UNCHANGED <<policy, port, container, made>>

RecordCreated(p) ==
    /\ At(p, {"start"}, "created")
    /\ Observe(task[p].ws, "created", Seen(p).rid) /\ raised' = raised \ {task[p].ws}
    /\ Goto(p, "boot")
    /\ UNCHANGED <<policy, port, container, made, admission>>

(* A host port serves one running container. *)
Published(w) == {container[w].port[s] : s \in Service}
StartContainer(p) ==
    LET w == task[p].ws IN
    /\ At(p, {"start"}, "boot")
    /\ container[w].id # 0 /\ container[w].id = Seen(p).rid
    /\ \A v \in Workspace \ {w} :
          container[v].state = "running" => Published(v) \cap Published(w) = {}
    /\ container' = [container EXCEPT ![w].state = "running"]
    /\ Goto(p, "booted")
    /\ UNCHANGED <<policy, row, port, made, admission, raised>>

StartRefused(p) ==
    /\ At(p, {"start"}, "boot")
    /\ Observe(task[p].ws, "created", Seen(p).rid) /\ raised' = raised \ {task[p].ws} /\ End(p)
    /\ UNCHANGED <<policy, port, container, made>>

RecordRunning(p) ==
    LET w == task[p].ws IN
    /\ At(p, {"start"}, "booted")
    /\ Observe(w, "running", Seen(p).rid) /\ raised' = raised \ {w} /\ End(p)
    /\ UNCHANGED <<policy, port, container, made>>

-----------------------------------------------------------------------------
(* StopWorkspace, DeleteWorkspace and a workspace's turn in RunTimeouts.   *)

StopContainer(p) ==
    LET w == task[p].ws IN
    /\ task[p].at = "act"
    /\ \/ task[p].op = "stop"
       \/ task[p].op = "timeout" /\ Seen(p).state = "running"
    /\ container[w].id = Seen(p).rid
    /\ container' = [container EXCEPT ![w].state = IF @ = "running" THEN "exited" ELSE @]
    /\ Goto(p, "halted")
    /\ UNCHANGED <<policy, row, port, made, admission, raised>>

RecordStopped(p) ==
    /\ task[p].at = "halted"
    /\ Observe(task[p].ws, "stopped", Seen(p).rid) /\ raised' = raised \ {task[p].ws} /\ End(p)
    /\ UNCHANGED <<policy, port, container, made>>

(* Not forced: Podman refuses a running container.  One that is not there  *)
(* counts as removed.                                                      *)
RemoveContainer(p) ==
    LET w == task[p].ws IN
    /\ task[p].at = "act" /\ Seen(p).rid # 0
    /\ \/ task[p].op = "delete" /\ Seen(p).state \notin {"running", "removed", "missing"}
       \/ task[p].op = "timeout" /\ Seen(p).state = "stopped"
    /\ IF container[w].id = Seen(p).rid
          THEN container[w].state # "running" /\ container' = [container EXCEPT ![w] = NoContainer]
          ELSE UNCHANGED container
    /\ Goto(p, "removed")
    /\ UNCHANGED <<policy, row, port, made, admission, raised>>

NothingToRemove(p) ==
    /\ At(p, {"delete"}, "act")
    /\ Seen(p).rid = 0 \/ Seen(p).state \in {"removed", "missing"}
    /\ Goto(p, "removed")
    /\ UNCHANGED <<policy, world, admission, raised>>

(* The storage it leaves behind is RetainedStorage's. *)
ForgetWorkspace(p) ==
    /\ At(p, {"delete"}, "removed")
    /\ DeleteRow(task[p].ws) /\ End(p)
    /\ UNCHANGED <<policy, container, made>>

(* The ports, then the row; an error in one is remembered and the other    *)
(* written all the same.                                                   *)
RecordRemoved(p) ==
    LET w == task[p].ws IN
    /\ At(p, {"timeout"}, "removed")
    /\ port' \in {port, [port EXCEPT ![w] = NoPorts]}
    /\ \/ Observe(w, "removed", Seen(p).rid) /\ raised' = raised \ {w}
       \/ UNCHANGED <<row, raised>>
    /\ End(p)
    /\ UNCHANGED <<policy, container, made>>

-----------------------------------------------------------------------------
(* Reconcile, by the loop and by a handler that disables an account.  The  *)
(* runtime is inspected, the rows are listed, each row is written; what is *)
(* written of one does not depend on the others, so w is one row's turn.   *)

(* A slip: what Podman says is written as it stands. *)
KeepObservedState(state) == state

NormalizeObservedState(state) == IF state = "exited" THEN "stopped" ELSE state

Inspect(p, w) ==
    /\ task[p] = Idle
    /\ Cardinality({q \in Request : task[q].op = "reconcile"}) < MaxReconcile
    /\ task' = [task EXCEPT ![p] = [Idle EXCEPT !.op = "reconcile", !.at = "inspected", !.ws = w,
          !.row = IF container[w].id = 0 THEN NoRow
                  ELSE [NoRow EXCEPT !.rid = container[w].id,
                                     !.state = NormalizeObservedState(container[w].state)]]]
    /\ UNCHANGED <<policy, world, admission, raised>>

ListRows(p) ==
    LET w == task[p].ws IN
    /\ At(p, {"reconcile"}, "inspected") /\ Present(w)
    /\ Seen(p).rid = 0 => row[w].rid # 0 /\ row[w].state # "removed"
    /\ task' = [task EXCEPT ![p].at = "write",
          ![p].row = IF @.rid # 0 THEN @ ELSE [NoRow EXCEPT !.rid = row[w].rid, !.state = "missing"]]
    /\ UNCHANGED <<policy, world, admission, raised>>

RecordObserved(p) ==
    LET w == task[p].ws IN
    /\ At(p, {"reconcile"}, "write")
    /\ Observe(w, Seen(p).state, Seen(p).rid)
    /\ raised' = IF Seen(p).state # "running" \/ ~Present(w) THEN raised \ {w}
                 ELSE IF row[w].state = "running" THEN raised ELSE raised \cup {w}
    /\ End(p)
    /\ UNCHANGED <<policy, port, container, made>>

(* The container's own program ends. *)
ContainerExits(w) ==
    /\ container[w].state = "running"
    /\ container' = [container EXCEPT ![w].state = "exited"]
    /\ UNCHANGED <<policy, row, port, made, admission, task, raised>>

-----------------------------------------------------------------------------

Create(p) ==
    \/ \E w \in Workspace, u \in User, cpu \in Size : BeginCreate(p, w, u, cpu)
    \/ CheckCreate(p) \/ RecordWorkspace(p) \/ Unrecord(p)

Ports(p) == (\E n \in Port : ReservePort(p, n)) \/ AllReserved(p) \/ PoolUnavailable(p)

Start(p) ==
    \/ \E w \in Workspace : BeginStart(p, w)
    \/ CheckStart(p) \/ EnsurePorts(p)
    \/ CreateContainer(p) \/ CreateRefused(p) \/ RecordCreated(p)
    \/ StartContainer(p) \/ StartRefused(p) \/ RecordRunning(p)

Change(p) ==
    \/ \E w \in Workspace, op \in {"stop", "delete", "timeout"} : BeginChange(p, op, w)
    \/ ProceedToChange(p)
    \/ StopContainer(p) \/ RecordStopped(p) \/ RemoveContainer(p) \/ NothingToRemove(p)
    \/ ForgetWorkspace(p) \/ RecordRemoved(p)

Reconcile(p) ==
    \/ \E w \in Workspace : Inspect(p, w)
    \/ ListRows(p) \/ RecordObserved(p)

Next ==
    \/ \E p \in Request : \/ Abandon(p) \/ Create(p) \/ Ports(p)
                       \/ Start(p) \/ Change(p) \/ Reconcile(p)
    \/ \E w \in Workspace : ContainerExits(w)
    \/ \E u \in User, q \in Quota \cup {None} : SetQuota(u, q)
    \/ \E g \in Group, q \in Quota \cup {None} : SetGroupQuota(g, q)
    \/ \E c \in Capacity : SetCapacity(c)

Spec == Init /\ [][Next]_vars

-----------------------------------------------------------------------------

(* When a start has recorded a workspace as running, what COWS itself let  *)
(* run is within the limits that start was checked against, those of the   *)
(* user and those of the host; when a create has recorded one, the user's  *)
(* rows are.  So it is however starts, reconciliation and changes of the   *)
(* limits interleave - but for rows that reconciliation took to running,   *)
(* since that is what the runtime shows.                                   *)
AdmittedWithinLimits == [][\A p \in Request, u \in User :
    LET limit == task[p].limit IN
    Seen(p).owner = u =>
       /\ task[p].at = "booted" /\ task'[p].at = "done" =>
             /\ Within(Allocated(OwnedBy(u) \ raised)', limit.cpu)
             /\ Allocated(Workspace \ raised)' <= task[p].host
       /\ task[p].at = "insert" /\ task'[p].at = "reserve" =>
             Within(Cardinality(OwnedBy(u))', limit.workspaces)]_vars

(* A start that is about to make the container finds a port reserved for   *)
(* every service, so that configuration.go:284 never refuses it: also      *)
(* after a create that left off between two reservations, after a timeout  *)
(* that gave the ports back, and whatever others do in between.            *)
StartsFindTheirPorts ==
    \A p \in Request : At(p, {"start"}, "create") => Unreserved(task[p].ws) = {}

(* A workspace's container publishes the ports its row has reserved, which *)
(* nobody else can then have: "released when timeout cleanup deletes its   *)
(* container", says docs/decisions/0007-template-runtime-configuration.md. *)
PublishedPortsReserved ==
    \A w \in Workspace : container[w].id # 0 /\ Present(w) => container[w].port = port[w]

(* A group's zero limit lifts the limit of its members, whatever the other *)
(* groups have: "a zero limit makes that resource unlimited in the         *)
(* combined result", says                                                  *)
(* docs/decisions/0013-group-quotas-and-administrator-views.md.            *)
ZeroIsUnlimited ==
    \A u \in User : \A g \in Assigned :
       quota[u] = None /\ quota[g].cpu = 0 => EffectiveQuota(u).cpu = 0

Alike == Permutations(Workspace) \cup Permutations(Port) \cup Permutations(Request)
            \cup Permutations(Service)

SmallQuotas == {[cpu |-> 1, workspaces |-> 0], [cpu |-> 0, workspaces |-> 1]}
============================================================================
