------------------------- MODULE WorkspaceLifecycle -------------------------
(***************************************************************************)
(* The lifecycle of workspaces in internal/workspace/workspace.go: start,  *)
(* stop, explicit delete, file access, the reconciliation pass and the     *)
(* timeout pass, step by step between the SQLite statements and the Podman *)
(* calls they make.  Every statement is atomic (one connection), and so is *)
(* every Podman call; anything may happen between two of them.             *)
(*                                                                         *)
(* A row keeps only the columns another operation reads back; desired      *)
(* state, operation status, error texts and audit are left out, and        *)
(* durations are a choice: a deadline has passed, or it has not.           *)
(***************************************************************************)
EXTENDS Naturals

CONSTANTS
    Request, Loop, Workspace, Free,     \* as in LifecycleLocks
    Absent,         \* the row of a deleted workspace
    MaxContainer    \* bound: containers ever made for one workspace

(* Reconcile writes "stopped" for an exited container, so no row ever says *)
(* "exited".                                                               *)
Observed == {"unknown", "created", "running", "stopped", "failed", "removed", "missing"}

RuntimeID == 0..MaxContainer    \* 0 is the empty runtime_id

(* stopped and removed: stopped_at and container_deleted_at are set. *)
Row == [observed : Observed, rid : RuntimeID, stopped : BOOLEAN, removed : BOOLEAN]

ASSUME LifecycleAssumption ==
    /\ Loop \notin Request /\ Free \notin Request \cup {Loop} /\ Workspace # {}
    /\ MaxContainer \in Nat \ {0} /\ Absent \notin Row

VARIABLES
    row,        \* row[w]: the workspaces table
    container,  \* container[w]: the Podman container named "cows-" + w
    made,       \* made[w]: containers Podman has made for w; the last one's ID
    files,      \* files[w]: which data of w is on disk
    tombs,      \* tombs[w]: the retained_workspace_* records of w
    admission, wlock,
    task        \* task[p]: the call goroutine p is in

vars == <<row, container, made, files, tombs, admission, wlock, task>>
world == <<row, container, made, files, tombs>>
locks == <<admission, wlock>>

Proc == Request \cup {Loop}

NoContainer == [id |-> 0, state |-> "none"]
Container ==
    {NoContainer} \cup [id : RuntimeID \ {0}, state : {"created", "running", "exited"}]

(* The mount directories under the mount root and under the archive root,  *)
(* and the named volumes, which Podman makes with the first container.     *)
Data == {"live", "archived", "volume"}
Tombstone == {"directory", "volume"}

Kind == {"none", "start", "stop", "delete", "file", "reconcile", "timeout"}

StartSteps == {"load", "checkStart", "prepare", "create", "createFailed", "created",
               "boot", "bootFailed", "booted", "ran"}
StopSteps == {"checkStop", "halt", "halted", "haltTime"}
DeleteSteps == {"checkDelete", "remove", "archive", "forget"}
FileSteps == {"open", "transfer"}
TimeoutSteps == {"expire", "removed", "removalTime"}
PassSteps == {"listRows", "reconcile", "times", "listTimeouts", "nextTimeout"}
LockSteps == {"idle", "awaitAdmission", "awaitWorkspace", "return", "unwind"}
WorkSteps ==
    (StartSteps \ {"load"}) \cup StopSteps \cup DeleteSteps \cup FileSteps \cup TimeoutSteps

(* seen is what the call has read of the table and found what it has read  *)
(* of Podman; todo are the rows its loop has still to visit.               *)
Task == [kind : Kind, ws : Workspace,
         step : WorkSteps \cup LockSteps \cup PassSteps \cup {"load"},
         seen : [Workspace -> Row \cup {Absent}], found : [Workspace -> Container],
         todo : SUBSET Workspace]

Resting == [kind |-> "none", ws |-> CHOOSE w \in Workspace : TRUE, step |-> "idle",
            seen |-> [w \in Workspace |-> Absent],
            found |-> [w \in Workspace |-> NoContainer], todo |-> {}]

TypeOK ==
    /\ row \in [Workspace -> Row \cup {Absent}]
    /\ container \in [Workspace -> Container]
    /\ made \in [Workspace -> RuntimeID]
    /\ files \in [Workspace -> SUBSET Data]
    /\ tombs \in [Workspace -> SUBSET Tombstone]
    /\ admission \in Proc \cup {Free}
    /\ wlock \in [Workspace -> Proc \cup {Free}]
    /\ task \in [Proc -> Task]

-----------------------------------------------------------------------------

At(p, step) == task[p].step = step
Ws(p) == task[p].ws
Seen(p) == task[p].seen[task[p].ws]
Present(w) == row[w] # Absent

(* An operation that returns has no more use for what it has read. *)
Goto(p, step) ==
    task' = [task EXCEPT ![p].step = step,
                         ![p].seen[Ws(p)] = IF step \in {"return", "unwind"} THEN Absent ELSE @]
Rest(p) == task' = [task EXCEPT ![p] = Resting]

(* A call is answered with an error before it had any effect, and the      *)
(* operation returns.                                                      *)
Fail(p) == Goto(p, "return") /\ UNCHANGED <<world, locks>>

(* A workspace as CreateWorkspace leaves it: directories made, never run.  *)
Init ==
    /\ row = [w \in Workspace |->
                [observed |-> "unknown", rid |-> 0, stopped |-> FALSE, removed |-> FALSE]]
    /\ container = [w \in Workspace |-> NoContainer]
    /\ made = [w \in Workspace |-> 0]
    /\ files = [w \in Workspace |-> {"live"}]
    /\ tombs = [w \in Workspace |-> {}]
    /\ admission = Free
    /\ wlock = [w \in Workspace |-> Free]
    /\ task = [p \in Proc |-> Resting]

(* UpdateWorkspaceObservedState: nothing when the row is gone. *)
SetObserved(w, observed, rid) ==
    row' = IF Present(w) THEN [row EXCEPT ![w].observed = observed, ![w].rid = rid] ELSE row

(* UpdateWorkspaceLifecycle, which always writes both times. *)
SetTimes(w, stopped, removed) ==
    row' = IF Present(w) THEN [row EXCEPT ![w].stopped = stopped, ![w].removed = removed]
                         ELSE row

-----------------------------------------------------------------------------
(* Locks.  Stop and delete read the row before they wait for anything;     *)
(* start reads it once it holds admission.                                 *)

BeginStart(p, w) ==
    /\ p \in Request /\ At(p, "idle")
    /\ task' = [task EXCEPT ![p].kind = "start", ![p].ws = w, ![p].step = "awaitAdmission"]
    /\ UNCHANGED <<world, locks>>

BeginChange(p, k, w) ==
    /\ p \in Request /\ At(p, "idle") /\ k \in {"stop", "delete"}
    /\ Present(w)
    /\ task' = [task EXCEPT ![p].kind = k, ![p].ws = w, ![p].step = "awaitWorkspace",
                            ![p].seen[w] = row[w]]
    /\ UNCHANGED <<world, locks>>

BeginFileAccess(p, w) ==
    /\ p \in Request /\ At(p, "idle")
    /\ task' = [task EXCEPT ![p].kind = "file", ![p].ws = w, ![p].step = "awaitWorkspace"]
    /\ UNCHANGED <<world, locks>>

AcquireAdmission(p) ==
    /\ At(p, "awaitAdmission") /\ admission = Free
    /\ admission' = p
    /\ Goto(p, CASE task[p].kind = "start" -> "load"
                 [] task[p].kind = "stop" -> "checkStop"
                 [] task[p].kind = "delete" -> "checkDelete"
                 [] task[p].kind = "timeout" -> "expire")
    /\ UNCHANGED <<world, wlock>>

AcquireWorkspace(p) ==
    /\ At(p, "awaitWorkspace") /\ wlock[Ws(p)] = Free
    /\ wlock' = [wlock EXCEPT ![Ws(p)] = p]
    /\ Goto(p, CASE task[p].kind = "start" -> "checkStart"
                 [] task[p].kind = "file" -> "open"
                 [] OTHER -> "awaitAdmission")
    /\ UNCHANGED <<world, admission>>

(* The client goes away while its request waits for the semaphore. *)
GiveUp(p) ==
    /\ p \in Request /\ At(p, "awaitWorkspace")
    /\ IF task[p].kind = "start" THEN Goto(p, "unwind") ELSE Rest(p)
    /\ UNCHANGED <<world, locks>>

(* The client goes away while its request works: its context ends, every   *)
(* statement and Podman call after that fails, the deferred releases run.  *)
Abandon(p) ==
    /\ p \in Request
    /\ \/ task[p].step \in WorkSteps /\ Goto(p, "return")
       \/ At(p, "load") /\ Goto(p, "unwind")
       \/ task[p].step \in PassSteps /\ Rest(p)
    /\ UNCHANGED <<world, locks>>

(* The deferred releases, last in first out. *)
Return(p) ==
    /\ At(p, "return")
    /\ CASE task[p].kind = "start" ->
              wlock' = [wlock EXCEPT ![Ws(p)] = Free] /\ Goto(p, "unwind") /\ UNCHANGED admission
         [] task[p].kind = "file" ->
              wlock' = [wlock EXCEPT ![Ws(p)] = Free] /\ Rest(p) /\ UNCHANGED admission
         [] OTHER -> admission' = Free /\ Goto(p, "unwind") /\ UNCHANGED wlock
    /\ UNCHANGED world

(* A slip: a timeout that went wrong leaves its semaphore taken. *)
UnwindKeepingTimeoutLock(p) ==
    /\ At(p, "unwind")
    /\ CASE task[p].kind = "start" -> admission' = Free /\ UNCHANGED wlock
         [] task[p].kind = "timeout" -> UNCHANGED locks
         [] OTHER -> wlock' = [wlock EXCEPT ![Ws(p)] = Free] /\ UNCHANGED admission
    /\ IF task[p].todo = {} THEN Rest(p) ELSE Goto(p, "nextTimeout")
    /\ UNCHANGED world

(* The pass goes on with its next row, a request is over. *)
Unwind(p) ==
    /\ At(p, "unwind")
    /\ IF task[p].kind = "start"
          THEN admission' = Free /\ UNCHANGED wlock
          ELSE wlock' = [wlock EXCEPT ![Ws(p)] = Free] /\ UNCHANGED admission
    /\ IF task[p].todo = {} THEN Rest(p) ELSE Goto(p, "nextTimeout")
    /\ UNCHANGED world

-----------------------------------------------------------------------------
(* StartWorkspace *)

LoadRow(p) ==
    /\ At(p, "load")
    /\ task' = [task EXCEPT ![p].seen[Ws(p)] = row[Ws(p)],
                            ![p].step = IF Present(Ws(p)) THEN "awaitWorkspace" ELSE "unwind"]
    /\ UNCHANGED <<world, locks>>

NeedsContainer(r) == r.rid = 0 \/ r.observed \in {"removed", "missing"}

(* CheckStart may refuse a workspace that does not run; the two statements *)
(* that follow fail when the row is gone.                                  *)
CheckStart(p) ==
    /\ At(p, "checkStart")
    /\ \/ (Seen(p).observed # "running" \/ ~Present(Ws(p))) /\ Goto(p, "return")
       \/ /\ Present(Ws(p))
          /\ Goto(p, CASE Seen(p).observed = "running" -> "return"
                       [] NeedsContainer(Seen(p)) -> "prepare"
                       [] OTHER -> "boot")
    /\ UNCHANGED <<world, locks>>

(* Ports, directories, network and the specification; an error before the  *)
(* directories are made is PrepareFailed, one after it is Abandon.         *)
PrepareStorage(p) ==
    /\ At(p, "prepare")
    /\ files' = [files EXCEPT ![Ws(p)] = @ \cup {"live"}]
    /\ Goto(p, "create")
    /\ UNCHANGED <<row, container, made, tombs, locks>>

PrepareFailed(p) == At(p, "prepare") /\ Fail(p)

(* Podman refuses a second container of the same name, and may refuse for  *)
(* other reasons.  An answer may come too late to be read.                 *)
CreateContainer(p, answered) ==
    /\ At(p, "create")
    /\ container[Ws(p)] = NoContainer /\ made[Ws(p)] < MaxContainer
    /\ made' = [made EXCEPT ![Ws(p)] = @ + 1]
    /\ container' = [container EXCEPT ![Ws(p)] = [id |-> made'[Ws(p)], state |-> "created"]]
    /\ files' = [files EXCEPT ![Ws(p)] = @ \cup {"volume"}]
    /\ IF answered
          THEN task' = [task EXCEPT ![p].step = "created",
                                    ![p].seen[Ws(p)].rid = made'[Ws(p)]]
          ELSE Goto(p, "createFailed")
    /\ UNCHANGED <<row, tombs, locks>>

CreateRefused(p) ==
    /\ At(p, "create")
    /\ Goto(p, "createFailed")
    /\ UNCHANGED <<world, locks>>

(* The row forgets the runtime ID it had. *)
RecordCreateFailure(p) ==
    /\ At(p, "createFailed")
    /\ SetObserved(Ws(p), "failed", 0)
    /\ Goto(p, "return")
    /\ UNCHANGED <<container, made, files, tombs, locks>>

RecordCreated(p) ==
    /\ At(p, "created")
    /\ SetObserved(Ws(p), "created", Seen(p).rid)
    /\ Goto(p, IF Present(Ws(p)) THEN "boot" ELSE "return")
    /\ UNCHANGED <<container, made, files, tombs, locks>>

StartContainer(p, answered) ==
    /\ At(p, "boot")
    /\ container[Ws(p)] # NoContainer /\ container[Ws(p)].id = Seen(p).rid
    /\ container' = [container EXCEPT ![Ws(p)].state = "running"]
    /\ Goto(p, IF answered THEN "booted" ELSE "bootFailed")
    /\ UNCHANGED <<row, made, files, tombs, locks>>

StartRefused(p) ==
    /\ At(p, "boot")
    /\ Goto(p, "bootFailed")
    /\ UNCHANGED <<world, locks>>

(* A slip: forgets the container as RecordCreateFailure does. *)
RecordStartFailureForgetting(p) ==
    /\ At(p, "bootFailed")
    /\ SetObserved(Ws(p), "created", 0)
    /\ Goto(p, "return")
    /\ UNCHANGED <<container, made, files, tombs, locks>>

RecordStartFailure(p) ==
    /\ At(p, "bootFailed")
    /\ SetObserved(Ws(p), "created", Seen(p).rid)
    /\ Goto(p, "return")
    /\ UNCHANGED <<container, made, files, tombs, locks>>

RecordRunning(p) ==
    /\ At(p, "booted")
    /\ SetObserved(Ws(p), "running", Seen(p).rid)
    /\ Goto(p, IF Present(Ws(p)) THEN "ran" ELSE "return")
    /\ UNCHANGED <<container, made, files, tombs, locks>>

(* container_deleted_at is written back as it was read. *)
RecordStartTimes(p) ==
    /\ At(p, "ran")
    /\ SetTimes(Ws(p), FALSE, Seen(p).removed)
    /\ Goto(p, "return")
    /\ UNCHANGED <<container, made, files, tombs, locks>>

Start(p) ==
    \/ LoadRow(p) \/ CheckStart(p) \/ PrepareStorage(p) \/ PrepareFailed(p)
    \/ CreateContainer(p, TRUE) \/ CreateRefused(p) \/ RecordCreateFailure(p) \/ RecordCreated(p)
    \/ StartContainer(p, TRUE) \/ StartRefused(p) \/ RecordStartFailure(p)
    \/ RecordRunning(p) \/ RecordStartTimes(p)

-----------------------------------------------------------------------------
(* StopWorkspace; the timeout pass stops a workspace by the same steps.    *)

CheckStop(p) ==
    /\ At(p, "checkStop")
    /\ Goto(p, IF \/ ~Present(Ws(p))
                  \/ Seen(p).rid = 0
                  \/ Seen(p).observed \in {"stopped", "missing"}
               THEN "return" ELSE "halt")
    /\ UNCHANGED <<world, locks>>

(* A container that does not run is left as it is (304). *)
StopContainer(p, answered) ==
    /\ At(p, "halt")
    /\ container[Ws(p)].id = Seen(p).rid
    /\ container' = IF container[Ws(p)].state = "running"
                       THEN [container EXCEPT ![Ws(p)].state = "exited"] ELSE container
    /\ Goto(p, IF answered THEN "halted" ELSE "return")
    /\ UNCHANGED <<row, made, files, tombs, locks>>

(* The container is not there (404), or Podman refuses. *)
StopRefused(p) == At(p, "halt") /\ Fail(p)

RecordStopped(p) ==
    /\ At(p, "halted")
    /\ SetObserved(Ws(p), "stopped", Seen(p).rid)
    /\ Goto(p, IF Present(Ws(p)) THEN "haltTime" ELSE "return")
    /\ UNCHANGED <<container, made, files, tombs, locks>>

RecordStopTime(p) ==
    /\ At(p, "haltTime")
    /\ SetTimes(Ws(p), TRUE, Seen(p).removed)
    /\ Goto(p, "return")
    /\ UNCHANGED <<container, made, files, tombs, locks>>

Stop(p) ==
    \/ CheckStop(p) \/ StopContainer(p, TRUE) \/ StopRefused(p)
    \/ RecordStopped(p) \/ RecordStopTime(p)

-----------------------------------------------------------------------------
(* DeleteWorkspace *)

(* A workspace that never had a container, as far as the row that was read *)
(* says, skips the runtime and the operation record.                       *)
CheckDelete(p) ==
    /\ At(p, "checkDelete")
    /\ Goto(p, CASE Seen(p).rid = 0 -> "archive"
                 [] Seen(p).observed = "running" \/ ~Present(Ws(p)) -> "return"
                 [] Seen(p).observed \in {"removed", "missing"} -> "archive"
                 [] OTHER -> "remove")
    /\ UNCHANGED <<world, locks>>

AfterRemoval(p) == IF task[p].kind = "delete" THEN "archive" ELSE "removed"

(* RemoveWorkspace is not forced: Podman refuses a running container (409). *)
RemoveContainer(p, answered) ==
    /\ At(p, "remove")
    /\ container[Ws(p)].id = Seen(p).rid /\ container[Ws(p)].state # "running"
    /\ container' = [container EXCEPT ![Ws(p)] = NoContainer]
    /\ Goto(p, IF answered THEN AfterRemoval(p) ELSE "return")
    /\ UNCHANGED <<row, made, files, tombs, locks>>

(* ErrNotFound counts as removed. *)
ContainerNotFound(p) ==
    /\ At(p, "remove")
    /\ container[Ws(p)].id # Seen(p).rid
    /\ Goto(p, AfterRemoval(p))
    /\ UNCHANGED <<world, locks>>

RemoveRefused(p) == At(p, "remove") /\ Fail(p)

(* A slip: an archive that is already there is taken for this one's. *)
ArchiveDirectoriesOnce(p) ==
    /\ At(p, "archive")
    /\ files' = IF "archived" \in files[Ws(p)] \/ "live" \notin files[Ws(p)] THEN files
                ELSE [files EXCEPT ![Ws(p)] = (@ \ {"live"}) \cup {"archived"}]
    /\ Goto(p, "forget")
    /\ UNCHANGED <<row, container, made, tombs, locks>>

(* archiveMountDirectories: a rename, which fails when the archive of this *)
(* workspace exists already and does nothing when there is no directory.   *)
ArchiveDirectories(p) ==
    /\ At(p, "archive")
    /\ ~({"live", "archived"} \subseteq files[Ws(p)])
    /\ files' = IF "live" \notin files[Ws(p)] THEN files
                ELSE [files EXCEPT ![Ws(p)] = (@ \ {"live"}) \cup {"archived"}]
    /\ Goto(p, "forget")
    /\ UNCHANGED <<row, container, made, tombs, locks>>

ArchiveFailed(p) == At(p, "archive") /\ Fail(p)

(* The tombstones and the end of the row are one transaction, rolled back  *)
(* when the row is gone already.                                           *)
ForgetWorkspace(p) ==
    /\ At(p, "forget")
    /\ IF Present(Ws(p))
          THEN /\ row' = [row EXCEPT ![Ws(p)] = Absent]
               /\ tombs' = [tombs EXCEPT ![Ws(p)] =
                              {"directory"} \cup IF Seen(p).rid = 0 THEN {} ELSE {"volume"}]
          ELSE UNCHANGED <<row, tombs>>
    /\ Goto(p, "return")
    /\ UNCHANGED <<container, made, files, locks>>

Delete(p) ==
    \/ CheckDelete(p)
    \/ RemoveContainer(p, TRUE) \/ ContainerNotFound(p) \/ RemoveRefused(p)
    \/ ArchiveDirectories(p) \/ ArchiveFailed(p) \/ ForgetWorkspace(p)

-----------------------------------------------------------------------------
(* BeginFileAccess, the transfer, and its release *)

OpenFiles(p) ==
    /\ At(p, "open")
    /\ Goto(p, IF Present(Ws(p)) /\ row[Ws(p)].observed \in {"running", "stopped"}
               THEN "transfer" ELSE "return")
    /\ UNCHANGED <<world, locks>>

EndTransfer(p) == At(p, "transfer") /\ Fail(p)

-----------------------------------------------------------------------------
(* RunTimeouts, which the loop enters after a reconciliation that returned *)
(* no error.  It reads the table once, before it takes any lock.           *)

ListForTimeouts(p) ==
    /\ At(p, "listTimeouts")
    /\ LET present == {w \in Workspace : Present(w)} IN
         IF present = {} THEN Rest(p)
         ELSE task' = [task EXCEPT ![p] = [Resting EXCEPT !.kind = "timeout",
                         !.step = "nextTimeout", !.seen = row, !.todo = present]]
    /\ UNCHANGED <<world, locks>>

BeginTimeout(p, w) ==
    /\ At(p, "nextTimeout") /\ w \in task[p].todo
    /\ task' = [task EXCEPT ![p].ws = w, ![p].step = "awaitWorkspace",
                            ![p].todo = @ \ {w}]
    /\ UNCHANGED <<world, locks>>

(* EvaluateTimeouts: this phase is tested first and hides the other. *)
RetentionApplies(r) == r.stopped /\ r.rid # 0 /\ ~r.removed

(* What is due by the row that was read; beginOperation needs a row still. *)
CheckTimeout(p) ==
    /\ At(p, "expire")
    /\ \/ Goto(p, "return")
       \/ /\ ~RetentionApplies(Seen(p)) /\ Seen(p).observed = "running" /\ Seen(p).rid # 0
          /\ Present(Ws(p))
          /\ Goto(p, "halt")
       \/ /\ RetentionApplies(Seen(p)) /\ Seen(p).observed = "stopped"
          /\ Present(Ws(p))
          /\ Goto(p, "remove")
    /\ UNCHANGED <<world, locks>>

RecordRemoved(p) ==
    /\ At(p, "removed")
    /\ SetObserved(Ws(p), "removed", Seen(p).rid)
    /\ Goto(p, "removalTime")
    /\ UNCHANGED <<container, made, files, tombs, locks>>

RecordRemovalTime(p) ==
    /\ At(p, "removalTime")
    /\ SetTimes(Ws(p), Seen(p).stopped, TRUE)
    /\ Goto(p, "return")
    /\ UNCHANGED <<container, made, files, tombs, locks>>

Timeouts(p) ==
    \/ ListForTimeouts(p)
    \/ \E w \in Workspace : BeginTimeout(p, w)
    \/ CheckTimeout(p) \/ RecordRemoved(p) \/ RecordRemovalTime(p)

-----------------------------------------------------------------------------
(* Reconcile: takes no lock.  The loop runs it, and the handlers that stop *)
(* or delete every workspace of a user run it first.                       *)

BeginReconcile(p) ==
    /\ At(p, "idle")
    /\ task' = [task EXCEPT ![p].kind = "reconcile", ![p].step = "listRows",
                            ![p].found = container]
    /\ UNCHANGED <<world, locks>>

ListRows(p) ==
    /\ At(p, "listRows")
    /\ task' = [task EXCEPT ![p].seen = row, ![p].step = "reconcile",
                            ![p].todo = {w \in Workspace : Present(w)}]
    /\ UNCHANGED <<world, locks>>

(* normalizeObservedState after stateFromPodman *)
NormalizeState(state) == IF state = "exited" THEN "stopped" ELSE state

ObserveMissing(p, w) ==
    /\ At(p, "reconcile") /\ w \in task[p].todo
    /\ task[p].found[w] = NoContainer
    /\ LET r == task[p].seen[w] IN
         IF r.rid = 0 \/ r.observed = "removed" THEN UNCHANGED row
                                                ELSE SetObserved(w, "missing", r.rid)
    /\ task' = [task EXCEPT ![p].todo = @ \ {w}]
    /\ UNCHANGED <<container, made, files, tombs, locks>>

(* A slip: adopts no container the row does not name. *)
ObserveKnown(p, w) ==
    /\ At(p, "reconcile") /\ w \in task[p].todo
    /\ task[p].found[w] # NoContainer
    /\ SetObserved(w, NormalizeState(task[p].found[w].state), task[p].seen[w].rid)
    /\ IF Present(w) THEN task' = [task EXCEPT ![p].ws = w, ![p].step = "times"] ELSE Rest(p)
    /\ UNCHANGED <<container, made, files, tombs, locks>>

(* A row that is gone ends the pass with an error. *)
Observe(p, w) ==
    /\ At(p, "reconcile") /\ w \in task[p].todo
    /\ task[p].found[w] # NoContainer
    /\ SetObserved(w, NormalizeState(task[p].found[w].state), task[p].found[w].id)
    /\ IF Present(w) THEN task' = [task EXCEPT ![p].ws = w, ![p].step = "times"] ELSE Rest(p)
    /\ UNCHANGED <<container, made, files, tombs, locks>>

ObserveTimes(p) ==
    /\ At(p, "times")
    /\ LET state == NormalizeState(task[p].found[Ws(p)].state) IN
         SetTimes(Ws(p), state # "running" /\ (state = "stopped" \/ Seen(p).stopped),
                  Seen(p).removed)
    /\ IF Present(Ws(p))
          THEN task' = [task EXCEPT ![p].todo = @ \ {Ws(p)}, ![p].step = "reconcile"]
          ELSE Rest(p)
    /\ UNCHANGED <<container, made, files, tombs, locks>>

EndReconcile(p) ==
    /\ At(p, "reconcile") /\ task[p].todo = {}
    /\ IF p = Loop
          THEN task' = [task EXCEPT ![p] = [Resting EXCEPT !.step = "listTimeouts"]]
          ELSE Rest(p)
    /\ UNCHANGED <<world, locks>>

Reconcile(p) ==
    \/ ListRows(p)
    \/ \E w \in Workspace : ObserveMissing(p, w) \/ Observe(p, w)
    \/ ObserveTimes(p) \/ EndReconcile(p)

-----------------------------------------------------------------------------

Begin(p) ==
    \E w \in Workspace :
        \/ BeginStart(p, w)
        \/ \E k \in {"stop", "delete"} : BeginChange(p, k, w)
        \/ BeginFileAccess(p, w)

Lock(p) == AcquireAdmission(p) \/ AcquireWorkspace(p)

(* What a call does on its own once it has its locks, Podman answering. *)
Work(p) ==
    \/ Start(p) \/ Stop(p) \/ Delete(p) \/ OpenFiles(p) \/ EndTransfer(p)
    \/ Timeouts(p) \/ Reconcile(p) \/ Return(p) \/ Unwind(p)

(* Podman does what it was asked, and the answer does not arrive. *)
AnswerLost(p) ==
    \/ CreateContainer(p, FALSE) \/ StartContainer(p, FALSE)
    \/ StopContainer(p, FALSE) \/ RemoveContainer(p, FALSE)

(* The process dies, and is started on the same database and containers. *)
Restart ==
    /\ admission' = Free
    /\ wlock' = [w \in Workspace |-> Free]
    /\ task' = [p \in Proc |-> Resting]
    /\ UNCHANGED world

(* A container ends by itself, or is removed behind the service's back. *)
ContainerExits(w) ==
    /\ container[w].state = "running"
    /\ container' = [container EXCEPT ![w].state = "exited"]
    /\ UNCHANGED <<row, made, files, tombs, locks, task>>

ContainerVanishes(w) ==
    /\ container[w] # NoContainer
    /\ container' = [container EXCEPT ![w] = NoContainer]
    /\ UNCHANGED <<row, made, files, tombs, locks, task>>

Outside == \E w \in Workspace : ContainerExits(w) \/ ContainerVanishes(w)

Next ==
    \/ \E p \in Proc :
          \/ Begin(p) \/ BeginReconcile(p)
          \/ Lock(p) \/ Work(p)
          \/ AnswerLost(p) \/ GiveUp(p) \/ Abandon(p)
    \/ Restart
    \/ Outside

Spec == Init /\ [][Next]_vars

(* The loop comes back every 30 seconds, its calls go on until they        *)
(* return, and the locks are handed over in turn (see LifecycleLocks).     *)
FairSpec ==
    /\ Spec
    /\ WF_vars(BeginReconcile(Loop)) /\ SF_vars(Lock(Loop)) /\ WF_vars(Work(Loop))

-----------------------------------------------------------------------------
(* A quieter world to compare with: reconciliation has just brought every  *)
(* row up to date, one timeout pass and any requests follow, Podman's      *)
(* answers arrive (it may still refuse), no client goes away in the middle *)
(* of its request, nothing happens to a container from outside.            *)

(* The row names the container there is, and says in which state it is. *)
Agrees(w) ==
    Present(w) =>
        IF container[w] = NoContainer
           THEN row[w].rid = 0 \/ row[w].observed \in {"removed", "missing"}
           ELSE /\ row[w].rid = container[w].id
                /\ row[w].observed = NormalizeState(container[w].state)

CalmInit ==
    /\ row \in [Workspace -> {r \in Row :
                  /\ r.rid = 0 <=> r.observed \in {"unknown", "failed"}
                  /\ r.rid <= 1
                  /\ r.stopped <=> r.observed \in {"stopped", "removed"}
                  /\ r.removed <=> r.observed = "removed"}]
    /\ container \in [Workspace -> {c \in Container : c.id <= 1}]
    /\ \A w \in Workspace : Agrees(w)
    /\ made = [w \in Workspace |-> row[w].rid]
    /\ files = [w \in Workspace |->
                  IF row[w].rid = 0 THEN {"live"} ELSE {"live", "volume"}]
    /\ tombs = [w \in Workspace |-> {}]
    /\ admission = Free
    /\ wlock = [w \in Workspace |-> Free]
    /\ task = [p \in Proc |->
                 IF p = Loop THEN [Resting EXCEPT !.step = "listTimeouts"] ELSE Resting]

CalmSpec == CalmInit /\ [][\E p \in Proc : Begin(p) \/ Lock(p) \/ Work(p)]_vars

-----------------------------------------------------------------------------

(* What a call holds and waits for, as LifecycleLocks sees it. *)
LockPhase(t) ==
    CASE t.step = "awaitAdmission" -> IF t.kind = "start" THEN "waitFirst" ELSE "waitSecond"
      [] t.step = "awaitWorkspace" -> IF t.kind = "start" THEN "waitSecond" ELSE "waitFirst"
      [] t.step = "load" -> "waitSecond"
      [] t.step = "unwind" -> "unwinding"
      [] OTHER -> "working"

LockTask(t) ==
    IF t.step \in {"idle"} \cup PassSteps
       THEN [kind |-> "stop", ws |-> Resting.ws, phase |-> "idle"]
       ELSE [kind |-> t.kind, ws |-> t.ws, phase |-> LockPhase(t)]

Locks == INSTANCE LifecycleLocks WITH task <- [p \in Proc |-> LockTask(task[p])]

(* Every path through the operations, early returns, cancelled clients and *)
(* restarts included, takes and gives back the two locks in the order      *)
(* LifecycleLocks says, so what is proved of the locks holds here.         *)
FollowsLockProtocol == Locks!Spec

Transfers(p, w) == At(p, "transfer") /\ Ws(p) = w

(* The directories of a workspace whose row is gone can be found again:    *)
(* all of them lie in the archive and a tombstone names the archive.  As   *)
(* long as the row exists there is no tombstone that could be reattached   *)
(* elsewhere.                                                              *)
DirectoriesRecoverable ==
    \A w \in Workspace :
        IF Present(w) THEN tombs[w] = {}
        ELSE "live" \notin files[w] /\ ("archived" \in files[w] => "directory" \in tombs[w])

(* ADR 0004: observed state follows the runtime.  Once the requests have   *)
(* ended and nothing happens from outside, reconciliation passes bring     *)
(* every row to what Podman says, whatever stale row or container list was *)
(* written before, and timeout passes do not undo it.                      *)
RowsConverge ==
    (<>[](\A p \in Request : At(p, "idle"))
     /\ <>[][BeginReconcile(Loop) \/ Lock(Loop) \/ Work(Loop)]_vars)
        => <>[](\A w \in Workspace : Agrees(w))

(* In the calm world, whoever takes the lock of a workspace finds a row    *)
(* that says truly whether its container runs and names the container if   *)
(* there is one, although stop, delete and the timeout pass act on a row   *)
(* they read before.  (A delete that fails after removing the container    *)
(* leaves a row that still names it; the next reconciliation sees to that.)*)
RowsTrueWhenUnlocked ==
    \A w \in Workspace :
        wlock[w] = Free /\ Present(w) =>
            /\ row[w].observed = "running" <=> container[w].state = "running"
            /\ container[w] # NoContainer => row[w].rid = container[w].id

(* ARCHITECTURE.md: "Once the runtime container is confirmed removed,      *)
(* explicit deletion moves the complete per-container directory".          *)
ArchivedAfterRemoval ==
    [][\A w \in Workspace :
          "archived" \in files'[w] \ files[w] => container[w] = NoContainer]_vars

(* ARCHITECTURE.md: "Once a container is stopped, its stopped deadline     *)
(* determines when COWS may delete the container."  A stopped container    *)
(* has such a deadline.                                                    *)
StoppedHasDeadline ==
    \A w \in Workspace :
        wlock[w] = Free /\ Present(w) =>
            (row[w].observed = "stopped" /\ container[w].state = "exited"
                => RetentionApplies(row[w]))

=============================================================================
