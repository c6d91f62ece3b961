--------------------------- MODULE LifecycleLocks ---------------------------
(***************************************************************************)
(* The two locks every workspace operation of internal/workspace takes:    *)
(* the process-wide admission mutex (Service.admissionMu) and one          *)
(* semaphore per workspace (Service.fileAccessLocks).  Each operation is a *)
(* goroutine; what it does between taking and giving back its locks is     *)
(* left to WorkspaceLifecycle, which implements this module.               *)
(*                                                                         *)
(* A wait for the workspace semaphore ends when the context of the caller  *)
(* is done; a wait for the mutex cannot be interrupted.                    *)
(***************************************************************************)
EXTENDS Naturals

CONSTANTS
    Request,    \* goroutines of HTTP requests; their context ends with the client
    Loop,       \* the goroutine of runTimeoutLoop; its context is the process's
    Workspace,  \* workspace identifiers
    Free        \* the holder of a lock nobody holds

ASSUME HolderAssumption ==
    Loop \notin Request /\ Free \notin Request \cup {Loop} /\ Workspace # {}

VARIABLES
    admission,  \* holder of admissionMu
    wlock,      \* wlock[w]: holder of the semaphore of w
    task        \* task[p]: the operation goroutine p is running

vars == <<admission, wlock, task>>

Proc == Request \cup {Loop}

(* "start" stands for StartWorkspace and for a CreateWorkspace that        *)
(* reattaches a volume; "create" is any other CreateWorkspace.             *)
RequestKind == {"start", "create", "stop", "delete", "file"}
Kind == RequestKind \cup {"timeout"}

AdmissionFirst(k) == k \in {"start", "create"}
TakesBoth(k) == k \in {"start", "stop", "delete", "timeout"}

Phase == {"idle", "waitFirst", "waitSecond", "working", "unwinding"}

Task == [kind : Kind, ws : Workspace, phase : Phase]

(* The record of a goroutine that runs no operation: only its phase counts. *)
Resting == [kind |-> "stop", ws |-> CHOOSE w \in Workspace : TRUE, phase |-> "idle"]

TypeOK ==
    /\ admission \in Proc \cup {Free}
    /\ wlock \in [Workspace -> Proc \cup {Free}]
    /\ task \in [Proc -> Task]

(* Which locks the phase of p says it holds. *)
HoldsFirst(p) == task[p].phase \in {"waitSecond", "working", "unwinding"}
HoldsSecond(p) == task[p].phase = "working" /\ TakesBoth(task[p].kind)

HoldsAdmission(p) == IF AdmissionFirst(task[p].kind) THEN HoldsFirst(p) ELSE HoldsSecond(p)
HoldsWorkspace(p) == IF AdmissionFirst(task[p].kind) THEN HoldsSecond(p) ELSE HoldsFirst(p)

(* Which lock it waits for. *)
AwaitsAdmission(p) ==
    task[p].phase = (IF AdmissionFirst(task[p].kind) THEN "waitFirst" ELSE "waitSecond")
AwaitsWorkspace(p) ==
    task[p].phase = (IF AdmissionFirst(task[p].kind) THEN "waitSecond" ELSE "waitFirst")

-----------------------------------------------------------------------------

Init ==
    /\ admission = Free
    /\ wlock = [w \in Workspace |-> Free]
    /\ task = [p \in Proc |-> Resting]

Enter(p, phase) == task' = [task EXCEPT ![p].phase = phase]
Rest(p) == task' = [task EXCEPT ![p] = Resting]

(* A handler, or the next workspace of a RunTimeouts pass, begins. *)
Begin(p, k, w) ==
    /\ task[p].phase = "idle"
    /\ k = "timeout" <=> p = Loop
    /\ task' = [task EXCEPT ![p] = [kind |-> k, ws |-> w, phase |-> "waitFirst"]]
    /\ UNCHANGED <<admission, wlock>>

(* A slip: a reader lock, which lets a second holder in. *)
AcquireAdmissionShared(p) ==
    /\ AwaitsAdmission(p)
    /\ admission' = p
    /\ Enter(p, IF task[p].kind = "start" THEN "waitSecond" ELSE "working")
    /\ UNCHANGED wlock

(* acquireAdmission: the only way to wait is to block on the mutex. *)
AcquireAdmission(p) ==
    /\ AwaitsAdmission(p)
    /\ admission = Free
    /\ admission' = p
    /\ Enter(p, IF task[p].kind = "start" THEN "waitSecond" ELSE "working")
    /\ UNCHANGED wlock

(* A slip: a semaphore with room for more than one. *)
AcquireWorkspaceShared(p) ==
    /\ AwaitsWorkspace(p)
    /\ wlock' = [wlock EXCEPT ![task[p].ws] = p]
    /\ Enter(p, IF task[p].kind \in {"start", "file"} THEN "working" ELSE "waitSecond")
    /\ UNCHANGED admission

(* acquireWorkspaceLock: the send on the semaphore succeeds. *)
AcquireWorkspace(p) ==
    /\ AwaitsWorkspace(p)
    /\ wlock[task[p].ws] = Free
    /\ wlock' = [wlock EXCEPT ![task[p].ws] = p]
    /\ Enter(p, IF task[p].kind \in {"start", "file"} THEN "working" ELSE "waitSecond")
    /\ UNCHANGED admission

(* A slip: a cancelled start returns without releasing admission. *)
GiveUpKeepingAdmission(p) ==
    /\ p \in Request
    /\ AwaitsWorkspace(p)
    /\ Rest(p)
    /\ UNCHANGED <<admission, wlock>>

(* acquireWorkspaceLock: ctx.Done() is chosen.  What p holds already is    *)
(* given back by its deferred calls.  Only the client of a request ends    *)
(* its context; the process's context ends with the process.               *)
GiveUp(p) ==
    /\ p \in Request
    /\ AwaitsWorkspace(p)
    /\ IF task[p].phase = "waitSecond" THEN Enter(p, "unwinding") ELSE Rest(p)
    /\ UNCHANGED <<admission, wlock>>

(* The deferred releases run last in, first out: the second lock first. *)
ReleaseSecond(p) ==
    /\ HoldsSecond(p)
    /\ IF AdmissionFirst(task[p].kind)
          THEN wlock' = [wlock EXCEPT ![task[p].ws] = Free] /\ UNCHANGED admission
          ELSE admission' = Free /\ UNCHANGED wlock
    /\ Enter(p, "unwinding")

ReleaseFirst(p) ==
    /\ \/ task[p].phase = "unwinding"
       \/ task[p].phase = "working" /\ ~TakesBoth(task[p].kind)
    /\ IF AdmissionFirst(task[p].kind)
          THEN admission' = Free /\ UNCHANGED wlock
          ELSE wlock' = [wlock EXCEPT ![task[p].ws] = Free] /\ UNCHANGED admission
    /\ Rest(p)

(* The process dies and is started again: locks and goroutines are memory. *)
Restart ==
    /\ admission' = Free
    /\ wlock' = [w \in Workspace |-> Free]
    /\ task' = [p \in Proc |-> Resting]

Acquire(p) == AcquireAdmission(p) \/ AcquireWorkspace(p)
Release(p) == ReleaseSecond(p) \/ ReleaseFirst(p)

Next ==
    \/ \E p \in Proc :
          \/ \E k \in Kind, w \in Workspace : Begin(p, k, w)
          \/ Acquire(p)
          \/ GiveUp(p)
          \/ Release(p)
    \/ Restart

Spec == Init /\ [][Next]_vars

(* A start holds the admission mutex and waits for the workspace whose     *)
(* semaphore q holds, while q waits for the mutex: neither can go on.      *)
Crossed(p) ==
    /\ HoldsAdmission(p) /\ AwaitsWorkspace(p)
    /\ \E q \in Proc : wlock[task[p].ws] = q /\ AwaitsAdmission(q)

(* A list, an upload or a download stream on the files of a workspace. *)
Transfers(p) == task[p].kind = "file" /\ task[p].phase = "working"

(***************************************************************************)
(* Fairness.  Both locks hand over to a waiter in turn (a Go mutex in      *)
(* starvation mode and a channel send are first in, first out), so a       *)
(* goroutine that waits for a lock freed again and again gets it.  The     *)
(* work between the locks is a bounded list of database statements and     *)
(* Podman calls with a timeout.  A transfer goes at the pace of its        *)
(* client, for which the server sets no time limit, and nothing makes a    *)
(* client give up: neither is fair.                                        *)
(***************************************************************************)
ServiceFairness ==
    \A p \in Proc : SF_vars(Acquire(p)) /\ WF_vars(Release(p) /\ ~Transfers(p))

FairSpec == Spec /\ ServiceFairness

-----------------------------------------------------------------------------

(* The holder a lock records is exactly the goroutine whose progress says  *)
(* it holds that lock: no early return or deferred call of an operation    *)
(* leaves a lock taken or frees one that another operation has taken       *)
(* since.                                                                  *)
LocksMatch(p) ==
    /\ HoldsAdmission(p) <=> admission = p
    /\ \A w \in Workspace : HoldsWorkspace(p) /\ task[p].ws = w <=> wlock[w] = p
    /\ task[p].phase = "waitSecond" => TakesBoth(task[p].kind)

LocksMatchTasks == \A p \in Proc : LocksMatch(p)

(* ADR 0016: no start, stop, delete or timeout works on a workspace while  *)
(* a file operation or a download stream on it is active, nor two of them  *)
(* at once.                                                                *)
WorkspaceExclusion ==
    \A p, q \in Proc :
        /\ p # q
        /\ HoldsWorkspace(p)
        /\ HoldsWorkspace(q)
        => task[p].ws # task[q].ws

(* Admission decisions and the rows they lead to are made one at a time. *)
AdmissionExclusion ==
    \A p, q \in Proc : HoldsAdmission(p) /\ HoldsAdmission(q) => p = q

(* What the two lock orders leave to the clients is these two waits and    *)
(* nothing else: unless a start whose client does not give up stays        *)
(* crossed, or a transfer goes on for ever, every operation that began     *)
(* comes to its end, the background pass included.                         *)
OperationsEnd ==
    (\A p \in Proc : []<>~Crossed(p) /\ []<>~Transfers(p))
        => \A p \in Proc : task[p].phase # "idle" ~> task[p].phase = "idle"

=============================================================================
