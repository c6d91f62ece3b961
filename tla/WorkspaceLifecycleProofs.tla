---------------------- MODULE WorkspaceLifecycleProofs ----------------------
(***************************************************************************)
(* Proofs about WorkspaceLifecycle, for any requests, workspaces and       *)
(* number of containers:                                                   *)
(*   - its types, and how the fields of a task fit together (Typed);       *)
(*   - it follows LifecycleLocks, action by action, so what                *)
(*     LifecycleLocksProofs proves of the locks holds here;                *)
(*   - the directories of a workspace can always be found again (Places);  *)
(*   - in the calm world, rows are true whenever nobody works on them      *)
(*     (Calm).                                                             *)
(***************************************************************************)
EXTENDS WorkspaceLifecycle, TLAPS

-----------------------------------------------------------------------------
(* Types, and what the fields of a task have to do with each other. *)

Steps == WorkSteps \cup LockSteps \cup PassSteps \cup {"load"}

(* The steps each kind of call goes through. *)
MayBeAt(k, s) ==
    /\ k = "none" => s \in {"idle", "listTimeouts"}
    /\ k = "start" => s \in StartSteps \cup {"awaitAdmission", "awaitWorkspace", "return", "unwind"}
    /\ k = "stop" => s \in StopSteps \cup {"awaitAdmission", "awaitWorkspace", "return", "unwind"}
    /\ k = "delete" => s \in DeleteSteps \cup {"awaitAdmission", "awaitWorkspace", "return",
              "unwind"}
    /\ k = "file" => s \in FileSteps \cup {"awaitWorkspace", "return"}
    /\ k = "reconcile" => s \in {"listRows", "reconcile", "times"}
    /\ k = "timeout" =>
          s \in TimeoutSteps \cup {"nextTimeout", "halt", "halted", "haltTime", "remove",
                                   "awaitAdmission", "awaitWorkspace", "return", "unwind"}

(* Where a call relies on the row it has read. *)
ReliesOnRow(k, s) ==
    \/ s \in (WorkSteps \ FileSteps) \cup {"times"}
    \/ s \in {"awaitAdmission", "awaitWorkspace"} /\ k \in {"stop", "delete", "timeout"}
    \/ s = "awaitWorkspace" /\ k = "start"

Runs(p, k) ==
    /\ p = Loop => k \in {"none", "reconcile", "timeout"}
    /\ p # Loop => k # "timeout"

Fits(p) ==
    /\ Runs(p, task[p].kind)
    /\ p # Loop => ~At(p, "listTimeouts")
    /\ MayBeAt(task[p].kind, task[p].step)
    /\ ReliesOnRow(task[p].kind, task[p].step) => Seen(p) \in Row
    /\ \A w \in task[p].todo : task[p].seen[w] \in Row
    /\ task[p].kind \notin {"reconcile", "timeout"} => task[p].todo = {}
    /\ task[p].kind = "timeout" /\ ~At(p, "nextTimeout") => Ws(p) \notin task[p].todo

TasksFit == task \in [Proc -> Task] /\ \A p \in Proc : Fits(p)

WorldTyped ==
    /\ row \in [Workspace -> Row \cup {Absent}]
    /\ container \in [Workspace -> Container]
    /\ made \in [Workspace -> RuntimeID]
    /\ files \in [Workspace -> SUBSET Data]
    /\ tombs \in [Workspace -> SUBSET Tombstone]

LocksTyped == admission \in Proc \cup {Free} /\ wlock \in [Workspace -> Proc \cup {Free}]

Typed == WorldTyped /\ LocksTyped /\ TasksFit

LEMMA TypedImpliesTypeOK == Typed => TypeOK
  BY DEF Typed, TypeOK, WorldTyped, LocksTyped, TasksFit

LEMMA RestingTask ==
  /\ Resting \in Task
  /\ Resting.kind = "none" /\ Resting.step = "idle" /\ Resting.todo = {}
  /\ Resting.ws \in Workspace
  /\ Resting.seen = [w \in Workspace |-> Absent]
  /\ Resting.found = [w \in Workspace |-> NoContainer]
  <1>1. (CHOOSE w \in Workspace : TRUE) \in Workspace
    BY LifecycleAssumption
  <1>2. NoContainer \in Container
    BY LifecycleAssumption DEF NoContainer, Container, RuntimeID
  <1> QED
    BY <1>1, <1>2 DEF Resting, Task, Kind, LockSteps

LEMMA WorkspaceTasks ==
  ASSUME TasksFit, NEW p \in Proc
  PROVE  /\ task[p] \in Task /\ task[p].kind \in Kind /\ task[p].ws \in Workspace
         /\ task[p].step \in Steps
         /\ task[p].seen \in [Workspace -> Row \cup {Absent}]
         /\ task[p].found \in [Workspace -> Container]
         /\ task[p].todo \in SUBSET Workspace
  BY DEF TasksFit, Task, Steps

(* Only the task of p changes, and it becomes t. *)
Becomes(p, t) == task' = [task EXCEPT ![p] = t]

LEMMA BecomesFit ==
  ASSUME TasksFit, NEW p \in Proc, NEW t \in Task, Becomes(p, t),
         Runs(p, t.kind), p # Loop => t.step # "listTimeouts", MayBeAt(t.kind, t.step),
         ReliesOnRow(t.kind, t.step) => t.seen[t.ws] \in Row,
         \A w \in t.todo : t.seen[w] \in Row,
         t.kind \notin {"reconcile", "timeout"} => t.todo = {},
         t.kind = "timeout" /\ t.step # "nextTimeout" => t.ws \notin t.todo
  PROVE  TasksFit'
  <1>1. task' \in [Proc -> Task] /\ task'[p] = t
    BY DEF TasksFit, Becomes
  <1>2. ASSUME NEW q \in Proc PROVE Fits(q)'
    <2>1. CASE q = p
      BY <1>1, <2>1 DEF Fits, At, Ws, Seen
    <2>2. CASE q # p
      <3>1. task'[q] = task[q]
        BY <1>1, <2>2 DEF TasksFit, Becomes
      <3> QED
        BY <3>1 DEF TasksFit, Fits, At, Ws, Seen
    <2> QED
      BY <2>1, <2>2
  <1> QED
    BY <1>1, <1>2 DEF TasksFit

(* The record a move leads to. *)
Moved(p, s) ==
    [kind |-> task[p].kind, ws |-> task[p].ws, step |-> s,
     seen |-> IF s \in {"return", "unwind"}
                 THEN [task[p].seen EXCEPT ![task[p].ws] = Absent] ELSE task[p].seen,
     found |-> task[p].found, todo |-> task[p].todo]

LEMMA GotoMoves ==
  ASSUME TasksFit, NEW p \in Proc, NEW s \in Steps, Goto(p, s)
  PROVE  Becomes(p, Moved(p, s)) /\ Moved(p, s) \in Task
  <1>1. Moved(p, s) \in Task
    BY WorkspaceTasks DEF Moved, Task, Steps
  <1>2. task[p] = [kind |-> task[p].kind, ws |-> task[p].ws, step |-> task[p].step,
                   seen |-> task[p].seen, found |-> task[p].found, todo |-> task[p].todo]
    BY WorkspaceTasks DEF Task
  <1> DEFINE seen == [task[p].seen EXCEPT ![Ws(p)] =
                         IF s \in {"return", "unwind"} THEN Absent ELSE task[p].seen[Ws(p)]]
  <1>3. [task EXCEPT ![p] = [task[p] EXCEPT !.step = s]][p] = [task[p] EXCEPT !.step = s]
    BY DEF TasksFit
  <1>4. [task[p] EXCEPT !.step = s].seen = task[p].seen
    BY <1>2
  <1>5. task' = [[task EXCEPT ![p] = [task[p] EXCEPT !.step = s]] EXCEPT
                    ![p] = [[task[p] EXCEPT !.step = s] EXCEPT !.seen = seen]]
    BY <1>3, <1>4 DEF Goto
  <1>6. seen = Moved(p, s).seen
    BY WorkspaceTasks DEF Moved, Ws
  <1>7. [[task[p] EXCEPT !.step = s] EXCEPT !.seen = seen] = Moved(p, s)
    <2>1. Moved(p, s) = [kind |-> task[p].kind, ws |-> task[p].ws, step |-> s, seen |-> seen,
                         found |-> task[p].found, todo |-> task[p].todo]
      BY <1>6 DEF Moved
    <2> HIDE DEF seen
    <2>2. [task[p] EXCEPT !.step = s] =
            [kind |-> task[p].kind, ws |-> task[p].ws, step |-> s, seen |-> task[p].seen,
             found |-> task[p].found, todo |-> task[p].todo]
      BY <1>2
    <2>3. [[kind |-> task[p].kind, ws |-> task[p].ws, step |-> s, seen |-> task[p].seen,
            found |-> task[p].found, todo |-> task[p].todo] EXCEPT !.seen = seen] =
              [kind |-> task[p].kind, ws |-> task[p].ws, step |-> s, seen |-> seen,
               found |-> task[p].found, todo |-> task[p].todo]
      OBVIOUS
    <2> QED
      BY <2>1, <2>2, <2>3, Zenon
  <1>8. task' = [task EXCEPT ![p] = Moved(p, s)]
    <2> HIDE DEF seen
    <2> QED
      BY <1>5, <1>7 DEF TasksFit
  <1> QED
    BY <1>1, <1>8 DEF Becomes

(* A step to where its kind may be, with the row it relies on, keeps tasks *)
(* as they should be.                                                      *)
LEMMA GotoFits ==
  ASSUME TasksFit, NEW p \in Proc, NEW s \in Steps, Goto(p, s),
         MayBeAt(task[p].kind, s), s # "listTimeouts",
         ReliesOnRow(task[p].kind, s) => s \notin {"return", "unwind"} /\ Seen(p) \in Row,
         s \in {"return", "unwind"} => task[p].kind # "reconcile",
         ~At(p, "nextTimeout")
  PROVE  TasksFit'
  <1>1. Becomes(p, Moved(p, s)) /\ Moved(p, s) \in Task
    BY GotoMoves
  <1>2. Fits(p)
    BY DEF TasksFit
  <1>3. \A w \in task[p].todo : Moved(p, s).seen[w] \in Row
    <2>1. CASE s \in {"return", "unwind"}
      <3>1. Ws(p) \notin task[p].todo
        BY <1>2, <2>1 DEF Fits
      <3> QED
        BY <3>1, <1>2, <2>1, WorkspaceTasks DEF Fits, Moved, Ws
    <2>2. CASE s \notin {"return", "unwind"}
      BY <2>2, <1>2 DEF Fits, Moved
    <2> QED
      BY <2>1, <2>2
  <1>4. ReliesOnRow(task[p].kind, s) => Moved(p, s).seen[task[p].ws] \in Row
    BY DEF Moved, Seen
  <1> QED
    BY <1>1, <1>2, <1>3, <1>4, BecomesFit DEF Fits, Moved, Ws

LEMMA RestFits ==
  ASSUME TasksFit, NEW p \in Proc, Rest(p)
  PROVE  TasksFit'
  <1>1. Becomes(p, Resting)
    BY DEF Rest, Becomes
  <1> QED
    BY <1>1, RestingTask, BecomesFit
       DEF Runs, MayBeAt, ReliesOnRow, WorkSteps, StartSteps, StopSteps, DeleteSteps, FileSteps,
           TimeoutSteps

-----------------------------------------------------------------------------
(* How a change of one task looks to LifecycleLocks. *)

LP == INSTANCE LifecycleLocksProofs WITH task <- [p \in Proc |-> LockTask(task[p])]

(* The two instances are one. *)
LEMMA SameLocks ==
  /\ LP!Init <=> Locks!Init
  /\ [LP!Next]_(LP!vars) <=> [Locks!Next]_(Locks!vars)
  /\ LP!IInv <=> Locks!TypeOK /\ Locks!LocksMatchTasks
  BY DEF LP!Init, LP!Next, LP!vars, LP!IInv, LP!TypeOK, LP!LocksMatchTasks, LP!LocksMatch,
         LP!Proc, LP!Kind, LP!RequestKind, LP!AdmissionFirst, LP!TakesBoth, LP!Phase, LP!Task,
         LP!Resting, LP!HoldsFirst, LP!HoldsSecond, LP!HoldsAdmission, LP!HoldsWorkspace,
         LP!AwaitsAdmission, LP!AwaitsWorkspace, LP!Enter, LP!Rest, LP!Begin,
         LP!AcquireAdmission, LP!AcquireWorkspace, LP!GiveUp, LP!ReleaseSecond,
         LP!ReleaseFirst, LP!Restart, LP!Acquire, LP!Release,
         Locks!Init, Locks!Next, Locks!vars, Locks!TypeOK, Locks!LocksMatchTasks,
         Locks!LocksMatch, Locks!Proc, Locks!Kind, Locks!RequestKind, Locks!AdmissionFirst,
         Locks!TakesBoth, Locks!Phase, Locks!Task, Locks!Resting, Locks!HoldsFirst,
         Locks!HoldsSecond, Locks!HoldsAdmission, Locks!HoldsWorkspace, Locks!AwaitsAdmission,
         Locks!AwaitsWorkspace, Locks!Enter, Locks!Rest, Locks!Begin, Locks!AcquireAdmission,
         Locks!AcquireWorkspace, Locks!GiveUp, Locks!ReleaseSecond, Locks!ReleaseFirst,
         Locks!Restart, Locks!Acquire, Locks!Release

lockTask == [p \in Proc |-> LockTask(task[p])]

LEMMA LockTaskBecomes ==
  ASSUME TasksFit, NEW p \in Proc, NEW t, Becomes(p, t)
  PROVE  lockTask' = [lockTask EXCEPT ![p] = LockTask(t)]
  BY DEF TasksFit, Becomes, lockTask

(* The record of a call whose kind and workspace LifecycleLocks sees. *)
LockRecord(t) == [kind |-> t.kind, ws |-> t.ws, phase |-> LockPhase(t)]

LEMMA LockTaskIs ==
  ASSUME NEW t
  PROVE  /\ t.step \in {"idle"} \cup PassSteps => LockTask(t) = Locks!Resting
         /\ t.step \notin {"idle"} \cup PassSteps => LockTask(t) = LockRecord(t)
  BY DEF LockTask, LockRecord, Locks!Resting, Resting

(* A change LifecycleLocks does not see. *)
LEMMA Unseen ==
  ASSUME TasksFit, NEW p \in Proc, NEW t, Becomes(p, t), LockTask(t) = LockTask(task[p]),
         UNCHANGED locks
  PROVE  UNCHANGED Locks!vars
  <1>1. lockTask' = lockTask
    BY LockTaskBecomes DEF lockTask
  <1> QED
    BY <1>1 DEF Locks!vars, lockTask, locks

(* A change of phase, with the kind and the workspace it had. *)
LEMMA Enters ==
  ASSUME TasksFit, NEW p \in Proc, NEW t, Becomes(p, t),
         t.kind = task[p].kind, t.ws = task[p].ws,
         task[p].step \notin {"idle"} \cup PassSteps, t.step \notin {"idle"} \cup PassSteps
  PROVE  Locks!Enter(p, LockPhase(t))
  <1>1. lockTask' = [lockTask EXCEPT ![p] = LockRecord(t)]
    BY LockTaskBecomes, LockTaskIs
  <1>2. lockTask[p] = LockRecord(task[p])
    BY LockTaskIs DEF lockTask
  <1>3. LockRecord(t) = [LockRecord(task[p]) EXCEPT !.phase = LockPhase(t)]
    BY DEF LockRecord
  <1> QED
    BY <1>1, <1>2, <1>3 DEF Locks!Enter, lockTask

LEMMA Rests ==
  ASSUME TasksFit, NEW p \in Proc, NEW t, Becomes(p, t), t.step \in {"idle"} \cup PassSteps
  PROVE  Locks!Rest(p)
  <1>1. lockTask' = [lockTask EXCEPT ![p] = Locks!Resting]
    BY LockTaskBecomes, LockTaskIs
  <1> QED
    BY <1>1 DEF Locks!Rest, lockTask

LEMMA Begins ==
  ASSUME TasksFit, NEW p \in Proc, NEW t, Becomes(p, t),
         task[p].step \in {"idle"} \cup PassSteps,
         t.kind \in Locks!Kind, t.ws \in Workspace, t.kind = "timeout" <=> p = Loop,
         t.step \notin {"idle"} \cup PassSteps, LockPhase(t) = "waitFirst",
         UNCHANGED locks
  PROVE  Locks!Next
  <1>1. lockTask' = [lockTask EXCEPT ![p] = LockRecord(t)]
    BY LockTaskBecomes, LockTaskIs
  <1>2. lockTask[p] = Locks!Resting
    BY LockTaskIs DEF lockTask
  <1>3. LockRecord(t) = [kind |-> t.kind, ws |-> t.ws, phase |-> "waitFirst"]
    BY DEF LockRecord
  <1>4. Locks!Begin(p, t.kind, t.ws)
    BY <1>1, <1>2, <1>3 DEF Locks!Begin, lockTask, Locks!Resting, locks
  <1> QED
    BY <1>4 DEF Locks!Next, Locks!Proc, Proc

(* A step of the work a call does under its locks, or the end of it. *)
LEMMA WorksOn ==
  ASSUME TasksFit, NEW p \in Proc, NEW s \in WorkSteps \cup {"return"}, Goto(p, s),
         task[p].step \in WorkSteps, MayBeAt(task[p].kind, s), UNCHANGED locks
  PROVE  TasksFit' /\ UNCHANGED Locks!vars
  <1> USE DEF WorkSteps, StartSteps, StopSteps, DeleteSteps, FileSteps, TimeoutSteps
  <1>1. Fits(p) /\ task[p].kind \in Kind
    BY WorkspaceTasks DEF TasksFit
  <1>2. s \in Steps
    BY DEF Steps, LockSteps
  <1>3. task[p].kind \notin {"none", "reconcile"}
    BY <1>1 DEF Fits, MayBeAt
  <1>4. ReliesOnRow(task[p].kind, s) => s \notin {"return", "unwind"} /\ Seen(p) \in Row
    <2> SUFFICES ASSUME ReliesOnRow(task[p].kind, s)
                 PROVE  s \notin {"return", "unwind"} /\ Seen(p) \in Row
      OBVIOUS
    <2>1. s \notin {"return", "unwind"} /\ s \notin FileSteps
      BY DEF ReliesOnRow
    <2>2. task[p].step \notin FileSteps
      BY <2>1, <1>1 DEF Fits, MayBeAt, Kind
    <2> QED
      BY <2>1, <2>2, <1>1 DEF Fits, ReliesOnRow
  <1>5. TasksFit'
    BY <1>1, <1>2, <1>3, <1>4, GotoFits DEF At
  <1>6. Becomes(p, Moved(p, s))
    BY <1>2, GotoMoves
  <1>7. LockTask(Moved(p, s)) = LockTask(task[p])
    BY DEF LockTask, LockPhase, Moved, PassSteps
  <1> QED
    BY <1>5, <1>6, <1>7, Unseen

(* The actions that are such steps. *)
StartWork(p) ==
    \/ CheckStart(p) \/ PrepareStorage(p) \/ PrepareFailed(p)
    \/ CreateContainer(p, FALSE) \/ CreateRefused(p) \/ RecordCreateFailure(p) \/ RecordCreated(p)
    \/ StartContainer(p, TRUE) \/ StartContainer(p, FALSE) \/ StartRefused(p)
    \/ RecordStartFailure(p) \/ RecordRunning(p) \/ RecordStartTimes(p)

StopWork(p) ==
    \/ CheckStop(p) \/ StopContainer(p, TRUE) \/ StopContainer(p, FALSE) \/ StopRefused(p)
    \/ RecordStopped(p) \/ RecordStopTime(p)

DeleteWork(p) ==
    \/ CheckDelete(p)
    \/ RemoveContainer(p, TRUE) \/ RemoveContainer(p, FALSE) \/ ContainerNotFound(p)
    \/ RemoveRefused(p) \/ ArchiveDirectories(p) \/ ArchiveFailed(p) \/ ForgetWorkspace(p)

OtherWork(p) ==
    \/ OpenFiles(p) \/ EndTransfer(p)
    \/ CheckTimeout(p) \/ RecordRemoved(p) \/ RecordRemovalTime(p)
    \/ task[p].step \in WorkSteps /\ Goto(p, "return") /\ UNCHANGED <<world, locks>>

GoesOn(p) ==
    \E s \in WorkSteps \cup {"return"} :
        Goto(p, s) /\ task[p].step \in WorkSteps /\ MayBeAt(task[p].kind, s) /\ UNCHANGED locks

LEMMA StartWorkGoesOn ==
  ASSUME TasksFit, NEW p \in Proc, StartWork(p)
  PROVE  GoesOn(p)
  <1> USE DEF WorkSteps, StartSteps
  <1>1. Fits(p) /\ task[p].kind \in Kind
    BY WorkspaceTasks DEF TasksFit
  <1>2. task[p].step \in StartSteps \ {"load"} => task[p].kind = "start"
    BY <1>1 DEF Fits, MayBeAt, Kind, StopSteps, DeleteSteps, FileSteps, TimeoutSteps
  <1>3. \A s \in StartSteps \cup {"return"} :
            task[p].kind = "start" => MayBeAt(task[p].kind, s)
    BY DEF MayBeAt
  <1> USE <1>2, <1>3 DEF At, GoesOn, Fail, locks
  <1>4. CASE CheckStart(p)
    BY <1>4 DEF CheckStart
  <1>5. CASE PrepareStorage(p) \/ PrepareFailed(p)
    BY <1>5 DEF PrepareStorage, PrepareFailed
  <1>6. CASE CreateContainer(p, FALSE)
    BY <1>6 DEF CreateContainer
  <1>7. CASE CreateRefused(p) \/ RecordCreateFailure(p) \/ RecordCreated(p)
    BY <1>7 DEF CreateRefused, RecordCreateFailure, RecordCreated
  <1>8. CASE StartContainer(p, TRUE) \/ StartContainer(p, FALSE) \/ StartRefused(p)
    BY <1>8 DEF StartContainer, StartRefused
  <1>9. CASE RecordStartFailure(p) \/ RecordRunning(p) \/ RecordStartTimes(p)
    BY <1>9 DEF RecordStartFailure, RecordRunning, RecordStartTimes
  <1> QED
    BY <1>4, <1>5, <1>6, <1>7, <1>8, <1>9 DEF StartWork

LEMMA StopWorkGoesOn ==
  ASSUME TasksFit, NEW p \in Proc, StopWork(p)
  PROVE  GoesOn(p)
  <1> USE DEF WorkSteps, StopSteps
  <1>1. Fits(p) /\ task[p].kind \in Kind
    BY WorkspaceTasks DEF TasksFit
  <1>2. /\ At(p, "checkStop") => task[p].kind = "stop"
        /\ task[p].step \in StopSteps \ {"checkStop"} => task[p].kind \in {"stop", "timeout"}
    BY <1>1 DEF At, Fits, MayBeAt, Kind, StartSteps, DeleteSteps, FileSteps, TimeoutSteps
  <1>3. /\ \A s \in StopSteps \cup {"return"} : MayBeAt("stop", s)
        /\ \A s \in (StopSteps \cup {"return"}) \ {"checkStop"} : MayBeAt("timeout", s)
    BY DEF MayBeAt
  <1> USE <1>2, <1>3 DEF At, GoesOn, Fail, locks
  <1>4. CASE CheckStop(p)
    BY <1>4 DEF CheckStop
  <1>5. CASE StopContainer(p, TRUE) \/ StopContainer(p, FALSE) \/ StopRefused(p)
    BY <1>5 DEF StopContainer, StopRefused
  <1>6. CASE RecordStopped(p) \/ RecordStopTime(p)
    BY <1>6 DEF RecordStopped, RecordStopTime
  <1> QED
    BY <1>4, <1>5, <1>6 DEF StopWork

LEMMA DeleteWorkGoesOn ==
  ASSUME TasksFit, NEW p \in Proc, DeleteWork(p)
  PROVE  GoesOn(p)
  <1> USE DEF WorkSteps, DeleteSteps, TimeoutSteps
  <1>1. Fits(p) /\ task[p].kind \in Kind
    BY WorkspaceTasks DEF TasksFit
  <1>2. /\ task[p].step \in DeleteSteps \ {"remove"} => task[p].kind = "delete"
        /\ At(p, "remove") => task[p].kind \in {"delete", "timeout"}
    BY <1>1 DEF At, Fits, MayBeAt, Kind, StartSteps, StopSteps, FileSteps
  <1>3. /\ \A s \in DeleteSteps \cup {"return"} : MayBeAt("delete", s)
        /\ MayBeAt("timeout", "removed") /\ MayBeAt("timeout", "return")
    BY DEF MayBeAt
  <1> USE <1>2, <1>3 DEF At, GoesOn, Fail, locks, AfterRemoval
  <1>4. CASE CheckDelete(p)
    BY <1>4 DEF CheckDelete
  <1>5. CASE RemoveContainer(p, TRUE) \/ RemoveContainer(p, FALSE)
    BY <1>5 DEF RemoveContainer
  <1>6. CASE ContainerNotFound(p) \/ RemoveRefused(p)
    BY <1>6 DEF ContainerNotFound, RemoveRefused
  <1>7. CASE ArchiveDirectories(p) \/ ArchiveFailed(p) \/ ForgetWorkspace(p)
    BY <1>7 DEF ArchiveDirectories, ArchiveFailed, ForgetWorkspace
  <1> QED
    BY <1>4, <1>5, <1>6, <1>7 DEF DeleteWork

LEMMA OtherWorkGoesOn ==
  ASSUME TasksFit, NEW p \in Proc, OtherWork(p)
  PROVE  GoesOn(p)
  <1>1. Fits(p) /\ task[p].kind \in Kind
    BY WorkspaceTasks DEF TasksFit
  <1>2. /\ task[p].step \in FileSteps => task[p].kind = "file"
        /\ task[p].step \in TimeoutSteps => task[p].kind = "timeout"
        /\ task[p].step \in WorkSteps => MayBeAt(task[p].kind, "return")
    BY <1>1 DEF Fits, MayBeAt, Kind, WorkSteps, StartSteps, StopSteps, DeleteSteps, FileSteps,
                TimeoutSteps
  <1>3. /\ \A s \in FileSteps \cup {"return"} : MayBeAt("file", s)
        /\ \A s \in TimeoutSteps \cup {"halt", "remove", "return"} : MayBeAt("timeout", s)
    BY DEF MayBeAt, FileSteps, TimeoutSteps
  <1>4. CASE OpenFiles(p) \/ EndTransfer(p)
    BY <1>2, <1>3, <1>4
       DEF OpenFiles, EndTransfer, Fail, At, GoesOn, locks, WorkSteps, FileSteps
  <1>5. CASE CheckTimeout(p) \/ RecordRemoved(p) \/ RecordRemovalTime(p)
    BY <1>2, <1>3, <1>5 DEF CheckTimeout, RecordRemoved, RecordRemovalTime, At, GoesOn, locks,
                            WorkSteps, TimeoutSteps, StopSteps, DeleteSteps
  <1>6. CASE task[p].step \in WorkSteps /\ Goto(p, "return") /\ UNCHANGED <<world, locks>>
    BY <1>2, <1>6 DEF GoesOn, locks
  <1> QED
    BY <1>4, <1>5, <1>6 DEF OtherWork

-----------------------------------------------------------------------------
(* The steps that are more than a move, one by one. *)

LEMMA TaskRecord ==
  ASSUME TasksFit, NEW p \in Proc
  PROVE  task[p] = [kind |-> task[p].kind, ws |-> task[p].ws, step |-> task[p].step,
                    seen |-> task[p].seen, found |-> task[p].found, todo |-> task[p].todo]
  BY WorkspaceTasks DEF Task

LEMMA StepNames ==
  /\ Steps = WorkSteps \cup LockSteps \cup PassSteps \cup {"load"}
  /\ WorkSteps = {"checkStart", "prepare", "create", "createFailed", "created", "boot",
                  "bootFailed", "booted", "ran", "checkStop", "halt", "halted", "haltTime",
                  "checkDelete", "remove", "archive", "forget", "open", "transfer", "expire",
                  "removed", "removalTime"}
  BY DEF Steps, WorkSteps, StartSteps, StopSteps, DeleteSteps, FileSteps, TimeoutSteps

TaskOf(k, w, s, seen, found, todo) ==
    [kind |-> k, ws |-> w, step |-> s, seen |-> seen, found |-> found, todo |-> todo]

(* Several fields of one task at once. *)
LEMMA Overwrites ==
  ASSUME TasksFit, NEW p \in Proc, NEW a, NEW b
  PROVE  /\ [[task EXCEPT ![p] = a] EXCEPT ![p] = b] = [task EXCEPT ![p] = b]
         /\ [task EXCEPT ![p] = a][p] = a
  BY DEF TasksFit

LEMMA BeginsAt ==
  ASSUME TasksFit, NEW p \in Proc, NEW k, NEW w, NEW s,
         task' = [task EXCEPT ![p].kind = k, ![p].ws = w, ![p].step = s]
  PROVE  Becomes(p, TaskOf(k, w, s, task[p].seen, task[p].found, task[p].todo))
  <1>0. task[p] = TaskOf(task[p].kind, task[p].ws, task[p].step, task[p].seen,
            task[p].found, task[p].todo)
    BY TaskRecord DEF TaskOf
  <1>1a. [task[p] EXCEPT !.kind = k]
            = TaskOf(k, task[p].ws, task[p].step, task[p].seen, task[p].found, task[p].todo)
    BY <1>0 DEF TaskOf
  <1>1. [task EXCEPT ![p].kind = k]
            = [task EXCEPT ![p] = TaskOf(k, task[p].ws, task[p].step, task[p].seen,
                      task[p].found, task[p].todo)]
    BY <1>1a, Zenon
  <1>2a. [TaskOf(k, task[p].ws, task[p].step, task[p].seen, task[p].found,
            task[p].todo) EXCEPT !.ws = w]
                      = TaskOf(k, w, task[p].step, task[p].seen, task[p].found, task[p].todo)
    BY <1>0 DEF TaskOf
  <1>2. [task EXCEPT ![p].kind = k, ![p].ws = w]
            = [task EXCEPT ![p] = TaskOf(k, w, task[p].step, task[p].seen, task[p].found,
                      task[p].todo)]
    BY <1>1, <1>2a, Overwrites, Zenon
  <1>3a. [TaskOf(k, w, task[p].step, task[p].seen, task[p].found,
            task[p].todo) EXCEPT !.step = s]
                      = TaskOf(k, w, s, task[p].seen, task[p].found, task[p].todo)
    BY <1>0 DEF TaskOf
  <1>3. [task EXCEPT ![p].kind = k, ![p].ws = w, ![p].step = s]
            = [task EXCEPT ![p] = TaskOf(k, w, s, task[p].seen, task[p].found, task[p].todo)]
    BY <1>2, <1>3a, Overwrites, Zenon
  <1> QED
    BY <1>3 DEF Becomes

LEMMA BeginsWithRow ==
  ASSUME TasksFit, NEW p \in Proc, NEW k, NEW w, NEW s, NEW x,
         task' = [task EXCEPT ![p].kind = k, ![p].ws = w, ![p].step = s, ![p].seen[w] = x]
  PROVE  Becomes(p, TaskOf(k, w, s, [task[p].seen EXCEPT ![w] = x], task[p].found, task[p].todo))
  <1> DEFINE seen == [task[p].seen EXCEPT ![w] = x]
  <1>0. task[p] = TaskOf(task[p].kind, task[p].ws, task[p].step, task[p].seen,
            task[p].found, task[p].todo)
    BY TaskRecord DEF TaskOf
  <1>1a. [task[p] EXCEPT !.kind = k]
            = TaskOf(k, task[p].ws, task[p].step, task[p].seen, task[p].found, task[p].todo)
    <2> HIDE DEF seen
    <2> QED
      BY <1>0 DEF TaskOf
  <1>1. [task EXCEPT ![p].kind = k]
            = [task EXCEPT ![p] = TaskOf(k, task[p].ws, task[p].step, task[p].seen,
                      task[p].found, task[p].todo)]
    BY <1>1a, Zenon
  <1>2a. [TaskOf(k, task[p].ws, task[p].step, task[p].seen, task[p].found,
            task[p].todo) EXCEPT !.ws = w]
                      = TaskOf(k, w, task[p].step, task[p].seen, task[p].found, task[p].todo)
    <2> HIDE DEF seen
    <2> QED
      BY <1>0 DEF TaskOf
  <1>2. [task EXCEPT ![p].kind = k, ![p].ws = w]
            = [task EXCEPT ![p] = TaskOf(k, w, task[p].step, task[p].seen, task[p].found,
                      task[p].todo)]
    BY <1>1, <1>2a, Overwrites, Zenon
  <1>3a. [TaskOf(k, w, task[p].step, task[p].seen, task[p].found,
            task[p].todo) EXCEPT !.step = s]
                      = TaskOf(k, w, s, task[p].seen, task[p].found, task[p].todo)
    <2> HIDE DEF seen
    <2> QED
      BY <1>0 DEF TaskOf
  <1>3. [task EXCEPT ![p].kind = k, ![p].ws = w, ![p].step = s]
            = [task EXCEPT ![p] = TaskOf(k, w, s, task[p].seen, task[p].found, task[p].todo)]
    BY <1>2, <1>3a, Overwrites, Zenon
  <1>4a. [TaskOf(k, w, s, task[p].seen, task[p].found,
            task[p].todo) EXCEPT !.seen = seen] = TaskOf(k, w, s, seen, task[p].found, task[p].todo)
    <2> HIDE DEF seen
    <2> QED
      BY <1>0 DEF TaskOf
  <1>4b. TaskOf(k, w, s, task[p].seen, task[p].found, task[p].todo).seen = task[p].seen
    BY DEF TaskOf
  <1>4. [task EXCEPT ![p].kind = k, ![p].ws = w, ![p].step = s, ![p].seen[w] = x]
            = [task EXCEPT ![p] = TaskOf(k, w, s, seen, task[p].found, task[p].todo)]
    <2> DEFINE f == [task EXCEPT ![p].kind = k, ![p].ws = w, ![p].step = s]
    <2>1. f = [task EXCEPT ![p] = TaskOf(k, w, s, task[p].seen, task[p].found, task[p].todo)]
      BY <1>3
    <2>2. f[p] = TaskOf(k, w, s, task[p].seen, task[p].found,
              task[p].todo) /\ f[p].seen = task[p].seen
      <3> HIDE DEF f
      <3>1. [task EXCEPT ![p]
                = TaskOf(k, w, s, task[p].seen, task[p].found, task[p].todo)][p]
                  = TaskOf(k, w, s, task[p].seen, task[p].found, task[p].todo)
        BY Overwrites
      <3> QED
        BY <2>1, <1>4b, <3>1, Zenon
    <2>3. [f EXCEPT ![p] = [f[p] EXCEPT !.seen = [f[p].seen EXCEPT ![w] = x]]]
            = [f EXCEPT ![p] = TaskOf(k, w, s, seen, task[p].found, task[p].todo)]
      <3> HIDE DEF f
      <3> QED
        BY <2>2, <1>4a, Zenon
    <2> QED
      BY <2>1, <2>3, Overwrites, Zenon
  <1> QED
    BY <1>4 DEF Becomes

LEMMA TurnsTo ==
  ASSUME TasksFit, NEW p \in Proc, NEW w, NEW s,
         task' = [task EXCEPT ![p].ws = w, ![p].step = s]
  PROVE  Becomes(p, TaskOf(task[p].kind, w, s, task[p].seen, task[p].found, task[p].todo))
  <1>0. task[p] = TaskOf(task[p].kind, task[p].ws, task[p].step, task[p].seen,
            task[p].found, task[p].todo)
    BY TaskRecord DEF TaskOf
  <1>1a. [task[p] EXCEPT !.ws = w]
            = TaskOf(task[p].kind, w, task[p].step, task[p].seen, task[p].found, task[p].todo)
    BY <1>0 DEF TaskOf
  <1>1. [task EXCEPT ![p].ws = w]
            = [task EXCEPT ![p] = TaskOf(task[p].kind, w, task[p].step, task[p].seen,
                      task[p].found, task[p].todo)]
    BY <1>1a, Zenon
  <1>2a. [TaskOf(task[p].kind, w, task[p].step, task[p].seen, task[p].found,
            task[p].todo) EXCEPT !.step = s]
                      = TaskOf(task[p].kind, w, s, task[p].seen, task[p].found, task[p].todo)
    BY <1>0 DEF TaskOf
  <1>2. [task EXCEPT ![p].ws = w, ![p].step = s]
            = [task EXCEPT ![p] = TaskOf(task[p].kind, w, s, task[p].seen, task[p].found,
                      task[p].todo)]
    BY <1>1, <1>2a, Overwrites, Zenon
  <1> QED
    BY <1>2 DEF Becomes

LEMMA TurnsFrom ==
  ASSUME TasksFit, NEW p \in Proc, NEW w, NEW s, NEW x,
         task' = [task EXCEPT ![p].ws = w, ![p].step = s, ![p].todo = x]
  PROVE  Becomes(p, TaskOf(task[p].kind, w, s, task[p].seen, task[p].found, x))
  <1>0. task[p] = TaskOf(task[p].kind, task[p].ws, task[p].step, task[p].seen,
            task[p].found, task[p].todo)
    BY TaskRecord DEF TaskOf
  <1>1a. [task[p] EXCEPT !.ws = w]
            = TaskOf(task[p].kind, w, task[p].step, task[p].seen, task[p].found, task[p].todo)
    BY <1>0 DEF TaskOf
  <1>1. [task EXCEPT ![p].ws = w]
            = [task EXCEPT ![p] = TaskOf(task[p].kind, w, task[p].step, task[p].seen,
                      task[p].found, task[p].todo)]
    BY <1>1a, Zenon
  <1>2a. [TaskOf(task[p].kind, w, task[p].step, task[p].seen, task[p].found,
            task[p].todo) EXCEPT !.step = s]
                      = TaskOf(task[p].kind, w, s, task[p].seen, task[p].found, task[p].todo)
    BY <1>0 DEF TaskOf
  <1>2. [task EXCEPT ![p].ws = w, ![p].step = s]
            = [task EXCEPT ![p] = TaskOf(task[p].kind, w, s, task[p].seen, task[p].found,
                      task[p].todo)]
    BY <1>1, <1>2a, Overwrites, Zenon
  <1>3a. [TaskOf(task[p].kind, w, s, task[p].seen, task[p].found,
            task[p].todo) EXCEPT !.todo = x]
                      = TaskOf(task[p].kind, w, s, task[p].seen, task[p].found, x)
    BY <1>0 DEF TaskOf
  <1>3. [task EXCEPT ![p].ws = w, ![p].step = s, ![p].todo = x]
            = [task EXCEPT ![p] = TaskOf(task[p].kind, w, s, task[p].seen, task[p].found, x)]
    BY <1>2, <1>3a, Overwrites, Zenon
  <1> QED
    BY <1>3 DEF Becomes

LEMMA BeginsFinding ==
  ASSUME TasksFit, NEW p \in Proc, NEW k, NEW s, NEW x,
         task' = [task EXCEPT ![p].kind = k, ![p].step = s, ![p].found = x]
  PROVE  Becomes(p, TaskOf(k, task[p].ws, s, task[p].seen, x, task[p].todo))
  <1>0. task[p] = TaskOf(task[p].kind, task[p].ws, task[p].step, task[p].seen,
            task[p].found, task[p].todo)
    BY TaskRecord DEF TaskOf
  <1>1a. [task[p] EXCEPT !.kind = k]
            = TaskOf(k, task[p].ws, task[p].step, task[p].seen, task[p].found, task[p].todo)
    BY <1>0 DEF TaskOf
  <1>1. [task EXCEPT ![p].kind = k]
            = [task EXCEPT ![p] = TaskOf(k, task[p].ws, task[p].step, task[p].seen,
                      task[p].found, task[p].todo)]
    BY <1>1a, Zenon
  <1>2a. [TaskOf(k, task[p].ws, task[p].step, task[p].seen, task[p].found,
            task[p].todo) EXCEPT !.step = s]
                      = TaskOf(k, task[p].ws, s, task[p].seen, task[p].found, task[p].todo)
    BY <1>0 DEF TaskOf
  <1>2. [task EXCEPT ![p].kind = k, ![p].step = s]
            = [task EXCEPT ![p] = TaskOf(k, task[p].ws, s, task[p].seen, task[p].found,
                      task[p].todo)]
    BY <1>1, <1>2a, Overwrites, Zenon
  <1>3a. [TaskOf(k, task[p].ws, s, task[p].seen, task[p].found,
            task[p].todo) EXCEPT !.found = x]
                      = TaskOf(k, task[p].ws, s, task[p].seen, x, task[p].todo)
    BY <1>0 DEF TaskOf
  <1>3. [task EXCEPT ![p].kind = k, ![p].step = s, ![p].found = x]
            = [task EXCEPT ![p] = TaskOf(k, task[p].ws, s, task[p].seen, x, task[p].todo)]
    BY <1>2, <1>3a, Overwrites, Zenon
  <1> QED
    BY <1>3 DEF Becomes

LEMMA LearnsID ==
  ASSUME TasksFit, NEW p \in Proc, NEW s, NEW w, NEW x,
         task' = [task EXCEPT ![p].step = s, ![p].seen[w].rid = x]
  PROVE  Becomes(p, TaskOf(task[p].kind, task[p].ws, s, [task[p].seen EXCEPT ![w]
            = [task[p].seen[w] EXCEPT !.rid = x]], task[p].found, task[p].todo))
  <1> DEFINE seen == [task[p].seen EXCEPT ![w] = [task[p].seen[w] EXCEPT !.rid = x]]
  <1>0. task[p] = TaskOf(task[p].kind, task[p].ws, task[p].step, task[p].seen,
            task[p].found, task[p].todo)
    BY TaskRecord DEF TaskOf
  <1>1a. [task[p] EXCEPT !.step = s]
            = TaskOf(task[p].kind, task[p].ws, s, task[p].seen, task[p].found, task[p].todo)
    <2> HIDE DEF seen
    <2> QED
      BY <1>0 DEF TaskOf
  <1>1. [task EXCEPT ![p].step = s]
            = [task EXCEPT ![p] = TaskOf(task[p].kind, task[p].ws, s, task[p].seen,
                      task[p].found, task[p].todo)]
    BY <1>1a, Zenon
  <1>2a. [TaskOf(task[p].kind, task[p].ws, s, task[p].seen, task[p].found,
            task[p].todo) EXCEPT !.seen = seen]
                      = TaskOf(task[p].kind, task[p].ws, s, seen, task[p].found, task[p].todo)
    <2> HIDE DEF seen
    <2> QED
      BY <1>0 DEF TaskOf
  <1>2b. TaskOf(task[p].kind, task[p].ws, s, task[p].seen, task[p].found,
            task[p].todo).seen = task[p].seen
    BY DEF TaskOf
  <1>2. [task EXCEPT ![p].step = s, ![p].seen[w].rid = x]
            = [task EXCEPT ![p] = TaskOf(task[p].kind, task[p].ws, s, seen,
                      task[p].found, task[p].todo)]
    <2> DEFINE f == [task EXCEPT ![p].step = s]
    <2>1. f = [task EXCEPT ![p]
              = TaskOf(task[p].kind, task[p].ws, s, task[p].seen, task[p].found, task[p].todo)]
      BY <1>1
    <2>2. f[p] = TaskOf(task[p].kind, task[p].ws, s, task[p].seen, task[p].found,
              task[p].todo) /\ f[p].seen = task[p].seen
      <3> HIDE DEF f
      <3>1. [task EXCEPT ![p]
                = TaskOf(task[p].kind, task[p].ws, s, task[p].seen, task[p].found,
                  task[p].todo)][p] = TaskOf(task[p].kind, task[p].ws, s, task[p].seen,
                    task[p].found, task[p].todo)
        BY Overwrites
      <3> QED
        BY <2>1, <1>2b, <3>1, Zenon
    <2>3. [f EXCEPT ![p] = [f[p] EXCEPT !.seen = [f[p].seen EXCEPT ![w]
              = [f[p].seen[w] EXCEPT !.rid = x]]]]
            = [f EXCEPT ![p] = TaskOf(task[p].kind, task[p].ws, s, seen, task[p].found,
                      task[p].todo)]
      <3> HIDE DEF f
      <3> QED
        BY <2>2, <1>2a, Zenon
    <2> QED
      BY <2>1, <2>3, Overwrites, Zenon
  <1> QED
    BY <1>2 DEF Becomes

LEMMA Reads ==
  ASSUME TasksFit, NEW p \in Proc, NEW w, NEW x, NEW s,
         task' = [task EXCEPT ![p].seen[w] = x, ![p].step = s]
  PROVE  Becomes(p, TaskOf(task[p].kind, task[p].ws, s, [task[p].seen EXCEPT ![w] = x],
            task[p].found, task[p].todo))
  <1> DEFINE seen == [task[p].seen EXCEPT ![w] = x]
  <1>0. task[p] = TaskOf(task[p].kind, task[p].ws, task[p].step, task[p].seen,
            task[p].found, task[p].todo)
    BY TaskRecord DEF TaskOf
  <1>1a. [task[p] EXCEPT !.seen = seen]
            = TaskOf(task[p].kind, task[p].ws, task[p].step, seen, task[p].found, task[p].todo)
    <2> HIDE DEF seen
    <2> QED
      BY <1>0 DEF TaskOf
  <1>1. [task EXCEPT ![p].seen[w] = x]
            = [task EXCEPT ![p] = TaskOf(task[p].kind, task[p].ws, task[p].step, seen,
                      task[p].found, task[p].todo)]
    BY <1>1a, Zenon
  <1>2a. [TaskOf(task[p].kind, task[p].ws, task[p].step, seen, task[p].found,
            task[p].todo) EXCEPT !.step = s]
                      = TaskOf(task[p].kind, task[p].ws, s, seen, task[p].found, task[p].todo)
    <2> HIDE DEF seen
    <2> QED
      BY <1>0 DEF TaskOf
  <1>2. [task EXCEPT ![p].seen[w] = x, ![p].step = s]
            = [task EXCEPT ![p] = TaskOf(task[p].kind, task[p].ws, s, seen,
                      task[p].found, task[p].todo)]
    BY <1>1, <1>2a, Overwrites, Zenon
  <1> QED
    BY <1>2 DEF Becomes

LEMMA ReadsAll ==
  ASSUME TasksFit, NEW p \in Proc, NEW x, NEW s, NEW y,
         task' = [task EXCEPT ![p].seen = x, ![p].step = s, ![p].todo = y]
  PROVE  Becomes(p, TaskOf(task[p].kind, task[p].ws, s, x, task[p].found, y))
  <1>0. task[p] = TaskOf(task[p].kind, task[p].ws, task[p].step, task[p].seen,
            task[p].found, task[p].todo)
    BY TaskRecord DEF TaskOf
  <1>1a. [task[p] EXCEPT !.seen = x]
            = TaskOf(task[p].kind, task[p].ws, task[p].step, x, task[p].found, task[p].todo)
    BY <1>0 DEF TaskOf
  <1>1. [task EXCEPT ![p].seen = x]
            = [task EXCEPT ![p] = TaskOf(task[p].kind, task[p].ws, task[p].step, x,
                      task[p].found, task[p].todo)]
    BY <1>1a, Zenon
  <1>2a. [TaskOf(task[p].kind, task[p].ws, task[p].step, x, task[p].found,
            task[p].todo) EXCEPT !.step = s]
                      = TaskOf(task[p].kind, task[p].ws, s, x, task[p].found, task[p].todo)
    BY <1>0 DEF TaskOf
  <1>2. [task EXCEPT ![p].seen = x, ![p].step = s]
            = [task EXCEPT ![p] = TaskOf(task[p].kind, task[p].ws, s, x, task[p].found,
                      task[p].todo)]
    BY <1>1, <1>2a, Overwrites, Zenon
  <1>3a. [TaskOf(task[p].kind, task[p].ws, s, x, task[p].found,
            task[p].todo) EXCEPT !.todo = y]
                      = TaskOf(task[p].kind, task[p].ws, s, x, task[p].found, y)
    BY <1>0 DEF TaskOf
  <1>3. [task EXCEPT ![p].seen = x, ![p].step = s, ![p].todo = y]
            = [task EXCEPT ![p] = TaskOf(task[p].kind, task[p].ws, s, x, task[p].found, y)]
    BY <1>2, <1>3a, Overwrites, Zenon
  <1> QED
    BY <1>3 DEF Becomes

LEMMA Visits ==
  ASSUME TasksFit, NEW p \in Proc, NEW x,
         task' = [task EXCEPT ![p].todo = x]
  PROVE  Becomes(p, TaskOf(task[p].kind, task[p].ws, task[p].step, task[p].seen, task[p].found, x))
  <1>0. task[p] = TaskOf(task[p].kind, task[p].ws, task[p].step, task[p].seen,
            task[p].found, task[p].todo)
    BY TaskRecord DEF TaskOf
  <1>1a. [task[p] EXCEPT !.todo = x]
            = TaskOf(task[p].kind, task[p].ws, task[p].step, task[p].seen, task[p].found, x)
    BY <1>0 DEF TaskOf
  <1>1. [task EXCEPT ![p].todo = x]
            = [task EXCEPT ![p] = TaskOf(task[p].kind, task[p].ws, task[p].step,
                      task[p].seen, task[p].found, x)]
    BY <1>1a, Zenon
  <1> QED
    BY <1>1 DEF Becomes

LEMMA VisitsAt ==
  ASSUME TasksFit, NEW p \in Proc, NEW x, NEW s,
         task' = [task EXCEPT ![p].todo = x, ![p].step = s]
  PROVE  Becomes(p, TaskOf(task[p].kind, task[p].ws, s, task[p].seen, task[p].found, x))
  <1>0. task[p] = TaskOf(task[p].kind, task[p].ws, task[p].step, task[p].seen,
            task[p].found, task[p].todo)
    BY TaskRecord DEF TaskOf
  <1>1a. [task[p] EXCEPT !.todo = x]
            = TaskOf(task[p].kind, task[p].ws, task[p].step, task[p].seen, task[p].found, x)
    BY <1>0 DEF TaskOf
  <1>1. [task EXCEPT ![p].todo = x]
            = [task EXCEPT ![p] = TaskOf(task[p].kind, task[p].ws, task[p].step,
                      task[p].seen, task[p].found, x)]
    BY <1>1a, Zenon
  <1>2a. [TaskOf(task[p].kind, task[p].ws, task[p].step, task[p].seen,
            task[p].found, x) EXCEPT !.step = s]
                      = TaskOf(task[p].kind, task[p].ws, s, task[p].seen, task[p].found, x)
    BY <1>0 DEF TaskOf
  <1>2. [task EXCEPT ![p].todo = x, ![p].step = s]
            = [task EXCEPT ![p] = TaskOf(task[p].kind, task[p].ws, s, task[p].seen,
                      task[p].found, x)]
    BY <1>1, <1>2a, Overwrites, Zenon
  <1> QED
    BY <1>2 DEF Becomes

LEMMA BeginFits ==
  ASSUME WorldTyped, TasksFit, NEW p \in Proc, Begin(p)
  PROVE  TasksFit' /\ Locks!Next
  <1>1. PICK w \in Workspace : \/ BeginStart(p, w) \/ BeginFileAccess(p, w)
                               \/ \E k \in {"stop", "delete"} : BeginChange(p, k, w)
    BY DEF Begin
  <1>2. Fits(p) /\ At(p, "idle") /\ p # Loop
    BY <1>1, LifecycleAssumption DEF TasksFit, BeginStart, BeginFileAccess, BeginChange
  <1>3. task[p].kind = "none" /\ task[p].todo = {}
    BY <1>2, WorkspaceTasks
       DEF Fits, MayBeAt, At, Kind, StartSteps, StopSteps, DeleteSteps, FileSteps, TimeoutSteps
  <1>4. UNCHANGED locks
    BY <1>1 DEF BeginStart, BeginFileAccess, BeginChange
  <1> DEFINE t(k, s, seen) == TaskOf(k, w, s, seen, task[p].found, {})
  <1>5. ASSUME NEW k \in {"start", "stop", "delete", "file"},
               NEW s \in {"awaitAdmission", "awaitWorkspace"},
               NEW seen \in [Workspace -> Row \cup {Absent}],
               Becomes(p, t(k, s, seen)),
               k = "start" <=> s = "awaitAdmission",
               k \in {"stop", "delete"} => seen[w] \in Row
        PROVE  TasksFit' /\ Locks!Next
    <2>1. t(k, s, seen) \in Task
      BY WorkspaceTasks DEF TaskOf, Task, Kind, LockSteps
    <2>2. /\ Runs(p, k) /\ MayBeAt(k, s)
          /\ ReliesOnRow(k, s) => seen[w] \in Row
      BY <1>2, <1>5, StepNames DEF Runs, MayBeAt, ReliesOnRow
    <2>3. TasksFit'
      BY <1>5, <2>1, <2>2, BecomesFit DEF TaskOf
    <2>4. Locks!Next
      BY <1>2, <1>4, <1>5, Begins
         DEF TaskOf, At, LockPhase, PassSteps, Locks!Kind, Locks!RequestKind
    <2> QED
      BY <2>3, <2>4
  <1>6. CASE BeginStart(p, w)
    <2>1. task' = [task EXCEPT ![p].kind = "start", ![p].ws = w, ![p].step = "awaitAdmission"]
      BY <1>6 DEF BeginStart
    <2>2. Becomes(p, t("start", "awaitAdmission", task[p].seen))
      BY <1>3, <2>1, BeginsAt
    <2> QED
      BY <1>5, <2>2, WorkspaceTasks
  <1>7. CASE BeginFileAccess(p, w)
    <2>1. task' = [task EXCEPT ![p].kind = "file", ![p].ws = w, ![p].step = "awaitWorkspace"]
      BY <1>7 DEF BeginFileAccess
    <2>2. Becomes(p, t("file", "awaitWorkspace", task[p].seen))
      BY <1>3, <2>1, BeginsAt
    <2> QED
      BY <1>5, <2>2, WorkspaceTasks
  <1>8. ASSUME NEW k \in {"stop", "delete"}, BeginChange(p, k, w)
        PROVE  TasksFit' /\ Locks!Next
    <2> DEFINE seen == [task[p].seen EXCEPT ![w] = row[w]]
    <2>1. task' = [task EXCEPT ![p].kind = k, ![p].ws = w, ![p].step = "awaitWorkspace",
                               ![p].seen[w] = row[w]]
      BY <1>8 DEF BeginChange
    <2>2. Becomes(p, t(k, "awaitWorkspace", seen))
      BY <1>3, <2>1, BeginsWithRow
    <2>3. seen \in [Workspace -> Row \cup {Absent}] /\ seen[w] \in Row
      BY <1>8, WorkspaceTasks DEF BeginChange, Present, WorldTyped
    <2> QED
      BY <1>5, <2>2, <2>3
  <1> QED
    BY <1>1, <1>6, <1>7, <1>8

LEMMA AcquireAdmissionFits ==
  ASSUME TasksFit, NEW p \in Proc, AcquireAdmission(p)
  PROVE  TasksFit' /\ Locks!Next
  <1>1. Fits(p) /\ task[p].kind \in Kind
    BY WorkspaceTasks DEF TasksFit
  <1>2. task[p].kind \in {"start", "stop", "delete", "timeout"} /\ At(p, "awaitAdmission")
    BY <1>1, StepNames DEF AcquireAdmission, At, Fits, MayBeAt, Kind, FileSteps
  <1>3. PICK s \in {"load", "checkStop", "checkDelete", "expire"} :
            /\ Goto(p, s) /\ MayBeAt(task[p].kind, s)
            /\ s = "load" <=> task[p].kind = "start"
    BY <1>2 DEF AcquireAdmission, MayBeAt, StartSteps, StopSteps, DeleteSteps, TimeoutSteps
  <1>4. s \in Steps
    BY <1>3, StepNames
  <1>5. ReliesOnRow(task[p].kind, s) => Seen(p) \in Row
    BY <1>1, <1>2, <1>3, StepNames DEF Fits, ReliesOnRow, At
  <1>6. TasksFit'
    BY <1>2, <1>3, <1>4, <1>5, GotoFits DEF At
  <1>7. Becomes(p, Moved(p, s))
    BY <1>3, <1>4, GotoMoves
  <1>8. Locks!Enter(p, LockPhase(Moved(p, s)))
    BY <1>2, <1>7, Enters DEF Moved, At, PassSteps
  <1>9. /\ lockTask[p] = LockRecord(task[p])
        /\ LockPhase(Moved(p, s)) = IF task[p].kind = "start" THEN "waitSecond" ELSE "working"
    BY <1>2, <1>3, LockTaskIs DEF lockTask, LockPhase, Moved, At, PassSteps
  <1>10. Locks!AcquireAdmission(p)
    BY <1>2, <1>8, <1>9
       DEF AcquireAdmission, Locks!AcquireAdmission, Locks!AwaitsAdmission, lockTask,
           Locks!AdmissionFirst, LockRecord, LockPhase, At
  <1> QED
    BY <1>6, <1>10 DEF Locks!Next, Locks!Acquire, Locks!Proc, Proc

LEMMA AcquireWorkspaceFits ==
  ASSUME TasksFit, NEW p \in Proc, AcquireWorkspace(p)
  PROVE  TasksFit' /\ Locks!Next
  <1>1. Fits(p) /\ task[p].kind \in Kind
    BY WorkspaceTasks DEF TasksFit
  <1>2. task[p].kind \in {"start", "stop", "delete", "file", "timeout"} /\ At(p, "awaitWorkspace")
    BY <1>1, StepNames DEF AcquireWorkspace, At, Fits, MayBeAt, Kind
  <1>3. PICK s \in {"checkStart", "open", "awaitAdmission"} :
            /\ Goto(p, s) /\ MayBeAt(task[p].kind, s)
            /\ s = "checkStart" <=> task[p].kind = "start"
            /\ s = "open" <=> task[p].kind = "file"
    BY <1>2 DEF AcquireWorkspace, MayBeAt, StartSteps, StopSteps, DeleteSteps, FileSteps,
                TimeoutSteps
  <1>4. s \in Steps
    BY <1>3, StepNames DEF LockSteps
  <1>5. ReliesOnRow(task[p].kind, s) => Seen(p) \in Row
    BY <1>1, <1>2, <1>3, StepNames DEF Fits, ReliesOnRow, At, FileSteps
  <1>6. TasksFit'
    BY <1>2, <1>3, <1>4, <1>5, GotoFits DEF At
  <1>7. Becomes(p, Moved(p, s))
    BY <1>3, <1>4, GotoMoves
  <1>8. Locks!Enter(p, LockPhase(Moved(p, s)))
    BY <1>2, <1>7, Enters DEF Moved, At, PassSteps
  <1>9. /\ lockTask[p] = LockRecord(task[p])
        /\ LockPhase(Moved(p, s)) =
             IF task[p].kind \in {"start", "file"} THEN "working" ELSE "waitSecond"
    BY <1>2, <1>3, LockTaskIs DEF lockTask, LockPhase, Moved, At, PassSteps
  <1>10. /\ lockTask[p].kind = task[p].kind /\ lockTask[p].ws = task[p].ws
         /\ lockTask[p].phase = IF task[p].kind = "start" THEN "waitSecond" ELSE "waitFirst"
    BY <1>2, <1>9 DEF LockRecord, LockPhase, At
  <1>11. Locks!AwaitsWorkspace(p)
    BY <1>2, <1>10 DEF Locks!AwaitsWorkspace, Locks!AdmissionFirst, lockTask
  <1>12. Locks!AcquireWorkspace(p)
    BY <1>8, <1>9, <1>10, <1>11 DEF AcquireWorkspace, Locks!AcquireWorkspace, lockTask, Ws
  <1> QED
    BY <1>6, <1>12 DEF Locks!Next, Locks!Acquire, Locks!Proc, Proc

(* A request that waits for a workspace gives up what it holds. *)
LEMMA UnwindsEarly ==
  ASSUME TasksFit, NEW p \in Request, task[p].kind = "start",
         task[p].step \in {"load", "awaitWorkspace"},
         NEW t, Becomes(p, t), t.kind = "start", t.ws = task[p].ws, t.step = "unwind",
         UNCHANGED locks
  PROVE  Locks!Next
  <1>1. p \in Proc
    BY DEF Proc
  <1>2. Locks!Enter(p, "unwinding")
    <2>1. LockPhase(t) = "unwinding"
      BY DEF LockPhase
    <2> QED
      BY <1>1, <2>1, Enters DEF PassSteps
  <1>3. lockTask[p] = LockRecord(task[p]) /\ LockPhase(task[p]) = "waitSecond"
    BY <1>1, LockTaskIs DEF lockTask, LockPhase, PassSteps
  <1>4. Locks!GiveUp(p)
    BY <1>2, <1>3 DEF Locks!GiveUp, Locks!AwaitsWorkspace, Locks!AdmissionFirst, lockTask,
                      LockRecord, locks
  <1> QED
    BY <1>1, <1>4 DEF Locks!Next, Locks!Proc, Proc

LEMMA GiveUpFits ==
  ASSUME TasksFit, NEW p \in Proc, GiveUp(p)
  PROVE  TasksFit' /\ Locks!Next
  <1>1. Fits(p) /\ task[p].kind \in Kind
    BY WorkspaceTasks DEF TasksFit
  <1>2. p \in Request /\ At(p, "awaitWorkspace") /\ UNCHANGED locks
    BY DEF GiveUp, locks
  <1>3. task[p].kind \in {"start", "stop", "delete", "file", "timeout"}
    BY <1>1, <1>2, StepNames DEF At, Fits, MayBeAt, Kind
  <1>4. CASE task[p].kind = "start"
    <2>1. Goto(p, "unwind")
      BY <1>4 DEF GiveUp
    <2>2. "unwind" \in Steps /\ MayBeAt("start", "unwind") /\ ~ReliesOnRow("start", "unwind")
      BY StepNames DEF LockSteps, MayBeAt, ReliesOnRow
    <2>3. TasksFit'
      BY <1>2, <1>4, <2>1, <2>2, GotoFits DEF At
    <2>4. Becomes(p, Moved(p, "unwind"))
      BY <2>1, <2>2, GotoMoves
    <2> QED
      BY <1>2, <1>4, <2>3, <2>4, UnwindsEarly DEF At, Moved
  <1>5. CASE task[p].kind # "start"
    <2>1. Rest(p) /\ Becomes(p, Resting)
      BY <1>5 DEF GiveUp, Rest, Becomes
    <2>2. TasksFit'
      BY <2>1, RestFits
    <2>3. Locks!Rest(p)
      BY <2>1, Rests, RestingTask
    <2>4. lockTask[p] = LockRecord(task[p]) /\ LockPhase(task[p]) = "waitFirst"
      BY <1>2, <1>3, <1>5, LockTaskIs DEF lockTask, LockPhase, At, PassSteps
    <2>5. Locks!GiveUp(p)
      BY <1>2, <1>3, <1>5, <2>3, <2>4
         DEF Locks!GiveUp, Locks!AwaitsWorkspace, Locks!AdmissionFirst, lockTask, LockRecord,
             locks
    <2> QED
      BY <2>2, <2>5 DEF Locks!Next, Locks!Proc, Proc
  <1> QED
    BY <1>4, <1>5

LEMMA LoadRowFits ==
  ASSUME WorldTyped, TasksFit, NEW p \in Proc, LoadRow(p)
  PROVE  TasksFit' /\ [Locks!Next]_(Locks!vars)
  <1>1. Fits(p) /\ task[p].kind \in Kind
    BY WorkspaceTasks DEF TasksFit
  <1>2. task[p].kind = "start" /\ At(p, "load") /\ UNCHANGED locks
    BY <1>1, StepNames
       DEF LoadRow, At, Fits, MayBeAt, Kind, StopSteps, DeleteSteps, FileSteps, TimeoutSteps, locks
  <1>3. p \in Request /\ task[p].todo = {}
    BY <1>1, <1>2 DEF Fits, Runs, Proc
  <1> DEFINE s == IF Present(Ws(p)) THEN "awaitWorkspace" ELSE "unwind"
             seen == [task[p].seen EXCEPT ![Ws(p)] = row[Ws(p)]]
             t == TaskOf(task[p].kind, task[p].ws, s, seen, task[p].found, task[p].todo)
  <1>4. task' = [task EXCEPT ![p].seen[Ws(p)] = row[Ws(p)], ![p].step = s]
    BY DEF LoadRow
  <1>5. Becomes(p, t)
    BY <1>4, Reads
  <1>6. seen \in [Workspace -> Row \cup {Absent}] /\ seen[task[p].ws] = row[task[p].ws]
    BY WorkspaceTasks DEF WorldTyped, Ws
  <1> HIDE DEF seen
  <1>7. t \in Task
    BY <1>6, WorkspaceTasks DEF TaskOf, Task, LockSteps
  <1>8. /\ s = "awaitWorkspace" => row[task[p].ws] \in Row
        /\ MayBeAt("start", s) /\ ~ReliesOnRow("start", "unwind")
    BY WorkspaceTasks, StepNames DEF Present, WorldTyped, Ws, MayBeAt, ReliesOnRow
  <1>9. TasksFit'
    BY <1>1, <1>2, <1>3, <1>5, <1>6, <1>7, <1>8, BecomesFit DEF TaskOf, Fits
  <1>10. CASE Present(Ws(p))
    <2>1. LockTask(t) = LockTask(task[p])
      BY <1>2, <1>10 DEF LockTask, LockPhase, At, TaskOf, PassSteps
    <2> QED
      BY <1>2, <1>5, <1>9, <2>1, Unseen
  <1>11. CASE ~Present(Ws(p))
    BY <1>2, <1>3, <1>5, <1>9, <1>11, UnwindsEarly DEF At, TaskOf
  <1> QED
    BY <1>10, <1>11

LEMMA ReturnFits ==
  ASSUME TasksFit, NEW p \in Proc, Return(p)
  PROVE  TasksFit' /\ Locks!Next
  <1>1. Fits(p) /\ task[p].kind \in Kind
    BY WorkspaceTasks DEF TasksFit
  <1>2. At(p, "return") /\ task[p].kind \in {"start", "stop", "delete", "file", "timeout"}
    BY <1>1 DEF Return, At, Fits, MayBeAt, Kind
  <1>3. lockTask[p] = LockRecord(task[p]) /\ LockPhase(task[p]) = "working"
    BY <1>2, LockTaskIs DEF lockTask, LockPhase, At, PassSteps
  <1>4. CASE task[p].kind = "file"
    <2>1. Rest(p) /\ Becomes(p, Resting)
      BY <1>4 DEF Return, Rest, Becomes
    <2>2. TasksFit' /\ Locks!Rest(p)
      BY <2>1, RestFits, Rests, RestingTask
    <2>3. Locks!ReleaseFirst(p)
      BY <1>3, <1>4, <2>2 DEF Return, Locks!ReleaseFirst, Locks!TakesBoth, Locks!AdmissionFirst,
                              lockTask, LockRecord, Ws
    <2> QED
      BY <2>2, <2>3 DEF Locks!Next, Locks!Release, Locks!Proc, Proc
  <1>5. CASE task[p].kind # "file"
    <2>1. Goto(p, "unwind")
      BY <1>2, <1>5 DEF Return
    <2>2. "unwind" \in Steps /\ MayBeAt(task[p].kind, "unwind")
              /\ ~ReliesOnRow(task[p].kind, "unwind")
      BY <1>2, <1>5, StepNames DEF LockSteps, MayBeAt, ReliesOnRow
    <2>3. TasksFit'
      BY <1>2, <2>1, <2>2, GotoFits DEF At
    <2>4. Becomes(p, Moved(p, "unwind"))
      BY <2>1, <2>2, GotoMoves
    <2>5. LockPhase(Moved(p, "unwind")) = "unwinding"
      BY DEF LockPhase, Moved
    <2>6. Locks!Enter(p, "unwinding")
      BY <1>2, <2>4, <2>5, Enters DEF At, Moved, PassSteps
    <2>7. Locks!ReleaseSecond(p)
      BY <1>2, <1>3, <1>5, <2>6
         DEF Return, Locks!ReleaseSecond, Locks!HoldsSecond, Locks!TakesBoth,
             Locks!AdmissionFirst, lockTask, LockRecord, Ws
    <2> QED
      BY <2>3, <2>7 DEF Locks!Next, Locks!Release, Locks!Proc, Proc
  <1> QED
    BY <1>4, <1>5

LEMMA UnwindFits ==
  ASSUME TasksFit, NEW p \in Proc, Unwind(p)
  PROVE  TasksFit' /\ Locks!Next
  <1>1. Fits(p) /\ task[p].kind \in Kind
    BY WorkspaceTasks DEF TasksFit
  <1>2. At(p, "unwind") /\ task[p].kind \in {"start", "stop", "delete", "timeout"}
    BY <1>1, StepNames DEF Unwind, At, Fits, MayBeAt, Kind, FileSteps
  <1>3. lockTask[p] = LockRecord(task[p]) /\ LockPhase(task[p]) = "unwinding"
    BY <1>2, LockTaskIs DEF lockTask, LockPhase, At, PassSteps
  <1>4. TasksFit' /\ Locks!Rest(p)
    <2>1. CASE task[p].todo = {}
      <3>1. Rest(p) /\ Becomes(p, Resting)
        BY <2>1 DEF Unwind, Rest, Becomes
      <3> QED
        BY <3>1, RestFits, Rests, RestingTask
    <2>2. CASE task[p].todo # {}
      <3>1. Goto(p, "nextTimeout") /\ task[p].kind = "timeout"
        BY <1>1, <1>2, <2>2 DEF Unwind, Fits
      <3>2. "nextTimeout" \in Steps /\ MayBeAt("timeout", "nextTimeout")
            /\ ~ReliesOnRow("timeout", "nextTimeout")
        BY StepNames DEF PassSteps, MayBeAt, ReliesOnRow
      <3>3. TasksFit'
        BY <1>2, <3>1, <3>2, GotoFits DEF At
      <3>4. Becomes(p, Moved(p, "nextTimeout"))
        BY <3>1, <3>2, GotoMoves
      <3> QED
        BY <3>3, <3>4, Rests DEF Moved, PassSteps
    <2> QED
      BY <2>1, <2>2
  <1>5. Locks!ReleaseFirst(p)
    BY <1>2, <1>3, <1>4 DEF Unwind, Locks!ReleaseFirst, Locks!AdmissionFirst, lockTask, LockRecord,
                            Ws
  <1> QED
    BY <1>4, <1>5 DEF Locks!Next, Locks!Release, Locks!Proc, Proc

LEMMA AbandonFits ==
  ASSUME TasksFit, NEW p \in Proc, Abandon(p), task[p].step \notin WorkSteps
  PROVE  TasksFit' /\ [Locks!Next]_(Locks!vars)
  <1>1. Fits(p) /\ task[p].kind \in Kind
    BY WorkspaceTasks DEF TasksFit
  <1>2. p \in Request /\ UNCHANGED locks
    BY DEF Abandon, locks
  <1>3. CASE At(p, "load") /\ Goto(p, "unwind")
    <2>1. task[p].kind = "start"
      BY <1>1, <1>3, StepNames
         DEF At, Fits, MayBeAt, Kind, StopSteps, DeleteSteps, FileSteps, TimeoutSteps
    <2>2. "unwind" \in Steps /\ MayBeAt("start", "unwind") /\ ~ReliesOnRow("start", "unwind")
      BY StepNames DEF LockSteps, MayBeAt, ReliesOnRow
    <2>3. TasksFit' /\ Becomes(p, Moved(p, "unwind"))
      BY <1>3, <2>1, <2>2, GotoFits, GotoMoves DEF At
    <2> QED
      BY <1>2, <1>3, <2>1, <2>3, UnwindsEarly DEF At, Moved
  <1>4. CASE task[p].step \in PassSteps /\ Rest(p)
    <2>1. Becomes(p, Resting)
      BY <1>4 DEF Rest, Becomes
    <2>2. LockTask(Resting) = LockTask(task[p])
      BY <1>4, RestingTask, LockTaskIs
    <2> QED
      BY <1>2, <1>4, <2>1, <2>2, RestFits, Unseen
  <1> QED
    BY <1>3, <1>4 DEF Abandon

(* A container was made, and its ID is in the row that was read. *)
LEMMA CreatedFits ==
  ASSUME WorldTyped, TasksFit, NEW p \in Proc, CreateContainer(p, TRUE)
  PROVE  TasksFit' /\ UNCHANGED Locks!vars
  <1>1. Fits(p) /\ task[p].kind \in Kind
    BY WorkspaceTasks DEF TasksFit
  <1>2. task[p].kind = "start" /\ At(p, "create") /\ UNCHANGED locks
    BY <1>1, StepNames
       DEF CreateContainer, At, Fits, MayBeAt, Kind, StopSteps, DeleteSteps, FileSteps,
           TimeoutSteps, locks
  <1>3. Seen(p) \in Row /\ task[p].todo = {}
    BY <1>1, <1>2, StepNames DEF Fits, At, ReliesOnRow, FileSteps
  <1>4. made'[Ws(p)] \in RuntimeID
    BY WorkspaceTasks, LifecycleAssumption DEF CreateContainer, WorldTyped, RuntimeID, Ws
  <1> DEFINE seen == [task[p].seen EXCEPT
                        ![Ws(p)] = [task[p].seen[Ws(p)] EXCEPT !.rid = made'[Ws(p)]]]
             t == TaskOf(task[p].kind, task[p].ws, "created", seen, task[p].found, task[p].todo)
  <1>5. task' = [task EXCEPT ![p].step = "created", ![p].seen[Ws(p)].rid = made'[Ws(p)]]
    BY DEF CreateContainer
  <1>6. Becomes(p, t)
    BY <1>5, LearnsID
  <1>7. seen \in [Workspace -> Row \cup {Absent}] /\ seen[task[p].ws] \in Row
    <2>1. [task[p].seen[Ws(p)] EXCEPT !.rid = made'[Ws(p)]] \in Row
      BY <1>3, <1>4 DEF Seen, Ws, Row
    <2> QED
      BY <2>1, WorkspaceTasks DEF Ws
  <1> HIDE DEF seen
  <1>8. t \in Task
    BY <1>7, WorkspaceTasks, StepNames DEF TaskOf, Task
  <1>9. MayBeAt("start", "created")
    BY DEF MayBeAt, StartSteps
  <1>10. TasksFit'
    BY <1>1, <1>2, <1>3, <1>6, <1>7, <1>8, <1>9, BecomesFit DEF TaskOf, Fits
  <1>11. LockTask(t) = LockTask(task[p])
    BY <1>2 DEF LockTask, LockPhase, At, TaskOf, PassSteps
  <1> QED
    BY <1>2, <1>6, <1>10, <1>11, Unseen

(* A step of a pass over the table, which holds no lock. *)
LEMMA Passes ==
  ASSUME TasksFit, NEW p \in Proc, NEW t, Becomes(p, t),
         task[p].step \in {"idle"} \cup PassSteps, t.step \in {"idle"} \cup PassSteps,
         UNCHANGED locks
  PROVE  UNCHANGED Locks!vars
  BY LockTaskIs, Unseen

LEMMA PassRests ==
  ASSUME TasksFit, NEW p \in Proc, Rest(p), task[p].step \in {"idle"} \cup PassSteps,
         UNCHANGED locks
  PROVE  TasksFit' /\ UNCHANGED Locks!vars
  <1>1. Becomes(p, Resting)
    BY DEF Rest, Becomes
  <1> QED
    BY <1>1, RestFits, RestingTask, Passes

LEMMA RestingListing ==
  ASSUME NEW rows, NEW todo
  PROVE  /\ [Resting EXCEPT !.kind = "timeout", !.step = "nextTimeout", !.seen = rows,
            !.todo = todo]
              = TaskOf("timeout", Resting.ws, "nextTimeout", rows, Resting.found, todo)
         /\ [Resting EXCEPT !.step = "listTimeouts"]
              = TaskOf("none", Resting.ws, "listTimeouts", Resting.seen, Resting.found, {})
  <1> DEFINE w == Resting.ws
             seen == Resting.seen
             found == Resting.found
  <1>1. Resting = [kind |-> "none", ws |-> w, step |-> "idle", seen |-> seen, found |-> found,
                   todo |-> {}]
    BY RestingTask DEF Task
  <1>2. /\ [Resting EXCEPT !.kind = "timeout"] = TaskOf("timeout", w, "idle", seen, found, {})
        /\ [Resting EXCEPT !.step = "listTimeouts"]
              = TaskOf("none", w, "listTimeouts", seen, found, {})
    BY <1>1 DEF TaskOf
  <1>3. /\ [TaskOf("timeout", w, "idle", seen, found, {}) EXCEPT !.step = "nextTimeout"]
              = TaskOf("timeout", w, "nextTimeout", seen, found, {})
        /\ [TaskOf("timeout", w, "nextTimeout", seen, found, {}) EXCEPT !.seen = rows]
              = TaskOf("timeout", w, "nextTimeout", rows, found, {})
        /\ [TaskOf("timeout", w, "nextTimeout", rows, found, {}) EXCEPT !.todo = todo]
              = TaskOf("timeout", w, "nextTimeout", rows, found, todo)
    BY DEF TaskOf
  <1> QED
    BY <1>2, <1>3, Zenon

LEMMA ListForTimeoutsFits ==
  ASSUME WorldTyped, TasksFit, NEW p \in Proc, ListForTimeouts(p)
  PROVE  TasksFit' /\ UNCHANGED Locks!vars
  <1> DEFINE present == {w \in Workspace : Present(w)}
  <1>1. Fits(p) /\ At(p, "listTimeouts") /\ UNCHANGED locks
    BY DEF TasksFit, ListForTimeouts, locks
  <1>2. p = Loop /\ task[p].step \in PassSteps
    BY <1>1 DEF Fits, At, PassSteps
  <1>3. CASE present = {}
    <2>1. Rest(p)
      BY <1>3 DEF ListForTimeouts
    <2> QED
      BY <1>1, <1>2, <2>1, PassRests
  <1>4. CASE present # {}
    <2> DEFINE t == TaskOf("timeout", Resting.ws, "nextTimeout", row, Resting.found, present)
    <2>1. [Resting EXCEPT !.kind = "timeout", !.step = "nextTimeout", !.seen = row,
                          !.todo = present] = t
      BY RestingListing, Zenon
    <2>2. Becomes(p, t)
      BY <1>4, <2>1 DEF ListForTimeouts, Becomes
    <2>3. t \in Task /\ \A w \in present : row[w] \in Row
      BY RestingTask DEF Task, TaskOf, Kind, PassSteps, WorldTyped, Present
    <2>4. MayBeAt("timeout", "nextTimeout") /\ ~ReliesOnRow("timeout", "nextTimeout")
      BY StepNames DEF MayBeAt, ReliesOnRow
    <2>5. TasksFit'
      BY <1>2, <2>2, <2>3, <2>4, BecomesFit DEF TaskOf, Runs
    <2> QED
      BY <1>1, <1>2, <2>2, <2>5, Passes DEF TaskOf, PassSteps
  <1> QED
    BY <1>3, <1>4

LEMMA BeginTimeoutFits ==
  ASSUME TasksFit, NEW p \in Proc, NEW w \in Workspace, BeginTimeout(p, w)
  PROVE  TasksFit' /\ Locks!Next
  <1>1. Fits(p) /\ task[p].kind \in Kind /\ At(p, "nextTimeout") /\ UNCHANGED locks
    BY WorkspaceTasks DEF TasksFit, BeginTimeout, locks
  <1>2. task[p].kind = "timeout" /\ p = Loop
    BY <1>1 DEF Fits, Runs, At, MayBeAt, Kind, StartSteps, StopSteps, DeleteSteps, FileSteps
  <1> DEFINE t == TaskOf(task[p].kind, w, "awaitWorkspace", task[p].seen, task[p].found,
                         task[p].todo \ {w})
  <1>3. task' = [task EXCEPT ![p].ws = w, ![p].step = "awaitWorkspace",
                             ![p].todo = task[p].todo \ {w}]
    BY DEF BeginTimeout
  <1>4. Becomes(p, t)
    BY <1>3, TurnsFrom
  <1>5. t \in Task /\ task[p].seen[w] \in Row
    BY <1>1, WorkspaceTasks DEF BeginTimeout, Fits, Task, TaskOf, LockSteps
  <1>6. MayBeAt("timeout", "awaitWorkspace")
    BY DEF MayBeAt
  <1>7. TasksFit'
    BY <1>1, <1>2, <1>4, <1>5, <1>6, BecomesFit DEF TaskOf, Fits
  <1>8. Locks!Next
    BY <1>1, <1>2, <1>4, Begins
       DEF TaskOf, At, LockPhase, PassSteps, Locks!Kind, Locks!RequestKind
  <1> QED
    BY <1>7, <1>8

LEMMA BeginReconcileFits ==
  ASSUME WorldTyped, TasksFit, NEW p \in Proc, BeginReconcile(p)
  PROVE  TasksFit' /\ UNCHANGED Locks!vars
  <1>1. Fits(p) /\ task[p].kind \in Kind /\ At(p, "idle") /\ UNCHANGED locks
    BY WorkspaceTasks DEF TasksFit, BeginReconcile, locks
  <1>2. task[p].kind = "none" /\ task[p].todo = {}
    BY <1>1 DEF Fits, At, MayBeAt, Kind, StartSteps, StopSteps, DeleteSteps, FileSteps, TimeoutSteps
  <1> DEFINE t == TaskOf("reconcile", task[p].ws, "listRows", task[p].seen, container, task[p].todo)
  <1>3. task' = [task EXCEPT ![p].kind = "reconcile", ![p].step = "listRows",
                             ![p].found = container]
    BY DEF BeginReconcile
  <1>4. Becomes(p, t)
    BY <1>3, BeginsFinding
  <1>5. t \in Task
    BY WorkspaceTasks DEF WorldTyped, Task, TaskOf, PassSteps, Kind
  <1>6. MayBeAt("reconcile", "listRows") /\ ~ReliesOnRow("reconcile", "listRows")
    BY StepNames DEF MayBeAt, ReliesOnRow
  <1>7. TasksFit'
    BY <1>2, <1>4, <1>5, <1>6, BecomesFit DEF TaskOf, Runs
  <1> QED
    BY <1>1, <1>4, <1>7, Passes DEF TaskOf, At, PassSteps

LEMMA ReconcileStepNames ==
  ASSUME TasksFit, NEW p \in Proc, task[p].step \in {"listRows", "reconcile", "times"}
  PROVE  task[p].kind = "reconcile" /\ task[p].step \in PassSteps /\ Fits(p)
  BY WorkspaceTasks
     DEF TasksFit, Fits, MayBeAt, Kind, PassSteps, StartSteps, StopSteps, DeleteSteps, FileSteps,
         TimeoutSteps

LEMMA ListRowsFits ==
  ASSUME WorldTyped, TasksFit, NEW p \in Proc, ListRows(p)
  PROVE  TasksFit' /\ UNCHANGED Locks!vars
  <1> DEFINE present == {w \in Workspace : Present(w)}
             t == TaskOf(task[p].kind, task[p].ws, "reconcile", row, task[p].found, present)
  <1>1. task[p].kind = "reconcile" /\ task[p].step \in PassSteps /\ Fits(p) /\ UNCHANGED locks
    BY ReconcileStepNames DEF ListRows, At, locks
  <1>2. task' = [task EXCEPT ![p].seen = row, ![p].step = "reconcile", ![p].todo = present]
    BY DEF ListRows
  <1>3. Becomes(p, t)
    <2> HIDE DEF present
    <2> QED
      BY <1>2, ReadsAll
  <1>4. t \in Task /\ \A w \in present : row[w] \in Row
    BY WorkspaceTasks DEF WorldTyped, Task, TaskOf, PassSteps, Present
  <1>5. MayBeAt("reconcile", "reconcile") /\ ~ReliesOnRow("reconcile", "reconcile")
    BY StepNames DEF MayBeAt, ReliesOnRow
  <1>6. TasksFit'
    BY <1>1, <1>3, <1>4, <1>5, BecomesFit DEF TaskOf, Fits
  <1> QED
    BY <1>1, <1>3, <1>6, Passes DEF TaskOf, PassSteps

LEMMA ObserveMissingFits ==
  ASSUME TasksFit, NEW p \in Proc, NEW w \in Workspace, ObserveMissing(p, w)
  PROVE  TasksFit' /\ UNCHANGED Locks!vars
  <1> DEFINE t == TaskOf(task[p].kind, task[p].ws, task[p].step, task[p].seen, task[p].found,
                         task[p].todo \ {w})
  <1>1. /\ task[p].kind = "reconcile" /\ task[p].step \in PassSteps /\ Fits(p)
        /\ At(p, "reconcile") /\ UNCHANGED locks
    BY ReconcileStepNames DEF ObserveMissing, At, locks
  <1>2. task' = [task EXCEPT ![p].todo = task[p].todo \ {w}]
    BY DEF ObserveMissing
  <1>3. Becomes(p, t)
    BY <1>2, Visits
  <1>4. t \in Task
    BY WorkspaceTasks, StepNames DEF Task, TaskOf
  <1>5. ~ReliesOnRow("reconcile", "reconcile")
    BY StepNames DEF ReliesOnRow
  <1>6. TasksFit'
    BY <1>1, <1>3, <1>4, <1>5, BecomesFit DEF TaskOf, Fits, At
  <1> QED
    BY <1>1, <1>3, <1>6, Passes DEF TaskOf

LEMMA ObserveFits ==
  ASSUME TasksFit, NEW p \in Proc, NEW w \in Workspace, Observe(p, w)
  PROVE  TasksFit' /\ UNCHANGED Locks!vars
  <1> DEFINE t == TaskOf(task[p].kind, w, "times", task[p].seen, task[p].found, task[p].todo)
  <1>1. /\ task[p].kind = "reconcile" /\ task[p].step \in PassSteps /\ Fits(p)
        /\ At(p, "reconcile") /\ UNCHANGED locks
    BY ReconcileStepNames DEF Observe, At, locks
  <1>2. CASE Present(w)
    <2>1. task' = [task EXCEPT ![p].ws = w, ![p].step = "times"]
      BY <1>2 DEF Observe
    <2>2. Becomes(p, t)
      BY <2>1, TurnsTo
    <2>3. t \in Task /\ task[p].seen[w] \in Row
      BY <1>1, WorkspaceTasks DEF Observe, Fits, Task, TaskOf, PassSteps
    <2>4. MayBeAt("reconcile", "times")
      BY DEF MayBeAt
    <2>5. TasksFit'
      BY <1>1, <2>2, <2>3, <2>4, BecomesFit DEF TaskOf, Fits
    <2> QED
      BY <1>1, <2>2, <2>5, Passes DEF TaskOf, PassSteps
  <1>3. CASE ~Present(w)
    BY <1>1, <1>3, PassRests DEF Observe
  <1> QED
    BY <1>2, <1>3

LEMMA ObserveTimesFits ==
  ASSUME TasksFit, NEW p \in Proc, ObserveTimes(p)
  PROVE  TasksFit' /\ UNCHANGED Locks!vars
  <1> DEFINE t == TaskOf(task[p].kind, task[p].ws, "reconcile", task[p].seen, task[p].found,
                         task[p].todo \ {Ws(p)})
  <1>1. task[p].kind = "reconcile" /\ task[p].step \in PassSteps /\ Fits(p) /\ UNCHANGED locks
    BY ReconcileStepNames DEF ObserveTimes, At, locks
  <1>2. CASE Present(Ws(p))
    <2>1. task' = [task EXCEPT ![p].todo = task[p].todo \ {Ws(p)}, ![p].step = "reconcile"]
      BY <1>2 DEF ObserveTimes
    <2>2. Becomes(p, t)
      BY <2>1, VisitsAt
    <2>3. t \in Task
      BY WorkspaceTasks DEF Task, TaskOf, PassSteps
    <2>4. MayBeAt("reconcile", "reconcile") /\ ~ReliesOnRow("reconcile", "reconcile")
      BY StepNames DEF MayBeAt, ReliesOnRow
    <2>5. TasksFit'
      BY <1>1, <2>2, <2>3, <2>4, BecomesFit DEF TaskOf, Fits
    <2> QED
      BY <1>1, <2>2, <2>5, Passes DEF TaskOf, PassSteps
  <1>3. CASE ~Present(Ws(p))
    BY <1>1, <1>3, PassRests DEF ObserveTimes
  <1> QED
    BY <1>2, <1>3

LEMMA EndReconcileFits ==
  ASSUME TasksFit, NEW p \in Proc, EndReconcile(p)
  PROVE  TasksFit' /\ UNCHANGED Locks!vars
  <1> DEFINE t == TaskOf("none", Resting.ws, "listTimeouts", Resting.seen, Resting.found, {})
  <1>1. task[p].step \in PassSteps /\ UNCHANGED locks
    BY ReconcileStepNames DEF EndReconcile, At, locks
  <1>2. CASE p = Loop
    <2>1. [Resting EXCEPT !.step = "listTimeouts"] = t
      BY RestingListing, Zenon
    <2>2. Becomes(p, t)
      BY <1>2, <2>1 DEF EndReconcile, Becomes
    <2>3. t \in Task
      BY RestingTask DEF Task, TaskOf, PassSteps, Kind
    <2>4. MayBeAt("none", "listTimeouts") /\ ~ReliesOnRow("none", "listTimeouts")
      BY StepNames DEF MayBeAt, ReliesOnRow
    <2>5. TasksFit'
      BY <1>2, <2>2, <2>3, <2>4, BecomesFit DEF TaskOf, Runs
    <2> QED
      BY <1>1, <2>2, <2>5, Passes DEF TaskOf, PassSteps
  <1>3. CASE p # Loop
    BY <1>1, <1>3, PassRests DEF EndReconcile
  <1> QED
    BY <1>2, <1>3

-----------------------------------------------------------------------------
(* Every step, in five groups. *)

Moves(p) == StartWork(p) \/ StopWork(p) \/ DeleteWork(p) \/ OtherWork(p)

Locking(p) ==
    AcquireAdmission(p) \/ AcquireWorkspace(p) \/ GiveUp(p) \/ Return(p) \/ Unwind(p)

Passing(p) ==
    \/ BeginReconcile(p) \/ ListForTimeouts(p) \/ ListRows(p)
    \/ \E w \in Workspace : ObserveMissing(p, w) \/ Observe(p, w)
    \/ ObserveTimes(p) \/ EndReconcile(p)

Beginning(p) ==
    \/ Begin(p) \/ LoadRow(p)
    \/ \E w \in Workspace : BeginTimeout(p, w)
    \/ Abandon(p) /\ task[p].step \notin WorkSteps

ActsOn(p) ==
    Moves(p) \/ Locking(p) \/ Passing(p) \/ Beginning(p) \/ CreateContainer(p, TRUE)

LEMMA NextInGroups ==
  ASSUME Next
  PROVE  (\E p \in Proc : ActsOn(p)) \/ Restart \/ Outside
  <1> SUFFICES ASSUME ~Restart, ~Outside PROVE \E p \in Proc : ActsOn(p)
    OBVIOUS
  <1>1. PICK p \in Proc : \/ Begin(p) \/ BeginReconcile(p) \/ Lock(p) \/ Work(p)
                          \/ AnswerLost(p) \/ GiveUp(p) \/ Abandon(p)
    BY DEF Next
  <1> USE DEF ActsOn
  <1>2. CASE Begin(p) \/ BeginReconcile(p) \/ Lock(p) \/ GiveUp(p)
    BY <1>2 DEF Beginning, Passing, Lock, Locking
  <1>3. CASE Work(p)
    <2>1. CASE Start(p)
      BY <2>1 DEF Start, Beginning, Moves, StartWork
    <2>2. CASE Stop(p)
      BY <2>2 DEF Stop, Moves, StopWork
    <2>3. CASE Delete(p)
      BY <2>3 DEF Delete, Moves, DeleteWork
    <2>4. CASE OpenFiles(p) \/ EndTransfer(p)
      BY <2>4 DEF Moves, OtherWork
    <2>5. CASE Timeouts(p)
      BY <2>5 DEF Timeouts, Moves, OtherWork, Passing, Beginning
    <2>6. CASE Reconcile(p)
      BY <2>6 DEF Reconcile, Passing
    <2>7. CASE Return(p) \/ Unwind(p)
      BY <2>7 DEF Locking
    <2> QED
      BY <1>3, <2>1, <2>2, <2>3, <2>4, <2>5, <2>6, <2>7 DEF Work
  <1>4. CASE AnswerLost(p)
    BY <1>4 DEF AnswerLost, Moves, StartWork, StopWork, DeleteWork
  <1>5. CASE Abandon(p)
    BY <1>5, StepNames DEF Abandon, At, Moves, OtherWork, Beginning, PassSteps
  <1> QED
    BY <1>1, <1>2, <1>3, <1>4, <1>5

LEMMA MovesFit ==
  ASSUME TasksFit, NEW p \in Proc, Moves(p)
  PROVE  TasksFit' /\ UNCHANGED Locks!vars
  BY StartWorkGoesOn, StopWorkGoesOn, DeleteWorkGoesOn, OtherWorkGoesOn, WorksOn DEF Moves, GoesOn

LEMMA LockingFits ==
  ASSUME TasksFit, NEW p \in Proc, Locking(p)
  PROVE  TasksFit' /\ Locks!Next
  BY AcquireAdmissionFits, AcquireWorkspaceFits, GiveUpFits, ReturnFits, UnwindFits DEF Locking

LEMMA PassingFits ==
  ASSUME WorldTyped, TasksFit, NEW p \in Proc, Passing(p)
  PROVE  TasksFit' /\ UNCHANGED Locks!vars
  BY BeginReconcileFits, ListForTimeoutsFits, ListRowsFits, ObserveMissingFits, ObserveFits,
     ObserveTimesFits, EndReconcileFits DEF Passing

LEMMA BeginningFits ==
  ASSUME WorldTyped, TasksFit, NEW p \in Proc, Beginning(p)
  PROVE  TasksFit' /\ [Locks!Next]_(Locks!vars)
  BY BeginFits, LoadRowFits, BeginTimeoutFits, AbandonFits DEF Beginning

LEMMA RestartFits ==
  ASSUME Restart
  PROVE  TasksFit' /\ Locks!Next
  <1>1. \A p \in Proc : Fits(p)'
    BY RestingTask, StepNames DEF Restart, Fits, Runs, At, Ws, Seen, MayBeAt, ReliesOnRow
  <1>2. task' \in [Proc -> Task]
    BY RestingTask DEF Restart
  <1>3. lockTask' = [p \in Proc |-> Locks!Resting]
    BY RestingTask, LockTaskIs DEF lockTask, Restart
  <1>4. Locks!Restart
    BY <1>3 DEF Locks!Restart, Restart, lockTask, Proc, Locks!Proc
  <1> QED
    BY <1>1, <1>2, <1>4 DEF TasksFit, Locks!Next

(* The tasks stay as they should be, and what the locks see of the step is *)
(* a step of LifecycleLocks or none.                                       *)
LEMMA NextFits ==
  ASSUME WorldTyped, TasksFit, [Next]_vars
  PROVE  TasksFit' /\ [Locks!Next]_(Locks!vars)
  <1>1. CASE UNCHANGED vars
    BY <1>1 DEF vars, TasksFit, Fits, At, Ws, Seen, Locks!vars
  <1>2. CASE Next
    <2>1. CASE Restart
      BY <2>1, RestartFits
    <2>2. CASE Outside
      <3>1. UNCHANGED <<admission, wlock, task>>
        BY <2>2 DEF Outside, ContainerExits, ContainerVanishes, locks
      <3> QED
        BY <3>1 DEF TasksFit, Fits, At, Ws, Seen, Locks!vars
    <2>3. CASE \E p \in Proc : ActsOn(p)
      BY <2>3, MovesFit, LockingFits, PassingFits, BeginningFits, CreatedFits DEF ActsOn
    <2> QED
      BY <1>2, <2>1, <2>2, <2>3, NextInGroups
  <1> QED
    BY <1>1, <1>2

-----------------------------------------------------------------------------
(* What the steps do to rows, containers and directories. *)

(* Everything is of its type, and no row comes or goes. *)
WorldKept ==
    /\ WorldTyped'
    /\ UNCHANGED <<files, tombs>>
    /\ \A w \in Workspace : Present(w)' <=> Present(w)

LEMMA RowsKept ==
  ASSUME WorldTyped, NEW w \in Workspace,
         \/ \E observed \in Observed, rid \in RuntimeID : SetObserved(w, observed, rid)
         \/ \E stopped, removed \in BOOLEAN : SetTimes(w, stopped, removed),
         UNCHANGED <<container, made, files, tombs>>
  PROVE  WorldKept
  <1>1. \/ row' = row
        \/ row[w] \in Row /\ \E r \in Row : row' = [row EXCEPT ![w] = r]
    <2>1. CASE ~Present(w)
      BY <2>1 DEF SetObserved, SetTimes
    <2>2. CASE Present(w)
      <3>1. row[w] \in Row
        BY <2>2 DEF Present, WorldTyped
      <3>2. ASSUME NEW observed \in Observed, NEW rid \in RuntimeID, SetObserved(w, observed, rid)
            PROVE  \E r \in Row : row' = [row EXCEPT ![w] = r]
        <4>1. [[row[w] EXCEPT !.observed = observed] EXCEPT !.rid = rid] \in Row
          BY <3>1 DEF Row
        <4>2. row' = [row EXCEPT ![w] = [[row[w] EXCEPT !.observed = observed] EXCEPT !.rid = rid]]
          BY <2>2, <3>2 DEF SetObserved, WorldTyped
        <4> QED
          BY <4>1, <4>2
      <3>3. ASSUME NEW stopped \in BOOLEAN, NEW removed \in BOOLEAN, SetTimes(w, stopped, removed)
            PROVE  \E r \in Row : row' = [row EXCEPT ![w] = r]
        <4>1. [[row[w] EXCEPT !.stopped = stopped] EXCEPT !.removed = removed] \in Row
          BY <3>1 DEF Row
        <4>2. row' = [row EXCEPT ![w]
                  = [[row[w] EXCEPT !.stopped = stopped] EXCEPT !.removed = removed]]
          BY <2>2, <3>3 DEF SetTimes, WorldTyped
        <4> QED
          BY <4>1, <4>2
      <3> QED
        BY <3>1, <3>2, <3>3
    <2> QED
      BY <2>1, <2>2
  <1>2. row' \in [Workspace -> Row \cup {Absent}]
    BY <1>1 DEF WorldTyped
  <1>3. \A v \in Workspace : Present(v)' <=> Present(v)
    BY <1>1, LifecycleAssumption DEF Present, WorldTyped
  <1> QED
    BY <1>2, <1>3 DEF WorldKept, WorldTyped

LEMMA UnchangedKept ==
  ASSUME WorldTyped, UNCHANGED world
  PROVE  WorldKept
  BY DEF WorldKept, WorldTyped, world, Present

LEMMA ContainersKept ==
  ASSUME WorldTyped, UNCHANGED <<row, made, files, tombs>>,
         container' \in [Workspace -> Container]
  PROVE  WorldKept
  BY DEF WorldKept, WorldTyped, Present

(* What a call has read of its row is of the row's type. *)
LEMMA SeenIsRow ==
  ASSUME TasksFit, NEW p \in Proc, task[p].step \in (WorkSteps \ FileSteps) \cup {"times"}
  PROVE  /\ Seen(p) \in Row /\ Ws(p) \in Workspace
         /\ Seen(p).rid \in RuntimeID /\ Seen(p).stopped \in BOOLEAN /\ Seen(p).removed \in BOOLEAN
  <1>1. Fits(p) /\ Ws(p) \in Workspace
    BY WorkspaceTasks DEF TasksFit, Ws
  <1>2. Seen(p) \in Row
    BY <1>1 DEF Fits, ReliesOnRow
  <1> QED
    BY <1>1, <1>2 DEF Row

LEMMA RowWritesKept ==
  ASSUME WorldTyped, TasksFit, NEW p \in Proc,
         \/ RecordCreateFailure(p) \/ RecordCreated(p) \/ RecordStartFailure(p)
         \/ RecordRunning(p) \/ RecordStartTimes(p) \/ RecordStopped(p) \/ RecordStopTime(p)
         \/ RecordRemoved(p) \/ RecordRemovalTime(p)
  PROVE  WorldKept
  <1>1. task[p].step \in WorkSteps \ FileSteps /\ UNCHANGED <<container, made, files, tombs>>
    BY StepNames DEF RecordCreateFailure, RecordCreated, RecordStartFailure, RecordRunning,
                     RecordStartTimes, RecordStopped, RecordStopTime, RecordRemoved,
                     RecordRemovalTime, At, FileSteps
  <1>2. /\ Ws(p) \in Workspace
        /\ Seen(p).rid \in RuntimeID /\ Seen(p).stopped \in BOOLEAN /\ Seen(p).removed \in BOOLEAN
        /\ 0 \in RuntimeID
    BY <1>1, SeenIsRow, LifecycleAssumption DEF RuntimeID
  <1>3. CASE \/ RecordCreateFailure(p) \/ RecordCreated(p) \/ RecordStartFailure(p)
             \/ RecordRunning(p) \/ RecordStopped(p) \/ RecordRemoved(p)
    <2>1. \E observed \in Observed, rid \in RuntimeID : SetObserved(Ws(p), observed, rid)
      BY <1>2, <1>3 DEF RecordCreateFailure, RecordCreated, RecordStartFailure, RecordRunning,
                        RecordStopped, RecordRemoved, Observed
    <2> QED
      BY <1>1, <1>2, <2>1, RowsKept
  <1>4. CASE RecordStartTimes(p) \/ RecordStopTime(p) \/ RecordRemovalTime(p)
    <2>1. \E stopped, removed \in BOOLEAN : SetTimes(Ws(p), stopped, removed)
      BY <1>2, <1>4 DEF RecordStartTimes, RecordStopTime, RecordRemovalTime
    <2> QED
      BY <1>1, <1>2, <2>1, RowsKept
  <1> QED
    BY <1>3, <1>4

LEMMA PassingKept ==
  ASSUME WorldTyped, TasksFit, NEW p \in Proc, Passing(p)
  PROVE  WorldKept
  <1>1. CASE BeginReconcile(p) \/ ListForTimeouts(p) \/ ListRows(p) \/ EndReconcile(p)
    BY <1>1, UnchangedKept DEF BeginReconcile, ListForTimeouts, ListRows, EndReconcile
  <1>2. ASSUME NEW w \in Workspace, ObserveMissing(p, w) PROVE WorldKept
    <2>1. CASE UNCHANGED row
      BY <1>2, <2>1, UnchangedKept DEF ObserveMissing, world
    <2>2. CASE ~UNCHANGED row
      <3>1. task[p].seen[w] \in Row
        BY <1>2 DEF ObserveMissing, TasksFit, Fits
      <3>2. task[p].seen[w].rid \in RuntimeID
        BY <3>1 DEF Row
      <3>3. SetObserved(w, "missing", task[p].seen[w].rid)
        BY <1>2, <2>2 DEF ObserveMissing
      <3> QED
        BY <1>2, <3>2, <3>3, RowsKept DEF ObserveMissing, Observed
    <2> QED
      BY <2>1, <2>2
  <1>3. ASSUME NEW w \in Workspace, Observe(p, w) PROVE WorldKept
    <2>1. task[p].found[w] \in Container
      BY WorkspaceTasks
    <2>2. NormalizeState(task[p].found[w].state) \in Observed /\ task[p].found[w].id \in RuntimeID
      <3>1. task[p].found[w] \in [id : RuntimeID \ {0}, state : {"created", "running", "exited"}]
        BY <1>3, <2>1 DEF Observe, Container
      <3> QED
        BY <3>1 DEF NormalizeState, Observed
    <2> QED
      BY <1>3, <2>2, RowsKept DEF Observe
  <1>4. CASE ObserveTimes(p)
    <2>1. /\ Ws(p) \in Workspace
          /\ Seen(p).stopped \in BOOLEAN /\ Seen(p).removed \in BOOLEAN
      BY <1>4, SeenIsRow DEF ObserveTimes, At
    <2> QED
      BY <1>4, <2>1, RowsKept DEF ObserveTimes
  <1> QED
    BY <1>1, <1>2, <1>3, <1>4 DEF Passing

LEMMA QuietKept ==
  ASSUME WorldTyped, NEW p \in Proc, Locking(p) \/ Beginning(p)
  PROVE  WorldKept
  BY UnchangedKept
     DEF Locking, AcquireAdmission, AcquireWorkspace, GiveUp, Return, Unwind, Beginning, Begin,
         BeginStart, BeginChange, BeginFileAccess, LoadRow, BeginTimeout, Abandon, world

LEMMA MovesKept ==
  ASSUME WorldTyped, TasksFit, NEW p \in Proc, Moves(p)
  PROVE  \/ WorldKept
         \/ CreateContainer(p, FALSE) \/ PrepareStorage(p)
         \/ ArchiveDirectories(p) \/ ForgetWorkspace(p)
  <1> SUFFICES ASSUME ~CreateContainer(p, FALSE), ~PrepareStorage(p), ~ArchiveDirectories(p),
                      ~ForgetWorkspace(p)
               PROVE  WorldKept
    OBVIOUS
  <1>1. CASE \/ RecordCreateFailure(p) \/ RecordCreated(p) \/ RecordStartFailure(p)
             \/ RecordRunning(p) \/ RecordStartTimes(p) \/ RecordStopped(p) \/ RecordStopTime(p)
             \/ RecordRemoved(p) \/ RecordRemovalTime(p)
    BY <1>1, RowWritesKept
  <1>2. CASE \/ CheckStart(p) \/ PrepareFailed(p) \/ CreateRefused(p) \/ StartRefused(p)
             \/ CheckStop(p) \/ StopRefused(p) \/ CheckDelete(p) \/ ContainerNotFound(p)
             \/ RemoveRefused(p) \/ ArchiveFailed(p) \/ OpenFiles(p) \/ EndTransfer(p)
             \/ CheckTimeout(p)
             \/ task[p].step \in WorkSteps /\ Goto(p, "return") /\ UNCHANGED <<world, locks>>
    BY <1>2, UnchangedKept
       DEF CheckStart, PrepareFailed, CreateRefused, StartRefused, CheckStop, StopRefused,
           CheckDelete, ContainerNotFound, RemoveRefused, ArchiveFailed, OpenFiles, EndTransfer,
           CheckTimeout, Fail
  <1>3. ASSUME NEW answered \in BOOLEAN,
               \/ StartContainer(p, answered) \/ StopContainer(p, answered)
               \/ RemoveContainer(p, answered)
        PROVE  WorldKept
    <2>1. Ws(p) \in Workspace /\ container[Ws(p)] \in Container
      BY WorkspaceTasks DEF Ws, WorldTyped
    <2>2. NoContainer.state = "none"
      BY DEF NoContainer
    <2>3. \A state \in {"running", "exited"} :
             container[Ws(p)] # NoContainer
               => [container[Ws(p)] EXCEPT !.state = state] \in Container
      BY <2>1 DEF Container
    <2>4. container' \in [Workspace -> Container]
      <3>1. CASE StartContainer(p, answered)
        BY <2>1, <2>3, <3>1 DEF StartContainer, WorldTyped
      <3>2. CASE StopContainer(p, answered)
        BY <2>1, <2>2, <2>3, <3>2 DEF StopContainer, WorldTyped
      <3>3. CASE RemoveContainer(p, answered)
        BY <3>3 DEF RemoveContainer, WorldTyped, Container
      <3> QED
        BY <1>3, <3>1, <3>2, <3>3
    <2> QED
      BY <1>3, <2>4, ContainersKept DEF StartContainer, StopContainer, RemoveContainer
  <1> QED
    BY <1>1, <1>2, <1>3 DEF Moves, StartWork, StopWork, DeleteWork, OtherWork

LEMMA OutsideKept ==
  ASSUME WorldTyped, Outside
  PROVE  WorldKept
  <1>1. PICK w \in Workspace : ContainerExits(w) \/ ContainerVanishes(w)
    BY DEF Outside
  <1>2. container[w] \in Container /\ NoContainer.state = "none"
    BY DEF WorldTyped, NoContainer
  <1>3. container' \in [Workspace -> Container]
    <2>1. CASE ContainerExits(w)
      <3>1. [container[w] EXCEPT !.state = "exited"] \in Container
        BY <1>2, <2>1 DEF ContainerExits, Container
      <3> QED
        BY <2>1, <3>1 DEF ContainerExits, WorldTyped
    <2>2. CASE ContainerVanishes(w)
      BY <2>2 DEF ContainerVanishes, WorldTyped, Container
    <2> QED
      BY <1>1, <2>1, <2>2
  <1> QED
    BY <1>1, <1>3, ContainersKept DEF ContainerExits, ContainerVanishes

LEMMA CreateContainerKeeps ==
  ASSUME WorldTyped, TasksFit, NEW p \in Proc, NEW answered \in BOOLEAN,
         CreateContainer(p, answered)
  PROVE  /\ WorldTyped' /\ UNCHANGED <<row, tombs>>
         /\ files' = [files EXCEPT ![Ws(p)] = files[Ws(p)] \cup {"volume"}]
  <1>1. Ws(p) \in Workspace /\ made[Ws(p)] \in RuntimeID /\ made[Ws(p)] < MaxContainer
    BY WorkspaceTasks DEF CreateContainer, Ws, WorldTyped
  <1>2. made[Ws(p)] + 1 \in RuntimeID \ {0}
    BY <1>1, LifecycleAssumption DEF RuntimeID
  <1>3. made' = [made EXCEPT ![Ws(p)] = made[Ws(p)] + 1] /\ made'[Ws(p)] = made[Ws(p)] + 1
    BY <1>1 DEF CreateContainer, WorldTyped
  <1>4. [id |-> made'[Ws(p)], state |-> "created"] \in Container
    BY <1>2, <1>3 DEF Container
  <1>5. made' \in [Workspace -> RuntimeID] /\ container' \in [Workspace -> Container]
    BY <1>1, <1>2, <1>3, <1>4 DEF CreateContainer, WorldTyped
  <1>6. files' \in [Workspace -> SUBSET Data]
    BY <1>1 DEF CreateContainer, WorldTyped, Data
  <1> QED
    BY <1>5, <1>6 DEF CreateContainer, WorldTyped

LEMMA NextWorldTyped ==
  ASSUME WorldTyped, TasksFit, [Next]_vars
  PROVE  WorldTyped'
  <1>1. CASE UNCHANGED vars
    BY <1>1, UnchangedKept DEF vars, world, WorldKept
  <1>2. CASE Next
    <2>1. CASE Restart \/ Outside
      BY <2>1, UnchangedKept, OutsideKept DEF Restart, WorldKept
    <2>2. ASSUME NEW p \in Proc, ActsOn(p) PROVE WorldTyped'
      <3> Ws(p) \in Workspace
        BY WorkspaceTasks DEF Ws
      <3>1. CASE Moves(p)
        <4>1. CASE WorldKept
          BY <4>1 DEF WorldKept
        <4>2. CASE CreateContainer(p, FALSE)
          BY <4>2, CreateContainerKeeps
        <4>3. CASE PrepareStorage(p)
          BY <4>3 DEF PrepareStorage, WorldTyped, Data
        <4>4. CASE ArchiveDirectories(p)
          BY <4>4 DEF ArchiveDirectories, WorldTyped, Data
        <4>5. CASE ForgetWorkspace(p)
          BY <4>5 DEF ForgetWorkspace, WorldTyped, Tombstone
        <4> QED
          BY <3>1, <4>1, <4>2, <4>3, <4>4, <4>5, MovesKept
      <3> QED
        BY <2>2, <3>1, PassingKept, QuietKept, CreateContainerKeeps DEF ActsOn, WorldKept
    <2> QED
      BY <1>2, <2>1, <2>2, NextInGroups
  <1> QED
    BY <1>1, <1>2

LEMMA NextLocksTyped ==
  ASSUME LocksTyped, TasksFit, [Next]_vars
  PROVE  LocksTyped'
  <1>1. CASE UNCHANGED vars
    BY <1>1 DEF vars, LocksTyped
  <1>2. CASE Next
    <2>1. CASE Restart \/ Outside
      BY <2>1 DEF Restart, Outside, ContainerExits, ContainerVanishes, locks, LocksTyped
    <2>2. ASSUME NEW p \in Proc, Locking(p) PROVE LocksTyped'
      BY <2>2, WorkspaceTasks
         DEF Locking, AcquireAdmission, AcquireWorkspace, GiveUp, Return, Unwind, LocksTyped, Ws,
             locks
    <2>3. ASSUME NEW p \in Proc, Moves(p) \/ CreateContainer(p, TRUE) PROVE LocksTyped'
      BY <2>3, StartWorkGoesOn, StopWorkGoesOn, DeleteWorkGoesOn, OtherWorkGoesOn
         DEF Moves, GoesOn, CreateContainer, LocksTyped, locks
    <2>4. ASSUME NEW p \in Proc, Passing(p) PROVE LocksTyped'
      BY <2>4 DEF Passing, BeginReconcile, ListForTimeouts, ListRows, ObserveMissing, Observe,
                  ObserveTimes, EndReconcile, LocksTyped, locks
    <2>5. ASSUME NEW p \in Proc, Beginning(p) PROVE LocksTyped'
      BY <2>5 DEF Beginning, Begin, BeginStart, BeginChange, BeginFileAccess, LoadRow,
                  BeginTimeout, Abandon, LocksTyped, locks
    <2> QED
      BY <1>2, <2>1, <2>2, <2>3, <2>4, <2>5, NextInGroups DEF ActsOn
  <1> QED
    BY <1>1, <1>2

LEMMA InitTyped == Init => Typed /\ Locks!Init
  <1> SUFFICES ASSUME Init PROVE Typed /\ Locks!Init
    OBVIOUS
  <1>1. WorldTyped
    <2>1. [observed |-> "unknown", rid |-> 0, stopped |-> FALSE, removed |-> FALSE] \in Row
      BY LifecycleAssumption DEF Row, Observed, RuntimeID
    <2> QED
      BY <2>1, LifecycleAssumption DEF Init, WorldTyped, Container, RuntimeID, Data
  <1>2. TasksFit
    <2>1. \A p \in Proc : Fits(p)
      BY RestingTask, StepNames DEF Init, Fits, Runs, At, Ws, Seen, MayBeAt, ReliesOnRow
    <2> QED
      BY <2>1, RestingTask DEF Init, TasksFit
  <1>3. Locks!Init
    <2>1. lockTask = [p \in Proc |-> Locks!Resting]
      BY RestingTask, LockTaskIs DEF Init, lockTask
    <2> QED
      BY <2>1 DEF Init, Locks!Init, lockTask, Proc, Locks!Proc
  <1> QED
    BY <1>1, <1>2, <1>3 DEF Init, Typed, LocksTyped

LEMMA NextTyped == Typed /\ [Next]_vars => Typed' /\ [Locks!Next]_(Locks!vars)
  BY NextFits, NextWorldTyped, NextLocksTyped DEF Typed

(* The types of WorkspaceLifecycle, and with them that a call never acts   *)
(* on a row it has not read, in every reachable state                      *)
(* (internal/workspace/workspace.go).                                      *)
THEOREM LifecycleTyped == Spec => [](TypeOK /\ TasksFit)
  BY InitTyped, NextTyped, TypedImpliesTypeOK, PTL DEF Spec, Typed

(* Every path through start, stop, delete, file access and the timeout     *)
(* pass, with its early returns, cancelled clients and restarts, takes and *)
(* gives back the two locks as LifecycleLocks says (file_access.go,        *)
(* acquireAdmission and the deferred releases).                            *)
THEOREM LocksAreFollowed == Spec => FollowsLockProtocol
  BY InitTyped, NextTyped, PTL DEF Spec, FollowsLockProtocol, Locks!Spec

LEMMA LocksAgree == Spec => [](Locks!TypeOK /\ Locks!LocksMatchTasks)
  <1>1. LP!IInv /\ [LP!Next]_(LP!vars) => LP!IInv'
    BY LifecycleAssumption, LP!NextTypeOK, LP!NextLocksMatchTasks DEF LP!IInv
  <1>2. LP!Init => LP!IInv
    BY LifecycleAssumption, LP!InitIInv
  <1>3. (LP!Init <=> Locks!Init) /\ ([LP!Next]_(LP!vars) <=> [Locks!Next]_(Locks!vars))
    BY SameLocks
  <1>4. LP!IInv <=> Locks!TypeOK /\ Locks!LocksMatchTasks
    BY SameLocks
  <1> QED
    BY <1>1, <1>2, <1>3, <1>4, LocksAreFollowed, PTL DEF FollowsLockProtocol, Locks!Spec

-----------------------------------------------------------------------------
(* Where the directories of a workspace are. *)

(* A start makes directories for a row that exists, and a delete forgets a *)
(* row when no live directory is left, as long as they hold the workspace. *)
Prepared == \A p \in Proc : At(p, "prepare") => Present(Ws(p))
Cleared == \A p \in Proc : At(p, "forget") => "live" \notin files[Ws(p)]

Places == Prepared /\ Cleared /\ DirectoriesRecoverable

(* A call that works on a workspace is the one that holds its lock. *)
LEMMA WorkerHoldsLock ==
  ASSUME TasksFit, Locks!LocksMatchTasks, NEW p \in Proc, task[p].step \in WorkSteps
  PROVE  wlock[Ws(p)] = p
  <1>1. Fits(p) /\ task[p].kind \in Kind /\ task[p].ws \in Workspace
    BY WorkspaceTasks DEF TasksFit
  <1>2. task[p].kind \in {"start", "stop", "delete", "file", "timeout"}
    BY <1>1, StepNames DEF Fits, MayBeAt, Kind
  <1>3. lockTask[p] = LockRecord(task[p]) /\ LockPhase(task[p]) = "working"
    BY StepNames, LockTaskIs DEF lockTask, LockPhase, PassSteps
  <1>4. Locks!HoldsWorkspace(p)
    BY <1>2, <1>3 DEF Locks!HoldsWorkspace, Locks!HoldsFirst, Locks!HoldsSecond,
                      Locks!AdmissionFirst, Locks!TakesBoth, lockTask, LockRecord
  <1>5. lockTask[p].ws = Ws(p)
    BY <1>3 DEF LockRecord, Ws
  <1>6. Locks!LocksMatch(p)
    BY DEF Locks!LocksMatchTasks, Locks!Proc, Proc
  <1> QED
    BY <1>1, <1>4, <1>5, <1>6 DEF Locks!LocksMatch, lockTask, Ws

LEMMA WorkersApart ==
  ASSUME TasksFit, Locks!LocksMatchTasks, NEW p \in Proc, NEW q \in Proc, p # q,
         task[p].step \in WorkSteps, task[q].step \in WorkSteps
  PROVE  Ws(p) # Ws(q)
  <1>1. wlock[Ws(p)] = p /\ wlock[Ws(q)] = q
    BY WorkerHoldsLock
  <1> QED
    BY <1>1

(* Nobody comes to one of the two steps. *)
NobodyEnters ==
    \A q \in Proc : task'[q].step \in {"prepare", "forget"} => task'[q] = task[q]

LEMMA GotoEnters ==
  ASSUME TasksFit, NEW p \in Proc, NEW s \in Steps, Goto(p, s)
  PROVE  /\ \A q \in Proc : q # p => task'[q] = task[q]
         /\ task'[p].step = s /\ task'[p].ws = task[p].ws
         /\ s \notin {"prepare", "forget"} => NobodyEnters
  <1>1. task' = [task EXCEPT ![p] = Moved(p, s)]
    BY GotoMoves DEF Becomes
  <1>2. task'[p] = Moved(p, s) /\ \A q \in Proc : q # p => task'[q] = task[q]
    BY <1>1 DEF TasksFit
  <1> QED
    BY <1>2 DEF NobodyEnters, Moved

LEMMA BecomesEnters ==
  ASSUME TasksFit, NEW p \in Proc, NEW t, task' = [task EXCEPT ![p] = t],
         t.step \notin {"prepare", "forget"}
  PROVE  NobodyEnters
  BY DEF TasksFit, NobodyEnters

LEMMA RestEnters ==
  ASSUME TasksFit, NEW p \in Proc, Rest(p)
  PROVE  NobodyEnters
  BY RestingTask, BecomesEnters DEF Rest

LEMMA QuietEnters ==
  ASSUME WorldTyped, TasksFit, NEW p \in Proc, Locking(p) \/ Beginning(p)
  PROVE  NobodyEnters
  <1>1. /\ "load" \in Steps /\ "checkStop" \in Steps /\ "checkDelete" \in Steps
        /\ "expire" \in Steps /\ "checkStart" \in Steps /\ "open" \in Steps
        /\ "awaitAdmission" \in Steps /\ "return" \in Steps /\ "unwind" \in Steps
        /\ "nextTimeout" \in Steps
    BY StepNames DEF LockSteps, PassSteps
  <1> USE <1>1, GotoEnters, RestEnters
  <1>2. CASE AcquireAdmission(p)
    <2>1. Fits(p) /\ task[p].kind \in Kind
      BY WorkspaceTasks DEF TasksFit
    <2>2. task[p].kind \in {"start", "stop", "delete", "timeout"}
      BY <1>2, <2>1, StepNames DEF AcquireAdmission, At, Fits, MayBeAt, Kind, FileSteps
    <2> QED
      BY <1>2, <2>2 DEF AcquireAdmission
  <1>3. CASE AcquireWorkspace(p)
    BY <1>3 DEF AcquireWorkspace
  <1>4. CASE GiveUp(p) \/ Return(p) \/ Unwind(p)
    BY <1>4 DEF GiveUp, Return, Unwind
  <1>5. CASE Abandon(p) /\ task[p].step \notin WorkSteps
    BY <1>5 DEF Abandon
  <1>6. CASE LoadRow(p)
    BY <1>6, WorkspaceTasks DEF LoadRow, NobodyEnters, TasksFit, Task
  <1>7. ASSUME NEW w \in Workspace, BeginTimeout(p, w) PROVE NobodyEnters
    BY <1>7 DEF BeginTimeout, NobodyEnters, TasksFit, Task
  <1>8. CASE Begin(p)
    <2>1. ASSUME NEW w \in Workspace, BeginStart(p, w) \/ BeginFileAccess(p, w)
          PROVE  NobodyEnters
      BY <2>1 DEF BeginStart, BeginFileAccess, NobodyEnters, TasksFit, Task
    <2>2. ASSUME NEW w \in Workspace, NEW k \in {"stop", "delete"}, BeginChange(p, k, w)
          PROVE  NobodyEnters
      BY <2>2 DEF BeginChange, NobodyEnters, TasksFit, Task
    <2> QED
      BY <1>8, <2>1, <2>2 DEF Begin
  <1> QED
    BY <1>2, <1>3, <1>4, <1>5, <1>6, <1>7, <1>8 DEF Locking, Beginning

LEMMA PassingEnters ==
  ASSUME TasksFit, NEW p \in Proc, Passing(p)
  PROVE  NobodyEnters
  <1> USE DEF NobodyEnters, TasksFit, Task
  <1>1. CASE BeginReconcile(p) \/ ListRows(p)
    BY <1>1 DEF BeginReconcile, ListRows
  <1>2. CASE ListForTimeouts(p)
    <2>1. [Resting EXCEPT !.kind = "timeout", !.step = "nextTimeout", !.seen = row,
                          !.todo = {w \in Workspace : Present(w)}].step = "nextTimeout"
      BY RestingListing DEF TaskOf
    <2> QED
      BY <1>2, <2>1, RestEnters, BecomesEnters DEF ListForTimeouts
  <1>3. ASSUME NEW w \in Workspace, ObserveMissing(p, w) PROVE NobodyEnters
    BY <1>3 DEF ObserveMissing, At
  <1>4. ASSUME NEW w \in Workspace, Observe(p, w) PROVE NobodyEnters
    BY <1>4, RestEnters DEF Observe
  <1>5. CASE ObserveTimes(p)
    BY <1>5, RestEnters DEF ObserveTimes
  <1>6. CASE EndReconcile(p)
    <2>1. [Resting EXCEPT !.step = "listTimeouts"].step = "listTimeouts"
      BY RestingListing DEF TaskOf
    <2> QED
      BY <1>6, <2>1, RestEnters, BecomesEnters DEF EndReconcile
  <1> QED
    BY <1>1, <1>2, <1>3, <1>4, <1>5, <1>6 DEF Passing

LEMMA MovesEnter ==
  ASSUME TasksFit, NEW p \in Proc, Moves(p) \/ CreateContainer(p, TRUE),
         ~CheckStart(p), ~ArchiveDirectories(p)
  PROVE  NobodyEnters
  <1> DEFINE elsewhere == \E s \in Steps \ {"prepare", "forget"} : Goto(p, s)
  <1> USE StepNames DEF LockSteps
  <1>1. CASE CreateContainer(p, TRUE)
    BY <1>1 DEF CreateContainer, NobodyEnters, TasksFit, Task
  <1>2. CASE PrepareStorage(p) \/ PrepareFailed(p) \/ CreateContainer(p, FALSE)
             \/ CreateRefused(p) \/ RecordCreateFailure(p) \/ RecordCreated(p)
    <2>1. elsewhere
      BY <1>2 DEF PrepareStorage, PrepareFailed, CreateContainer, CreateRefused,
                  RecordCreateFailure, RecordCreated, Fail
    <2> QED
      BY <2>1, GotoEnters
  <1>3. CASE StartContainer(p, TRUE) \/ StartContainer(p, FALSE) \/ StartRefused(p)
             \/ RecordStartFailure(p) \/ RecordRunning(p) \/ RecordStartTimes(p)
    <2>1. elsewhere
      BY <1>3 DEF StartContainer, StartRefused, RecordStartFailure, RecordRunning,
                  RecordStartTimes
    <2> QED
      BY <2>1, GotoEnters
  <1>4. CASE StopWork(p)
    <2>1. elsewhere
      BY <1>4 DEF StopWork, CheckStop, StopContainer, StopRefused, RecordStopped,
                  RecordStopTime, Fail
    <2> QED
      BY <2>1, GotoEnters
  <1>5. CASE DeleteWork(p)
    <2>1. elsewhere
      BY <1>5 DEF DeleteWork, CheckDelete, RemoveContainer, ContainerNotFound, RemoveRefused,
                  ArchiveFailed, ForgetWorkspace, AfterRemoval, Fail
    <2> QED
      BY <2>1, GotoEnters
  <1>6. CASE OtherWork(p)
    <2>1. elsewhere
      BY <1>6 DEF OtherWork, OpenFiles, EndTransfer, CheckTimeout, RecordRemoved,
                  RecordRemovalTime, Fail
    <2> QED
      BY <2>1, GotoEnters
  <1> QED
    BY <1>1, <1>2, <1>3, <1>4, <1>5, <1>6 DEF Moves, StartWork

(* A step that brings nobody to one of the two and leaves rows, files and  *)
(* tombstones as they were.                                                *)
LEMMA PlacesKept ==
  ASSUME Places, TasksFit, NobodyEnters,
         UNCHANGED <<files, tombs>>, \A w \in Workspace : Present(w)' <=> Present(w)
  PROVE  Places'
  <1>1. Prepared' /\ Cleared'
    BY WorkspaceTasks DEF Places, Prepared, Cleared, NobodyEnters, At, Ws
  <1>2. DirectoriesRecoverable'
    BY DEF Places, DirectoriesRecoverable
  <1> QED
    BY <1>1, <1>2 DEF Places

LEMMA MovesKeepPlaces ==
  ASSUME Typed, Locks!LocksMatchTasks, Places, NEW p \in Proc,
         Moves(p) \/ CreateContainer(p, TRUE)
  PROVE  Places'
  <1> USE DEF Typed
  <1>1. Ws(p) \in Workspace /\ row[Ws(p)] \in Row \cup {Absent} /\ files[Ws(p)] \in SUBSET Data
    BY WorkspaceTasks DEF Ws, WorldTyped
  <1>2. CASE WorldKept /\ ~CheckStart(p) /\ ~ArchiveDirectories(p)
    BY <1>2, MovesEnter, PlacesKept DEF WorldKept
  <1>3. CASE CheckStart(p)
    <2>1. UNCHANGED <<row, files, tombs>>
      BY <1>3 DEF CheckStart, world
    <2>2. \/ Goto(p, "prepare") /\ Present(Ws(p))
          \/ Goto(p, "return") \/ Goto(p, "boot")
      BY <1>3 DEF CheckStart
    <2>3. /\ \A q \in Proc : q # p => task'[q] = task[q]
          /\ task'[p].step \in {"prepare", "return", "boot"} /\ task'[p].ws = task[p].ws
          /\ task'[p].step = "prepare" => Present(Ws(p))
      BY <2>2, GotoEnters, StepNames DEF LockSteps
    <2>4. Prepared' /\ Cleared'
      BY <2>1, <2>3, WorkspaceTasks DEF Places, Prepared, Cleared, At, Ws, Present
    <2> QED
      BY <2>1, <2>4 DEF Places, DirectoriesRecoverable, Present
  <1>4. ASSUME NEW answered \in BOOLEAN, CreateContainer(p, answered) PROVE Places'
    <2>1. /\ UNCHANGED <<row, tombs>>
          /\ files' = [files EXCEPT ![Ws(p)] = files[Ws(p)] \cup {"volume"}]
      BY <1>4, CreateContainerKeeps
    <2>2. \A w \in Workspace : /\ "live" \in files'[w] <=> "live" \in files[w]
                               /\ "archived" \in files'[w] <=> "archived" \in files[w]
      BY <1>1, <2>1 DEF WorldTyped
    <2>3. NobodyEnters
      <3>1. Moves(p) \/ CreateContainer(p, TRUE)
        BY <1>4
      <3>2. ~CheckStart(p) /\ ~ArchiveDirectories(p)
        BY <1>4 DEF CreateContainer, CheckStart, ArchiveDirectories, At
      <3> QED
        BY <3>1, <3>2, MovesEnter
    <2>4. Prepared' /\ Cleared'
      BY <2>1, <2>2, <2>3, WorkspaceTasks
         DEF Places, Prepared, Cleared, NobodyEnters, At, Ws, Present
    <2> QED
      BY <2>1, <2>2, <2>4 DEF Places, DirectoriesRecoverable, Present
  <1>5. CASE PrepareStorage(p)
    <2>1. /\ UNCHANGED <<row, tombs>> /\ Present(Ws(p))
          /\ files' = [files EXCEPT ![Ws(p)] = files[Ws(p)] \cup {"live"}]
      BY <1>5 DEF PrepareStorage, Places, Prepared
    <2>2. NobodyEnters /\ task[p].step = "prepare"
      BY <1>5, MovesEnter DEF Moves, StartWork, PrepareStorage, CheckStart, ArchiveDirectories, At
    <2>3. Cleared'
      <3> SUFFICES ASSUME NEW q \in Proc, task'[q].step = "forget"
                   PROVE  "live" \notin files'[task'[q].ws]
        BY DEF Cleared, At, Ws
      <3>1. task'[q] = task[q] /\ task[q].step = "forget"
        BY <2>2 DEF NobodyEnters
      <3>2. Ws(p) # Ws(q)
        BY <2>2, <3>1, WorkersApart, StepNames
      <3>3. "live" \notin files[Ws(q)] /\ Ws(q) \in Workspace
        BY <3>1, WorkspaceTasks DEF Places, Cleared, At, Ws
      <3> QED
        BY <2>1, <3>1, <3>2, <3>3 DEF Ws, WorldTyped
    <2>4. Prepared'
      BY <2>1, <2>2, WorkspaceTasks DEF Places, Prepared, NobodyEnters, At, Ws, Present
    <2>5. DirectoriesRecoverable'
      BY <2>1 DEF Places, DirectoriesRecoverable, Present, WorldTyped
    <2> QED
      BY <2>3, <2>4, <2>5 DEF Places
  <1>6. CASE ArchiveDirectories(p)
    <2>1. /\ UNCHANGED <<row, tombs>>
          /\ files' = IF "live" \notin files[Ws(p)] THEN files
                      ELSE [files EXCEPT ![Ws(p)] = (files[Ws(p)] \ {"live"}) \cup {"archived"}]
      BY <1>6 DEF ArchiveDirectories
    <2>2. \A w \in Workspace : "live" \in files'[w] => "live" \in files[w] /\ w # Ws(p)
      BY <1>1, <2>1 DEF WorldTyped
    <2>3. /\ \A q \in Proc : q # p => task'[q] = task[q]
          /\ task'[p].step = "forget" /\ task'[p].ws = task[p].ws
      BY <1>6, GotoEnters, StepNames DEF ArchiveDirectories
    <2>4. Prepared' /\ Cleared'
      BY <1>1, <2>1, <2>2, <2>3, WorkspaceTasks DEF Places, Prepared, Cleared, At, Ws, Present
    <2>5. DirectoriesRecoverable'
      BY <1>1, <2>1 DEF Places, DirectoriesRecoverable, Present, WorldTyped
    <2> QED
      BY <2>4, <2>5 DEF Places
  <1>7. CASE ForgetWorkspace(p)
    <2>1. UNCHANGED files /\ At(p, "forget") /\ "live" \notin files[Ws(p)]
      BY <1>7 DEF ForgetWorkspace, Places, Cleared
    <2>2. NobodyEnters
      BY <1>7, MovesEnter DEF Moves, DeleteWork, ForgetWorkspace, CheckStart, ArchiveDirectories, At
    <2>3. \A w \in Workspace : w # Ws(p) => row'[w] = row[w] /\ tombs'[w] = tombs[w]
      BY <1>1, <1>7 DEF ForgetWorkspace, WorldTyped
    <2>4. /\ row'[Ws(p)] = Absent
          /\ \/ tombs'[Ws(p)] = tombs[Ws(p)] /\ row[Ws(p)] = Absent
             \/ "directory" \in tombs'[Ws(p)]
      <3>1. CASE Present(Ws(p))
        <4>1. /\ row' = [row EXCEPT ![Ws(p)] = Absent]
              /\ \E rest : tombs' = [tombs EXCEPT ![Ws(p)] = {"directory"} \cup rest]
          BY <1>7, <3>1 DEF ForgetWorkspace
        <4> QED
          BY <1>1, <4>1 DEF WorldTyped
      <3>2. CASE ~Present(Ws(p))
        BY <1>7, <3>2 DEF ForgetWorkspace, Present
      <3> QED
        BY <3>1, <3>2
    <2>5. Cleared'
      BY <2>1, <2>2, WorkspaceTasks DEF Places, Cleared, NobodyEnters, At, Ws
    <2>6. Prepared'
      <3> SUFFICES ASSUME NEW q \in Proc, task'[q].step = "prepare"
                   PROVE  row'[task'[q].ws] # Absent
        BY DEF Prepared, At, Ws, Present
      <3>1. task'[q] = task[q] /\ task[q].step = "prepare"
        BY <2>2 DEF NobodyEnters
      <3>2. Ws(q) # Ws(p)
        BY <2>1, <3>1, WorkersApart, StepNames DEF At
      <3> QED
        BY <2>3, <3>1, <3>2, WorkspaceTasks DEF Places, Prepared, At, Ws, Present
    <2>7. DirectoriesRecoverable'
      <3> SUFFICES ASSUME NEW w \in Workspace
                   PROVE  IF row'[w] # Absent THEN tombs'[w] = {}
                          ELSE /\ "live" \notin files'[w]
                               /\ "archived" \in files'[w] => "directory" \in tombs'[w]
        BY DEF DirectoriesRecoverable, Present
      <3>1. CASE w = Ws(p)
        BY <1>1, <2>1, <2>4, <3>1 DEF Places, DirectoriesRecoverable, Present
      <3>2. CASE w # Ws(p)
        BY <2>1, <2>3, <3>2 DEF Places, DirectoriesRecoverable, Present
      <3> QED
        BY <3>1, <3>2
    <2> QED
      BY <2>5, <2>6, <2>7 DEF Places
  <1> QED
    BY <1>2, <1>3, <1>4, <1>5, <1>6, <1>7, MovesKept

LEMMA NextPlaces ==
  ASSUME Typed, Locks!LocksMatchTasks, Places, [Next]_vars
  PROVE  Places'
  <1> USE DEF Typed
  <1>1. CASE UNCHANGED vars
    BY <1>1, PlacesKept DEF vars, NobodyEnters, Present
  <1>2. CASE Next
    <2>1. CASE Restart
      <3>1. NobodyEnters
        BY <2>1, RestingTask DEF Restart, NobodyEnters
      <3> QED
        BY <2>1, <3>1, UnchangedKept, PlacesKept DEF Restart, WorldKept
    <2>2. CASE Outside
      <3>1. NobodyEnters
        BY <2>2 DEF Outside, ContainerExits, ContainerVanishes, NobodyEnters
      <3> QED
        BY <2>2, <3>1, OutsideKept, PlacesKept DEF WorldKept
    <2>3. ASSUME NEW p \in Proc, ActsOn(p) PROVE Places'
      BY <2>3, MovesKeepPlaces, QuietEnters, QuietKept, PassingEnters, PassingKept, PlacesKept
         DEF ActsOn, WorldKept
    <2> QED
      BY <1>2, <2>1, <2>2, <2>3, NextInGroups
  <1> QED
    BY <1>1, <1>2

(* Through every failure, lost answer, cancelled client and restart, and   *)
(* for any number of requests and workspaces: the directories of a         *)
(* workspace lie under the mount root while its row exists, or in the      *)
(* archive with a tombstone (DeleteWorkspace, prepareMountDirectories).    *)
THEOREM DirectoriesStay == Spec => []DirectoriesRecoverable
  <1>1. Init => Places
    <2> SUFFICES ASSUME Init PROVE Places
      OBVIOUS
    <2>1. \A w \in Workspace : Present(w)
      <3>1. [observed |-> "unknown", rid |-> 0, stopped |-> FALSE, removed |-> FALSE] \in Row
        BY LifecycleAssumption DEF Row, Observed, RuntimeID
      <3> QED
        BY <3>1, LifecycleAssumption DEF Init, Present
    <2> QED
      BY <2>1, RestingTask DEF Init, Places, Prepared, Cleared, DirectoriesRecoverable, At
  <1>2. Typed /\ Locks!LocksMatchTasks /\ Places /\ [Next]_vars => Places'
    BY NextPlaces
  <1>3. Places => DirectoriesRecoverable
    BY DEF Places
  <1> QED
    BY <1>1, <1>2, <1>3, InitTyped, NextTyped, LocksAgree, PTL DEF Spec

-----------------------------------------------------------------------------
(* The calm world of CalmSpec: rows are true whenever nobody works on      *)
(* them.  Whoever changes rows or containers holds the admission lock, so  *)
(* there is one writer at a time.                                          *)

(* The steps after which container and row differ until the next one. *)
Off == {"created", "booted", "halted"}

Settled(w) ==
    Present(w) =>
        /\ row[w].observed = "running" <=> container[w].state = "running"
        /\ container[w] # NoContainer => row[w].rid = container[w].id
        /\ row[w].observed \in {"removed", "missing"} => container[w] = NoContainer

Truth ==
    \A w \in Workspace : (\A p \in Proc : Ws(p) = w => task[p].step \notin Off) => Settled(w)

(* A start has read the row as it is until it changes it. *)
Knows(p) ==
    /\ task[p].kind = "start"
       /\ task[p].step \in {"awaitWorkspace", "checkStart", "prepare", "create", "createFailed"}
         => Seen(p) = row[Ws(p)]
    /\ task[p].step \in {"prepare", "create", "createFailed"} => NeedsContainer(Seen(p))
    /\ At(p, "halt") => Seen(p).rid # 0
    /\ At(p, "remove") /\ task[p].kind = "timeout" => ~NeedsContainer(Seen(p))

(* What an operation is about to make of the row. *)
Between(p) ==
    Present(Ws(p)) =>
        LET r == row[Ws(p)]
            c == container[Ws(p)]
        IN
        /\ task[p].step \in {"boot", "bootFailed"} =>
              r.rid = Seen(p).rid /\ r.observed # "running" /\ ~NeedsContainer(r)
        /\ At(p, "created") =>
              /\ c.id = Seen(p).rid /\ c.state = "created"
              /\ r.observed # "running" /\ NeedsContainer(r)
        /\ At(p, "booted") =>
              /\ c.id = Seen(p).rid /\ c.state = "running"
              /\ r.rid = Seen(p).rid /\ ~NeedsContainer(r)
        /\ At(p, "halted") =>
              /\ c.id = Seen(p).rid /\ c # NoContainer /\ c.state # "running"
              /\ r.rid = Seen(p).rid /\ ~NeedsContainer(r)
        /\ At(p, "removed") => c = NoContainer

(* The rows the pass has still to act on name the containers they named    *)
(* when it read them.                                                      *)
Due == {"awaitWorkspace", "awaitAdmission", "expire", "halt", "remove"}
Pending(p) == task[p].todo \cup (IF task[p].step \in Due THEN {Ws(p)} ELSE {})

Remembers(p) ==
    task[p].kind = "timeout" =>
        \A w \in Pending(p) :
            Present(w) /\ ~NeedsContainer(task[p].seen[w])
              => row[w].rid = task[p].seen[w].rid /\ ~NeedsContainer(row[w])

Informed(p) == task[p].kind # "reconcile" /\ Knows(p) /\ Between(p) /\ Remembers(p)

Calm == Truth /\ \A p \in Proc : Informed(p)

(* Whoever works on rows and containers, and a start from its reading of   *)
(* the row on, holds admission.                                            *)
Admitted(p) ==
    \/ task[p].step \in WorkSteps \ FileSteps
    \/ task[p].kind = "start" /\ task[p].step \in {"load", "awaitWorkspace"}

LEMMA AdmittedHoldsAdmission ==
  ASSUME TasksFit, Locks!LocksMatchTasks, NEW p \in Proc, Admitted(p)
  PROVE  admission = p
  <1>1. Fits(p) /\ task[p].kind \in Kind
    BY WorkspaceTasks DEF TasksFit
  <1>2. lockTask[p] = LockRecord(task[p])
    BY StepNames, LockTaskIs DEF lockTask, PassSteps, Admitted
  <1>3. Locks!LocksMatch(p)
    BY DEF Locks!LocksMatchTasks, Locks!Proc, Proc
  <1>4. CASE task[p].step \in WorkSteps \ FileSteps
    <2>1. task[p].kind \in {"start", "stop", "delete", "timeout"}
      BY <1>1, <1>4, StepNames DEF Fits, MayBeAt, Kind, FileSteps
    <2>2. LockPhase(task[p]) = "working"
      BY <1>4, StepNames DEF LockPhase
    <2>3. Locks!HoldsAdmission(p)
      BY <1>2, <2>1, <2>2 DEF Locks!HoldsAdmission, Locks!HoldsFirst, Locks!HoldsSecond,
                              Locks!AdmissionFirst, Locks!TakesBoth, lockTask, LockRecord
    <2> QED
      BY <1>3, <2>3 DEF Locks!LocksMatch
  <1>5. CASE task[p].kind = "start" /\ task[p].step \in {"load", "awaitWorkspace"}
    <2>1. LockPhase(task[p]) = "waitSecond"
      BY <1>5 DEF LockPhase
    <2>2. Locks!HoldsAdmission(p)
      BY <1>2, <1>5, <2>1 DEF Locks!HoldsAdmission, Locks!HoldsFirst, Locks!AdmissionFirst,
                              lockTask, LockRecord
    <2> QED
      BY <1>3, <2>2 DEF Locks!LocksMatch
  <1> QED
    BY <1>4, <1>5 DEF Admitted

(* Only p goes on. *)
Alone(p) == \A q \in Proc : q # p => task'[q] = task[q]

LEMMA InformedFrame ==
  ASSUME TasksFit, NEW q \in Proc, Informed(q), task'[q] = task[q], UNCHANGED <<row, container>>
  PROVE  Informed(q)'
  BY DEF Informed, Knows, Between, Remembers, Pending, At, Ws, Seen, Present

LEMMA CalmQuietly ==
  ASSUME TasksFit, Calm, NEW p \in Proc, Alone(p), UNCHANGED <<row, container>>,
         task[p].step \notin Off, Informed(p)'
  PROVE  Calm'
  <1>1. \A q \in Proc : Informed(q)'
    BY InformedFrame DEF Calm, Alone
  <1>2. Truth'
    BY DEF Calm, Truth, Alone, Settled, Ws, Present
  <1> QED
    BY <1>1, <1>2 DEF Calm

(* The one writer: nobody else relies on what it changes, except that the  *)
(* timeout pass remembers which container a row named.                     *)
LEMMA CalmWriting ==
  ASSUME Typed, Locks!LocksMatchTasks, Calm, NEW p \in Proc, Admitted(p), Alone(p),
         task'[p].ws = task[p].ws,
         \A w \in Workspace : w # Ws(p) => row'[w] = row[w] /\ container'[w] = container[w],
         Present(Ws(p))' =>
            /\ Present(Ws(p))
            /\ \/ NeedsContainer(row[Ws(p)])
               \/ row'[Ws(p)].rid = row[Ws(p)].rid /\ ~NeedsContainer(row'[Ws(p)])
               \/ task[p].kind = "timeout",
         Informed(p)',
         Settled(Ws(p))' \/ task'[p].step \in Off
  PROVE  Calm'
  <1> USE DEF Typed
  <1>1. ASSUME NEW q \in Proc, q # p PROVE Informed(q)'
    <2>1. task'[q] = task[q] /\ Informed(q) /\ Fits(q)
      BY <1>1 DEF Alone, Calm, TasksFit
    <2>2. ~Admitted(q)
      BY <1>1, AdmittedHoldsAdmission
    <2>3. task[q].kind = "timeout" => task[p].kind # "timeout"
      BY <1>1, <2>1 DEF TasksFit, Fits, Runs
    <2>4. Knows(q)' /\ Between(q)'
      <3>1. /\ task[q].step \notin WorkSteps \ FileSteps
            /\ ~(task[q].kind = "start" /\ task[q].step = "awaitWorkspace")
        BY <2>2 DEF Admitted
      <3> QED
        BY <2>1, <3>1, StepNames DEF Knows, Between, At, FileSteps
    <2>5. Remembers(q)'
      <3> SUFFICES ASSUME task[q].kind = "timeout", NEW w \in Pending(q),
                          row'[w] # Absent, ~NeedsContainer(task[q].seen[w])
                   PROVE  row'[w].rid = task[q].seen[w].rid /\ ~NeedsContainer(row'[w])
        BY <2>1 DEF Remembers, Pending, Ws, Present
      <3>1. w \in Workspace
        BY WorkspaceTasks DEF Pending, Ws
      <3>2. CASE w # Ws(p)
        BY <2>1, <3>1, <3>2 DEF Informed, Remembers, Present
      <3>3. CASE w = Ws(p)
        BY <2>1, <2>3, <3>3 DEF Informed, Remembers, Present, Ws
      <3> QED
        BY <3>2, <3>3
    <2> QED
      BY <2>1, <2>4, <2>5 DEF Informed
  <1>2. Truth'
    <2> SUFFICES ASSUME NEW w \in Workspace, \A q \in Proc : Ws(q)' = w => task'[q].step \notin Off
                 PROVE  Settled(w)'
      BY DEF Truth
    <2>1. CASE w = Ws(p)
      BY <2>1 DEF Ws
    <2>2. CASE w # Ws(p)
      <3>1. \A q \in Proc : Ws(q) = w => task[q].step \notin Off
        BY <2>2 DEF Alone, Ws
      <3>2. Settled(w)
        BY <3>1 DEF Calm, Truth
      <3> QED
        BY <2>2, <3>2 DEF Settled, Present
    <2> QED
      BY <2>1, <2>2
  <1> QED
    BY <1>1, <1>2 DEF Calm

(* What a move changes of its task. *)
LEMMA GotoTask ==
  ASSUME TasksFit, NEW p \in Proc, NEW s \in Steps, Goto(p, s)
  PROVE  /\ Alone(p)
         /\ task'[p].kind = task[p].kind /\ task'[p].ws = task[p].ws
         /\ task'[p].step = s /\ task'[p].todo = task[p].todo
         /\ s \notin {"return", "unwind"} => task'[p].seen = task[p].seen
         /\ \A w \in Workspace : w # Ws(p) => task'[p].seen[w] = task[p].seen[w]
  <1>1. Becomes(p, Moved(p, s))
    BY GotoMoves
  <1>2. Alone(p) /\ task'[p] = Moved(p, s)
    BY <1>1 DEF TasksFit, Becomes, Alone
  <1>3. /\ Moved(p, s).kind = task[p].kind /\ Moved(p, s).ws = task[p].ws
        /\ Moved(p, s).step = s /\ Moved(p, s).todo = task[p].todo
        /\ s \notin {"return", "unwind"} => Moved(p, s).seen = task[p].seen
    BY DEF Moved
  <1>4. \A w \in Workspace : w # Ws(p) => Moved(p, s).seen[w] = task[p].seen[w]
    BY WorkspaceTasks DEF Moved, Ws
  <1> QED
    BY <1>2, <1>3, <1>4

(* The pass goes on remembering the rows it has still to act on. *)
LEMMA GotoRemembers ==
  ASSUME TasksFit, NEW p \in Proc, Remembers(p), NEW s \in Steps, Goto(p, s),
         ~At(p, "nextTimeout"),
         \A w \in Workspace : w # Ws(p) => row'[w] = row[w],
         task[p].kind = "timeout" /\ s \in Due
            => task[p].step \in Due /\ row'[Ws(p)] = row[Ws(p)]
  PROVE  Remembers(p)'
  <1> SUFFICES ASSUME task[p].kind = "timeout", NEW w \in Pending(p)',
                      row'[w] # Absent, ~NeedsContainer(task'[p].seen[w])
               PROVE  row'[w].rid = task'[p].seen[w].rid /\ ~NeedsContainer(row'[w])
    BY GotoTask DEF Remembers, Present
  <1>1. Ws(p) \notin task[p].todo /\ task[p].todo \subseteq Workspace
    BY WorkspaceTasks DEF TasksFit, Fits
  <1>2. w \in Pending(p) /\ row'[w] = row[w] /\ task'[p].seen[w] = task[p].seen[w]
    <2>1. CASE w \in task[p].todo
      BY <1>1, <2>1, GotoTask DEF Pending, Ws
    <2>2. CASE w \notin task[p].todo
      <3>1. s \in Due /\ w = Ws(p)
        BY <2>2, GotoTask DEF Pending, Ws
      <3>2. s \notin {"return", "unwind"}
        BY <3>1 DEF Due
      <3> QED
        BY <3>1, <3>2, GotoTask DEF Pending, Ws
    <2> QED
      BY <2>1, <2>2
  <1> QED
    BY <1>2 DEF Remembers, Present

(* A call that returns relies on nothing any more. *)
LEMMA ReturnsInformed ==
  ASSUME TasksFit, NEW p \in Proc, Informed(p), NEW s \in {"return", "unwind"}, Goto(p, s),
         ~At(p, "nextTimeout"), \A w \in Workspace : w # Ws(p) => row'[w] = row[w]
  PROVE  Informed(p)'
  <1>1. s \in Steps
    BY DEF Steps, LockSteps
  <1>2. Remembers(p)'
    BY <1>1, GotoRemembers DEF Informed, Due
  <1>3. task'[p].kind = task[p].kind /\ task'[p].step = s
    BY <1>1, GotoTask
  <1>4. Knows(p)' /\ Between(p)'
    BY <1>3 DEF Knows, Between, At
  <1> QED
    BY <1>2, <1>3, <1>4 DEF Informed

LEMMA ReturnsCalmly ==
  ASSUME TasksFit, Calm, NEW p \in Proc, NEW s \in {"return", "unwind"}, Goto(p, s),
         ~At(p, "nextTimeout"), task[p].step \notin Off, UNCHANGED <<row, container>>
  PROVE  Calm'
  <1>1. s \in Steps
    BY DEF Steps, LockSteps
  <1>2. Informed(p)'
    BY ReturnsInformed DEF Calm
  <1> QED
    BY <1>1, <1>2, GotoTask, CalmQuietly

LEMMA GoesCalmly ==
  ASSUME TasksFit, Calm, NEW p \in Proc,
         NEW s \in Steps \ ({"return", "unwind"} \cup Off), Goto(p, s),
         ~At(p, "nextTimeout"), task[p].step \notin Off, UNCHANGED <<row, container>>,
         task[p].kind = "timeout" /\ s \in Due => task[p].step \in Due,
         task[p].kind = "start" /\ s \in {"awaitWorkspace", "checkStart", "prepare", "create",
                                          "createFailed"} => Seen(p) = row[Ws(p)],
         s \in {"prepare", "create", "createFailed"} => NeedsContainer(Seen(p)),
         s = "halt" => Seen(p).rid # 0,
         s = "remove" /\ task[p].kind = "timeout" => ~NeedsContainer(Seen(p)),
         Present(Ws(p)) =>
            /\ s \in {"boot", "bootFailed"} =>
                  /\ row[Ws(p)].rid = Seen(p).rid
                  /\ row[Ws(p)].observed # "running" /\ ~NeedsContainer(row[Ws(p)])
            /\ s = "removed" => container[Ws(p)] = NoContainer
  PROVE  Calm'
  <1>1. Remembers(p)'
    BY GotoRemembers DEF Calm, Informed
  <1>2. /\ Alone(p)
        /\ task'[p].kind = task[p].kind /\ Ws(p)' = Ws(p) /\ Seen(p)' = Seen(p)
        /\ task'[p].step = s
    BY GotoTask DEF Ws, Seen
  <1>3. Knows(p)'
    BY <1>2 DEF Knows, At
  <1>4. Between(p)'
    BY <1>2 DEF Between, At, Off, Present
  <1> QED
    BY <1>1, <1>2, <1>3, <1>4, CalmQuietly DEF Calm, Informed

(* Whose steps they are. *)
LEMMA KindAt ==
  ASSUME TasksFit, NEW p \in Proc
  PROVE  /\ task[p].step \in StartSteps => task[p].kind = "start"
         /\ task[p].step \in {"halt", "halted", "haltTime"} => task[p].kind \in {"stop", "timeout"}
         /\ task[p].step = "remove" => task[p].kind \in {"delete", "timeout"}
         /\ task[p].step \in {"checkDelete", "archive", "forget"} => task[p].kind = "delete"
         /\ task[p].step \in TimeoutSteps => task[p].kind = "timeout"
         /\ task[p].step \in {"listRows", "reconcile", "times"} => task[p].kind = "reconcile"
  <1>1. Fits(p) /\ task[p].kind \in Kind
    BY WorkspaceTasks DEF TasksFit
  <1> QED
    BY <1>1 DEF Fits, MayBeAt, Kind, StartSteps, StopSteps, DeleteSteps, FileSteps, TimeoutSteps

(* Nobody works on the workspace of a worker but the worker. *)
LEMMA SettledHere ==
  ASSUME TasksFit, Locks!LocksMatchTasks, Calm, NEW p \in Proc, Admitted(p),
         task[p].step \notin Off
  PROVE  Settled(Ws(p))
  <1>1. ASSUME NEW q \in Proc, task[q].step \in Off PROVE FALSE
    <2>1. Admitted(q)
      BY <1>1, StepNames DEF Admitted, Off, FileSteps
    <2>2. q = p
      BY <2>1, AdmittedHoldsAdmission
    <2> QED
      BY <1>1, <2>2
  <1>2. Ws(p) \in Workspace
    BY WorkspaceTasks DEF Ws
  <1> QED
    BY <1>1, <1>2 DEF Calm, Truth

LEMMA StartsCalmly ==
  ASSUME Typed, Calm, NEW p \in Proc,
         CheckStart(p) \/ PrepareStorage(p) \/ PrepareFailed(p) \/ CreateRefused(p)
         \/ StartRefused(p)
  PROVE  Calm'
  <1> USE DEF Typed
  <1> USE StepNames DEF Off, Due
  <1>1. Informed(p)
    BY DEF Calm
  <1>2. task[p].step \in StartSteps => task[p].kind = "start"
    BY KindAt
  <1>3. CASE CheckStart(p)
    <2>1. At(p, "checkStart") /\ UNCHANGED <<row, container>> /\ task[p].kind = "start"
      BY <1>2, <1>3 DEF CheckStart, world, At, StartSteps
    <2>2. Seen(p) = row[Ws(p)]
      BY <1>1, <2>1 DEF Informed, Knows, At
    <2>3. CASE Goto(p, "return")
      BY <2>1, <2>3, ReturnsCalmly DEF At
    <2>4. CASE Goto(p, "prepare") /\ NeedsContainer(Seen(p))
      BY <2>1, <2>2, <2>4, GoesCalmly DEF At
    <2>5. CASE Goto(p, "boot") /\ ~NeedsContainer(Seen(p)) /\ Seen(p).observed # "running"
      BY <2>1, <2>2, <2>5, GoesCalmly DEF At
    <2> QED
      BY <1>3, <2>3, <2>4, <2>5 DEF CheckStart
  <1>4. CASE PrepareStorage(p)
    <2>1. /\ At(p, "prepare") /\ UNCHANGED <<row, container>> /\ Goto(p, "create")
          /\ task[p].kind = "start"
      BY <1>2, <1>4 DEF PrepareStorage, At, StartSteps
    <2> QED
      BY <1>1, <2>1, GoesCalmly DEF At, Informed, Knows
  <1>5. CASE PrepareFailed(p)
    BY <1>5, ReturnsCalmly DEF PrepareFailed, Fail, world, At
  <1>6. CASE CreateRefused(p)
    <2>1. /\ At(p, "create") /\ UNCHANGED <<row, container>> /\ Goto(p, "createFailed")
          /\ task[p].kind = "start"
      BY <1>2, <1>6 DEF CreateRefused, world, At, StartSteps
    <2> QED
      BY <1>1, <2>1, GoesCalmly DEF At, Informed, Knows
  <1>7. CASE StartRefused(p)
    <2>1. At(p, "boot") /\ UNCHANGED <<row, container>> /\ Goto(p, "bootFailed")
      BY <1>7 DEF StartRefused, world
    <2> QED
      BY <1>1, <2>1, GoesCalmly DEF At, Informed, Between
  <1> QED
    BY <1>3, <1>4, <1>5, <1>6, <1>7

LEMMA StopsCalmly ==
  ASSUME Typed, Calm, NEW p \in Proc, CheckStop(p) \/ StopRefused(p)
  PROVE  Calm'
  <1> USE DEF Typed
  <1> USE StepNames DEF Off, Due
  <1>1. CASE CheckStop(p)
    <2>1. At(p, "checkStop") /\ UNCHANGED <<row, container>>
      BY <1>1 DEF CheckStop, world
    <2>2. CASE Goto(p, "return")
      BY <2>1, <2>2, ReturnsCalmly DEF At
    <2>3. CASE Goto(p, "halt") /\ Seen(p).rid # 0
      <3>1. task[p].kind # "timeout"
        <4>1. Fits(p) /\ task[p].kind \in Kind
          BY WorkspaceTasks DEF TasksFit
        <4> QED
          BY <2>1, <4>1 DEF At, Fits, MayBeAt, TimeoutSteps
      <3> QED
        BY <2>1, <2>3, <3>1, GoesCalmly DEF At
    <2> QED
      BY <1>1, <2>2, <2>3 DEF CheckStop
  <1>2. CASE StopRefused(p)
    BY <1>2, ReturnsCalmly DEF StopRefused, Fail, world, At
  <1> QED
    BY <1>1, <1>2

LEMMA DeletesCalmly ==
  ASSUME Typed, Locks!LocksMatchTasks, Calm, NEW p \in Proc,
         CheckDelete(p) \/ ContainerNotFound(p) \/ RemoveRefused(p)
         \/ ArchiveDirectories(p) \/ ArchiveFailed(p)
  PROVE  Calm'
  <1> USE DEF Typed
  <1> USE StepNames DEF Off, Due
  <1>1. CASE CheckDelete(p)
    <2>1. At(p, "checkDelete") /\ UNCHANGED <<row, container>> /\ task[p].kind = "delete"
      BY <1>1, KindAt DEF CheckDelete, world, At
    <2>2. CASE Goto(p, "return")
      BY <2>1, <2>2, ReturnsCalmly DEF At
    <2>3. CASE Goto(p, "archive")
      BY <2>1, <2>3, GoesCalmly DEF At
    <2>4. CASE Goto(p, "remove")
      BY <2>1, <2>4, GoesCalmly DEF At
    <2> QED
      BY <1>1, <2>2, <2>3, <2>4 DEF CheckDelete
  <1>2. CASE ContainerNotFound(p)
    <2>1. /\ At(p, "remove") /\ UNCHANGED <<row, container>>
          /\ container[Ws(p)].id # Seen(p).rid /\ Goto(p, AfterRemoval(p))
      BY <1>2 DEF ContainerNotFound, world
    <2>2. CASE task[p].kind = "delete"
      BY <2>1, <2>2, GoesCalmly DEF At, AfterRemoval
    <2>3. CASE task[p].kind = "timeout"
      <3>1. Goto(p, "removed")
        BY <2>1, <2>3 DEF AfterRemoval
      <3>2. Present(Ws(p)) => container[Ws(p)] = NoContainer
        <4>1. Settled(Ws(p))
          BY <2>1, SettledHere DEF Admitted, At, FileSteps
        <4>2. ~NeedsContainer(Seen(p))
          BY <2>1, <2>3 DEF Calm, Informed, Knows
        <4>3. Present(Ws(p)) => row[Ws(p)].rid = Seen(p).rid
          BY <2>1, <2>3, <4>2 DEF Calm, Informed, Remembers, Pending, Seen, Ws, At
        <4> QED
          BY <2>1, <4>1, <4>3 DEF Settled
      <3> QED
        BY <2>1, <3>1, <3>2, GoesCalmly DEF At
    <2> QED
      BY <2>1, <2>2, <2>3, KindAt DEF At
  <1>3. CASE RemoveRefused(p) \/ ArchiveFailed(p)
    BY <1>3, ReturnsCalmly DEF RemoveRefused, ArchiveFailed, Fail, world, At
  <1>4. CASE ArchiveDirectories(p)
    BY <1>4, GoesCalmly DEF ArchiveDirectories, At
  <1> QED
    BY <1>1, <1>2, <1>3, <1>4

LEMMA OthersCalmly ==
  ASSUME Typed, Calm, NEW p \in Proc, OpenFiles(p) \/ EndTransfer(p) \/ CheckTimeout(p)
  PROVE  Calm'
  <1> USE DEF Typed
  <1> USE StepNames DEF Off, Due
  <1>1. CASE OpenFiles(p)
    <2>1. At(p, "open") /\ UNCHANGED <<row, container>>
      BY <1>1 DEF OpenFiles, world
    <2>2. CASE Goto(p, "return")
      BY <2>1, <2>2, ReturnsCalmly DEF At
    <2>3. CASE Goto(p, "transfer")
      BY <2>1, <2>3, GoesCalmly DEF At
    <2> QED
      BY <1>1, <2>2, <2>3 DEF OpenFiles
  <1>2. CASE EndTransfer(p)
    BY <1>2, ReturnsCalmly DEF EndTransfer, Fail, world, At
  <1>3. CASE CheckTimeout(p)
    <2>1. At(p, "expire") /\ UNCHANGED <<row, container>>
      BY <1>3 DEF CheckTimeout, world
    <2>2. CASE Goto(p, "return")
      BY <2>1, <2>2, ReturnsCalmly DEF At
    <2>3. CASE Goto(p, "halt") /\ Seen(p).rid # 0
      BY <2>1, <2>3, GoesCalmly DEF At
    <2>4. CASE Goto(p, "remove") /\ RetentionApplies(Seen(p)) /\ Seen(p).observed = "stopped"
      BY <2>1, <2>4, GoesCalmly DEF At, RetentionApplies, NeedsContainer
    <2> QED
      BY <1>3, <2>2, <2>3, <2>4 DEF CheckTimeout
  <1> QED
    BY <1>1, <1>2, <1>3

(* What the one writer writes of its own workspace, and where it goes on. *)
LEMMA WritesCalmly ==
  ASSUME Typed, Locks!LocksMatchTasks, Calm, NEW p \in Proc, Admitted(p),
         NEW s \in {"return", "boot", "booted", "ran", "halted", "haltTime", "archive",
                    "removed", "removalTime"}, Goto(p, s),
         \A w \in Workspace : w # Ws(p) => row'[w] = row[w] /\ container'[w] = container[w],
         row'[Ws(p)] # Absent =>
            /\ Present(Ws(p))
            /\ \/ NeedsContainer(row[Ws(p)])
               \/ row'[Ws(p)].rid = row[Ws(p)].rid /\ ~NeedsContainer(row'[Ws(p)])
               \/ task[p].kind = "timeout",
         row'[Ws(p)] # Absent =>
            LET r == row'[Ws(p)]
                c == container'[Ws(p)]
            IN
            /\ s = "boot" => r.rid = Seen(p).rid /\ r.observed # "running" /\ ~NeedsContainer(r)
            /\ s = "booted" =>
                  /\ c.id = Seen(p).rid /\ c.state = "running"
                  /\ r.rid = Seen(p).rid /\ ~NeedsContainer(r)
            /\ s = "halted" =>
                  /\ c.id = Seen(p).rid /\ c # NoContainer /\ c.state # "running"
                  /\ r.rid = Seen(p).rid /\ ~NeedsContainer(r)
            /\ s = "removed" => c = NoContainer,
         Settled(Ws(p))' \/ s \in Off
  PROVE  Calm'
  <1> USE DEF Typed
  <1>1. s \in Steps /\ s \notin Due /\ ~At(p, "nextTimeout")
    BY StepNames DEF LockSteps, Due, Admitted, At
  <1>2. /\ Alone(p)
        /\ task'[p].kind = task[p].kind /\ task'[p].ws = task[p].ws /\ Ws(p)' = Ws(p)
        /\ s # "return" => Seen(p)' = Seen(p)
        /\ task'[p].step = s
    BY <1>1, GotoTask DEF Ws, Seen
  <1>3. Remembers(p)'
    BY <1>1, GotoRemembers DEF Calm, Informed
  <1>4. Knows(p)'
    BY <1>2 DEF Knows, At
  <1>5. Between(p)'
    <2>1. CASE row'[Ws(p)] = Absent
      BY <1>2, <2>1 DEF Between, Present
    <2>2. CASE row'[Ws(p)] # Absent
      BY <1>2, <2>2 DEF Between, At, Present
    <2> QED
      BY <2>1, <2>2
  <1>6. Informed(p)'
    BY <1>2, <1>3, <1>4, <1>5 DEF Calm, Informed
  <1>7. Settled(Ws(p))' \/ task'[p].step \in Off
    BY <1>2
  <1> QED
    BY <1>2, <1>6, <1>7, CalmWriting DEF Present

(* SetObserved and SetTimes, where the row is there. *)
LEMMA ObservedSet ==
  ASSUME Typed, NEW w \in Workspace, NEW o \in Observed, NEW i \in RuntimeID, SetObserved(w, o, i)
  PROVE  /\ \A v \in Workspace : v # w => row'[v] = row[v]
         /\ row'[w] # Absent <=> Present(w)
         /\ Present(w) => row'[w].observed = o /\ row'[w].rid = i
  <1>1. CASE Present(w)
    <2>1. row[w] \in Row /\ row' = [row EXCEPT ![w].observed = o, ![w].rid = i]
      BY <1>1 DEF SetObserved, Typed, WorldTyped, Present
    <2>2. row' = [row EXCEPT ![w] = [row[w] EXCEPT !.observed = o, !.rid = i]]
      BY <2>1 DEF Typed, WorldTyped
    <2>3. [row[w] EXCEPT !.observed = o, !.rid = i] \in Row
      BY <2>1 DEF Row
    <2>4. row' = [row EXCEPT ![w] = row'[w]] /\ row'[w] = [row[w] EXCEPT !.observed = o, !.rid = i]
      BY <2>2 DEF Typed, WorldTyped
    <2>5. Absent \notin Row
      BY LifecycleAssumption DEF Row
    <2>6. row'[w].observed = o /\ row'[w].rid = i
      BY <2>1, <2>4 DEF Row
    <2> QED
      BY <1>1, <2>2, <2>3, <2>4, <2>5, <2>6 DEF Present
  <1>2. CASE ~Present(w)
    BY <1>2 DEF SetObserved, Present
  <1> QED
    BY <1>1, <1>2

LEMMA TimesSet ==
  ASSUME Typed, NEW w \in Workspace, NEW a \in BOOLEAN, NEW b \in BOOLEAN, SetTimes(w, a, b)
  PROVE  /\ \A v \in Workspace : v # w => row'[v] = row[v]
         /\ row'[w] # Absent <=> Present(w)
         /\ Present(w) => row'[w].observed = row[w].observed /\ row'[w].rid = row[w].rid
  <1>1. CASE Present(w)
    <2>1. row[w] \in Row /\ row' = [row EXCEPT ![w].stopped = a, ![w].removed = b]
      BY <1>1 DEF SetTimes, Typed, WorldTyped, Present
    <2>2. row' = [row EXCEPT ![w] = [row[w] EXCEPT !.stopped = a, !.removed = b]]
      BY <2>1 DEF Typed, WorldTyped
    <2>3. [row[w] EXCEPT !.stopped = a, !.removed = b] \in Row
      BY <2>1 DEF Row
    <2>4. row' = [row EXCEPT ![w] = row'[w]] /\ row'[w] = [row[w] EXCEPT !.stopped = a, !.removed = b]
      BY <2>2 DEF Typed, WorldTyped
    <2>5. Absent \notin Row
      BY LifecycleAssumption DEF Row
    <2>6. row'[w].observed = row[w].observed /\ row'[w].rid = row[w].rid
      <3>1. ASSUME NEW x \in Row, NEW y, y = [x EXCEPT !.stopped = a, !.removed = b]
            PROVE  y.observed = x.observed /\ y.rid = x.rid
        BY <3>1 DEF Row
      <3> QED
        BY <2>1, <2>4, <3>1
    <2> QED
      BY <1>1, <2>2, <2>3, <2>4, <2>5, <2>6 DEF Present
  <1>2. CASE ~Present(w)
    BY <1>2 DEF SetTimes, Present
  <1> QED
    BY <1>1, <1>2

LEMMA ContainerIDs ==
  /\ NoContainer.id = 0 /\ NoContainer.state = "none"
  /\ \A c \in Container : (c.id = 0 <=> c = NoContainer) /\ (c = NoContainer => c.state # "running")
  BY LifecycleAssumption DEF Container, NoContainer, RuntimeID

(* The records of a start. *)
LEMMA StartRecordsCalmly ==
  ASSUME Typed, Locks!LocksMatchTasks, Calm, NEW p \in Proc,
         RecordCreateFailure(p) \/ RecordCreated(p) \/ RecordStartFailure(p) \/ RecordRunning(p)
         \/ RecordStartTimes(p)
  PROVE  Calm'
  <1> USE DEF Typed
  <1>1. /\ Informed(p) /\ Admitted(p) /\ UNCHANGED container
        /\ task[p].step \in {"createFailed", "created", "bootFailed", "booted", "ran"}
    BY StepNames DEF Calm, Admitted, FileSteps, At, RecordCreateFailure, RecordCreated,
                     RecordStartFailure, RecordRunning, RecordStartTimes
  <1>2. /\ Ws(p) \in Workspace /\ Seen(p).rid \in RuntimeID /\ Seen(p).removed \in BOOLEAN
        /\ 0 \in RuntimeID /\ {"failed", "created", "running"} \subseteq Observed
        /\ container[Ws(p)] \in Container /\ task[p].kind = "start"
    BY <1>1, SeenIsRow, KindAt, StepNames, LifecycleAssumption
       DEF RuntimeID, Observed, WorldTyped, FileSteps, StartSteps
  <1>3. task[p].step \notin Off => Settled(Ws(p))
    BY <1>1, SettledHere
  <1>4. CASE RecordCreateFailure(p)
    <2>1. At(p, "createFailed") /\ SetObserved(Ws(p), "failed", 0) /\ Goto(p, "return")
      BY <1>4 DEF RecordCreateFailure
    <2>2. NeedsContainer(row[Ws(p)])
      BY <1>1, <1>2, <2>1 DEF Informed, Knows, At
    <2>3. Present(Ws(p)) => container[Ws(p)] = NoContainer
      BY <1>2, <1>3, <2>1, <2>2, ContainerIDs DEF Settled, NeedsContainer, At, Off
    <2>4. Settled(Ws(p))'
      <3>1. Ws(p)' = Ws(p)
        BY <2>1, GotoTask DEF Ws, Steps, LockSteps
      <3> QED
        BY <1>1, <1>2, <2>1, <2>3, <3>1, ObservedSet, ContainerIDs DEF Settled, Present
    <2> QED
      BY <1>1, <1>2, <2>1, <2>2, <2>4, ObservedSet, WritesCalmly
  <1>5. CASE RecordCreated(p)
    <2>1. /\ At(p, "created") /\ SetObserved(Ws(p), "created", Seen(p).rid)
          /\ Goto(p, IF Present(Ws(p)) THEN "boot" ELSE "return")
      BY <1>5 DEF RecordCreated
    <2>2. Present(Ws(p)) =>
             /\ container[Ws(p)].id = Seen(p).rid /\ container[Ws(p)].state = "created"
             /\ NeedsContainer(row[Ws(p)]) /\ Seen(p).rid # 0
      BY <1>1, <1>2, <2>1, ContainerIDs DEF Informed, Between, At
    <2>3. Settled(Ws(p))'
      <3>1. Ws(p)' = Ws(p)
        BY <2>1, GotoTask, StepNames DEF Ws, LockSteps
      <3> QED
        BY <1>1, <1>2, <2>1, <2>2, <3>1, ObservedSet, ContainerIDs DEF Settled, Present
    <2>4. CASE Present(Ws(p))
      <3>1. Goto(p, "boot")
        BY <2>1, <2>4
      <3>2. /\ row'[Ws(p)].rid = Seen(p).rid /\ row'[Ws(p)].observed # "running"
            /\ ~NeedsContainer(row'[Ws(p)])
        BY <1>2, <2>1, <2>2, <2>4, ObservedSet DEF NeedsContainer
      <3> QED
        BY <1>1, <1>2, <2>1, <2>2, <2>3, <2>4, <3>1, <3>2, ObservedSet, WritesCalmly
    <2>5. CASE ~Present(Ws(p))
      <3>1. Goto(p, "return")
        BY <2>1, <2>5
      <3> QED
        BY <1>1, <1>2, <2>1, <2>3, <2>5, <3>1, ObservedSet, WritesCalmly
    <2> QED
      BY <2>4, <2>5
  <1>6. CASE RecordStartFailure(p)
    <2>1. At(p, "bootFailed") /\ SetObserved(Ws(p), "created", Seen(p).rid) /\ Goto(p, "return")
      BY <1>6 DEF RecordStartFailure
    <2>2. Present(Ws(p)) =>
             /\ row[Ws(p)].rid = Seen(p).rid
             /\ row[Ws(p)].observed # "running" /\ ~NeedsContainer(row[Ws(p)])
      BY <1>1, <2>1 DEF Informed, Between, At
    <2>3. Settled(Ws(p))'
      <3>1. Ws(p)' = Ws(p)
        BY <2>1, GotoTask DEF Ws, Steps, LockSteps
      <3> QED
        BY <1>1, <1>2, <1>3, <2>1, <2>2, <3>1, ObservedSet DEF Settled, Present, At, Off
    <2>4. row'[Ws(p)] # Absent =>
             /\ Present(Ws(p)) /\ row'[Ws(p)].rid = row[Ws(p)].rid
             /\ ~NeedsContainer(row'[Ws(p)])
      BY <1>2, <2>1, <2>2, ObservedSet DEF NeedsContainer
    <2> QED
      BY <1>1, <1>2, <2>1, <2>3, <2>4, ObservedSet, WritesCalmly
  <1>7. CASE RecordRunning(p)
    <2>1. /\ At(p, "booted") /\ SetObserved(Ws(p), "running", Seen(p).rid)
          /\ Goto(p, IF Present(Ws(p)) THEN "ran" ELSE "return")
      BY <1>7 DEF RecordRunning
    <2>2. Present(Ws(p)) =>
             /\ container[Ws(p)].id = Seen(p).rid /\ container[Ws(p)].state = "running"
             /\ row[Ws(p)].rid = Seen(p).rid /\ ~NeedsContainer(row[Ws(p)])
      BY <1>1, <2>1 DEF Informed, Between, At
    <2>3. Settled(Ws(p))'
      <3>1. Ws(p)' = Ws(p)
        BY <2>1, GotoTask, StepNames DEF Ws, LockSteps
      <3> QED
        BY <1>1, <1>2, <2>1, <2>2, <3>1, ObservedSet, ContainerIDs DEF Settled, Present
    <2>4. row'[Ws(p)] # Absent =>
             /\ Present(Ws(p)) /\ row'[Ws(p)].rid = row[Ws(p)].rid
             /\ ~NeedsContainer(row'[Ws(p)])
      BY <1>2, <2>1, <2>2, ObservedSet DEF NeedsContainer
    <2>5. Goto(p, "ran") \/ Goto(p, "return")
      BY <2>1
    <2> QED
      BY <1>1, <1>2, <2>1, <2>3, <2>4, <2>5, ObservedSet, WritesCalmly
  <1>8. CASE RecordStartTimes(p)
    <2>1. At(p, "ran") /\ SetTimes(Ws(p), FALSE, Seen(p).removed) /\ Goto(p, "return")
      BY <1>8 DEF RecordStartTimes
    <2>2. Settled(Ws(p))'
      <3>1. Ws(p)' = Ws(p)
        BY <2>1, GotoTask DEF Ws, Steps, LockSteps
      <3> QED
        BY <1>1, <1>2, <1>3, <2>1, <3>1, TimesSet DEF Settled, Present, At, Off
    <2>3. row'[Ws(p)] # Absent =>
             /\ Present(Ws(p)) /\ row'[Ws(p)].rid = row[Ws(p)].rid
             /\ NeedsContainer(row'[Ws(p)]) <=> NeedsContainer(row[Ws(p)])
      BY <1>2, <2>1, TimesSet DEF NeedsContainer
    <2> QED
      BY <1>1, <1>2, <2>1, <2>2, <2>3, TimesSet, WritesCalmly
  <1> QED
    BY <1>4, <1>5, <1>6, <1>7, <1>8

(* The calls to Podman. *)
LEMMA CreatesCalmly ==
  ASSUME Typed, Locks!LocksMatchTasks, Calm, NEW p \in Proc, CreateContainer(p, TRUE)
  PROVE  Calm'
  <1> USE DEF Typed
  <1>1. /\ At(p, "create") /\ UNCHANGED row /\ Admitted(p) /\ Informed(p)
        /\ container[Ws(p)] = NoContainer
    BY StepNames DEF CreateContainer, Admitted, At, FileSteps, Calm
  <1>2. Ws(p) \in Workspace /\ Seen(p) \in Row /\ task[p].kind = "start"
    BY <1>1, SeenIsRow, KindAt, StepNames DEF At, FileSteps, StartSteps
  <1>3. Settled(Ws(p)) /\ NeedsContainer(row[Ws(p)])
    BY <1>1, <1>2, SettledHere DEF Informed, Knows, At, Off
  <1> DEFINE id == made'[Ws(p)]
  <1>4. container' = [container EXCEPT ![Ws(p)] = [id |-> id, state |-> "created"]]
    BY DEF CreateContainer
  <1>5. /\ Alone(p)
        /\ task'[p].kind = "start" /\ task'[p].ws = task[p].ws /\ task'[p].step = "created"
        /\ task'[p].seen[Ws(p)].rid = id
    <2> DEFINE seen == [task[p].seen EXCEPT ![Ws(p)] = [task[p].seen[Ws(p)] EXCEPT !.rid = id]]
               t == TaskOf(task[p].kind, task[p].ws, "created", seen, task[p].found, task[p].todo)
    <2>1. task' = [task EXCEPT ![p].step = "created", ![p].seen[Ws(p)].rid = id]
      BY DEF CreateContainer
    <2>2. Becomes(p, t)
      BY <2>1, LearnsID
    <2>3. [task[p].seen[Ws(p)] EXCEPT !.rid = id].rid = id
      BY <1>2 DEF Seen, Ws, Row
    <2>4. seen[Ws(p)].rid = id
      BY <1>2, <2>3, WorkspaceTasks
    <2>5. task'[p] = t /\ Alone(p)
      BY <2>2 DEF TasksFit, Becomes, Alone
    <2> HIDE DEF seen
    <2> QED
      BY <1>2, <2>4, <2>5 DEF TaskOf
  <1> HIDE DEF id
  <1>6. /\ container'[Ws(p)] = [id |-> id, state |-> "created"]
        /\ \A w \in Workspace : w # Ws(p) => container'[w] = container[w]
    BY <1>2, <1>4 DEF WorldTyped
  <1>7. Between(p)'
    <2> SUFFICES ASSUME row[Ws(p)] # Absent
                 PROVE  row[Ws(p)].observed # "running"
      BY <1>1, <1>3, <1>5, <1>6 DEF Between, At, Present, Ws, Seen, NeedsContainer
    <2> QED
      BY <1>1, <1>3, ContainerIDs DEF Settled, Present
  <1>8. Informed(p)'
    BY <1>5, <1>7 DEF Informed, Knows, Remembers, At
  <1> QED
    BY <1>1, <1>2, <1>3, <1>5, <1>6, <1>8, CalmWriting DEF Off, Present, Ws

LEMMA CallsCalmly ==
  ASSUME Typed, Locks!LocksMatchTasks, Calm, NEW p \in Proc,
         StartContainer(p, TRUE) \/ StopContainer(p, TRUE) \/ RemoveContainer(p, TRUE)
  PROVE  Calm'
  <1> USE DEF Typed
  <1>1. /\ Informed(p) /\ Admitted(p) /\ UNCHANGED row
            /\ task[p].step \in {"boot", "halt", "remove"}
    BY StepNames DEF Calm, Admitted, FileSteps, At, StartContainer, StopContainer, RemoveContainer
  <1>2. Ws(p) \in Workspace /\ container[Ws(p)] \in Container /\ Settled(Ws(p))
    BY <1>1, SettledHere, WorkspaceTasks DEF Ws, WorldTyped, Off
  <1>3. CASE StartContainer(p, TRUE)
    <2>1. /\ At(p, "boot") /\ Goto(p, "booted")
          /\ container[Ws(p)].id = Seen(p).rid
          /\ container' = [container EXCEPT ![Ws(p)].state = "running"]
      BY <1>3 DEF StartContainer
    <2>2. /\ container'[Ws(p)].id = Seen(p).rid /\ container'[Ws(p)].state = "running"
          /\ \A w \in Workspace : w # Ws(p) => container'[w] = container[w]
      BY <1>2, <2>1 DEF WorldTyped, Container, NoContainer
    <2>3. row[Ws(p)] # Absent => row[Ws(p)].rid = Seen(p).rid /\ ~NeedsContainer(row[Ws(p)])
      BY <1>1, <2>1 DEF Informed, Between, At, Present
    <2> QED
      BY <1>1, <2>1, <2>2, <2>3, WritesCalmly DEF Off, Present
  <1>4. CASE StopContainer(p, TRUE)
    <2>1. /\ At(p, "halt") /\ Goto(p, "halted")
          /\ container[Ws(p)].id = Seen(p).rid
          /\ container' = IF container[Ws(p)].state = "running"
                             THEN [container EXCEPT ![Ws(p)].state = "exited"] ELSE container
      BY <1>4 DEF StopContainer
    <2>2. container[Ws(p)] # NoContainer /\ Seen(p).rid # 0
      BY <1>1, <1>2, <2>1, ContainerIDs DEF Informed, Knows
    <2>3. /\ container'[Ws(p)].id = Seen(p).rid /\ container'[Ws(p)].state # "running"
          /\ \A w \in Workspace : w # Ws(p) => container'[w] = container[w]
      BY <1>2, <2>1, <2>2 DEF WorldTyped, Container
    <2>4. container'[Ws(p)] # NoContainer
      BY <2>2, <2>3, ContainerIDs
    <2>5. row[Ws(p)] # Absent => row[Ws(p)].rid = Seen(p).rid /\ ~NeedsContainer(row[Ws(p)])
      BY <1>2, <2>1, <2>2 DEF Settled, NeedsContainer, Present
    <2> QED
      BY <1>1, <2>1, <2>3, <2>4, <2>5, WritesCalmly DEF Off, Present
  <1>5. CASE RemoveContainer(p, TRUE)
    <2>1. /\ At(p, "remove") /\ Goto(p, AfterRemoval(p))
          /\ container[Ws(p)].state # "running"
          /\ container' = [container EXCEPT ![Ws(p)] = NoContainer]
      BY <1>5 DEF RemoveContainer
    <2>2. /\ container'[Ws(p)] = NoContainer
          /\ \A w \in Workspace : w # Ws(p) => container'[w] = container[w]
      BY <1>2, <2>1 DEF WorldTyped
    <2>3. AfterRemoval(p) \in {"archive", "removed"}
      BY DEF AfterRemoval
    <2>4. Settled(Ws(p))'
      <3>1. Ws(p)' = Ws(p)
        BY <2>1, <2>3, GotoTask, StepNames DEF Ws
      <3> QED
        BY <1>1, <1>2, <2>1, <2>2, <3>1, ContainerIDs DEF Settled, Present
    <2>5. row[Ws(p)] # Absent => NeedsContainer(row[Ws(p)]) \/ ~NeedsContainer(row[Ws(p)])
      OBVIOUS
    <2> QED
      BY <1>1, <2>1, <2>2, <2>3, <2>4, <2>5, WritesCalmly DEF Off, Present
  <1> QED
    BY <1>3, <1>4, <1>5

(* The records of the others. *)
LEMMA StopRecordsCalmly ==
  ASSUME Typed, Locks!LocksMatchTasks, Calm, NEW p \in Proc,
         RecordStopped(p) \/ RecordStopTime(p) \/ RecordRemoved(p) \/ RecordRemovalTime(p)
  PROVE  Calm'
  <1> USE DEF Typed
  <1>1. /\ Informed(p) /\ Admitted(p) /\ UNCHANGED container
        /\ task[p].step \in {"halted", "haltTime", "removed", "removalTime"}
    BY StepNames DEF Calm, Admitted, FileSteps, At, RecordStopped, RecordStopTime, RecordRemoved,
                     RecordRemovalTime
  <1>2. /\ Ws(p) \in Workspace /\ Seen(p).rid \in RuntimeID
        /\ Seen(p).stopped \in BOOLEAN /\ Seen(p).removed \in BOOLEAN
        /\ {"stopped", "removed"} \subseteq Observed /\ container[Ws(p)] \in Container
    BY <1>1, SeenIsRow, StepNames DEF Observed, WorldTyped, FileSteps
  <1>3. task[p].step \notin Off => Settled(Ws(p))
    BY <1>1, SettledHere
  <1>4. CASE RecordStopped(p)
    <2>1. /\ At(p, "halted") /\ SetObserved(Ws(p), "stopped", Seen(p).rid)
          /\ Goto(p, IF Present(Ws(p)) THEN "haltTime" ELSE "return")
      BY <1>4 DEF RecordStopped
    <2>2. row[Ws(p)] # Absent =>
             /\ container[Ws(p)].id = Seen(p).rid /\ container[Ws(p)].state # "running"
             /\ row[Ws(p)].rid = Seen(p).rid /\ ~NeedsContainer(row[Ws(p)])
      BY <1>1, <2>1 DEF Informed, Between, At, Present
    <2>3. Goto(p, "haltTime") \/ Goto(p, "return")
      BY <2>1
    <2>4. Settled(Ws(p))'
      <3>1. Ws(p)' = Ws(p)
        BY <2>3, GotoTask, StepNames DEF Ws, LockSteps
      <3> QED
        BY <1>1, <1>2, <2>1, <2>2, <3>1, ObservedSet DEF Settled, Present
    <2>5. row'[Ws(p)] # Absent =>
             /\ Present(Ws(p)) /\ row'[Ws(p)].rid = row[Ws(p)].rid
             /\ ~NeedsContainer(row'[Ws(p)])
      BY <1>2, <2>1, <2>2, ObservedSet DEF NeedsContainer, Present
    <2> QED
      BY <1>1, <1>2, <2>1, <2>3, <2>4, <2>5, ObservedSet, WritesCalmly
  <1>5. CASE RecordStopTime(p) \/ RecordRemovalTime(p)
    <2>1. /\ \E a, b \in BOOLEAN : SetTimes(Ws(p), a, b)
          /\ Goto(p, "return") /\ task[p].step \notin Off
      BY <1>2, <1>5 DEF RecordStopTime, RecordRemovalTime, At, Off
    <2>2. Settled(Ws(p))'
      <3>1. Ws(p)' = Ws(p)
        BY <2>1, GotoTask DEF Ws, Steps, LockSteps
      <3> QED
        BY <1>1, <1>2, <1>3, <2>1, <3>1, TimesSet DEF Settled, Present
    <2>3. row'[Ws(p)] # Absent =>
             /\ Present(Ws(p)) /\ row'[Ws(p)].rid = row[Ws(p)].rid
             /\ NeedsContainer(row'[Ws(p)]) <=> NeedsContainer(row[Ws(p)])
      BY <1>2, <2>1, TimesSet DEF NeedsContainer
    <2> QED
      BY <1>1, <1>2, <2>1, <2>2, <2>3, TimesSet, WritesCalmly
  <1>6. CASE RecordRemoved(p)
    <2>1. /\ At(p, "removed") /\ SetObserved(Ws(p), "removed", Seen(p).rid)
          /\ Goto(p, "removalTime") /\ task[p].kind = "timeout"
      BY <1>6, KindAt DEF RecordRemoved, At, TimeoutSteps
    <2>2. row[Ws(p)] # Absent => container[Ws(p)] = NoContainer
      BY <1>1, <2>1 DEF Informed, Between, At, Present
    <2>3. Settled(Ws(p))'
      <3>1. Ws(p)' = Ws(p)
        BY <2>1, GotoTask, StepNames DEF Ws
      <3> QED
        BY <1>1, <1>2, <2>1, <2>2, <3>1, ObservedSet, ContainerIDs DEF Settled, Present
    <2> QED
      BY <1>1, <1>2, <2>1, <2>3, ObservedSet, WritesCalmly
  <1> QED
    BY <1>4, <1>5, <1>6

LEMMA ForgetsCalmly ==
  ASSUME Typed, Locks!LocksMatchTasks, Calm, NEW p \in Proc, ForgetWorkspace(p)
  PROVE  Calm'
  <1> USE DEF Typed
  <1>1. /\ At(p, "forget") /\ Goto(p, "return") /\ UNCHANGED container /\ Admitted(p)
        /\ Ws(p) \in Workspace
    BY StepNames, WorkspaceTasks DEF ForgetWorkspace, Admitted, FileSteps, At, Ws
  <1>2. row'[Ws(p)] = Absent /\ \A w \in Workspace : w # Ws(p) => row'[w] = row[w]
    BY <1>1 DEF ForgetWorkspace, Present, WorldTyped
  <1>3. Settled(Ws(p))'
    <2>1. Ws(p)' = Ws(p)
      BY <1>1, GotoTask DEF Ws, Steps, LockSteps
    <2> QED
      BY <1>2, <2>1 DEF Settled, Present
  <1> QED
    BY <1>1, <1>2, <1>3, WritesCalmly

(* A call that begins, reads or ends: its new record stands alone. *)
LEMMA BecomesCalmly ==
  ASSUME TasksFit, Calm, NEW p \in Proc, NEW t, Becomes(p, t), UNCHANGED <<row, container>>,
         task[p].step \notin Off,
         t.kind # "reconcile",
         t.step \notin WorkSteps,
         t.kind = "start" /\ t.step = "awaitWorkspace" => t.seen[t.ws] = row[t.ws],
         t.kind = "timeout" =>
            \A w \in t.todo \cup (IF t.step \in Due THEN {t.ws} ELSE {}) :
               row[w] # Absent /\ ~NeedsContainer(t.seen[w])
                  => row[w].rid = t.seen[w].rid /\ ~NeedsContainer(row[w])
  PROVE  Calm'
  <1>1. task'[p] = t /\ Alone(p)
    BY DEF TasksFit, Becomes, Alone
  <1>2. Knows(p)' /\ Between(p)'
    BY <1>1, StepNames DEF Knows, Between, At, Ws, Seen
  <1>3. Remembers(p)'
    BY <1>1 DEF Remembers, Pending, Ws, Present
  <1> QED
    BY <1>1, <1>2, <1>3, CalmQuietly DEF Informed

LEMMA RestsCalmly ==
  ASSUME TasksFit, Calm, NEW p \in Proc, Rest(p), UNCHANGED <<row, container>>,
         task[p].step \notin Off
  PROVE  Calm'
  <1>1. Becomes(p, Resting) /\ "idle" \notin WorkSteps
    BY StepNames DEF Rest, Becomes
  <1> QED
    BY <1>1, RestingTask, BecomesCalmly

LEMMA BeginsCalmly ==
  ASSUME TasksFit, Calm, NEW p \in Proc, Begin(p)
  PROVE  Calm'
  <1>1. PICK w \in Workspace : \/ BeginStart(p, w) \/ BeginFileAccess(p, w)
                               \/ \E k \in {"stop", "delete"} : BeginChange(p, k, w)
    BY DEF Begin
  <1>2. UNCHANGED <<row, container>> /\ task[p].step = "idle"
    BY <1>1 DEF BeginStart, BeginFileAccess, BeginChange, world, At
  <1>3. ASSUME NEW k \in {"start", "stop", "delete", "file"},
               NEW s \in {"awaitAdmission", "awaitWorkspace"}, NEW seen,
               Becomes(p, TaskOf(k, w, s, seen, task[p].found, task[p].todo)),
               k = "start" => s = "awaitAdmission"
        PROVE  Calm'
    BY <1>2, <1>3, StepNames, BecomesCalmly DEF TaskOf, Off
  <1>4. CASE BeginStart(p, w)
    <2>1. task' = [task EXCEPT ![p].kind = "start", ![p].ws = w, ![p].step = "awaitAdmission"]
      BY <1>4 DEF BeginStart
    <2> QED
      BY <1>3, <2>1, BeginsAt
  <1>5. CASE BeginFileAccess(p, w)
    <2>1. task' = [task EXCEPT ![p].kind = "file", ![p].ws = w, ![p].step = "awaitWorkspace"]
      BY <1>5 DEF BeginFileAccess
    <2> QED
      BY <1>3, <2>1, BeginsAt
  <1>6. ASSUME NEW k \in {"stop", "delete"}, BeginChange(p, k, w) PROVE Calm'
    <2>1. task' = [task EXCEPT ![p].kind = k, ![p].ws = w, ![p].step = "awaitWorkspace",
                               ![p].seen[w] = row[w]]
      BY <1>6 DEF BeginChange
    <2> QED
      BY <1>3, <2>1, BeginsWithRow
  <1> QED
    BY <1>1, <1>4, <1>5, <1>6

LEMMA LoadsCalmly ==
  ASSUME TasksFit, Calm, NEW p \in Proc, LoadRow(p)
  PROVE  Calm'
  <1> DEFINE s == IF Present(Ws(p)) THEN "awaitWorkspace" ELSE "unwind"
             seen == [task[p].seen EXCEPT ![Ws(p)] = row[Ws(p)]]
  <1>1. /\ At(p, "load") /\ UNCHANGED <<row, container>>
        /\ task' = [task EXCEPT ![p].seen[Ws(p)] = row[Ws(p)], ![p].step = s]
    BY DEF LoadRow, world
  <1>2. Becomes(p, TaskOf(task[p].kind, task[p].ws, s, seen, task[p].found, task[p].todo))
    BY <1>1, Reads
  <1>3. task[p].kind = "start" /\ s \notin WorkSteps /\ task[p].step \notin Off
    BY <1>1, KindAt, StepNames DEF At, StartSteps, Off
  <1>4. seen[task[p].ws] = row[task[p].ws]
    BY WorkspaceTasks DEF Ws
  <1> HIDE DEF seen, s
  <1> QED
    BY <1>1, <1>2, <1>3, <1>4, BecomesCalmly DEF TaskOf

LEMMA ListsCalmly ==
  ASSUME TasksFit, Calm, NEW p \in Proc, ListForTimeouts(p)
  PROVE  Calm'
  <1> DEFINE present == {w \in Workspace : Present(w)}
             t == TaskOf("timeout", Resting.ws, "nextTimeout", row, Resting.found, present)
  <1>1. At(p, "listTimeouts") /\ UNCHANGED <<row, container>> /\ task[p].step \notin Off
    BY DEF ListForTimeouts, world, At, Off
  <1>2. CASE present = {}
    BY <1>1, <1>2, RestsCalmly DEF ListForTimeouts
  <1>3. CASE present # {}
    <2>1. [Resting EXCEPT !.kind = "timeout", !.step = "nextTimeout", !.seen = row,
                          !.todo = present] = t
      BY RestingListing, Zenon
    <2>2. Becomes(p, t)
      BY <1>3, <2>1 DEF ListForTimeouts, Becomes
    <2> QED
      BY <1>1, <2>2, StepNames, BecomesCalmly DEF TaskOf, Due
  <1> QED
    BY <1>2, <1>3

LEMMA TurnsCalmly ==
  ASSUME TasksFit, Calm, NEW p \in Proc, NEW w \in Workspace, BeginTimeout(p, w)
  PROVE  Calm'
  <1>1. /\ At(p, "nextTimeout") /\ w \in task[p].todo /\ UNCHANGED <<row, container>>
        /\ task[p].step \notin Off
        /\ task' = [task EXCEPT ![p].ws = w, ![p].step = "awaitWorkspace",
                                ![p].todo = task[p].todo \ {w}]
    BY DEF BeginTimeout, world, At, Off
  <1>2. Becomes(p, TaskOf(task[p].kind, w, "awaitWorkspace", task[p].seen, task[p].found,
                          task[p].todo \ {w}))
    BY <1>1, TurnsFrom
  <1>3. task[p].kind = "timeout"
    BY <1>1, WorkspaceTasks
       DEF TasksFit, Fits, MayBeAt, Kind, At, StartSteps, StopSteps, DeleteSteps, FileSteps
  <1>4. Remembers(p)
    BY DEF Calm, Informed
  <1>5. \A v \in (task[p].todo \ {w}) \cup {w} :
           row[v] # Absent /\ ~NeedsContainer(task[p].seen[v])
              => row[v].rid = task[p].seen[v].rid /\ ~NeedsContainer(row[v])
    BY <1>1, <1>3, <1>4 DEF Remembers, Pending, Present
  <1> QED
    BY <1>1, <1>2, <1>3, <1>5, StepNames, BecomesCalmly DEF TaskOf, Due

LEMMA LocksCalmly ==
  ASSUME TasksFit, Calm, NEW p \in Proc, Lock(p) \/ Return(p) \/ Unwind(p)
  PROVE  Calm'
  <1> USE StepNames DEF Off, Due
  <1>1. Fits(p) /\ task[p].kind \in Kind /\ Informed(p) /\ UNCHANGED <<row, container>>
    BY WorkspaceTasks
       DEF TasksFit, Calm, Lock, AcquireAdmission, AcquireWorkspace, Return, Unwind, world
  <1>2. CASE AcquireAdmission(p)
    <2>1. At(p, "awaitAdmission") /\ task[p].kind \in {"start", "stop", "delete", "timeout"}
      BY <1>1, <1>2 DEF AcquireAdmission, At, Fits, MayBeAt, Kind, FileSteps
    <2>2. PICK s \in {"load", "checkStop", "checkDelete", "expire"} : Goto(p, s)
      BY <1>2, <2>1 DEF AcquireAdmission
    <2> QED
      BY <1>1, <2>1, <2>2, GoesCalmly DEF At
  <1>3. CASE AcquireWorkspace(p)
    <2>1. At(p, "awaitWorkspace")
      BY <1>3 DEF AcquireWorkspace
    <2>2. PICK s \in {"checkStart", "open", "awaitAdmission"} :
             Goto(p, s) /\ (s = "checkStart" <=> task[p].kind = "start")
      BY <1>3 DEF AcquireWorkspace
    <2>3. task[p].kind = "start" => Seen(p) = row[Ws(p)]
      BY <1>1, <2>1 DEF Informed, Knows, At
    <2> QED
      BY <1>1, <2>1, <2>2, <2>3, GoesCalmly DEF At, LockSteps
  <1>4. CASE Return(p)
    <2>1. Goto(p, "unwind") \/ Rest(p)
      BY <1>1, <1>4 DEF Return
    <2> QED
      BY <1>1, <1>4, <2>1, ReturnsCalmly, RestsCalmly DEF Return, At
  <1>5. CASE Unwind(p)
    <2>1. Goto(p, "nextTimeout") \/ Rest(p)
      BY <1>5 DEF Unwind
    <2> QED
      BY <1>1, <1>5, <2>1, GoesCalmly, RestsCalmly DEF Unwind, At, PassSteps
  <1> QED
    BY <1>2, <1>3, <1>4, <1>5 DEF Lock

LEMMA NoPassHere ==
  ASSUME TasksFit, Calm, NEW p \in Proc
  PROVE  ~Reconcile(p)
  <1>1. task[p].kind # "reconcile"
    BY DEF Calm, Informed
  <1>2. task[p].step \notin {"listRows", "reconcile", "times"}
    BY <1>1, KindAt
  <1> QED
    BY <1>2 DEF Reconcile, ListRows, ObserveMissing, Observe, ObserveTimes, EndReconcile, At

CalmNext == \E p \in Proc : Begin(p) \/ Lock(p) \/ Work(p)

LEMMA NextCalm ==
  ASSUME Typed, Locks!LocksMatchTasks, Calm, [CalmNext]_vars
  PROVE  Calm'
  <1>0. TasksFit
    BY DEF Typed
  <1>1. CASE UNCHANGED vars
    <2>1. \A p \in Proc : Informed(p)'
      BY <1>0, <1>1, InformedFrame DEF vars, Calm
    <2>2. Truth'
      BY <1>1 DEF vars, Calm, Truth, Settled, Ws, Present
    <2> QED
      BY <2>1, <2>2 DEF Calm
  <1>2. ASSUME NEW p \in Proc, Begin(p) \/ Lock(p) \/ Work(p) PROVE Calm'
    <2>1. CASE Begin(p) \/ Lock(p) \/ Return(p) \/ Unwind(p)
      BY <1>0, <2>1, BeginsCalmly, LocksCalmly
    <2>2. CASE Start(p)
      BY <1>0, <2>2, LoadsCalmly, StartsCalmly, CreatesCalmly, CallsCalmly, StartRecordsCalmly
         DEF Start
    <2>3. CASE Stop(p)
      BY <2>3, StopsCalmly, CallsCalmly, StopRecordsCalmly DEF Stop
    <2>4. CASE Delete(p)
      BY <2>4, DeletesCalmly, CallsCalmly, ForgetsCalmly DEF Delete
    <2>5. CASE OpenFiles(p) \/ EndTransfer(p) \/ Timeouts(p)
      BY <1>0, <2>5, OthersCalmly, ListsCalmly, TurnsCalmly, StopRecordsCalmly DEF Timeouts
    <2> QED
      BY <1>0, <1>2, <2>1, <2>2, <2>3, <2>4, <2>5, NoPassHere DEF Work
  <1> QED
    BY <1>1, <1>2 DEF CalmNext

LEMMA CalmInitCalm == CalmInit => Typed /\ Locks!Init /\ Calm
  <1> SUFFICES ASSUME CalmInit PROVE Typed /\ Locks!Init /\ Calm
    OBVIOUS
  <1>1. WorldTyped
    BY LifecycleAssumption DEF CalmInit, WorldTyped, Row, Data
  <1>2. \A p \in Proc : \/ task[p] = Resting
                        \/ /\ p = Loop
                           /\ task[p] = TaskOf("none", Resting.ws, "listTimeouts", Resting.seen,
                                               Resting.found, {})
    BY RestingListing, Zenon DEF CalmInit
  <1>3. \A p \in Proc : /\ task[p] \in Task /\ task[p].kind = "none" /\ task[p].todo = {}
                        /\ task[p].step \in {"idle", "listTimeouts"}
                        /\ p # Loop => task[p].step = "idle"
    BY <1>2, RestingTask DEF TaskOf, Task, PassSteps
  <1>4. TasksFit
    <2>1. \A p \in Proc : Fits(p)
      BY <1>3, StepNames DEF Fits, Runs, At, MayBeAt, ReliesOnRow
    <2>2. task \in [Proc -> Task]
      BY <1>3 DEF CalmInit
    <2> QED
      BY <2>1, <2>2 DEF TasksFit
  <1>5. Locks!Init
    <2>1. lockTask = [p \in Proc |-> Locks!Resting]
      BY <1>3, LockTaskIs DEF lockTask, PassSteps
    <2> QED
      BY <2>1 DEF CalmInit, Locks!Init, lockTask, Proc, Locks!Proc
  <1>6. Calm
    <2>1. \A p \in Proc : Informed(p)
      BY <1>3 DEF Informed, Knows, Between, Remembers, At
    <2>2. ASSUME NEW w \in Workspace PROVE Settled(w)
      <3>1. Agrees(w) /\ container[w] \in Container
            /\ (Present(w) => row[w].rid = 0 <=> row[w].observed \in {"unknown", "failed"})
        BY <1>1 DEF CalmInit, WorldTyped
      <3> QED
        BY <3>1, ContainerIDs DEF Agrees, Settled, NormalizeState, Container
    <2> QED
      BY <2>1, <2>2 DEF Calm, Truth
  <1> QED
    BY <1>1, <1>4, <1>5, <1>6 DEF CalmInit, Typed, LocksTyped

(* In the calm world, whoever takes the lock of a workspace finds a row    *)
(* that says truly whether its container runs, and names it: no request    *)
(* and no timeout pass writes what it read before it had the locks over    *)
(* what another has done since (StartWorkspace, stopOwnedWorkspace,        *)
(* DeleteWorkspace, expireWorkspace).                                      *)
THEOREM RowsAreTrue == CalmSpec => []RowsTrueWhenUnlocked
  <1>1. [CalmNext]_vars => [Next]_vars
    BY DEF CalmNext, Next
  <1>2. LP!IInv /\ [LP!Next]_(LP!vars) => LP!IInv'
    BY LifecycleAssumption, LP!NextTypeOK, LP!NextLocksMatchTasks DEF LP!IInv
  <1>3. LP!Init => LP!IInv
    BY LifecycleAssumption, LP!InitIInv
  <1>4. Typed /\ LP!IInv /\ Calm /\ [CalmNext]_vars => (Typed /\ LP!IInv /\ Calm)'
    <2> SUFFICES ASSUME Typed, LP!IInv, Calm, [CalmNext]_vars PROVE (Typed /\ LP!IInv /\ Calm)'
      OBVIOUS
    <2>1. Typed' /\ [Locks!Next]_(Locks!vars)
      BY <1>1, NextTyped
    <2>2. LP!IInv'
      BY <1>2, <2>1, SameLocks
    <2>3. Calm'
      BY NextCalm, SameLocks
    <2> QED
      BY <2>1, <2>2, <2>3
  <1>5. CalmInit => Typed /\ LP!IInv /\ Calm
    BY <1>3, CalmInitCalm, SameLocks
  <1>6. Typed /\ LP!IInv /\ Calm => RowsTrueWhenUnlocked
    <2> SUFFICES ASSUME Typed, Locks!LocksMatchTasks, Calm, NEW w \in Workspace, wlock[w] = Free
                 PROVE  Settled(w)
      BY SameLocks DEF RowsTrueWhenUnlocked, Settled
    <2>1. ASSUME NEW p \in Proc, Ws(p) = w PROVE task[p].step \notin Off
      <3>1. task[p].step \in WorkSteps => wlock[w] = p
        BY <2>1, WorkerHoldsLock DEF Typed
      <3> QED
        BY <3>1, StepNames, LifecycleAssumption DEF Off, Proc
    <2> QED
      BY <2>1 DEF Calm, Truth
  <1> QED
    BY <1>4, <1>5, <1>6, PTL DEF CalmSpec, CalmNext

=============================================================================
