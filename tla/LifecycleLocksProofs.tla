------------------------ MODULE LifecycleLocksProofs ------------------------
(***************************************************************************)
(* For any number of requests and workspaces: the types of LifecycleLocks, *)
(* the agreement of the locks with the operations that hold them, and the  *)
(* two exclusion properties that follow from it.                           *)
(***************************************************************************)
EXTENDS LifecycleLocks, TLAPS

(* The strengthening that is inductive: a lock's holder and the progress   *)
(* of the holder agree, and an idle or waiting operation holds nothing.    *)
IInv == TypeOK /\ LocksMatchTasks

LEMMA RestingTask ==
    Resting \in Task /\ Resting.phase = "idle" /\ Resting.kind = "stop"
  BY HolderAssumption DEF Resting, Task, Kind, RequestKind, Phase

LEMMA InitIInv == Init => IInv
  <1> SUFFICES ASSUME Init PROVE IInv
    OBVIOUS
  <1> USE HolderAssumption DEF Init
  <1>1. TypeOK
    BY RestingTask DEF TypeOK, Proc
  <1>2. \A p \in Proc : task[p].phase = "idle" /\ task[p].kind = "stop"
    BY RestingTask DEF Proc
  <1>3. LocksMatchTasks
    BY <1>2 DEF LocksMatchTasks, LocksMatch, HoldsAdmission, HoldsWorkspace, HoldsFirst,
                HoldsSecond, AdmissionFirst, Proc
  <1> QED
    BY <1>1, <1>3 DEF IInv

(* What an operation holds, read off its task record alone. *)
LEMMA HoldsFromTask ==
  ASSUME TypeOK, NEW p \in Proc
  PROVE  /\ HoldsAdmission(p) <=>
              \/ /\ task[p].kind \in {"start", "create"}
                 /\ task[p].phase \in {"waitSecond", "working", "unwinding"}
              \/ /\ task[p].kind \in {"stop", "delete", "timeout"}
                 /\ task[p].phase = "working"
         /\ HoldsWorkspace(p) <=>
              \/ /\ task[p].kind = "start"
                 /\ task[p].phase = "working"
              \/ /\ task[p].kind \in {"file", "stop", "delete", "timeout"}
                 /\ task[p].phase \in {"waitSecond", "working", "unwinding"}
  BY DEF TypeOK, Task, Kind, RequestKind, HoldsAdmission, HoldsWorkspace,
         HoldsFirst, HoldsSecond, AdmissionFirst, TakesBoth

LEMMA NextTypeOK ==
  ASSUME TypeOK, [Next]_vars
  PROVE  TypeOK'
  <1> USE DEF TypeOK
  <1>1. CASE UNCHANGED vars
    BY <1>1 DEF vars
  <1>2. ASSUME NEW p \in Proc, NEW k \in Kind, NEW w \in Workspace, Begin(p, k, w)
        PROVE  TypeOK'
    BY <1>2 DEF Begin, Task, Phase
  <1>3. ASSUME NEW p \in Proc, NEW phase \in Phase, Enter(p, phase)
        PROVE  task' \in [Proc -> Task]
    BY <1>3 DEF Enter, Task
  <1>4. ASSUME NEW p \in Proc, AcquireAdmission(p) PROVE TypeOK'
    BY <1>4, <1>3 DEF AcquireAdmission, Phase
  <1>5. ASSUME NEW p \in Proc, AcquireWorkspace(p) PROVE TypeOK'
    BY <1>5, <1>3 DEF AcquireWorkspace, Phase
  <1>a. ASSUME NEW p \in Proc, Rest(p) PROVE task' \in [Proc -> Task]
    BY <1>a, RestingTask DEF Rest
  <1>6. ASSUME NEW p \in Proc, GiveUp(p) PROVE TypeOK'
    BY <1>6, <1>3, <1>a DEF GiveUp, Phase
  <1>7. ASSUME NEW p \in Proc, ReleaseSecond(p) PROVE TypeOK'
    BY <1>7, <1>3 DEF ReleaseSecond, Phase
  <1>8. ASSUME NEW p \in Proc, ReleaseFirst(p) PROVE TypeOK'
    BY <1>8, <1>a DEF ReleaseFirst
  <1>9. ASSUME Restart PROVE TypeOK'
    BY <1>9, RestingTask DEF Restart
  <1> QED
    BY <1>1, <1>2, <1>4, <1>5, <1>6, <1>7, <1>8, <1>9 DEF Next, Acquire, Release

(* A step of one operation leaves what the others hold as it was. *)
LEMMA OthersKeepTheirLocks ==
  ASSUME TypeOK, TypeOK', NEW p \in Proc, NEW q \in Proc \ {p},
         task'[q] = task[q]
  PROVE  /\ HoldsAdmission(q)' <=> HoldsAdmission(q)
         /\ HoldsWorkspace(q)' <=> HoldsWorkspace(q)
  BY DEF HoldsAdmission, HoldsWorkspace, HoldsFirst, HoldsSecond

LEMMA HoldsFromTaskPrimed ==
  ASSUME TypeOK', NEW p \in Proc
  PROVE  /\ HoldsAdmission(p)' <=>
              \/ /\ task'[p].kind \in {"start", "create"}
                 /\ task'[p].phase \in {"waitSecond", "working", "unwinding"}
              \/ /\ task'[p].kind \in {"stop", "delete", "timeout"}
                 /\ task'[p].phase = "working"
         /\ HoldsWorkspace(p)' <=>
              \/ /\ task'[p].kind = "start"
                 /\ task'[p].phase = "working"
              \/ /\ task'[p].kind \in {"file", "stop", "delete", "timeout"}
                 /\ task'[p].phase \in {"waitSecond", "working", "unwinding"}
  BY DEF TypeOK, Task, Kind, RequestKind, HoldsAdmission, HoldsWorkspace,
         HoldsFirst, HoldsSecond, AdmissionFirst, TakesBoth

(* So it is enough to look at the operation that takes the step. *)
LEMMA OneOperationSteps ==
  ASSUME TypeOK, TypeOK', LocksMatchTasks, NEW p \in Proc,
         \A q \in Proc \ {p} :
            /\ task'[q] = task[q]
            /\ admission' = q <=> admission = q
            /\ \A w \in Workspace : wlock'[w] = q <=> wlock[w] = q,
         LocksMatch(p)'
  PROVE  LocksMatchTasks'
  <1> SUFFICES ASSUME NEW q \in Proc \ {p} PROVE LocksMatch(q)'
    BY DEF LocksMatchTasks
  <1>1. /\ HoldsAdmission(q)' <=> HoldsAdmission(q)
        /\ HoldsWorkspace(q)' <=> HoldsWorkspace(q)
    BY OthersKeepTheirLocks
  <1>2. LocksMatch(q)
    BY DEF LocksMatchTasks
  <1> QED
    BY <1>1, <1>2 DEF LocksMatch

LEMMA EnterMoves ==
  ASSUME TypeOK, NEW p \in Proc, NEW phase \in Phase, Enter(p, phase)
  PROVE  /\ task'[p] = [kind |-> task[p].kind, ws |-> task[p].ws, phase |-> phase]
         /\ \A q \in Proc \ {p} : task'[q] = task[q]
  BY DEF Enter, TypeOK, Task

LEMMA RestMoves ==
  ASSUME TypeOK, NEW p \in Proc, Rest(p)
  PROVE  /\ task'[p].phase = "idle"
         /\ \A q \in Proc \ {p} : task'[q] = task[q]
  BY RestingTask DEF Rest, TypeOK

LEMMA NextLocksMatchTasks ==
  ASSUME IInv, [Next]_vars
  PROVE  LocksMatchTasks'
  <1>1. TypeOK /\ TypeOK' /\ LocksMatchTasks
    BY NextTypeOK DEF IInv
  <1>2. ASSUME NEW p \in Proc PROVE LocksMatch(p) /\ task[p] \in Task
    BY <1>1 DEF LocksMatchTasks, TypeOK
  <1>3. CASE UNCHANGED vars
    BY <1>1, <1>3 DEF vars, LocksMatchTasks, LocksMatch, HoldsAdmission,
                      HoldsWorkspace, HoldsFirst, HoldsSecond
  <1>4. ASSUME NEW p \in Proc, NEW k \in Kind, NEW w \in Workspace, Begin(p, k, w)
        PROVE  LocksMatchTasks'
    <2>1. /\ task'[p] = [kind |-> k, ws |-> w, phase |-> "waitFirst"]
          /\ \A q \in Proc \ {p} : task'[q] = task[q]
          /\ task[p].phase = "idle" /\ admission' = admission /\ wlock' = wlock
      BY <1>4, <1>1 DEF Begin, TypeOK
    <2>2. ~HoldsAdmission(p) /\ ~HoldsWorkspace(p)
      BY <2>1, <1>1, HoldsFromTask
    <2>3. ~HoldsAdmission(p)' /\ ~HoldsWorkspace(p)'
      BY <2>1, <1>1, HoldsFromTaskPrimed
    <2>4. LocksMatch(p)'
      BY <1>2, <2>1, <2>2, <2>3 DEF LocksMatch
    <2> QED
      BY <1>1, <2>1, <2>4, OneOperationSteps
  <1>5. ASSUME NEW p \in Proc, AcquireAdmission(p) PROVE LocksMatchTasks'
    <2>1. PICK phase \in {"waitSecond", "working"} :
            Enter(p, phase) /\ (phase = "waitSecond" <=> task[p].kind = "start")
      BY <1>5 DEF AcquireAdmission
    <2>2. /\ task'[p] = [kind |-> task[p].kind, ws |-> task[p].ws, phase |-> phase]
          /\ \A q \in Proc \ {p} : task'[q] = task[q]
          /\ admission = Free /\ admission' = p /\ wlock' = wlock /\ AwaitsAdmission(p)
      BY <1>5, <1>1, <2>1, EnterMoves DEF AcquireAdmission, Phase
    <2>3. /\ task[p].kind \in {"start", "create"} => task[p].phase = "waitFirst"
          /\ task[p].kind \notin {"start", "create"} =>
                task[p].phase = "waitSecond" /\ task[p].kind \in {"stop", "delete", "timeout"}
      BY <1>2, <2>2 DEF AwaitsAdmission, AdmissionFirst, LocksMatch, TakesBoth
    <2>4. HoldsAdmission(p)' /\ (HoldsWorkspace(p)' <=> HoldsWorkspace(p))
      BY <1>1, <1>2, <2>1, <2>2, <2>3, HoldsFromTask, HoldsFromTaskPrimed
      DEF Task, Kind, RequestKind
    <2>5. LocksMatch(p)'
      BY <1>2, <2>1, <2>2, <2>4 DEF LocksMatch, TakesBoth, Task
    <2> QED
      BY <1>1, <2>2, <2>5, OneOperationSteps, HolderAssumption DEF Proc
  <1>6. ASSUME NEW p \in Proc, AcquireWorkspace(p) PROVE LocksMatchTasks'
    <2>1. PICK phase \in {"waitSecond", "working"} :
            Enter(p, phase) /\ (phase = "working" <=> task[p].kind \in {"start", "file"})
      BY <1>6 DEF AcquireWorkspace
    <2>2. /\ task'[p] = [kind |-> task[p].kind, ws |-> task[p].ws, phase |-> phase]
          /\ \A q \in Proc \ {p} : task'[q] = task[q]
          /\ wlock[task[p].ws] = Free /\ admission' = admission /\ AwaitsWorkspace(p)
          /\ wlock' = [wlock EXCEPT ![task[p].ws] = p]
      BY <1>6, <1>1, <2>1, EnterMoves DEF AcquireWorkspace, Phase
    <2>3. /\ task[p].kind \in {"start", "create"} =>
                task[p].phase = "waitSecond" /\ task[p].kind = "start"
          /\ task[p].kind \notin {"start", "create"} => task[p].phase = "waitFirst"
      BY <1>2, <2>2 DEF AwaitsWorkspace, AdmissionFirst, LocksMatch, TakesBoth
    <2>4. HoldsWorkspace(p)' /\ ~HoldsWorkspace(p) /\ (HoldsAdmission(p)' <=> HoldsAdmission(p))
      BY <1>1, <1>2, <2>1, <2>2, <2>3, HoldsFromTask, HoldsFromTaskPrimed
      DEF Task, Kind, RequestKind
    <2>5. LocksMatch(p)'
      BY <1>1, <1>2, <2>1, <2>2, <2>3, <2>4
      DEF LocksMatch, TakesBoth, Task, TypeOK, Kind, RequestKind
    <2>6. \A q \in Proc \ {p}, w \in Workspace : wlock'[w] = q <=> wlock[w] = q
      BY <1>1, <1>2, <2>2, HolderAssumption DEF TypeOK, Task, Proc
    <2> QED
      BY <1>1, <2>2, <2>5, <2>6, OneOperationSteps
  <1>7. ASSUME NEW p \in Proc, GiveUp(p) PROVE LocksMatchTasks'
    <2>1. /\ task[p].phase = "waitSecond" =>
                task'[p] = [kind |-> task[p].kind, ws |-> task[p].ws, phase |-> "unwinding"]
          /\ task[p].phase # "waitSecond" => task'[p].phase = "idle"
          /\ \A q \in Proc \ {p} : task'[q] = task[q]
      BY <1>7, <1>1, EnterMoves, RestMoves DEF GiveUp, Phase
    <2>2. admission' = admission /\ wlock' = wlock /\ AwaitsWorkspace(p)
      BY <1>7 DEF GiveUp
    <2>3. /\ task[p].kind \in {"start", "create"} =>
                task[p].phase = "waitSecond" /\ task[p].kind = "start"
          /\ task[p].kind \notin {"start", "create"} => task[p].phase = "waitFirst"
      BY <1>2, <2>2 DEF AwaitsWorkspace, AdmissionFirst, LocksMatch, TakesBoth
    <2>4. /\ HoldsWorkspace(p)' <=> HoldsWorkspace(p)
          /\ HoldsAdmission(p)' <=> HoldsAdmission(p)
      BY <1>1, <1>2, <2>1, <2>2, <2>3, HoldsFromTask, HoldsFromTaskPrimed
      DEF Task, Kind, RequestKind
    <2>5. LocksMatch(p)'
      BY <1>1, <1>2, <2>1, <2>2, <2>3, <2>4, HoldsFromTask, HoldsFromTaskPrimed
      DEF LocksMatch, Task, TakesBoth, Kind, RequestKind
    <2> QED
      BY <1>1, <2>1, <2>2, <2>5, OneOperationSteps
  <1>8. ASSUME NEW p \in Proc, ReleaseSecond(p) PROVE LocksMatchTasks'
    <2>1. /\ task'[p] = [kind |-> task[p].kind, ws |-> task[p].ws, phase |-> "unwinding"]
          /\ \A q \in Proc \ {p} : task'[q] = task[q]
          /\ HoldsSecond(p)
          /\ task[p].phase = "working" /\ TakesBoth(task[p].kind)
      BY <1>8, <1>1, EnterMoves DEF ReleaseSecond, Phase, HoldsSecond
    <2>2. CASE task[p].kind = "start"
      <3>1. wlock' = [wlock EXCEPT ![task[p].ws] = Free] /\ admission' = admission
        BY <1>8, <2>2 DEF ReleaseSecond, AdmissionFirst
      <3>2. HoldsWorkspace(p) /\ ~HoldsWorkspace(p)' /\ HoldsAdmission(p) /\ HoldsAdmission(p)'
        BY <1>1, <2>1, <2>2, HoldsFromTask, HoldsFromTaskPrimed
      <3>3. wlock[task[p].ws] = p
        BY <1>2, <3>2 DEF LocksMatch, Task
      <3>4. \A q \in Proc \ {p}, w \in Workspace : wlock'[w] = q <=> wlock[w] = q
        BY <1>1, <1>2, <3>1, <3>3, HolderAssumption DEF TypeOK, Task, Proc
      <3>5. LocksMatch(p)'
        BY <1>1, <1>2, <2>1, <3>1, <3>2, HolderAssumption DEF LocksMatch, TypeOK, Task, Proc
      <3> QED
        BY <1>1, <2>1, <3>1, <3>4, <3>5, OneOperationSteps
    <2>3. CASE task[p].kind # "start"
      <3>1. wlock' = wlock /\ admission' = Free
        BY <1>8, <2>1, <2>3 DEF ReleaseSecond, AdmissionFirst, TakesBoth
      <3>2. HoldsWorkspace(p) /\ HoldsWorkspace(p)' /\ HoldsAdmission(p) /\ ~HoldsAdmission(p)'
        BY <1>1, <2>1, <2>3, HoldsFromTask, HoldsFromTaskPrimed DEF TakesBoth
      <3>3. admission = p
        BY <1>2, <3>2 DEF LocksMatch
      <3>4. LocksMatch(p)'
        BY <1>2, <2>1, <3>1, <3>2, HolderAssumption DEF LocksMatch, Proc
      <3> QED
        BY <1>1, <2>1, <3>1, <3>3, <3>4, OneOperationSteps, HolderAssumption DEF Proc
    <2> QED
      BY <2>2, <2>3
  <1>9. ASSUME NEW p \in Proc, ReleaseFirst(p) PROVE LocksMatchTasks'
    <2>1. /\ task'[p].phase = "idle"
          /\ \A q \in Proc \ {p} : task'[q] = task[q]
          /\ \/ task[p].phase = "unwinding"
             \/ task[p].phase = "working" /\ ~TakesBoth(task[p].kind)
      BY <1>9, <1>1, RestMoves DEF ReleaseFirst
    <2>2. CASE AdmissionFirst(task[p].kind)
      <3>1. admission' = Free /\ wlock' = wlock
        BY <1>9, <2>2 DEF ReleaseFirst
      <3>2. /\ HoldsAdmission(p) /\ ~HoldsWorkspace(p)
            /\ ~HoldsAdmission(p)' /\ ~HoldsWorkspace(p)'
        BY <1>1, <2>1, <2>2, HoldsFromTask, HoldsFromTaskPrimed DEF AdmissionFirst, TakesBoth
      <3>3. admission = p /\ LocksMatch(p)'
        BY <1>2, <2>1, <3>1, <3>2, HolderAssumption DEF LocksMatch, Proc
      <3> QED
        BY <1>1, <2>1, <3>1, <3>3, OneOperationSteps, HolderAssumption DEF Proc
    <2>3. CASE ~AdmissionFirst(task[p].kind)
      <3>1. wlock' = [wlock EXCEPT ![task[p].ws] = Free] /\ admission' = admission
        BY <1>9, <2>3 DEF ReleaseFirst
      <3>2. /\ HoldsWorkspace(p) /\ ~HoldsAdmission(p)
            /\ ~HoldsAdmission(p)' /\ ~HoldsWorkspace(p)'
        BY <1>1, <1>2, <2>1, <2>3, HoldsFromTask, HoldsFromTaskPrimed
        DEF AdmissionFirst, TakesBoth, Task, Kind, RequestKind
      <3>3. wlock[task[p].ws] = p
        BY <1>2, <3>2 DEF LocksMatch, Task
      <3>4. \A q \in Proc \ {p}, w \in Workspace : wlock'[w] = q <=> wlock[w] = q
        BY <1>1, <1>2, <3>1, <3>3, HolderAssumption DEF TypeOK, Task, Proc
      <3>5. LocksMatch(p)'
        BY <1>1, <1>2, <2>1, <3>1, <3>2, HolderAssumption DEF LocksMatch, TypeOK, Task, Proc
      <3> QED
        BY <1>1, <2>1, <3>1, <3>4, <3>5, OneOperationSteps
    <2> QED
      BY <2>2, <2>3
  <1>10. ASSUME Restart PROVE LocksMatchTasks'
    <2>1. \A p \in Proc : task'[p].phase = "idle" /\ task'[p].kind = "stop"
      BY <1>10, RestingTask DEF Restart
    <2>2. \A p \in Proc : ~HoldsAdmission(p)' /\ ~HoldsWorkspace(p)'
      BY <1>1, <2>1, HoldsFromTaskPrimed
    <2> QED
      BY <1>10, <2>1, <2>2, HolderAssumption
      DEF Restart, LocksMatchTasks, LocksMatch, Proc
  <1> QED
    BY <1>3, <1>4, <1>5, <1>6, <1>7, <1>8, <1>9, <1>10 DEF Next, Acquire, Release

(* The types hold in every reachable state, and the recorded holder of     *)
(* each lock is the operation that acts as its holder                      *)
(* (file_access.go, acquireAdmission and the deferred releases).           *)
THEOREM LocksAgree == Spec => [](TypeOK /\ LocksMatchTasks)
  <1>1. Init => IInv
    BY InitIInv
  <1>2. IInv /\ [Next]_vars => IInv'
    BY NextTypeOK, NextLocksMatchTasks DEF IInv
  <1>3. IInv => TypeOK /\ LocksMatchTasks
    BY DEF IInv
  <1> QED
    BY <1>1, <1>2, <1>3, PTL DEF Spec

(* ADR 0016 for any number of requests: no two operations, file accesses   *)
(* included, hold the same workspace.                                      *)
THEOREM WorkspacesAreExclusive == Spec => []WorkspaceExclusion
  <1>1. TypeOK /\ LocksMatchTasks => WorkspaceExclusion
    BY DEF TypeOK, Task, LocksMatchTasks, LocksMatch, WorkspaceExclusion
  <1> QED
    BY <1>1, LocksAgree, PTL

(* One admission decision at a time, whatever the number of requests.      *)
THEOREM AdmissionIsExclusive == Spec => []AdmissionExclusion
  <1>1. TypeOK /\ LocksMatchTasks => AdmissionExclusion
    BY DEF LocksMatchTasks, LocksMatch, AdmissionExclusion
  <1> QED
    BY <1>1, LocksAgree, PTL

=============================================================================
