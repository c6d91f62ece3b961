----------------------- MODULE RetainedStorageProofs -----------------------
(***************************************************************************)
(* Retained storage, for any workspaces, mounts, templates and faults.     *)
(*                                                                         *)
(* Volumes follows a claimed volume from its tombstone through the call    *)
(* that took it (Took) to the container that mounts it (Attached): at each *)
(* moment at most one of the three has it.  Directories says where data    *)
(* may be: Places, that each piece is in one place, which its template     *)
(* names; Retired, whose archives are up for claims and discards;          *)
(* Workload, that what the container of a creation writes is where it was  *)
(* written; Restoring, what a creation that stops half-way leaves behind;  *)
(* Forgetting, that a delete has archived what it forgets; and Kept, that  *)
(* all data not asked to be discarded is somewhere, but for what such a    *)
(* container writes (early).  Restoring needs that a rename just made can  *)
(* be undone ("stuck" is not among the faults); the results about volumes  *)
(* do not.  The last part maps every step to a step of StorageCustody: as  *)
(* each piece is in one place, the place tells whose hands it is in        *)
(* (LiveHand, ArchiveHand).                                                *)
(***************************************************************************)
EXTENDS RetainedStorage, TLAPS

(* Steps of a creation before it has written its row, and after that.      *)
Unlisted == {"findVolume", "claimVolume", "checkVolume", "makeDirs", "insertRow"}
Listed == {"ports", "findDir", "claimDir", "checkDir", "restore", "launch", "boot", "booted"}
Launching == {"launch", "boot", "booted"}

Calls == [kind : {"none", "create", "start", "delete"}, step : Steps \cup {"idle"},
          ws : Workspace \cup {None}, from : [Volume -> Workspace \cup {None}],
          todo : SUBSET (Directory \cup Volume), at : Volume \cup {None},
          dir : Workspace \cup {None}, claimed : BOOLEAN, moved : SUBSET Directory,
          restored : BOOLEAN, launched : BOOLEAN, left : BOOLEAN, hadId : BOOLEAN]

(* The call that holds the admission lock. *)
Creating ==
    /\ op.ws \in Workspace /\ status[op.ws] # "unused"
    /\ op.step \in Unlisted \cup Listed \cup {"cleanup"}
    /\ op.step \in Unlisted => status[op.ws] = "absent"
    /\ op.step \in Listed \/ op.claimed \/ op.launched => Present(op.ws)
    /\ op.claimed => op.dir \in Workspace /\ op.step \in Launching \cup {"checkDir", "restore", "cleanup"}
    /\ op.step \in {"checkDir", "restore"} => op.claimed
    /\ op.restored => op.claimed /\ op.step \in Launching \cup {"cleanup"}
    /\ op.launched => op.step \in {"booted", "cleanup"}
    /\ op.claimed /\ (op.step \in Launching \/ op.launched) => op.restored

Turn ==
    /\ op \in Calls
    /\ op.kind = "none" => op = Idle
    /\ op.kind = "create" => Creating
    /\ op.kind = "start" => op.ws \in Workspace /\ Present(op.ws) /\ op.step \in {"prepare", "create"}
    /\ op.kind = "delete" => op.ws \in Workspace /\ Present(op.ws)
                             /\ op.step \in {"removeContainer", "archive", "forget"}
    /\ op.kind # "create" => ~op.claimed /\ ~op.restored /\ ~op.launched

Trees == [Workspace -> [Directory -> Workspace \cup {Missing, Empty}]]
Containers == [Workspace -> [made : BOOLEAN, again : BOOLEAN,
                             from : [Volume -> Workspace \cup {None}]]]

Stored ==
    /\ status \in [Workspace -> {"unused", "absent", "present"}]
    /\ ran \subseteq Workspace
    /\ mounts \in [Workspace -> Template \cup {{}}]
    /\ container \in Containers
    /\ live \in Trees /\ archive \in Trees
    /\ archiveDir \subseteq Workspace
    /\ volumes \subseteq VolumeName
    /\ dirTombs \subseteq Workspace /\ volTombs \subseteq VolumeName
    /\ dirDiscard \in [Workspace -> {"no", "found", "removed"}]
    /\ volDiscard \in [VolumeName -> {"no", "found", "removed"}]
    /\ condemned \cup early \subseteq written /\ written \subseteq Piece

Typed == Turn /\ Stored

LEMMA IdleTyped ==
  /\ Idle \in Calls
  /\ Idle.kind = "none" /\ Idle.step = "idle" /\ Idle.claimed = FALSE /\ Idle.restored = FALSE
  /\ Idle.launched = FALSE
  /\ Idle.from = NoVolumes /\ Idle.ws = None /\ Idle.dir = None /\ Idle.left = FALSE
  BY DEF Idle, Calls, NoVolumes, Steps

LEMMA OpIdle == Turn => (op = Idle <=> op.kind = "none")
  BY IdleTyped DEF Turn

LEMMA IdleTurn == ASSUME op' = Idle PROVE Turn'
  BY IdleTyped DEF Turn

LEMMA TypedMeans == Typed => TypeOK
  BY OpIdle DEF Typed, Stored, Trees, Containers, TypeOK, Turn, Creating, Calls, Unlisted, Listed, Launching, Steps

LEMMA InitTyped == Init => Typed
  BY StorageAssumption, IdleTyped DEF Init, Typed, Stored, Trees, Containers, Turn, NeverMade, NoVolumes, Nothing, Piece

LEMMA TurnWhenUnchanged == ASSUME Turn, UNCHANGED <<op, status>> PROVE Turn'
  BY DEF Turn, Creating, Present

LEMMA CreateTurn ==
  ASSUME Turn, Stored, Create
  PROVE  Turn'
  <1> SUFFICES ASSUME op' # Idle PROVE Turn'
    BY IdleTurn
  <1> USE StorageAssumption, IdleTyped DEF Turn, Calls, Creating, Present, Unlisted, Listed, Launching, Step, Go, Finish, Steps,
                                           tables
  <1>1. ASSUME NEW w \in Workspace, NEW t \in Template, NEW dir \in Workspace \cup {None},
               NEW from \in [Volume -> Workspace \cup {None}], BeginCreate(w, t, from, dir)
        PROVE  Turn'
    <2>1. PICK todo \in SUBSET Volume, s \in {"makeDirs", "findVolume"} :
             op' = [Idle EXCEPT !.kind = "create", !.ws = w, !.from = from, !.dir = dir,
                                !.todo = todo, !.step = s]
      BY <1>1 DEF BeginCreate
    <2>2. op' \in Calls
      BY <2>1
    <2>3. status'[w] = "absent"
      BY <1>1 DEF BeginCreate, Stored
    <2> QED
      BY <2>1, <2>2, <2>3
  <1>2. CASE \E v \in Volume : FindVolume(v)
    <2>1. PICK v \in Volume : op' = [op EXCEPT !.step = "claimVolume", !.at = v]
                              /\ op.step = "findVolume" /\ UNCHANGED status
      BY <1>2 DEF FindVolume
    <2>2. op' \in Calls
      BY <2>1
    <2> QED
      BY <2>1, <2>2
  <1>3. CASE ClaimVolume
    BY <1>3 DEF ClaimVolume
  <1>4. CASE CheckVolume
    <2>1. PICK s \in {"makeDirs", "findVolume"} :
             op' = [op EXCEPT !.todo = @ \ {op.at}, !.step = s] /\ op.step = "checkVolume"
             /\ UNCHANGED status
      BY <1>4 DEF CheckVolume
    <2>2. op' \in Calls
      BY <2>1
    <2> QED
      BY <2>1, <2>2
  <1>5. CASE MakeDirectories
    BY <1>5 DEF MakeDirectories
  <1>6. CASE InsertRow
    <2>1. PICK s \in {"ports", "cleanup"} :
             /\ op' = [op EXCEPT !.step = s] /\ op.step = "insertRow"
             /\ IF s = "ports" THEN status' = [status EXCEPT ![op.ws] = "present"]
                              ELSE UNCHANGED status
      BY <1>6 DEF InsertRow
    <2>2. op.kind = "create" /\ op' \in Calls /\ op'.step = s
      BY <2>1
    <2>3. s = "ports" => status'[op.ws] = "present"
      BY <2>1, <2>2 DEF Stored
    <2> QED
      BY <2>1, <2>2, <2>3
  <1>7. CASE ReservePorts
    BY <1>7 DEF ReservePorts, Continue, AfterDirectories
  <1>8. CASE FindDirectory
    BY <1>8 DEF FindDirectory
  <1>9. CASE ClaimDirectory
    <2>1. CASE op' = [op EXCEPT !.step = "checkDir", !.claimed = TRUE] /\ op.dir \in dirTombs
      <3>1. op' \in Calls
        BY <2>1
      <3> QED
        BY <1>9, <2>1, <3>1 DEF ClaimDirectory, Stored
    <2>2. CASE op' = [op EXCEPT !.step = "cleanup"]
      BY <1>9, <2>2 DEF ClaimDirectory
    <2> QED
      BY <1>9, <2>1, <2>2 DEF ClaimDirectory
  <1>10. CASE CheckDirectories
    <2>1. PICK todo \in SUBSET (Directory \cup Volume), s \in {"restore", "cleanup"} :
             op' = [op EXCEPT !.step = s, !.todo = todo] /\ op.step = "checkDir"
             /\ UNCHANGED status
      <3>1. CASE op' = [op EXCEPT !.step = "restore", !.todo = Dirs(op.dir)]
        BY <1>10, <3>1 DEF CheckDirectories, Dirs, Stored
      <3>2. CASE op' = [op EXCEPT !.step = "cleanup"]
        <4>1. op' = [op EXCEPT !.step = "cleanup", !.todo = op.todo]
          BY <3>2
        <4> QED
          BY <1>10, <4>1 DEF CheckDirectories
      <3> QED
        BY <1>10, <3>1, <3>2 DEF CheckDirectories
    <2>2. op' \in Calls
      BY <2>1
    <2> QED
      BY <2>1, <2>2
  <1>11. CASE \E d \in Directory : MoveDirectory(d)
    <2>1. PICK d \in Directory :
             op' = [op EXCEPT !.todo = @ \ {d}, !.moved = @ \cup {d}] /\ op.step = "restore"
             /\ UNCHANGED status
      BY <1>11 DEF MoveDirectory
    <2>2. op' \in Calls
      BY <2>1
    <2> QED
      BY <2>1, <2>2
  <1>12. CASE \E d \in Directory : AbortMove(d)
    BY <1>12 DEF AbortMove
  <1>13. CASE EndRestore
    BY <1>13 DEF EndRestore, Continue, AfterDirectories
  <1>14. CASE LaunchFailed
    BY <1>14 DEF LaunchFailed
  <1>15. CASE Leave
    <2>1. op' = [op EXCEPT !.left = TRUE] /\ op.kind = "create" /\ UNCHANGED status
      BY <1>15 DEF Leave
    <2>2. op' \in Calls
      BY <2>1
    <2> QED
      BY <2>1, <2>2
  <1>16. CASE LaunchWorkspace
    BY <1>16 DEF LaunchWorkspace
  <1>17. CASE BootContainer \/ BootFailed
    <2>1. PICK s \in {"booted", "cleanup"}, runs \in BOOLEAN :
             op' = [op EXCEPT !.step = s, !.launched = runs] /\ op.step = "boot" /\ UNCHANGED status
      BY <1>17 DEF BootContainer, BootFailed
    <2>2. op' \in Calls
      BY <2>1
    <2> QED
      BY <2>1, <2>2
  <1>18. CASE EndLaunch
    <2>1. op' = [op EXCEPT !.step = "cleanup"] /\ op.step = "booted" /\ UNCHANGED status
      BY <1>18 DEF EndLaunch
    <2> QED
      BY <2>1
  <1>19. CleanUp => op' = Idle
    BY DEF CleanUp
  <1> QED
    BY <1>1, <1>2, <1>3, <1>4, <1>5, <1>6, <1>7, <1>8, <1>9, <1>10, <1>11, <1>12, <1>13, <1>14,
       <1>15, <1>16, <1>17, <1>18, <1>19 DEF Create

(* The call with which a start or a delete begins. *)
LEMMA Begun ==
  ASSUME NEW w \in Workspace, BeginStart(w) \/ BeginDelete(w)
  PROVE  /\ op' \in Calls /\ op'.ws = w /\ op'.claimed = FALSE /\ op'.restored = FALSE
         /\ op'.launched = FALSE /\ op'.from = NoVolumes
         /\ \/ op'.kind = "start" /\ op'.step = "prepare"
            \/ op'.kind = "delete" /\ op'.step \in {"removeContainer", "archive"}
  <1>1. CASE BeginStart(w)
    BY <1>1, IdleTyped DEF BeginStart, Calls, Steps
  <1>2. CASE BeginDelete(w)
    <2>1. PICK had \in BOOLEAN, step \in {"removeContainer", "archive"} :
             op' = [Idle EXCEPT !.kind = "delete", !.ws = w, !.hadId = had, !.step = step]
      BY <1>2 DEF BeginDelete
    <2> QED
      BY <2>1, IdleTyped DEF Calls, Steps
  <1> QED
    BY <1>1, <1>2

LEMMA BeginTurn ==
  ASSUME NEW w \in Workspace, BeginStart(w) \/ BeginDelete(w)
  PROVE  Turn'
  <1>1. /\ op' \in Calls /\ op'.ws = w /\ op'.claimed = FALSE /\ op'.restored = FALSE
        /\ op'.launched = FALSE
        /\ \/ op'.kind = "start" /\ op'.step = "prepare"
           \/ op'.kind = "delete" /\ op'.step \in {"removeContainer", "archive"}
    BY Begun
  <1>2. status[w] = "present" /\ status' = status
    BY DEF BeginStart, BeginDelete, Present, tables
  <1> QED
    BY <1>1, <1>2 DEF Turn, Present

LEMMA NextTurn ==
  ASSUME Turn, Stored, [Next]_vars
  PROVE  Turn'
  <1> SUFFICES ASSUME op' # Idle PROVE Turn'
    BY IdleTurn
  <1> USE IdleTyped DEF Turn, Calls, Creating, Present, Step, Go, Finish, Steps, tables
  <1>1. CASE \E w \in Workspace : BeginStart(w)
    BY <1>1, BeginTurn
  <1>2. CASE \E w \in Workspace : BeginDelete(w)
    BY <1>2, BeginTurn
  <1>3. CASE PrepareStorage
    <2>1. op.kind = "start"
      BY <1>3 DEF PrepareStorage, Unlisted, Listed
    <2> QED
      BY <1>3, <2>1 DEF PrepareStorage
  <1>4. CASE RemoveContainer \/ ArchiveDirectories
    <2>1. op.kind = "delete" /\ UNCHANGED status
      BY <1>4 DEF RemoveContainer, ArchiveDirectories, Unlisted, Listed
    <2>2. op' = [op EXCEPT !.step = "archive"] \/ op' = [op EXCEPT !.step = "forget"]
      BY <1>4 DEF RemoveContainer, ArchiveDirectories
    <2> QED
      BY <2>1, <2>2
  <1>5. CreateContainer \/ CreateRefused \/ ForgetWorkspace \/ Interrupt => op' = Idle
    BY DEF CreateContainer, CreateRefused, ForgetWorkspace, Interrupt
  <1>6. CASE UNCHANGED <<op, status>>
    BY <1>6, TurnWhenUnchanged
  <1>7. CASE \E w \in Workspace : Adopt(w) \/ TimeoutRemoves(w) \/ OpenFileManager(w)
                                  \/ \E d \in Directory : WriteData(w, d)
    BY <1>6, <1>7 DEF Adopt, TimeoutRemoves, OpenFileManager, WriteData
  <1>8. CASE Discard
    BY <1>6, <1>8 DEF Discard, FindDirectoryToDiscard, DiscardDirectory, ForgetDirectory,
       FindVolumeToDiscard, DiscardVolume, ForgetVolume
  <1> QED
    BY <1>1, <1>2, <1>3, <1>4, <1>5, <1>6, <1>7, <1>8, CreateTurn DEF Next, Lifecycle, vars
(* What a step says of the call that is at it. *)
LEMMA Stages ==
  ASSUME Turn
  PROVE  /\ op.step \in Unlisted \cup Listed \cup {"cleanup"} => op.kind = "create" /\ Creating
         /\ op.step \in {"prepare", "create"} => op.kind = "start"
         /\ op.step \in {"removeContainer", "archive", "forget"} => op.kind = "delete"
         /\ op.step # "idle" => op.ws \in Workspace
         /\ op.kind \in {"start", "delete"} => op.ws \in Workspace /\ Present(op.ws)
  BY IdleTyped DEF Turn, Creating, Unlisted, Listed, Launching, Steps, Calls

(* Nothing but the call moves. *)
OnlyTheCall == UNCHANGED <<tables, disk, podman, discards, ghosts>>

LEMMA CallsOnly ==
  ASSUME \/ \E v \in Volume : FindVolume(v)
         \/ CheckVolume \/ ReservePorts \/ FindDirectory \/ CheckDirectories
         \/ EndRestore \/ BootContainer \/ BootFailed \/ Leave
         \/ \E w \in Workspace : BeginStart(w) \/ BeginDelete(w)
  PROVE  OnlyTheCall
  BY DEF OnlyTheCall, FindVolume, CheckVolume, ReservePorts, FindDirectory, CheckDirectories,
     EndRestore, BootContainer, BootFailed, Leave, BeginStart, BeginDelete

LEMMA TreesTyped ==
  ASSUME Stored, NEW w \in Workspace
  PROVE  /\ EnsureDirectories(w) => live' \in Trees
         /\ RemoveDirectories(w) => live' \in Trees
         /\ Nothing \in [Directory -> Workspace \cup {Missing, Empty}]
  <1>1. Nothing \in [Directory -> Workspace \cup {Missing, Empty}]
    BY DEF Nothing
  <1>2. EnsureDirectories(w) => live' \in Trees
    BY DEF EnsureDirectories, Stored, Trees
  <1>3. RemoveDirectories(w) => live' \in Trees
    BY <1>1 DEF RemoveDirectories, Stored, Trees
  <1> QED
    BY <1>1, <1>2, <1>3

LEMMA RemovedTyped ==
  ASSUME Stored, NEW w \in Workspace
  PROVE  /\ [container EXCEPT ![w].made = FALSE] \in Containers
         /\ [container EXCEPT ![w].made = FALSE, ![w].again = TRUE] \in Containers
  <1> DEFINE c == container[w]
  <1>1. c \in [made : BOOLEAN, again : BOOLEAN, from : [Volume -> Workspace \cup {None}]]
    BY DEF Stored, Containers
  <1>2. [c EXCEPT !.made = FALSE] \in [made : BOOLEAN, again : BOOLEAN, from : [Volume -> Workspace \cup {None}]]
    BY <1>1
  <1>3. [c EXCEPT !.made = FALSE, !.again = TRUE] \in [made : BOOLEAN, again : BOOLEAN, from : [Volume -> Workspace \cup {None}]]
    BY <1>1
  <1>4. /\ [container EXCEPT ![w].made = FALSE] = [container EXCEPT ![w] = [c EXCEPT !.made = FALSE]]
        /\ [container EXCEPT ![w].made = FALSE, ![w].again = TRUE]
             = [container EXCEPT ![w] = [c EXCEPT !.made = FALSE, !.again = TRUE]]
    BY DEF Stored, Containers
  <1> HIDE DEF c
  <1> QED
    BY <1>2, <1>3, <1>4 DEF Stored, Containers

LEMMA MadeTyped ==
  ASSUME Typed, NEW w \in Workspace, MakeContainer(w)
  PROVE  /\ container' \in Containers
         /\ volumes' \subseteq VolumeName
  <1> DEFINE new == [made |-> TRUE, again |-> container[w].again,
                     from |-> [v \in Volume |-> Source(w, v)]]
  <1>1. \A v \in Volume : Source(w, v) \in Workspace \cup {None}
    BY DEF Source, Typed, Turn, Calls
  <1>2. new \in [made : BOOLEAN, again : BOOLEAN, from : [Volume -> Workspace \cup {None}]]
    BY <1>1 DEF Typed, Stored, Containers
  <1>3. container' = [container EXCEPT ![w] = new]
    BY DEF MakeContainer
  <1> HIDE DEF new
  <1>4. \A v \in Vols(w) : Source(w, v) \in Workspace
    BY StorageAssumption, <1>1 DEF Vols, Source
  <1> QED
    BY <1>2, <1>3, <1>4 DEF MakeContainer, VolumeName, Vols, Typed, Stored, Containers

LEMMA CreateStored ==
  ASSUME Typed, Create
  PROVE  Stored'
  <1> Turn /\ Stored
    BY DEF Typed
  <1> USE TreesTyped DEF Stored, Present, Step, Go, Finish, tables, disk, podman, discards, ghosts
  <1>1. CASE OnlyTheCall
    BY <1>1 DEF OnlyTheCall
  <1>2. ASSUME NEW w \in Workspace, NEW t \in Template, NEW dir, NEW from, BeginCreate(w, t, from, dir)
        PROVE  Stored'
    BY <1>2 DEF BeginCreate
  <1>3. CASE ClaimVolume
    BY <1>3 DEF ClaimVolume
  <1>4. CASE MakeDirectories
    BY <1>4, Stages DEF MakeDirectories
  <1>5. CASE InsertRow
    BY <1>5 DEF InsertRow
  <1>6. CASE ClaimDirectory
    BY <1>6 DEF ClaimDirectory
  <1>7. CASE \E d \in Directory : MoveDirectory(d)
    BY <1>7, Stages DEF MoveDirectory, Trees, Listed, Creating
  <1>8. CASE \E d \in Directory : AbortMove(d)
    BY <1>8, Stages DEF AbortMove, Trees, Listed, Creating
  <1>9. CASE LaunchWorkspace
    BY <1>9, Stages, MadeTyped DEF LaunchWorkspace
  <1>10. CASE LaunchFailed
    BY <1>10, Stages, MadeTyped DEF LaunchFailed
  <1>11. CASE CleanUp
    BY <1>11, Stages DEF CleanUp
  <1>12. CASE EndLaunch
    BY <1>12 DEF EndLaunch
  <1> QED
    BY <1>1, <1>2, <1>3, <1>4, <1>5, <1>6, <1>7, <1>8, <1>9, <1>10, <1>11, <1>12, CallsOnly DEF Create

LEMMA NextStored ==
  ASSUME Typed, [Next]_vars
  PROVE  Stored'
  <1> Turn /\ Stored
    BY DEF Typed
  <1> USE TreesTyped DEF Stored, Present, Step, Go, Finish, tables, disk, podman, discards, ghosts
  <1>1. CASE OnlyTheCall
    BY <1>1 DEF OnlyTheCall
  <1>2. CASE Lifecycle
    <2>1. CASE \E w \in Workspace : Adopt(w) \/ TimeoutRemoves(w)
      BY <2>1, RemovedTyped DEF Adopt, TimeoutRemoves
    <2>2. CASE PrepareStorage
      BY <2>2, Stages DEF PrepareStorage
    <2>3. CASE CreateContainer
      BY <2>3, Stages, MadeTyped DEF CreateContainer
    <2>4. CASE CreateRefused
      BY <2>4 DEF CreateRefused
    <2>5. CASE RemoveContainer
      <3>1. op.ws \in Workspace
        BY <2>5, Stages DEF RemoveContainer
      <3>2. container' \in Containers
        BY <2>5, <3>1, RemovedTyped DEF RemoveContainer
      <3>3. UNCHANGED <<status, ran, mounts, live, archive, archiveDir, volumes, dirTombs, volTombs,
                        dirDiscard, volDiscard, ghosts>>
        BY <2>5 DEF RemoveContainer
      <3> QED
        BY <3>2, <3>3
    <2>6. CASE ArchiveDirectories
      <3>1. live[op.ws] \in [Directory -> Workspace \cup {Missing, Empty}] /\ op.ws \in Workspace
        BY <2>6, Stages DEF ArchiveDirectories, Trees
      <3>2. live' \in Trees
        BY <2>6, <3>1 DEF ArchiveDirectories
      <3>3. archive' \in Trees /\ archiveDir' \subseteq Workspace
        BY <2>6, <3>1 DEF ArchiveDirectories, Trees
      <3> QED
        BY <2>6, <3>2, <3>3 DEF ArchiveDirectories
    <2>7. CASE ForgetWorkspace
      BY <2>7, Stages DEF ForgetWorkspace, Vols, VolumeName
    <2>8. CASE Interrupt
      BY <2>8 DEF Interrupt
    <2> QED
      BY <1>1, <1>2, <2>1, <2>2, <2>3, <2>4, <2>5, <2>6, <2>7, <2>8, CallsOnly DEF Lifecycle
  <1>3. CASE Discard
    <2>1. CASE \E a \in Workspace : DiscardDirectory(a)
      <3>1. PICK a \in Workspace : DiscardDirectory(a)
        BY <2>1
      <3>2. archive' \in Trees
        <4>1. CASE archive' = [archive EXCEPT ![a] = Nothing]
          BY <4>1 DEF Trees
        <4>2. CASE \E part \in SUBSET Dirs(a) :
                     archive' = [archive EXCEPT ![a] = [d \in Directory |->
                                   IF d \in part THEN Missing ELSE @[d]]]
          BY <4>2 DEF Trees
        <4> QED
          BY <3>1, <4>1, <4>2 DEF DiscardDirectory
      <3>3. archiveDir' \subseteq Workspace /\ dirDiscard' \in [Workspace -> {"no", "found", "removed"}]
        BY <3>1 DEF DiscardDirectory
      <3> QED
        BY <3>1, <3>2, <3>3 DEF DiscardDirectory
    <2>2. CASE \E a \in Workspace : FindDirectoryToDiscard(a) \/ ForgetDirectory(a)
      BY <2>2 DEF FindDirectoryToDiscard, ForgetDirectory
    <2>3. CASE \E n \in VolumeName : FindVolumeToDiscard(n) \/ DiscardVolume(n) \/ ForgetVolume(n)
      BY <2>3 DEF FindVolumeToDiscard, DiscardVolume, ForgetVolume
    <2> QED
      BY <1>3, <2>1, <2>2, <2>3 DEF Discard
  <1>4. CASE \E w \in Workspace : OpenFileManager(w)
    BY <1>4 DEF OpenFileManager
  <1>5. CASE \E w \in Workspace, d \in Directory : WriteData(w, d)
    BY <1>5 DEF WriteData, Piece, Trees
  <1> QED
    BY <1>1, <1>2, <1>3, <1>4, <1>5, CreateStored DEF Next, vars, OnlyTheCall

LEMMA NextTyped == Typed /\ [Next]_vars => Typed'
  BY NextTurn, NextStored DEF Typed

(* Every variable keeps its type, and the call that holds the admission    *)
(* lock the fields its step is about.                                      *)
THEOREM StorageTyped == Spec => []TypeOK
  <1> QED
    BY InitTyped, NextTyped, TypedMeans, PTL DEF Spec

-----------------------------------------------------------------------------
(* Volumes.                                                                *)

(* A workspace whose row is gone for good. *)
Gone(w) == status[w] = "absent" /\ ~(op.kind = "create" /\ op.ws = w)

Claiming == {"findVolume", "claimVolume", "checkVolume"}

(* The creation has consumed the tombstone of what it is to attach as v.   *)
Took(v) ==
    /\ op.kind = "create" /\ op.from[v] # None
    /\ v \notin op.todo \/ (op.step = "checkVolume" /\ op.at = v)

CallClaims ==
    /\ op.kind = "create" => \A v \in Volume : op.from[v] # op.ws
    /\ op.kind = "create" /\ op.step \notin Claiming => op.todo \subseteq Directory
    /\ op.step \in {"claimVolume", "checkVolume"} =>
         op.at \in Volume /\ op.from[op.at] # None
    /\ op.kind # "create" => op.from = NoVolumes

(* Who mounts or takes the volume <<o, v>> of a former workspace o. *)
Attached(w, o, v) == container[w].from[v] = o /\ w # o

ClaimedOnce ==
    /\ \A n \in volTombs : Gone(n[1])
    /\ \A w, o \in Workspace, v \in Volume : Attached(w, o, v) =>
          /\ Gone(o) /\ <<o, v>> \notin volTombs
          /\ \A x \in Workspace : Attached(x, o, v) => x = w
    /\ \A o \in Workspace, v \in Volume : Took(v) /\ op.from[v] = o =>
          /\ Gone(o) /\ <<o, v>> \notin volTombs
          /\ \A x \in Workspace : Attached(x, o, v) => x = op.ws

Volumes == CallClaims /\ ClaimedOnce

LEMMA ClaimedMeansExclusive == Typed /\ Volumes => VolumesExclusive
  <1> SUFFICES ASSUME Typed, Volumes, NEW n \in VolumeName, NEW w \in Workspace, Present(w), Mounts(w, n)
               PROVE  /\ n \notin volTombs
                      /\ \A x \in Workspace : Present(x) /\ Mounts(x, n) => w = x
    BY DEF VolumesExclusive
  <1>1. PICK o \in Workspace, v \in Volume : n = <<o, v>>
    BY DEF VolumeName
  <1>2. container[w].from[v] = o
    BY <1>1 DEF Mounts
  <1> QED
    BY <1>1, <1>2 DEF Volumes, ClaimedOnce, Attached, Gone, Present, Mounts

LEMMA GoneForGood ==
  ASSUME Typed, [Next]_vars, NEW w \in Workspace, Gone(w)
  PROVE  Gone(w)'
  <1> DEFINE Onward == op' = Idle \/ op'.kind # "create" \/ (op'.kind = op.kind /\ op'.ws = op.ws)
  <1> Turn /\ Stored /\ op \in Calls
    BY DEF Typed, Turn
  <1> SUFFICES ASSUME ~UNCHANGED <<op, status>> PROVE Gone(w)'
    BY DEF Gone
  <1>1. CASE OnlyTheCall /\ Onward
    BY <1>1, IdleTyped DEF Gone, OnlyTheCall, tables
  <1>2. CASE Create
    <2>1. ASSUME NEW u \in Workspace, NEW t, NEW from, NEW dir, BeginCreate(u, t, from, dir)
          PROVE  Gone(w)'
      BY <2>1, IdleTyped DEF BeginCreate, Gone, Stored
    <2>2. CASE \/ \E v \in Volume : FindVolume(v)
               \/ CheckVolume \/ ReservePorts \/ FindDirectory \/ CheckDirectories
               \/ EndRestore \/ BootContainer \/ BootFailed \/ Leave
      <3>1. CASE BootFailed
        <4>1. PICK runs \in BOOLEAN : op' = [op EXCEPT !.step = "cleanup", !.launched = runs]
          BY <3>1 DEF BootFailed
        <4>2. Onward
          BY <4>1 DEF Calls
        <4> QED
          BY <1>1, <3>1, <4>2, CallsOnly
      <3>2. CASE ~BootFailed
        <4>1. Onward
          BY <2>2, <3>2 DEF FindVolume, CheckVolume, ReservePorts, FindDirectory, CheckDirectories,
             EndRestore, BootContainer, Leave, Finish, Go, Continue, Calls
        <4> QED
          BY <1>1, <2>2, <4>1, CallsOnly
      <3> QED
        BY <3>1, <3>2
    <2>3. CASE \/ ClaimVolume \/ MakeDirectories \/ ClaimDirectory
               \/ \E d \in Directory : MoveDirectory(d) \/ AbortMove(d)
               \/ LaunchWorkspace \/ LaunchFailed \/ EndLaunch
      <3>1. Onward /\ UNCHANGED status
        BY <2>3 DEF ClaimVolume, MakeDirectories, ClaimDirectory, MoveDirectory, AbortMove,
           LaunchWorkspace, LaunchFailed, EndLaunch, Finish, Go, Calls, tables
      <3> QED
        BY <3>1, IdleTyped DEF Gone
    <2>4. CASE InsertRow
      <3>1. op.kind = "create" /\ op'.kind = "create" /\ op'.ws = op.ws
        BY <2>4, Stages DEF InsertRow, Step, Go, Unlisted, Calls
      <3> QED
        BY <2>4, <3>1 DEF InsertRow, Gone, Stored
    <2>5. CASE CleanUp
      BY <2>5, IdleTyped, Stages DEF CleanUp, Finish, Gone, Stored, Step
    <2> QED
      BY <1>2, <2>1, <2>2, <2>3, <2>4, <2>5 DEF Create
  <1>3. CASE Lifecycle
    <2>1. CASE \E u \in Workspace : BeginStart(u) \/ BeginDelete(u)
      <3>1. Onward
        BY <2>1, IdleTyped DEF BeginStart, BeginDelete, Calls
      <3> QED
        BY <1>1, <2>1, <3>1, CallsOnly
    <2>2. CASE \E u \in Workspace : Adopt(u) \/ TimeoutRemoves(u)
      BY <2>2 DEF Adopt, TimeoutRemoves, tables
    <2>3. CASE PrepareStorage \/ CreateContainer \/ CreateRefused \/ RemoveContainer
               \/ ArchiveDirectories \/ Interrupt
      <3>1. Onward /\ UNCHANGED status
        BY <2>3 DEF PrepareStorage, CreateContainer, CreateRefused, RemoveContainer,
           ArchiveDirectories, Interrupt, Finish, Go, Calls, tables
      <3> QED
        BY <3>1, IdleTyped DEF Gone
    <2>4. CASE ForgetWorkspace
      BY <2>4, IdleTyped, Stages DEF ForgetWorkspace, Finish, Gone, Stored, Step
    <2> QED
      BY <1>3, <2>1, <2>2, <2>3, <2>4 DEF Lifecycle
  <1>4. CASE Discard
    BY <1>4 DEF Discard, FindDirectoryToDiscard, DiscardDirectory, ForgetDirectory,
       FindVolumeToDiscard, DiscardVolume, ForgetVolume, tables
  <1>5. CASE \E u \in Workspace : OpenFileManager(u) \/ \E d \in Directory : WriteData(u, d)
    BY <1>5 DEF OpenFileManager, WriteData, tables
  <1> QED
    BY <1>2, <1>3, <1>4, <1>5 DEF Next, vars, tables

(* Steps after which no more is claimed than before. *)
LEMMA NoNewClaims ==
  ASSUME Typed, Typed', Volumes, [Next]_vars, volTombs' \subseteq volTombs,
         \A w \in Workspace : container'[w].from = container[w].from,
         \A v \in Volume : Took(v)' => Took(v) /\ op'.from[v] = op.from[v] /\ op'.ws = op.ws
  PROVE  ClaimedOnce'
  <1>1. \A w, o \in Workspace, v \in Volume : Attached(w, o, v)' <=> Attached(w, o, v)
    BY DEF Attached
  <1>2. \A n \in volTombs' : n[1] \in Workspace
    BY DEF Typed, Stored, VolumeName
  <1>3. \A n \in volTombs' : Gone(n[1])'
    BY <1>2, GoneForGood DEF Volumes, ClaimedOnce
  <1>4. ASSUME NEW w \in Workspace, NEW o \in Workspace, NEW v \in Volume, Attached(w, o, v)'
        PROVE  /\ Gone(o)' /\ <<o, v>> \notin volTombs'
               /\ \A x \in Workspace : Attached(x, o, v)' => x = w
    BY <1>1, <1>4, GoneForGood DEF Volumes, ClaimedOnce
  <1>5. ASSUME NEW o \in Workspace, NEW v \in Volume, Took(v)', op'.from[v] = o
        PROVE  /\ Gone(o)' /\ <<o, v>> \notin volTombs'
               /\ \A x \in Workspace : Attached(x, o, v)' => x = op'.ws
    BY <1>1, <1>5, GoneForGood DEF Volumes, ClaimedOnce
  <1> QED
    BY <1>3, <1>4, <1>5 DEF ClaimedOnce

(* Steps that leave the volumes of the call alone, or end it. *)
LEMMA CallLeavesVolumes ==
  ASSUME Typed, Typed', Volumes, [Next]_vars, volTombs' \subseteq volTombs,
         \A w \in Workspace : container'[w].from = container[w].from,
         \/ op'.kind # "create" /\ op'.from = NoVolumes /\ op'.step \notin Claiming
         \/ /\ op'.kind = op.kind /\ op'.ws = op.ws /\ op'.from = op.from
            /\ \/ op'.todo = op.todo /\ op'.step = op.step
               \/ /\ op.step \notin Claiming /\ op'.step \notin Claiming
                  /\ op'.kind = "create" => op'.todo \subseteq Directory
            /\ op'.at = op.at
  PROVE  Volumes'
  <1>1. \A v \in Volume : Took(v)' => Took(v) /\ op'.from[v] = op.from[v] /\ op'.ws = op.ws
    BY StorageAssumption DEF Took, Volumes, CallClaims, Claiming
  <1>2. CallClaims'
    BY DEF CallClaims, Volumes, Claiming
  <1> QED
    BY <1>1, <1>2, NoNewClaims DEF Volumes

(* A new container mounts its own volumes and those that were taken.       *)
LEMMA VolumesMade ==
  ASSUME Typed, Typed', Volumes, [Next]_vars, UNCHANGED volTombs,
         op.ws \in Workspace, ~Gone(op.ws), MakeContainer(op.ws), op.step \notin Claiming,
         op' = Idle \/ \E s \in {"boot", "cleanup"} : op' = [op EXCEPT !.step = s]
  PROVE  Volumes'
  <1> Turn /\ Stored /\ op \in Calls
    BY DEF Typed, Turn
  <1> DEFINE w == op.ws
  <1>1. \A v \in Volume : op.from[v] # None => Took(v)
    BY StorageAssumption DEF Took, Volumes, CallClaims, NoVolumes
  <1>2. \A v \in Volume : container'[w].from[v] = Source(w, v)
    BY DEF MakeContainer, Stored, Containers
  <1>3. \A x \in Workspace \ {w} : container'[x] = container[x]
    BY DEF MakeContainer, Stored, Containers
  <1>4. \A x, o \in Workspace, v \in Volume :
           Attached(x, o, v)' => Attached(x, o, v) \/ (x = w /\ Took(v) /\ op.from[v] = o)
    BY <1>1, <1>2, <1>3, StorageAssumption DEF Attached, Source
  <1>5. \A x, o \in Workspace, v \in Volume :
           Attached(x, o, v)' => /\ Gone(o)' /\ <<o, v>> \notin volTombs'
                                 /\ \A y \in Workspace : Attached(y, o, v)' => y = x
    BY <1>4, GoneForGood DEF Volumes, ClaimedOnce
  <1>6. \A v \in Volume : Took(v)' => Took(v) /\ op'.from[v] = op.from[v] /\ op'.ws = w
    BY IdleTyped, <1>1 DEF Took, Calls
  <1>7. \A o \in Workspace, v \in Volume : Took(v)' /\ op'.from[v] = o =>
           /\ Gone(o)' /\ <<o, v>> \notin volTombs'
           /\ \A x \in Workspace : Attached(x, o, v)' => x = op'.ws
    BY <1>4, <1>6, GoneForGood DEF Volumes, ClaimedOnce
  <1>8. \A n \in volTombs' : Gone(n[1])'
    BY GoneForGood DEF Volumes, ClaimedOnce, Stored, VolumeName
  <1>9. CallClaims'
    BY IdleTyped DEF CallClaims, Volumes, Calls, Claiming
  <1> QED
    BY <1>5, <1>7, <1>8, <1>9 DEF Volumes, ClaimedOnce

LEMMA CreateVolumes ==
  ASSUME Typed, Typed', Volumes, [Next]_vars, Create
  PROVE  Volumes'
  <1> Turn /\ Stored /\ op \in Calls
    BY DEF Typed, Turn
  <1> DEFINE Still == volTombs' \subseteq volTombs /\ \A w \in Workspace : container'[w].from = container[w].from
             Same == op'.kind = op.kind /\ op'.ws = op.ws /\ op'.from = op.from /\ op'.at = op.at
             Beyond == op.step \notin Claiming /\ op'.step \notin Claiming /\ op'.todo \subseteq Directory
  <1>1. CASE op' = Idle /\ Still
    BY <1>1, IdleTyped, CallLeavesVolumes DEF Claiming
  <1>2. CASE Still /\ Same /\ Beyond
    BY <1>2, CallLeavesVolumes
  <1>3. ASSUME NEW w \in Workspace, NEW t \in Template, NEW dir \in Workspace \cup {None},
               NEW from \in [Volume -> {x \in Workspace : status[x] # "unused"} \cup {None}],
               BeginCreate(w, t, from, dir)
        PROVE  Volumes'
    <2>1. /\ op'.kind = "create" /\ op'.ws = w /\ op'.from = from
          /\ op'.todo = {v \in Volume : from[v] # None}
          /\ op'.step = IF op'.todo = {} THEN "makeDirs" ELSE "findVolume"
      BY <1>3, IdleTyped DEF BeginCreate, Calls
    <2>2. status[w] = "unused"
      BY <1>3 DEF BeginCreate
    <2>3. \A v \in Volume : from[v] # w
      BY <2>2, StorageAssumption
    <2>4. \A v \in Volume : ~Took(v)'
      BY <2>1 DEF Took
    <2>5. Still
      BY <1>3 DEF BeginCreate, tables, podman
    <2>6. CallClaims'
      BY <2>1, <2>3 DEF CallClaims, Claiming
    <2> QED
      BY <2>4, <2>5, <2>6, NoNewClaims DEF Volumes
  <1>4. CASE \E v \in Volume : FindVolume(v)
    <2>1. SUFFICES ASSUME NEW v \in Volume, FindVolume(v), op' # Idle PROVE Volumes'
      BY <1>4, <1>1 DEF FindVolume, OnlyTheCall, tables, podman
    <2>2. op' = [op EXCEPT !.step = "claimVolume", !.at = v] /\ v \in op.todo /\ Still
      BY <2>1 DEF FindVolume, Finish, tables, podman
    <2>3. op.step = "findVolume" /\ op.from[v] # None
      <3>1. <<op.from[v], v>> \in VolumeName
        BY <2>1, <2>2 DEF FindVolume, Finish, Stored
      <3> QED
        BY <2>1, <3>1, StorageAssumption DEF FindVolume, Step, VolumeName
    <2>4. CallClaims'
      BY <2>2, <2>3 DEF CallClaims, Volumes, Calls, Claiming
    <2>5. \A u \in Volume : Took(u)' => Took(u) /\ op'.from[u] = op.from[u] /\ op'.ws = op.ws
      BY <2>2, <2>3 DEF Took, Calls
    <2> QED
      BY <2>2, <2>4, <2>5, NoNewClaims DEF Volumes
  <1>5. CASE ClaimVolume
    <2>1. SUFFICES ASSUME op' # Idle PROVE Volumes'
      BY <1>5, <1>1 DEF ClaimVolume, Finish, tables, podman
    <2> DEFINE o == op.from[op.at]
               v == op.at
    <2>2. /\ op' = [op EXCEPT !.step = "checkVolume"] /\ op.step = "claimVolume"
          /\ <<o, v>> \in volTombs /\ volTombs' = volTombs \ {<<o, v>>}
          /\ UNCHANGED <<status, container>>
      BY <1>5, <2>1 DEF ClaimVolume, Claimed, Finish, Go, Step, podman
    <2>3. o \in Workspace /\ v \in Volume
      BY <2>2 DEF Stored, VolumeName
    <2>4. op.kind = "create"
      BY <2>2, Stages DEF Unlisted
    <2>5. CallClaims'
      BY <2>2, <2>4 DEF CallClaims, Volumes, Claiming, Calls
    <2>6. Gone(o) /\ \A x \in Workspace : ~Attached(x, o, v)
      BY <2>2, <2>3 DEF Volumes, ClaimedOnce
    <2>7. \A w, a \in Workspace, u \in Volume : Attached(w, a, u)' <=> Attached(w, a, u)
      BY <2>2 DEF Attached
    <2>8. \A u \in Volume : Took(u)' <=> Took(u) \/ u = v
      BY <2>2, <2>3, <2>4, StorageAssumption DEF Took, Calls
    <2>9. \A n \in volTombs' : Gone(n[1])'
      BY <2>2, GoneForGood DEF Volumes, ClaimedOnce, Stored, VolumeName
    <2>10. \A w, a \in Workspace, u \in Volume : Attached(w, a, u) =>
             Gone(a)' /\ <<a, u>> \notin volTombs'
      BY <2>2, GoneForGood DEF Volumes, ClaimedOnce
    <2>11. \A a \in Workspace, u \in Volume : Took(u)' /\ op'.from[u] = a =>
              /\ Gone(a)' /\ <<a, u>> \notin volTombs'
              /\ \A x \in Workspace : Attached(x, a, u) => x = op'.ws
      BY <2>2, <2>3, <2>6, <2>8, GoneForGood DEF Volumes, ClaimedOnce, Calls
    <2> HIDE DEF o, v
    <2> QED
      BY <2>5, <2>7, <2>9, <2>10, <2>11 DEF Volumes, ClaimedOnce
  <1>6. CASE CheckVolume
    <2>1. SUFFICES ASSUME op' # Idle PROVE Volumes'
      BY <1>6, <1>1 DEF CheckVolume, OnlyTheCall, tables, podman
    <2>2. /\ op' = [op EXCEPT !.todo = @ \ {op.at},
                              !.step = IF op.todo = {op.at} THEN "makeDirs" ELSE "findVolume"]
          /\ op.step = "checkVolume" /\ Still
      BY <1>6, <2>1 DEF CheckVolume, Finish, Step, tables, podman
    <2>3. op.kind = "create"
      BY <2>2, Stages DEF Unlisted
    <2>4. CallClaims'
      BY <2>2, <2>3 DEF CallClaims, Volumes, Claiming, Calls
    <2>5. \A u \in Volume : Took(u)' => Took(u) /\ op'.from[u] = op.from[u] /\ op'.ws = op.ws
      BY <2>2, <2>3 DEF Took, Calls
    <2> QED
      BY <2>2, <2>4, <2>5, NoNewClaims DEF Volumes
  <1>7. CASE \/ MakeDirectories \/ InsertRow \/ ReservePorts \/ FindDirectory \/ ClaimDirectory
             \/ EndRestore \/ BootContainer \/ BootFailed \/ EndLaunch \/ CleanUp
             \/ \E d \in Directory : AbortMove(d)
    <2>1. Still
      BY <1>7 DEF MakeDirectories, InsertRow, ReservePorts, FindDirectory, ClaimDirectory,
         EndRestore, BootContainer, BootFailed, EndLaunch, CleanUp, AbortMove, tables, podman
    <2>2. op' = Idle \/ (Same /\ op'.todo = op.todo /\ op.kind = "create"
                         /\ op.step \notin Claiming /\ op'.step \notin Claiming)
      <3>1. op.kind = "create"
        BY <1>7, Stages DEF MakeDirectories, InsertRow, ReservePorts, FindDirectory, ClaimDirectory,
           EndRestore, BootContainer, BootFailed, EndLaunch, CleanUp, AbortMove, Step, Unlisted, Listed
      <3>2. CASE MakeDirectories \/ InsertRow \/ ReservePorts
        BY <3>1, <3>2 DEF MakeDirectories, InsertRow, ReservePorts, Finish, Go, Step, Continue,
           AfterDirectories, Calls, Claiming
      <3>3. CASE FindDirectory \/ ClaimDirectory
        BY <3>1, <3>3 DEF FindDirectory, ClaimDirectory, Finish, Go, Step, Calls, Claiming
      <3>4. CASE EndRestore \/ CleanUp
        BY <3>1, <3>4 DEF EndRestore, CleanUp, Finish, Go, Step, Continue, AfterDirectories, Calls,
           Claiming
      <3>5. CASE \E d \in Directory : AbortMove(d)
        BY <3>1, <3>5 DEF AbortMove, Go, Step, Calls, Claiming
      <3>6. CASE BootContainer \/ EndLaunch
        BY <3>1, <3>6 DEF BootContainer, EndLaunch, Finish, Go, Step, Calls, Claiming
      <3>7. CASE BootFailed
        <4>1. PICK runs \in BOOLEAN : op' = [op EXCEPT !.step = "cleanup", !.launched = runs]
          BY <3>7 DEF BootFailed
        <4> QED
          BY <3>1, <3>7, <4>1 DEF BootFailed, Step, Calls, Claiming
      <3> QED
        BY <1>7, <3>2, <3>3, <3>4, <3>5, <3>6, <3>7
    <2>3. op' = Idle \/ (Same /\ Beyond)
      BY <2>2 DEF Volumes, CallClaims
    <2> QED
      BY <1>1, <1>2, <2>1, <2>3
  <1>8. CASE CheckDirectories \/ \E d \in Directory : MoveDirectory(d)
    <2>1. Still
      BY <1>8 DEF CheckDirectories, MoveDirectory, tables, podman
    <2>2. op.kind = "create" /\ op.step \in Listed
      BY <1>8, Stages DEF CheckDirectories, MoveDirectory, Step, Listed
    <2>3. op.todo \subseteq Directory
      BY <2>2 DEF Volumes, CallClaims, Listed, Claiming
    <2>4. Same /\ Beyond
      <3>1. CASE CheckDirectories
        BY <3>1, <2>2, <2>3 DEF CheckDirectories, Go, Dirs, Calls, Listed, Claiming
      <3>2. CASE \E d \in Directory : MoveDirectory(d)
        BY <3>2, <2>2, <2>3 DEF MoveDirectory, Calls, Listed, Claiming
      <3> QED
        BY <1>8, <3>1, <3>2
    <2> QED
      BY <1>2, <2>1, <2>4
  <1>9. CASE Leave
    BY <1>9, CallLeavesVolumes DEF Leave, Calls, tables, podman
  <1>10. CASE LaunchWorkspace \/ LaunchFailed
    <2>1. op.kind = "create" /\ op.step = "launch" /\ ~Gone(op.ws) /\ op.ws \in Workspace
      BY <1>10, Stages DEF LaunchWorkspace, LaunchFailed, Step, Listed, Creating, Gone
    <2>2. \E s \in {"boot", "cleanup"} : op' = [op EXCEPT !.step = s]
      BY <1>10 DEF LaunchWorkspace, LaunchFailed, Finish, Go
    <2>3. CASE MakeContainer(op.ws)
      BY <1>10, <2>1, <2>2, <2>3, VolumesMade DEF LaunchWorkspace, LaunchFailed, tables, Claiming
    <2>4. CASE UNCHANGED container
      BY <1>1, <1>2, <1>10, <2>1, <2>2, <2>4 DEF LaunchFailed, LaunchWorkspace, tables, Calls, Claiming, Volumes, CallClaims
    <2> QED
      BY <1>10, <2>3, <2>4 DEF LaunchWorkspace, LaunchFailed, podman
  <1> QED
    BY <1>3, <1>4, <1>5, <1>6, <1>7, <1>8, <1>9, <1>10 DEF Create

LEMMA NextVolumes ==
  ASSUME Typed, Typed', Volumes, [Next]_vars
  PROVE  Volumes'
  <1> Turn /\ Stored /\ op \in Calls
    BY DEF Typed, Turn
  <1> DEFINE Still == volTombs' \subseteq volTombs /\ \A w \in Workspace : container'[w].from = container[w].from
             Apart == op'.kind # "create" /\ op'.from = NoVolumes /\ op'.step \notin Claiming
  <1>1. CASE Still /\ Apart
    BY <1>1, CallLeavesVolumes
  <1>2. CASE Still /\ UNCHANGED op
    BY <1>2, CallLeavesVolumes
  <1>3. CASE Lifecycle
    <2>1. CASE \E w \in Workspace : BeginStart(w) \/ BeginDelete(w)
      <3>1. Still
        BY <2>1 DEF BeginStart, BeginDelete, tables, podman
      <3>2. Apart
        BY <2>1, Begun DEF Claiming
      <3> QED
        BY <1>1, <3>1, <3>2
    <2>2. CASE \E w \in Workspace : Adopt(w) \/ TimeoutRemoves(w)
      BY <1>2, <2>2 DEF Adopt, TimeoutRemoves, tables, podman, Stored, Containers
    <2>3. CASE CreateContainer
      BY <2>3, Stages, VolumesMade DEF CreateContainer, Step, Finish, Gone, Present, Claiming
    <2>4. CASE PrepareStorage \/ CreateRefused \/ RemoveContainer \/ ArchiveDirectories \/ Interrupt
      <3>1. Still
        <4>1. CASE RemoveContainer
          <5>1. volTombs' = volTombs /\ op.step = "removeContainer"
            BY <4>1 DEF RemoveContainer, tables, Step
          <5>2. op.ws \in Workspace
            BY <5>1, Stages
          <5>3. CASE container' = [container EXCEPT ![op.ws].made = FALSE]
            <6>1. \A w \in Workspace : container'[w].from = container[w].from
              BY <5>2, <5>3 DEF Stored, Containers
            <6> QED
              BY <5>1, <6>1
          <5>4. CASE container' = container
            BY <5>1, <5>4
          <5> QED
            BY <4>1, <5>3, <5>4 DEF RemoveContainer
        <4> QED
          BY <2>4, <4>1 DEF PrepareStorage, CreateRefused, ArchiveDirectories, Interrupt,
             tables, podman
      <3>2. op' = Idle \/ (op.kind # "create" /\ op'.kind = op.kind /\ op'.from = op.from
                           /\ op'.step \notin Claiming)
        BY <2>4, Stages DEF PrepareStorage, CreateRefused, RemoveContainer, ArchiveDirectories,
           Interrupt, Finish, Go, Step, Calls, Claiming
      <3>3. Apart
        BY <3>2, IdleTyped DEF Volumes, CallClaims, Claiming
      <3> QED
        BY <1>1, <3>1, <3>3
    <2>5. CASE ForgetWorkspace
      <3>1. PICK w \in Workspace :
            /\ op.kind = "delete" /\ Present(w) /\ op.ws = w
            /\ op' = Idle /\ status'[w] = "absent" /\ UNCHANGED container
            /\ volTombs' \subseteq volTombs \cup {w} \X Volume
        BY <2>5, Stages DEF ForgetWorkspace, Step, Finish, Stored, podman, Vols
      <3>2. ~Gone(w) /\ Gone(w)'
        BY <3>1, IdleTyped DEF Gone, Present
      <3>3. \A n \in volTombs' : n \in volTombs \/ n[1] = w
        BY <3>1
      <3>4. \A n \in volTombs' : Gone(n[1])'
        BY <3>2, <3>3, GoneForGood DEF Volumes, ClaimedOnce, Stored, VolumeName
      <3>5. \A x, o \in Workspace, v \in Volume : Attached(x, o, v) => o # w
        BY <3>2 DEF Volumes, ClaimedOnce
      <3>6. \A x, o \in Workspace, v \in Volume : Attached(x, o, v)' =>
               /\ Gone(o)' /\ <<o, v>> \notin volTombs'
               /\ \A y \in Workspace : Attached(y, o, v)' => y = x
        BY <3>1, <3>3, <3>5, GoneForGood DEF Volumes, ClaimedOnce, Attached
      <3>7. CallClaims' /\ \A v \in Volume : ~Took(v)'
        BY <3>1, IdleTyped DEF CallClaims, Took, Claiming
      <3> QED
        BY <3>4, <3>6, <3>7 DEF Volumes, ClaimedOnce
    <2> QED
      BY <1>3, <2>1, <2>2, <2>3, <2>4, <2>5 DEF Lifecycle
  <1>4. CASE Discard
    BY <1>2, <1>4 DEF Discard, FindDirectoryToDiscard, DiscardDirectory, ForgetDirectory,
       FindVolumeToDiscard, DiscardVolume, ForgetVolume, tables, podman
  <1>5. CASE \E w \in Workspace : OpenFileManager(w) \/ \E d \in Directory : WriteData(w, d)
    BY <1>2, <1>5 DEF OpenFileManager, WriteData, tables, podman
  <1>6. CASE UNCHANGED vars
    BY <1>2, <1>6 DEF vars, tables, podman
  <1> QED
    BY <1>3, <1>4, <1>5, <1>6, CreateVolumes DEF Next

LEMMA InitVolumes == Init => Volumes
  BY IdleTyped, StorageAssumption
     DEF Init, Volumes, CallClaims, ClaimedOnce, Took, Attached, NeverMade, NoVolumes, Claiming

(* A volume serves the containers of one workspace that has a row, and of  *)
(* none while it is listed as retained: its tombstone is consumed before   *)
(* anybody mounts it and never comes back (consumeReattachedVolumes).      *)
THEOREM VolumesServeOne == Spec => []VolumesExclusive
  <1>1. Init => Typed /\ Volumes
    BY InitTyped, InitVolumes
  <1>2. Typed /\ Volumes /\ [Next]_vars => (Typed /\ Volumes)'
    BY NextTyped, NextVolumes
  <1> QED
    BY <1>1, <1>2, ClaimedMeansExclusive, PTL DEF Spec

-----------------------------------------------------------------------------
(* Directories.                                                            *)

(* A tree holds only the mounts of its workspace's template, and nothing   *)
(* is archived outside the archived directory.                             *)
Rooted ==
    \A w \in Workspace, d \in Directory :
       /\ archive[w][d] # Missing => w \in archiveDir /\ d \in Dirs(w)
       /\ live[w][d] # Missing => d \in Dirs(w)

(* An identifier begins with nothing, and a creation archives nothing.     *)
Fresh ==
    /\ \A w \in Workspace : status[w] = "unused" =>
          w \notin ran /\ \A d \in Directory : live[w][d] = Missing /\ archive[w][d] = Missing
    /\ op.kind = "create" => \A d \in Directory : archive[op.ws][d] = Missing

(* What is found somewhere was written, and is found nowhere else.         *)
SingleIn(w, u, d) ==
    /\ live[w][d] \in Workspace =>
         /\ <<live[w][d], d>> \in written
         /\ archive[u][d] # live[w][d]
         /\ live[u][d] = live[w][d] => u = w
    /\ archive[w][d] \in Workspace =>
         /\ <<archive[w][d], d>> \in written
         /\ archive[u][d] = archive[w][d] => u = w

Single == \A w, u \in Workspace, d \in Directory : SingleIn(w, u, d)

Places == Rooted /\ Fresh /\ Single

Blank(w) == \A d \in Directory : live[w][d] \notin Workspace
Lost(w) == \A d \in Directory : live[w][d] \in Workspace => <<live[w][d], d>> \in condemned

(* Retained directories are of workspaces that are gone; one that was      *)
(* claimed has no tombstone, one whose discard has begun is condemned.     *)
Retired ==
    /\ \A a \in Workspace : a \in dirTombs \/ dirDiscard[a] # "no" => Gone(a)
    /\ op.claimed => Gone(op.dir) /\ op.dir \notin dirTombs
    /\ \A a \in Workspace :
        /\ dirDiscard[a] = "found" => \A d \in Directory :
              archive[a][d] \in Workspace => <<archive[a][d], d>> \in condemned
        /\ dirDiscard[a] = "removed" => a \notin archiveDir

(* Before its container runs, nothing has been written to a new workspace. *)
Unwritten ==
    /\ \A w \in Workspace : status[w] = "unused" => \A d \in Directory : <<w, d>> \notin written
    /\ op.kind = "create" /\ ~op.launched => \A d \in Directory : <<op.ws, d>> \notin written

(* What the container of a creation has written is where it was written,   *)
(* and all there is unless directories have been restored.                 *)
Workload ==
    op.launched => \A d \in Directory :
      /\ <<op.ws, d>> \in early => live[op.ws][d] = op.ws
      /\ ~op.restored /\ live[op.ws][d] \in Workspace =>
           live[op.ws][d] = op.ws /\ <<op.ws, d>> \in early

(* A restore that stops either leaves nothing in the new workspace or      *)
(* finds that what it moved was discarded meanwhile.                       *)
Restore ==
    /\ op.todo \cup op.moved \subseteq Dirs(op.dir) \cap Dirs(op.ws)
    /\ op.todo \cap op.moved = {}
    /\ \A d \in op.moved : archive[op.dir][d] = Missing
    /\ dirDiscard[op.dir] = "found" \/ op.dir \notin archiveDir => Lost(op.ws)

Restoring ==
    op.kind = "create" /\ ~op.restored /\ ~op.launched =>
      /\ \A d \in Directory \ op.moved : live[op.ws][d] \notin Workspace
      /\ op.step \notin {"restore", "cleanup"} => op.moved = {}
      /\ op.step = "restore" => Restore
      /\ op.step = "cleanup" =>
           Blank(op.ws) \/ (op.claimed /\ op.dir \notin archiveDir /\ Lost(op.ws))

Forgetting == op.step = "forget" => Blank(op.ws)

Kept ==
    \A x \in Workspace, d \in Directory : <<x, d>> \in written \ (condemned \cup early) =>
       \E w \in Workspace : live[w][d] = x \/ archive[w][d] = x

Directories == Places /\ Retired /\ Unwritten /\ Workload /\ Restoring /\ Forgetting /\ Kept

LEMMA KeptMeansSurvives == Kept /\ Typed => DataSurvives
  <1> SUFFICES ASSUME Kept, Typed, NEW p \in written \ (condemned \cup early) PROVE Exists(p)
    BY DEF DataSurvives
  <1>1. PICK x \in Workspace, d \in Directory : p = <<x, d>>
    BY DEF Typed, Stored, Piece
  <1> QED
    BY <1>1 DEF Kept, Exists, LiveIn, ArchivedIn

LEMMA InitDirectories == Init => Directories
  <1> SUFFICES ASSUME Init PROVE Directories
    OBVIOUS
  <1> USE StorageAssumption, IdleTyped DEF Init, Nothing
  <1>1. Rooted /\ Fresh
    BY DEF Rooted, Fresh
  <1>2. Single
    BY DEF Single, SingleIn
  <1>3. Retired
    BY DEF Retired
  <1>4. Restoring /\ Forgetting /\ Kept /\ Unwritten /\ Workload
    BY DEF Restoring, Forgetting, Kept, Unwritten, Workload
  <1> QED
    BY <1>1, <1>2, <1>3, <1>4 DEF Directories, Places

(* The steps that touch the data; the others leave it where it is.         *)
Touches ==
    \/ MakeDirectories \/ CleanUp \/ PrepareStorage \/ ArchiveDirectories
    \/ \E d \in Directory : MoveDirectory(d) \/ AbortMove(d)
    \/ \E w \in Workspace : DiscardDirectory(w) \/ OpenFileManager(w)
                            \/ \E d \in Directory : WriteData(w, d)

LEMMA OthersTouchNothing ==
  ASSUME [Next]_vars, ~Touches
  PROVE  UNCHANGED <<disk, written>>
  <1> USE DEF disk, ghosts
  <1>1. CASE Create
    BY <1>1, CallsOnly DEF Create, OnlyTheCall, Touches, BeginCreate, ClaimVolume, InsertRow, ClaimDirectory,
       LaunchWorkspace, LaunchFailed, EndLaunch
  <1>2. CASE Lifecycle
    BY <1>2, CallsOnly DEF Lifecycle, OnlyTheCall, Touches, Adopt, TimeoutRemoves, CreateContainer,
       CreateRefused, RemoveContainer, ForgetWorkspace, Interrupt
  <1>3. CASE Discard
    BY <1>3 DEF Discard, Touches, FindDirectoryToDiscard, ForgetDirectory, FindVolumeToDiscard,
       DiscardVolume, ForgetVolume
  <1> QED
    BY <1>1, <1>2, <1>3 DEF Next, Touches, vars

(* What no step goes back on.                                              *)
RowsAhead ==
    \A w \in Workspace :
       /\ status'[w] = "unused" => status[w] = "unused"
       /\ status[w] # "unused" => mounts'[w] = mounts[w]
       /\ w \in ran' => w \in ran \/ status[w] # "unused"

RecordsAhead ==
    /\ condemned \subseteq condemned' /\ written \subseteq written'
    /\ \A w \in Workspace : w \in dirTombs' =>
          w \in dirTombs \/ (op.kind = "delete" /\ op.ws = w /\ op' = Idle /\ status'[w] = "absent")
    /\ \A w \in Workspace : dirDiscard'[w] # "no" => dirDiscard[w] # "no" \/ w \in dirTombs

CallAhead ==
    op'.kind = "create" =>
       \/ /\ op.kind = "create" /\ op'.ws = op.ws /\ op'.dir = op.dir
          /\ op.launched => op'.launched
       \/ /\ op = Idle /\ status[op'.ws] = "unused" /\ op'.step \in Unlisted
          /\ op'.moved = {} /\ ~op'.claimed /\ ~op'.restored

LEMMA CreateAhead ==
  ASSUME Typed, Create
  PROVE  RowsAhead /\ RecordsAhead /\ CallAhead
  <1> Turn /\ Stored /\ op \in Calls
    BY DEF Typed, Turn
  <1> USE IdleTyped DEF Finish, Go, Step, tables, disk, ghosts, discards, podman
  <1> DEFINE Onward == op' = Idle \/ (op'.kind = op.kind /\ op'.ws = op.ws /\ op'.dir = op.dir
                                      /\ (op.launched => op'.launched))
  <1>1. CASE OnlyTheCall /\ Onward
    BY <1>1 DEF OnlyTheCall, RowsAhead, RecordsAhead, CallAhead
  <1>2. ASSUME NEW w \in Workspace, NEW t \in Template, NEW dir, NEW from, BeginCreate(w, t, from, dir)
        PROVE  RowsAhead /\ RecordsAhead /\ CallAhead
    BY <1>2 DEF BeginCreate, RowsAhead, RecordsAhead, CallAhead, Stored, Calls, Unlisted, Idle
  <1>3. CASE \/ \E v \in Volume : FindVolume(v)
             \/ CheckVolume \/ ReservePorts \/ FindDirectory \/ CheckDirectories
             \/ EndRestore \/ BootContainer \/ BootFailed \/ Leave
    <2>1. Onward
      <3>1. CASE (\E v \in Volume : FindVolume(v)) \/ CheckVolume
        BY <3>1 DEF FindVolume, CheckVolume, Calls
      <3>2. CASE ReservePorts
        BY <3>2 DEF ReservePorts, Continue, AfterDirectories, Calls
      <3>3. CASE FindDirectory \/ CheckDirectories
        BY <3>3 DEF FindDirectory, CheckDirectories, Calls
      <3>4. CASE EndRestore
        BY <3>4 DEF EndRestore, Continue, AfterDirectories, Calls
      <3>5. CASE Leave \/ BootContainer
        BY <3>5 DEF Leave, BootContainer, Calls
      <3>6. CASE BootFailed
        <4>1. PICK runs \in BOOLEAN : op' = [op EXCEPT !.step = "cleanup", !.launched = runs]
          BY <3>6 DEF BootFailed
        <4>2. ~op.launched
          BY <3>6, Stages DEF BootFailed, Creating, Listed
        <4> QED
          BY <4>1, <4>2 DEF Calls
      <3> QED
        BY <1>3, <3>1, <3>2, <3>3, <3>4, <3>5, <3>6
    <2> QED
      BY <1>1, <1>3, <2>1, CallsOnly
  <1>4. CASE ClaimVolume \/ MakeDirectories \/ ClaimDirectory \/ LaunchFailed
    BY <1>4 DEF ClaimVolume, MakeDirectories, ClaimDirectory, LaunchFailed, RowsAhead, RecordsAhead, CallAhead, Calls
  <1>5. CASE InsertRow
    BY <1>5, Stages DEF InsertRow, RowsAhead, RecordsAhead, CallAhead, Calls, Stored
  <1>6. CASE \E d \in Directory : MoveDirectory(d) \/ AbortMove(d)
    BY <1>6 DEF MoveDirectory, AbortMove, RowsAhead, RecordsAhead, CallAhead, Calls
  <1>7. CASE LaunchWorkspace
    BY <1>7, Stages DEF LaunchWorkspace, Listed, Creating, RowsAhead, RecordsAhead, CallAhead, Calls
  <1>8. CASE CleanUp
    BY <1>8, Stages DEF CleanUp, RowsAhead, RecordsAhead, CallAhead, Stored
  <1>9. CASE EndLaunch
    BY <1>9 DEF EndLaunch, RowsAhead, RecordsAhead, CallAhead, Calls
  <1> QED
    BY <1>2, <1>3, <1>4, <1>5, <1>6, <1>7, <1>8, <1>9 DEF Create

LEMMA NextAhead ==
  ASSUME Typed, [Next]_vars
  PROVE  RowsAhead /\ RecordsAhead /\ CallAhead
  <1> Turn /\ Stored /\ op \in Calls
    BY DEF Typed, Turn
  <1> USE IdleTyped DEF Finish, Go, Step, tables, disk, ghosts, discards, podman
  <1>1. CASE Lifecycle
    <2>1. CASE \E w \in Workspace : BeginStart(w) \/ BeginDelete(w)
      <3>1. CallAhead
        BY <2>1, Begun DEF CallAhead
      <3>2. UNCHANGED <<status, mounts, ran, condemned, written, dirTombs, dirDiscard>>
        BY <2>1 DEF BeginStart, BeginDelete
      <3> QED
        BY <3>1, <3>2 DEF RowsAhead, RecordsAhead
    <2>2. CASE \E w \in Workspace : Adopt(w) \/ TimeoutRemoves(w)
      BY <2>2 DEF Adopt, TimeoutRemoves, RowsAhead, RecordsAhead, CallAhead, Present
    <2>3. CASE PrepareStorage \/ CreateRefused \/ RemoveContainer \/ ArchiveDirectories \/ Interrupt
      BY <2>3, Stages DEF PrepareStorage, CreateRefused, RemoveContainer, ArchiveDirectories,
         Interrupt, RowsAhead, RecordsAhead, CallAhead, Calls
    <2>4. CASE CreateContainer
      BY <2>4, Stages DEF CreateContainer, RowsAhead, RecordsAhead, CallAhead, Present
    <2>5. CASE ForgetWorkspace
      BY <2>5, Stages DEF ForgetWorkspace, RowsAhead, RecordsAhead, CallAhead, Stored
    <2> QED
      BY <1>1, <2>1, <2>2, <2>3, <2>4, <2>5 DEF Lifecycle
  <1>2. CASE Discard
    BY <1>2 DEF Discard, FindDirectoryToDiscard, DiscardDirectory, ForgetDirectory,
       FindVolumeToDiscard, DiscardVolume, ForgetVolume, RowsAhead, RecordsAhead, CallAhead, Stored
  <1>3. CASE \E w \in Workspace : OpenFileManager(w) \/ \E d \in Directory : WriteData(w, d)
    BY <1>3 DEF OpenFileManager, WriteData, RowsAhead, RecordsAhead, CallAhead
  <1>4. CASE UNCHANGED vars
    BY <1>4 DEF vars, RowsAhead, RecordsAhead, CallAhead
  <1> QED
    BY <1>1, <1>2, <1>3, <1>4, CreateAhead DEF Next

(* What the steps that touch the data do, directory by directory.          *)
LEMMA Ensured ==
  ASSUME Stored, NEW w \in Workspace, EnsureDirectories(w),
         NEW u \in Workspace, NEW d \in Directory
  PROVE  \/ live'[u][d] = live[u][d]
         \/ u = w /\ d \in Dirs(w) /\ live[u][d] = Missing /\ live'[u][d] = Empty
  BY DEF EnsureDirectories, Stored, Trees

LEMMA Removed ==
  ASSUME Stored, NEW w \in Workspace, RemoveDirectories(w),
         NEW u \in Workspace, NEW d \in Directory
  PROVE  live'[u][d] = IF u = w THEN Missing ELSE live[u][d]
  BY DEF RemoveDirectories, Stored, Trees, Nothing

(* One directory goes from the archive into an empty one.                  *)
LEMMA Moved ==
  ASSUME Typed, NEW d \in Directory, MoveDirectory(d)
  PROVE  /\ op.kind = "create" /\ op.ws \in Workspace /\ op.dir \in Workspace /\ op.claimed
         /\ live[op.ws][d] = Empty /\ d \in op.todo
         /\ UNCHANGED <<archiveDir, ghosts>>
         /\ op' = [op EXCEPT !.todo = @ \ {d}, !.moved = @ \cup {d}]
  <1>1. op.kind = "create" /\ op.ws \in Workspace /\ op.dir \in Workspace /\ op.claimed
    BY Stages DEF Typed, MoveDirectory, Step, Listed, Creating
  <1> QED
    BY <1>1 DEF MoveDirectory, Typed, Stored, Trees

LEMMA MovedWhere ==
  ASSUME Typed, NEW d \in Directory, MoveDirectory(d),
         NEW u \in Workspace, NEW e \in Directory
  PROVE  /\ live'[u][e] = IF u = op.ws /\ e = d THEN archive[op.dir][d] ELSE live[u][e]
         /\ archive'[u][e] = IF u = op.dir /\ e = d THEN Missing ELSE archive[u][e]
  BY Moved DEF MoveDirectory, Typed, Stored, Trees

(* What an aborted move leaves on disk when the directories in back went   *)
(* back to the archive and the one that failed, d, was removed.            *)
Returned(d, back) ==
    /\ IF op.dir \notin archiveDir THEN back = {} ELSE back = op.moved \/ Holds("stuck")
    /\ \A u \in Workspace, e \in Directory :
         /\ live'[u][e] = IF u = op.ws /\ e \in back \cup {d} THEN Missing ELSE live[u][e]
         /\ archive'[u][e] = IF u = op.dir /\ e \in back THEN live[op.ws][e] ELSE archive[u][e]

(* What was moved goes back, unless the place it came from was discarded.  *)
LEMMA Aborted ==
  ASSUME Typed, NEW d \in Directory, AbortMove(d)
  PROVE  /\ op.kind = "create" /\ op.ws \in Workspace /\ op.dir \in Workspace /\ op.claimed
         /\ op.step = "restore" /\ d \in op.todo
         /\ \E back \in SUBSET op.moved : Returned(d, back)
         /\ UNCHANGED <<archiveDir, ghosts>>
         /\ op' = [op EXCEPT !.step = "cleanup"]
  <1>1. op.kind = "create" /\ op.ws \in Workspace /\ op.dir \in Workspace /\ op.claimed
        /\ op.step = "restore"
    BY Stages DEF Typed, AbortMove, Step, Listed, Creating
  <1>2. PICK back \in SUBSET op.moved :
           /\ IF op.dir \notin archiveDir THEN back = {} ELSE back = op.moved \/ Holds("stuck")
           /\ archive' = [archive EXCEPT ![op.dir] = [e \in Directory |->
                            IF e \in back THEN live[op.ws][e] ELSE @[e]]]
           /\ live' = [live EXCEPT ![op.ws] = [e \in Directory |->
                            IF e \in back \cup {d} THEN Missing ELSE @[e]]]
    BY DEF AbortMove
  <1>3. \A u \in Workspace, e \in Directory :
           live'[u][e] = IF u = op.ws /\ e \in back \cup {d} THEN Missing ELSE live[u][e]
    BY <1>1, <1>2 DEF Typed, Stored, Trees
  <1>4. \A u \in Workspace, e \in Directory :
           archive'[u][e] = IF u = op.dir /\ e \in back THEN live[op.ws][e] ELSE archive[u][e]
    BY <1>1, <1>2 DEF Typed, Stored, Trees
  <1>5. Returned(d, back)
    BY <1>2, <1>3, <1>4 DEF Returned
  <1>6. d \in op.todo /\ UNCHANGED <<archiveDir, ghosts>> /\ op' = [op EXCEPT !.step = "cleanup"]
    BY DEF AbortMove, Go
  <1> QED
    BY <1>1, <1>2, <1>5, <1>6

(* The whole tree goes into the archive, or nothing happens.               *)
LEMMA Archived ==
  ASSUME Typed, ArchiveDirectories
  PROVE  /\ op.kind = "delete" /\ op.ws \in Workspace /\ Present(op.ws)
         /\ UNCHANGED ghosts
         /\ \/ /\ op.ws \notin archiveDir /\ archiveDir' = archiveDir \cup {op.ws}
               /\ \A u \in Workspace, e \in Directory :
                    /\ live'[u][e] = IF u = op.ws THEN Missing ELSE live[u][e]
                    /\ archive'[u][e] = IF u = op.ws THEN live[u][e] ELSE archive[u][e]
               /\ op' = [op EXCEPT !.step = "forget"]
            \/ /\ UNCHANGED disk
               /\ \/ op' = Idle
                  \/ /\ op' = [op EXCEPT !.step = "forget"]
                     /\ Dirs(op.ws) = {} \/ live[op.ws] = Nothing
  <1>1. op.kind = "delete" /\ op.ws \in Workspace /\ Present(op.ws)
    BY Stages DEF Typed, ArchiveDirectories, Step
  <1>2. RemoveDirectories(op.ws) => \A u \in Workspace, e \in Directory :
           live'[u][e] = IF u = op.ws THEN Missing ELSE live[u][e]
    BY <1>1, Removed DEF Typed
  <1>3. archive' = [archive EXCEPT ![op.ws] = live[op.ws]] => \A u \in Workspace, e \in Directory :
           archive'[u][e] = IF u = op.ws THEN live[u][e] ELSE archive[u][e]
    BY <1>1 DEF Typed, Stored, Trees
  <1> QED
    BY <1>1, <1>2, <1>3 DEF ArchiveDirectories, Go, Finish

LEMMA Discarded ==
  ASSUME Stored, NEW a \in Workspace, DiscardDirectory(a)
  PROVE  /\ dirDiscard[a] = "found" /\ UNCHANGED <<live, op, dirTombs, ghosts>>
         /\ \A u \in Workspace, e \in Directory :
              archive'[u][e] = archive[u][e] \/ (u = a /\ archive'[u][e] = Missing)
         /\ \/ /\ archiveDir' = archiveDir \ {a} /\ dirDiscard' = [dirDiscard EXCEPT ![a] = "removed"]
               /\ \A e \in Directory : archive'[a][e] = Missing
            \/ archiveDir' = archiveDir /\ dirDiscard' = [dirDiscard EXCEPT ![a] = "no"]
  <1>1. CASE archive' = [archive EXCEPT ![a] = Nothing]
    BY <1>1 DEF DiscardDirectory, Stored, Trees, Nothing, tables, ghosts
  <1>2. CASE \E part \in SUBSET Dirs(a) :
               archive' = [archive EXCEPT ![a] = [d \in Directory |->
                             IF d \in part THEN Missing ELSE @[d]]]
    BY <1>2 DEF DiscardDirectory, Stored, Trees, Nothing, tables, ghosts
  <1> QED
    BY <1>1, <1>2 DEF DiscardDirectory

LEMMA Written ==
  ASSUME Typed, NEW w \in Workspace, NEW d \in Directory, WriteData(w, d)
  PROVE  /\ Present(w) /\ live[w][d] = Empty /\ <<w, d>> \notin written
         /\ op.ws = w => op.step # "forget" /\ (op.kind = "create" => op.launched)
         /\ written' = written \cup {<<w, d>>} /\ UNCHANGED condemned
         /\ early' = IF op.launched /\ op.ws = w THEN early \cup {<<w, d>>} ELSE early
         /\ UNCHANGED <<tables, archive, archiveDir, op, discards>>
  BY DEF WriteData, Typed, Stored, Trees

LEMMA WrittenWhere ==
  ASSUME Typed, NEW w \in Workspace, NEW d \in Directory, WriteData(w, d),
         NEW u \in Workspace, NEW e \in Directory
  PROVE  live'[u][e] = IF u = w /\ e = d THEN w ELSE live[u][e]
  BY DEF WriteData, Typed, Stored, Trees

(* Steps that make no copy keep Single.                                    *)
LEMMA NoCopy ==
  ASSUME Single, written \subseteq written',
         \A u \in Workspace, e \in Directory :
            /\ live'[u][e] \in Workspace => live'[u][e] = live[u][e]
            /\ archive'[u][e] \in Workspace => archive'[u][e] = archive[u][e]
  PROVE  Single'
  <1> SUFFICES ASSUME NEW w \in Workspace, NEW u \in Workspace, NEW d \in Directory
               PROVE  SingleIn(w, u, d)'
    BY DEF Single
  <1>1. SingleIn(w, u, d) /\ SingleIn(u, w, d)
    BY DEF Single
  <1> QED
    BY <1>1 DEF SingleIn

LEMMA Vacant ==
  /\ Missing \notin Workspace /\ Empty \notin Workspace /\ None \notin Workspace
  /\ Missing # Empty
  BY StorageAssumption DEF Missing, Empty

LEMMA NextSingle ==
  ASSUME Typed, Places, Restoring, [Next]_vars
  PROVE  Single'
  <1> Turn /\ Stored /\ Single
    BY DEF Typed, Places
  <1>0. written \subseteq written'
    BY NextAhead DEF RecordsAhead
  <1>1. CASE UNCHANGED <<disk, written>>
    BY <1>0, <1>1, NoCopy DEF disk
  <1>2. ASSUME NEW w \in Workspace, EnsureDirectories(w), UNCHANGED archive PROVE Single'
    BY <1>0, <1>2, NoCopy, Ensured, Vacant
  <1>3. CASE MakeDirectories \/ PrepareStorage \/ \E w \in Workspace : OpenFileManager(w)
    BY <1>1, <1>2, <1>3, Stages DEF MakeDirectories, PrepareStorage, OpenFileManager, disk, ghosts, Step
  <1>4. CASE CleanUp
    BY <1>0, <1>4, Stages, NoCopy, Removed, Vacant DEF CleanUp, Step
  <1>5. CASE ArchiveDirectories
    <2>1. SUFFICES ASSUME ~UNCHANGED disk, NEW w \in Workspace, NEW u \in Workspace, NEW d \in Directory
                   PROVE  SingleIn(w, u, d)'
      BY <1>1, <1>5, Archived DEF Single, ghosts
    <2>2. UNCHANGED written /\ op.ws \in Workspace /\ archive[op.ws][d] = Missing
      BY <1>5, <2>1, Archived DEF ghosts, Rooted, Places
    <2>3. SingleIn(w, u, d) /\ SingleIn(u, w, d) /\ SingleIn(op.ws, w, d) /\ SingleIn(op.ws, u, d)
      BY <2>2 DEF Single
    <2>4. \A x \in Workspace : /\ live'[x][d] = IF x = op.ws THEN Missing ELSE live[x][d]
                              /\ archive'[x][d] = IF x = op.ws THEN live[x][d] ELSE archive[x][d]
      BY <1>5, <2>1, Archived
    <2> QED
      BY <2>2, <2>3, <2>4, Vacant DEF SingleIn
  <1>6. CASE \E d \in Directory : MoveDirectory(d)
    <2>1. PICK m \in Directory : MoveDirectory(m)
      BY <1>6
    <2>2. SUFFICES ASSUME NEW w \in Workspace, NEW u \in Workspace, NEW d \in Directory
                   PROVE  SingleIn(w, u, d)'
      BY DEF Single
    <2>3. UNCHANGED written /\ op.ws \in Workspace /\ op.dir \in Workspace
      BY <2>1, Moved DEF ghosts
    <2>4. \A x \in Workspace :
            /\ live'[x][d] = IF x = op.ws /\ d = m THEN archive[op.dir][m] ELSE live[x][d]
            /\ archive'[x][d] = IF x = op.dir /\ d = m THEN Missing ELSE archive[x][d]
      BY <2>1, MovedWhere
    <2>5. \A x, y \in {w, u, op.ws, op.dir} : SingleIn(x, y, d)
      BY <2>3 DEF Single
    <2>6. /\ SingleIn(w, u, d) /\ SingleIn(u, w, d) /\ SingleIn(op.dir, w, d) /\ SingleIn(op.dir, u, d)
          /\ SingleIn(op.ws, w, d) /\ SingleIn(op.ws, u, d) /\ SingleIn(w, op.dir, d) /\ SingleIn(u, op.dir, d)
          /\ SingleIn(u, op.ws, d) /\ SingleIn(w, op.ws, d)
      BY <2>5
    <2> QED
      BY <2>3, <2>4, <2>6, Vacant DEF SingleIn
  <1>7. CASE \E d \in Directory : AbortMove(d)
    <2>1. PICK m \in Directory : AbortMove(m)
      BY <1>7
    <2>2. SUFFICES ASSUME NEW w \in Workspace, NEW u \in Workspace, NEW d \in Directory
                   PROVE  SingleIn(w, u, d)'
      BY DEF Single
    <2>3. UNCHANGED written /\ op.ws \in Workspace /\ op.dir \in Workspace
      BY <2>1, Aborted DEF ghosts
    <2>4. PICK back \in SUBSET op.moved : \A x \in Workspace :
            /\ live'[x][d] = IF x = op.ws /\ d \in back \cup {m} THEN Missing ELSE live[x][d]
            /\ archive'[x][d] = IF x = op.dir /\ d \in back THEN live[op.ws][d] ELSE archive[x][d]
      <3>1. PICK back \in SUBSET op.moved : Returned(m, back)
        BY <2>1, Aborted
      <3> QED
        BY <3>1 DEF Returned
    <2>5. \A x, y \in {w, u, op.ws, op.dir} : SingleIn(x, y, d)
      BY <2>3 DEF Single
    <2>6. /\ SingleIn(w, u, d) /\ SingleIn(u, w, d) /\ SingleIn(op.dir, w, d) /\ SingleIn(op.dir, u, d)
          /\ SingleIn(op.ws, w, d) /\ SingleIn(op.ws, u, d) /\ SingleIn(w, op.dir, d) /\ SingleIn(u, op.dir, d)
          /\ SingleIn(u, op.ws, d) /\ SingleIn(w, op.ws, d)
      BY <2>5
    <2> QED
      BY <2>3, <2>4, <2>6, Vacant DEF SingleIn
  <1>8. CASE \E a \in Workspace : DiscardDirectory(a)
    BY <1>0, <1>8, NoCopy, Discarded, Vacant
  <1>9. CASE \E w \in Workspace, d \in Directory : WriteData(w, d)
    <2>1. PICK y \in Workspace, m \in Directory : WriteData(y, m)
      BY <1>9
    <2>2. SUFFICES ASSUME NEW w \in Workspace, NEW u \in Workspace, NEW d \in Directory
                   PROVE  SingleIn(w, u, d)'
      BY DEF Single
    <2>3. /\ written' = written \cup {<<y, m>>} /\ <<y, m>> \notin written /\ UNCHANGED archive
          /\ \A x \in Workspace : live'[x][d] = IF x = y /\ d = m THEN y ELSE live[x][d]
      BY <2>1, Written, WrittenWhere
    <2>4. \A x, z \in Workspace : SingleIn(x, z, d)
      BY DEF Single
    <2> QED
      BY <2>3, <2>4, Vacant DEF SingleIn
  <1> QED
    BY <1>1, <1>3, <1>4, <1>5, <1>6, <1>7, <1>8, <1>9, OthersTouchNothing DEF Touches

LEMMA NextRooted ==
  ASSUME Typed, Places, Restoring, Retired, [Next]_vars
  PROVE  Rooted'
  <1> Turn /\ Stored /\ Rooted /\ Fresh
    BY DEF Typed, Places
  <1>0. \A w \in Workspace, d \in Directory :
           live[w][d] # Missing \/ archive[w][d] # Missing => Dirs(w)' = Dirs(w)
    BY NextAhead DEF RowsAhead, Dirs, Fresh
  <1>1. CASE UNCHANGED <<disk, written>>
    BY <1>0, <1>1 DEF disk, Rooted
  <1>2. ASSUME NEW w \in Workspace, EnsureDirectories(w), UNCHANGED <<archive, archiveDir, mounts>> PROVE Rooted'
    BY <1>2, Ensured DEF Rooted, Dirs
  <1>3. CASE MakeDirectories \/ PrepareStorage \/ \E w \in Workspace : OpenFileManager(w)
    BY <1>1, <1>2, <1>3, Stages DEF MakeDirectories, PrepareStorage, OpenFileManager, disk, ghosts, Step, tables
  <1>4. CASE CleanUp
    BY <1>4, Stages, Removed DEF CleanUp, Step, Rooted, Dirs
  <1>5. CASE ArchiveDirectories
    <2>1. UNCHANGED mounts
      BY <1>5 DEF ArchiveDirectories, tables
    <2> QED
      BY <1>1, <1>5, <2>1, Archived DEF Rooted, ghosts, Dirs, disk
  <1>6. CASE \E d \in Directory : MoveDirectory(d)
    <2>1. PICK d \in Directory : MoveDirectory(d)
      BY <1>6
    <2>2. UNCHANGED mounts /\ d \in Dirs(op.ws)
      BY <2>1, Stages, Moved DEF MoveDirectory, tables, Restoring, Restore, Step, Listed, Creating, Launching
    <2> QED
      <3>1. \A u \in Workspace, e \in Directory :
               /\ live'[u][e] = live[u][e] \/ (u = op.ws /\ e = d)
               /\ archive'[u][e] = archive[u][e] \/ archive'[u][e] = Missing
        BY <2>1, MovedWhere
      <3>2. UNCHANGED <<archiveDir, mounts>>
        BY <2>1, <2>2, Moved
      <3> QED
        BY <2>2, <3>1, <3>2 DEF Rooted, Dirs
  <1>7. CASE \E d \in Directory : AbortMove(d)
    <2>1. PICK d \in Directory : AbortMove(d)
      BY <1>7
    <2>2. UNCHANGED mounts /\ op.moved \subseteq Dirs(op.dir)
      BY <2>1, Aborted, Stages DEF AbortMove, tables, Restoring, Restore, Step, Listed, Creating, Launching
    <2>3. op.ws \in Workspace /\ op.dir \in Workspace /\ Missing \notin Workspace
      BY <2>1, Aborted, Vacant
    <2>4. PICK back \in SUBSET op.moved : Returned(d, back)
      BY <2>1, Aborted
    <2>5. \A u \in Workspace, e \in Directory :
             /\ live'[u][e] # Missing => live[u][e] # Missing
             /\ archive'[u][e] # Missing =>
                  archive[u][e] # Missing \/ (u = op.dir /\ e \in op.moved /\ u \in archiveDir)
      BY <2>4 DEF Returned
    <2>6. archiveDir' = archiveDir /\ \A u \in Workspace : Dirs(u)' = Dirs(u)
      BY <2>1, <2>2, Aborted DEF Dirs
    <2> QED
      BY <2>2, <2>3, <2>5, <2>6 DEF Rooted
  <1>8. CASE \E a \in Workspace : DiscardDirectory(a)
    <2>1. UNCHANGED mounts
      BY <1>8 DEF DiscardDirectory, tables
    <2> QED
      BY <1>8, <2>1, Discarded DEF Rooted, Dirs
  <1>9. CASE \E w \in Workspace, d \in Directory : WriteData(w, d)
    <2>1. PICK y \in Workspace, m \in Directory : WriteData(y, m)
      BY <1>9
    <2>2. UNCHANGED <<mounts, archive, archiveDir>> /\ live[y][m] = Empty
      BY <2>1, Written DEF tables
    <2>3. \A x \in Workspace, d \in Directory :
             live'[x][d] = live[x][d] \/ (x = y /\ d = m)
      BY <2>1, WrittenWhere
    <2> QED
      BY <2>2, <2>3, Vacant DEF Rooted, Dirs
  <1> QED
    BY <1>1, <1>3, <1>4, <1>5, <1>6, <1>7, <1>8, <1>9, OthersTouchNothing DEF Touches

LEMMA NextFresh ==
  ASSUME Typed, Typed', Places, Restoring, Retired, [Next]_vars
  PROVE  Fresh'
  <1> Turn /\ Stored /\ Rooted /\ Fresh
    BY DEF Typed, Places
  <1>0. RowsAhead /\ CallAhead
    BY NextAhead
  <1>1. SUFFICES /\ \A w \in Workspace, d \in Directory :
                      status[w] = "unused" => live'[w][d] = Missing /\ archive'[w][d] = Missing
                 /\ op.kind = "create" /\ op'.kind = "create" => \A d \in Directory : archive'[op.ws][d] = Missing
    BY <1>0 DEF RowsAhead, CallAhead, Fresh, Typed, Turn, Creating
  <1>2. CASE UNCHANGED <<disk, written>>
    BY <1>2 DEF disk, Fresh
  <1>3. ASSUME NEW w \in Workspace, EnsureDirectories(w), UNCHANGED archive, status[w] # "unused"
        PROVE  \A u \in Workspace, d \in Directory : status[u] = "unused" => live'[u][d] = Missing
    BY <1>3, Ensured DEF Fresh
  <1>4. CASE MakeDirectories \/ PrepareStorage \/ \E w \in Workspace : OpenFileManager(w)
    BY <1>2, <1>3, <1>4, Stages DEF MakeDirectories, PrepareStorage, OpenFileManager, disk, ghosts, Step, tables,
       Unlisted, Creating, Present, Fresh
  <1>5. CASE CleanUp
    BY <1>5, Stages, Removed DEF CleanUp, Step, Fresh
  <1>6. CASE ArchiveDirectories
    BY <1>2, <1>6, Archived DEF Fresh, ghosts, disk, Present
  <1>7. CASE \E d \in Directory : MoveDirectory(d)
    <2>1. PICK d \in Directory : MoveDirectory(d)
      BY <1>7
    <2>2. op.kind = "create" /\ op.ws \in Workspace /\ status[op.ws] # "unused"
      BY <2>1, Moved DEF Turn, Creating
    <2> QED
      BY <2>1, <2>2, MovedWhere DEF Fresh
  <1>8. CASE \E d \in Directory : AbortMove(d)
    <2>1. PICK d \in Directory : AbortMove(d)
      BY <1>8
    <2>2. /\ op.ws \in Workspace /\ op.dir \in Workspace /\ op.claimed /\ op.kind = "create"
          /\ status' = status /\ archiveDir' = archiveDir
      BY <2>1, Aborted DEF AbortMove, tables
    <2>3. Gone(op.dir)
      BY <2>2 DEF Retired
    <2>4. status[op.ws] # "unused" /\ status[op.dir] # "unused" /\ op.ws # op.dir
      BY <2>1, <2>2, <2>3, Aborted DEF Turn, Creating, Gone
    <2>5. PICK back \in SUBSET op.moved : Returned(d, back)
      BY <2>1, Aborted
    <2>6. \A u \in Workspace, e \in Directory : status[u] = "unused" =>
            live'[u][e] = live[u][e] /\ archive'[u][e] = archive[u][e]
      BY <2>4, <2>5 DEF Returned
    <2>7. \A e \in Directory : archive'[op.ws][e] = archive[op.ws][e]
      BY <2>2, <2>4, <2>5 DEF Returned
    <2>8. \A w \in Workspace, e \in Directory : status[w] = "unused" =>
            live'[w][e] = Missing /\ archive'[w][e] = Missing
      BY <2>6 DEF Fresh
    <2>9. \A e \in Directory : archive'[op.ws][e] = Missing
      BY <2>2, <2>7 DEF Fresh
    <2> QED
      BY <2>8, <2>9
  <1>9. CASE \E a \in Workspace : DiscardDirectory(a)
    <2>1. PICK a \in Workspace : DiscardDirectory(a)
      BY <1>9
    <2>2. UNCHANGED <<live, op>>
      BY <2>1, Discarded
    <2>3. \A u \in Workspace, d \in Directory :
             archive'[u][d] = archive[u][d] \/ archive'[u][d] = Missing
      BY <2>1, Discarded
    <2>4. op.kind = "create" => op.ws \in Workspace
      BY DEF Turn, Creating
    <2> QED
      BY <2>2, <2>3, <2>4 DEF Fresh
  <1>10. CASE \E w \in Workspace, d \in Directory : WriteData(w, d)
    <2>1. PICK y \in Workspace, m \in Directory : WriteData(y, m)
      BY <1>10
    <2>2. UNCHANGED <<archive, op>> /\ status[y] = "present"
      BY <2>1, Written DEF Present
    <2>3. \A x \in Workspace, d \in Directory : live'[x][d] = live[x][d] \/ x = y
      BY <2>1, WrittenWhere
    <2> QED
      BY <2>2, <2>3 DEF Fresh
  <1> QED
    BY <1>2, <1>4, <1>5, <1>6, <1>7, <1>8, <1>9, <1>10, OthersTouchNothing DEF Touches

(* A claim is kept or new; so is the state of a discard.                   *)
LEMMA ClaimAhead ==
  ASSUME Typed, [Next]_vars, op'.claimed, ~ClaimDirectory
  PROVE  op.claimed
  <1> op \in Calls
    BY DEF Typed, Turn
  <1> SUFFICES ASSUME op' # op, op' # Idle PROVE op.claimed
    BY IdleTyped
  <1> USE IdleTyped DEF Finish, Go, Step, Calls
  <1>1. CASE Create
    <2>1. ASSUME NEW w \in Workspace, NEW t \in Template, NEW dir, NEW from, BeginCreate(w, t, from, dir)
          PROVE  op.claimed
      BY <2>1 DEF BeginCreate
    <2>2. CASE \/ \E v \in Volume : FindVolume(v)
               \/ ClaimVolume \/ CheckVolume \/ MakeDirectories \/ InsertRow
      BY <2>2 DEF FindVolume, ClaimVolume, CheckVolume, MakeDirectories, InsertRow
    <2>3. CASE ReservePorts \/ FindDirectory \/ CheckDirectories \/ EndRestore \/ Leave
      BY <2>3 DEF ReservePorts, FindDirectory, CheckDirectories, EndRestore, Leave, Continue
    <2>4. CASE (\E d \in Directory : MoveDirectory(d) \/ AbortMove(d)) \/ LaunchWorkspace \/ LaunchFailed
               \/ BootContainer \/ BootFailed \/ EndLaunch \/ CleanUp
      BY <2>4 DEF MoveDirectory, AbortMove, LaunchWorkspace, LaunchFailed, BootContainer, BootFailed, EndLaunch,
         CleanUp
    <2> QED
      BY <1>1, <2>1, <2>2, <2>3, <2>4 DEF Create
  <1>2. CASE Lifecycle
    BY <1>2 DEF Lifecycle, BeginStart, BeginDelete, Adopt, TimeoutRemoves, PrepareStorage, CreateContainer,
       CreateRefused, RemoveContainer, ArchiveDirectories, ForgetWorkspace, Interrupt
  <1>3. CASE Discard
    BY <1>3 DEF Discard, FindDirectoryToDiscard, DiscardDirectory, ForgetDirectory,
       FindVolumeToDiscard, DiscardVolume, ForgetVolume
  <1>4. CASE \E w \in Workspace : OpenFileManager(w) \/ \E d \in Directory : WriteData(w, d)
    BY <1>4 DEF OpenFileManager, WriteData
  <1> QED
    BY <1>1, <1>2, <1>3, <1>4 DEF Next, vars

LEMMA DiscardAhead ==
  ASSUME Typed, [Next]_vars, NEW a \in Workspace
  PROVE  \/ dirDiscard'[a] \in {dirDiscard[a], "no"}
         \/ FindDirectoryToDiscard(a) \/ DiscardDirectory(a)
  <1> Stored
    BY DEF Typed
  <1>0. CASE UNCHANGED dirDiscard
    BY <1>0
  <1>1. CASE Discard
    BY <1>1 DEF Discard, FindDirectoryToDiscard, DiscardDirectory, ForgetDirectory,
       FindVolumeToDiscard, DiscardVolume, ForgetVolume, Stored
  <1>2. CASE Lifecycle
    BY <1>0, <1>2, CallsOnly DEF Lifecycle, OnlyTheCall, discards, Adopt, TimeoutRemoves, PrepareStorage,
       CreateContainer, CreateRefused, RemoveContainer, ArchiveDirectories, ForgetWorkspace, Interrupt
  <1>3. CASE Create
    BY <1>0, <1>3, CallsOnly DEF Create, OnlyTheCall, discards, BeginCreate, ClaimVolume, MakeDirectories,
       InsertRow, ClaimDirectory, MoveDirectory, AbortMove, LaunchWorkspace, LaunchFailed, EndLaunch, CleanUp
  <1>4. CASE \E w \in Workspace : OpenFileManager(w) \/ \E d \in Directory : WriteData(w, d)
    BY <1>0, <1>4 DEF OpenFileManager, WriteData, discards
  <1> QED
    BY <1>0, <1>1, <1>2, <1>3, <1>4 DEF Next, vars, discards

(* Only a delete adds to the archive, and only a creation that rolls back. *)
LEMMA ArchiveAhead ==
  ASSUME Typed, [Next]_vars, NEW a \in Workspace, Gone(a)
  PROVE  /\ a \in archiveDir' => a \in archiveDir
         /\ \A d \in Directory : \/ archive'[a][d] \in {archive[a][d], Missing}
                                 \/ /\ \E e \in Directory : AbortMove(e)
                                    /\ a = op.dir /\ d \in op.moved /\ archive'[a][d] = live[op.ws][d]
                                    /\ a \in archiveDir
  <1> Stored
    BY DEF Typed
  <1>1. CASE UNCHANGED <<archive, archiveDir>>
    BY <1>1
  <1>2. CASE MakeDirectories \/ CleanUp \/ PrepareStorage \/ \E w \in Workspace : OpenFileManager(w)
    BY <1>1, <1>2 DEF MakeDirectories, CleanUp, PrepareStorage, OpenFileManager
  <1>3. CASE ArchiveDirectories
    BY <1>1, <1>3, Archived DEF Gone, Present, disk
  <1>4. CASE \E d \in Directory : MoveDirectory(d)
    <2>1. PICK e \in Directory : MoveDirectory(e)
      BY <1>4
    <2>2. archiveDir' = archiveDir
      BY <2>1, Moved
    <2>3. ASSUME NEW d \in Directory PROVE archive'[a][d] \in {archive[a][d], Missing}
      BY <2>1, MovedWhere
    <2> QED
      BY <2>2, <2>3
  <1>5. CASE \E d \in Directory : AbortMove(d)
    <2>1. PICK e \in Directory : AbortMove(e)
      BY <1>5
    <2>2. archiveDir' = archiveDir
      BY <2>1, Aborted
    <2>3. ASSUME NEW d \in Directory
          PROVE  archive'[a][d] = archive[a][d] \/ (a = op.dir /\ d \in op.moved /\ archive'[a][d] = live[op.ws][d] /\ a \in archiveDir)
      <3>1. PICK back \in SUBSET op.moved : Returned(e, back)
        BY <2>1, Aborted
      <3> QED
        BY <3>1 DEF Returned
    <2> QED
      BY <2>1, <2>2, <2>3
  <1>6. CASE \E w \in Workspace : DiscardDirectory(w)
    BY <1>6, Discarded
  <1>7. CASE \E w \in Workspace, d \in Directory : WriteData(w, d)
    BY <1>1, <1>7, Written
  <1> QED
    BY <1>1, <1>2, <1>3, <1>4, <1>5, <1>6, <1>7, OthersTouchNothing DEF Touches, disk

LEMMA NextRetired ==
  ASSUME Typed, Typed', Directories, [Next]_vars
  PROVE  Retired'
  <1> Turn /\ Stored /\ Retired
    BY DEF Typed, Directories
  <1>1. RecordsAhead /\ CallAhead
    BY NextAhead
  <1>2. ASSUME NEW a \in Workspace, a \in dirTombs' \/ dirDiscard'[a] # "no" PROVE Gone(a)'
    BY <1>1, <1>2, GoneForGood, IdleTyped DEF Retired, RecordsAhead, Gone
  <1>3. (op.claimed => Gone(op.dir) /\ op.dir \notin dirTombs)'
    <2> SUFFICES ASSUME op'.claimed PROVE (Gone(op.dir) /\ op.dir \notin dirTombs)'
      OBVIOUS
    <2>1. PICK a \in Workspace : op'.dir = a
      BY DEF Typed, Turn, Creating
    <2>2. Gone(a) /\ a \notin dirTombs'
      <3>1. CASE ClaimDirectory
        <4>1. op.dir = a /\ a \in dirTombs /\ a \notin dirTombs'
          BY <2>1, <3>1 DEF ClaimDirectory, Go, Step, Turn, Creating, Launching, Calls
        <4> QED
          BY <4>1 DEF Retired
      <3>2. CASE op.claimed
        <4>1. op.dir = a
          BY <1>1, <2>1 DEF CallAhead, Typed, Turn
        <4>2. op' # Idle
          BY IdleTyped
        <4> QED
          BY <1>1, <3>2, <4>1, <4>2 DEF RecordsAhead, Retired
      <3> QED
        BY <3>1, <3>2, ClaimAhead
    <2>3. Gone(a)'
      BY <2>2, GoneForGood
    <2> QED
      BY <2>1, <2>2, <2>3 DEF Gone
  <1>4. ASSUME NEW a \in Workspace, dirDiscard'[a] = "found",
               NEW d \in Directory, archive'[a][d] \in Workspace
        PROVE  <<archive'[a][d], d>> \in condemned'
    <2>1. CASE FindDirectoryToDiscard(a)
      <3>1. archive'[a][d] = archive[a][d] /\ <<archive[a][d], d>> \in written
        BY <1>4, <2>1 DEF FindDirectoryToDiscard, disk, Directories, Places, Single, SingleIn
      <3> QED
        BY <2>1, <3>1 DEF FindDirectoryToDiscard
    <2>2. CASE dirDiscard[a] = "found"
      <3>1. Gone(a)
        BY <2>2 DEF Retired
      <3>2. CASE archive'[a][d] = archive[a][d]
        BY <1>1, <1>4, <2>2, <3>2 DEF RecordsAhead, Retired
      <3>3. CASE /\ \E e \in Directory : AbortMove(e)
                 /\ a = op.dir /\ archive'[a][d] = live[op.ws][d]
        <4>1. op.kind = "create" /\ op.step = "restore" /\ ~op.restored /\ ~op.launched
          BY <3>3, Aborted DEF Turn, Creating, Launching
        <4>2. Lost(op.ws)
          BY <2>2, <3>3, <4>1 DEF Directories, Restoring, Restore
        <4> QED
          BY <1>1, <1>4, <3>3, <4>2 DEF Lost, RecordsAhead
      <3> QED
        BY <1>4, <3>1, <3>2, <3>3, ArchiveAhead, Vacant
    <2> QED
      BY <1>4, <2>1, <2>2, DiscardAhead, Discarded DEF Stored
  <1>5. ASSUME NEW a \in Workspace, dirDiscard'[a] = "removed" PROVE a \notin archiveDir'
    <2>1. CASE DiscardDirectory(a)
      BY <1>5, <2>1, Discarded DEF Stored
    <2>2. CASE dirDiscard[a] = "removed"
      BY <2>2, ArchiveAhead DEF Retired
    <2>3. ~FindDirectoryToDiscard(a)
      BY <1>5 DEF FindDirectoryToDiscard, Stored
    <2> QED
      BY <1>5, <2>1, <2>2, <2>3, DiscardAhead
  <1> QED
    BY <1>2, <1>3, <1>4, <1>5 DEF Retired

(* A creation under way, its storage touched by nobody else but a discard. *)
LEMMA RestoringStays ==
  ASSUME Typed, Restoring, UNCHANGED op, RowsAhead, condemned \subseteq condemned',
         op.kind = "create" /\ ~op.restored /\ ~op.launched,
         \A d \in Directory : live'[op.ws][d] \in Workspace => live'[op.ws][d] = live[op.ws][d],
         op.claimed => /\ \A d \in Directory : archive[op.dir][d] = Missing => archive'[op.dir][d] = Missing
                       /\ op.dir \notin archiveDir => op.dir \notin archiveDir'
                       /\ dirDiscard'[op.dir] = "found" \/ op.dir \notin archiveDir' =>
                            dirDiscard[op.dir] = "found" \/ op.dir \notin archiveDir,
         op.claimed => status[op.dir] # "unused"
  PROVE  Restoring'
  <1> op \in Calls /\ op.ws \in Workspace /\ status[op.ws] # "unused"
    BY DEF Typed, Turn, Creating
  <1>1. Blank(op.ws) => Blank(op.ws)'
    BY DEF Blank
  <1>2. Lost(op.ws) => Lost(op.ws)'
    BY DEF Lost
  <1>3. op.step = "restore" => Restore'
    <2> SUFFICES ASSUME op.step = "restore" PROVE Restore'
      OBVIOUS
    <2>1. op.claimed /\ op.dir \in Workspace
      BY DEF Typed, Turn, Creating
    <2>2. Dirs(op.dir)' = Dirs(op.dir) /\ Dirs(op.ws)' = Dirs(op.ws)
      BY <2>1 DEF RowsAhead, Dirs
    <2>3. Restore /\ op.moved \subseteq Directory
      BY DEF Restoring, Calls
    <2> QED
      BY <2>1, <2>2, <2>3, <1>2 DEF Restore
  <1>4. \A d \in Directory \ op.moved : live'[op.ws][d] \notin Workspace
    BY DEF Restoring
  <1> QED
    BY <1>1, <1>2, <1>3, <1>4 DEF Restoring

(* Before the restore and after it, the new workspace has no data.         *)
LEMMA RestoringBlank ==
  ASSUME Typed, Restoring, op.kind = "create" /\ ~op.restored /\ ~op.launched,
         op.step \notin {"restore", "cleanup"},
         op'.ws = op.ws, op'.moved = op.moved, op'.step # "restore",
         \A d \in Directory : live'[op.ws][d] \in Workspace => live'[op.ws][d] = live[op.ws][d]
  PROVE  Restoring'
  <1>1. op.moved = {} /\ Blank(op.ws)
    BY DEF Restoring, Blank
  <1>2. Blank(op.ws)'
    BY <1>1 DEF Blank
  <1> QED
    BY <1>1, <1>2 DEF Restoring, Blank

(* The steps of the creation itself. *)
LEMMA CreateRestoring ==
  ASSUME "stuck" \notin Fault, Typed, Directories, [Next]_vars, Create
  PROVE  Restoring'
  <1> Turn /\ Stored /\ op \in Calls /\ Restoring
    BY DEF Typed, Turn, Directories
  <1> SUFFICES ASSUME op'.kind = "create", ~op'.restored, ~op'.launched PROVE Restoring'
    BY DEF Restoring
  <1>a. ~op.launched
    BY NextAhead, OpIdle, IdleTyped DEF CallAhead, Creating
  <1> USE <1>a, IdleTyped DEF Finish, Go, Step, disk
  <1>0. op' # Idle
    OBVIOUS
  <1>1. ASSUME NEW w \in Workspace, NEW t \in Template, NEW dir, NEW from, BeginCreate(w, t, from, dir)
        PROVE  Restoring'
    <2>1. op'.ws = w /\ op'.step \in {"makeDirs", "findVolume"}
      BY <1>1 DEF BeginCreate, Calls
    <2>2. \A d \in Directory : live'[w][d] = Missing
      BY <1>1 DEF BeginCreate, Directories, Places, Fresh
    <2>3. op'.moved = {}
      BY <1>1 DEF BeginCreate, Idle
    <2> QED
      BY <2>1, <2>2, <2>3, Vacant DEF Restoring
  <1>2. CASE \/ \E v \in Volume : FindVolume(v)
             \/ ClaimVolume \/ CheckVolume \/ InsertRow \/ ReservePorts \/ FindDirectory \/ ClaimDirectory
             \/ LaunchWorkspace \/ LaunchFailed \/ BootFailed \/ EndLaunch
    <2>1. /\ UNCHANGED live
          /\ op.step \in Unlisted \cup {"ports", "findDir", "claimDir", "launch", "boot", "booted"}
          /\ op'.ws = op.ws /\ op'.moved = op.moved /\ op'.step # "restore" /\ op'.restored = op.restored
      <3>1. CASE (\E v \in Volume : FindVolume(v)) \/ ClaimVolume \/ CheckVolume
        <4>1. CASE \E v \in Volume : FindVolume(v)
          BY <1>0, <4>1 DEF FindVolume, Unlisted, Calls
        <4>2. CASE ClaimVolume
          BY <1>0, <4>2 DEF ClaimVolume, Unlisted, Calls
        <4>3. CASE CheckVolume
          BY <1>0, <4>3 DEF CheckVolume, Unlisted, Calls
        <4> QED
          BY <3>1, <4>1, <4>2, <4>3
      <3>2. CASE InsertRow \/ ReservePorts
        BY <1>0, <3>2, CallsOnly DEF OnlyTheCall, InsertRow, ReservePorts, Continue, AfterDirectories,
           Unlisted, Calls
      <3>3. CASE FindDirectory \/ ClaimDirectory
        BY <1>0, <3>3, CallsOnly DEF OnlyTheCall, FindDirectory, ClaimDirectory, Unlisted, Calls
      <3>4. CASE LaunchWorkspace \/ LaunchFailed \/ EndLaunch
        BY <1>0, <3>4, CallsOnly DEF OnlyTheCall, LaunchWorkspace, LaunchFailed, EndLaunch, Unlisted, Calls
      <3>5. CASE BootFailed
        <4>1. PICK runs \in BOOLEAN : op' = [op EXCEPT !.step = "cleanup", !.launched = runs]
          BY <3>5 DEF BootFailed
        <4> QED
          BY <3>5, <4>1, CallsOnly DEF OnlyTheCall, BootFailed, Calls
      <3> QED
        BY <1>2, <3>1, <3>2, <3>3, <3>4, <3>5
    <2> QED
      BY <2>1, Stages, RestoringBlank DEF Unlisted, Listed
  <1>3. CASE MakeDirectories
    <2>1. /\ op.step = "makeDirs" /\ op'.ws = op.ws /\ op'.moved = op.moved /\ op'.step = "insertRow"
          /\ op'.restored = op.restored
      BY <1>0, <1>3 DEF MakeDirectories, Calls
    <2>2. op.kind = "create" /\ op.ws \in Workspace
      BY <2>1, Stages DEF Unlisted
    <2>3. \A d \in Directory : live'[op.ws][d] \in Workspace => live'[op.ws][d] = live[op.ws][d]
      BY <1>0, <1>3, <2>2, Ensured, Vacant DEF MakeDirectories
    <2> QED
      BY <2>1, <2>2, <2>3, RestoringBlank
  <1>4. CASE CheckDirectories
    <2>1. op.step = "checkDir" /\ op.kind = "create" /\ op.claimed /\ op.ws \in Workspace /\ op.dir \in Workspace
      BY <1>4, Stages DEF CheckDirectories, Listed, Creating
    <2>2. op'.ws = op.ws /\ op'.moved = op.moved /\ op'.restored = op.restored /\ op'.dir = op.dir
          /\ UNCHANGED <<live, mounts>>
      BY <1>4, CallsOnly DEF CheckDirectories, Calls, OnlyTheCall, tables
    <2>3. CASE op'.step # "restore"
      BY <2>1, <2>2, <2>3, RestoringBlank
    <2>4. CASE op'.step = "restore"
      <3>1. op.moved = {} /\ Blank(op.ws)'
        BY <2>1, <2>2 DEF Restoring, Blank
      <3>2. op'.todo = Dirs(op.dir) /\ Dirs(op.dir) \subseteq Dirs(op.ws)
        BY <1>4, <2>4 DEF CheckDirectories, Calls
      <3>3. Restore'
        BY <2>2, <3>1, <3>2 DEF Restore, Lost, Blank, Dirs
      <3> QED
        BY <2>2, <2>4, <3>1, <3>3 DEF Restoring, Blank
    <2> QED
      BY <2>3, <2>4
  <1>5. CASE \E d \in Directory : MoveDirectory(d)
    <2>1. PICK d \in Directory : MoveDirectory(d)
      BY <1>5
    <2>2. /\ op.ws \in Workspace /\ op.dir \in Workspace /\ op.claimed /\ op.kind = "create" /\ d \in op.todo
          /\ UNCHANGED <<archiveDir, condemned>> /\ op' = [op EXCEPT !.todo = @ \ {d}, !.moved = @ \cup {d}]
      BY <2>1, Moved DEF ghosts
    <2>3. op.step = "restore" /\ UNCHANGED <<dirDiscard, mounts>> /\ archive[op.dir][d] # Missing
      BY <2>1 DEF MoveDirectory, discards, tables
    <2>4. Restore /\ \A e \in Directory \ op.moved : live[op.ws][e] \notin Workspace
      BY <2>2, <2>3 DEF Restoring, Calls
    <2>5. \A e \in Directory : /\ live'[op.ws][e] = IF e = d THEN archive[op.dir][d] ELSE live[op.ws][e]
                               /\ archive'[op.dir][e] = IF e = d THEN Missing ELSE archive[op.dir][e]
      BY <2>1, <2>2, MovedWhere
    <2>6. dirDiscard[op.dir] = "found" \/ op.dir \notin archiveDir => Lost(op.ws)'
      <3> SUFFICES ASSUME dirDiscard[op.dir] = "found" \/ op.dir \notin archiveDir PROVE Lost(op.ws)'
        OBVIOUS
      <3>1. dirDiscard[op.dir] = "found"
        BY <2>2, <2>3 DEF Directories, Places, Rooted
      <3>2. archive[op.dir][d] \in Workspace => <<archive[op.dir][d], d>> \in condemned
        BY <2>2, <3>1 DEF Directories, Retired
      <3> QED
        BY <2>2, <2>4, <2>5, <3>2 DEF Restore, Lost
    <2>7. op'.todo = op.todo \ {d} /\ op'.moved = op.moved \cup {d} /\ op'.ws = op.ws /\ op'.dir = op.dir
          /\ op'.step = "restore"
      BY <2>2, <2>3 DEF Calls
    <2>8. Restore'
      BY <2>2, <2>3, <2>4, <2>5, <2>6, <2>7 DEF Restore, Dirs, Lost, Calls
    <2> QED
      BY <2>4, <2>5, <2>7, <2>8 DEF Restoring
  <1>6. CASE \E d \in Directory : AbortMove(d)
    <2>1. PICK d \in Directory : AbortMove(d)
      BY <1>6
    <2>2. /\ op.ws \in Workspace /\ op.dir \in Workspace /\ op.claimed /\ op.kind = "create"
          /\ op.step = "restore" /\ UNCHANGED <<archiveDir, condemned>>
          /\ op'.step = "cleanup" /\ op'.ws = op.ws /\ op'.dir = op.dir /\ op'.claimed /\ ~op.restored
          /\ op'.moved = op.moved
      BY <2>1, Aborted DEF ghosts, Calls
    <2>3. Restore /\ \A e \in Directory \ op.moved : live[op.ws][e] \notin Workspace
      BY <2>2 DEF Restoring
    <2>4. PICK back \in SUBSET op.moved :
            /\ IF op.dir \notin archiveDir THEN back = {} ELSE back = op.moved
            /\ \A e \in Directory : live'[op.ws][e] = IF e \in back \cup {d} THEN Missing ELSE live[op.ws][e]
      <3>1. PICK back \in SUBSET op.moved : Returned(d, back)
        BY <2>1, Aborted
      <3>2. ~Holds("stuck") /\ op.ws \in Workspace
        BY <2>2 DEF Holds
      <3> QED
        BY <3>1, <3>2 DEF Returned
    <2>5. CASE op.dir \in archiveDir
      BY <2>2, <2>3, <2>4, <2>5, Vacant DEF Restoring, Blank
    <2>6. CASE op.dir \notin archiveDir
      <3>1. Lost(op.ws)'
        BY <2>2, <2>3, <2>4, <2>6, Vacant DEF Restore, Lost
      <3> QED
        BY <2>2, <2>3, <2>4, <2>6, <3>1, Vacant DEF Restoring, Lost
    <2> QED
      BY <2>5, <2>6
  <1>7. CASE EndRestore \/ BootContainer \/ CleanUp
    BY <1>7 DEF EndRestore, BootContainer, CleanUp, Continue, Calls
  <1>8. CASE Leave
    <2>1. op.kind = "create" /\ op' = [op EXCEPT !.left = TRUE] /\ OnlyTheCall
      BY <1>8, CallsOnly DEF Leave
    <2> QED
      BY <2>1 DEF OnlyTheCall, tables, discards, ghosts, Restoring, Restore, Blank, Lost, Dirs, Calls
  <1> QED
    BY <1>1, <1>2, <1>3, <1>4, <1>5, <1>6, <1>7, <1>8 DEF Create

LEMMA NextRestoring ==
  ASSUME "stuck" \notin Fault, Typed, Directories, [Next]_vars
  PROVE  Restoring'
  <1> Turn /\ Stored /\ op \in Calls /\ Restoring /\ Single /\ Retired
    BY DEF Typed, Turn, Directories, Places
  <1> SUFFICES ASSUME op'.kind = "create", ~op'.restored, ~op'.launched, ~Create PROVE Restoring'
    BY CreateRestoring DEF Restoring
  <1>1. op' = op
    <2>1. CASE Lifecycle
      BY <2>1, Stages, IdleTyped DEF Lifecycle, BeginStart, BeginDelete, Adopt, TimeoutRemoves, PrepareStorage,
         CreateContainer, CreateRefused, RemoveContainer, ArchiveDirectories, ForgetWorkspace, Interrupt,
         Finish, Go, Step, Calls
    <2>2. CASE Discard
      BY <2>2 DEF Discard, FindDirectoryToDiscard, DiscardDirectory, ForgetDirectory,
         FindVolumeToDiscard, DiscardVolume, ForgetVolume
    <2>3. CASE \E w \in Workspace : OpenFileManager(w) \/ \E d \in Directory : WriteData(w, d)
      BY <2>3 DEF OpenFileManager, WriteData
    <2> QED
      BY <2>1, <2>2, <2>3 DEF Next, vars
  <1>2. op.kind = "create" /\ ~op.restored /\ ~op.launched /\ op.ws \in Workspace
    BY <1>1 DEF Turn, Creating
  <1>3. RowsAhead /\ condemned \subseteq condemned'
    BY NextAhead DEF RecordsAhead
  <1>4. op.claimed => op.dir \in Workspace /\ Gone(op.dir) /\ op.dir \notin dirTombs
    BY <1>2 DEF Retired, Turn, Creating
  <1>5. ~\E d \in Directory : MoveDirectory(d) \/ AbortMove(d)
    BY DEF Create
  <1>6. \A d \in Directory : live'[op.ws][d] \in Workspace => live'[op.ws][d] = live[op.ws][d]
    <2>1. CASE PrepareStorage \/ ArchiveDirectories
      BY <1>2, <2>1, Stages DEF PrepareStorage, ArchiveDirectories, Step
    <2>2. CASE \E w \in Workspace : OpenFileManager(w)
      BY <1>2, <2>2, Ensured, Vacant DEF OpenFileManager
    <2>3. CASE \E w \in Workspace : DiscardDirectory(w)
      BY <2>3, Discarded
    <2>4. CASE \E w \in Workspace, d \in Directory : WriteData(w, d)
      <3>1. PICK y \in Workspace, m \in Directory : WriteData(y, m)
        BY <2>4
      <3>2. op.ws # y
        BY <1>2, <3>1, Written
      <3> QED
        BY <1>2, <3>1, <3>2, WrittenWhere
    <2>5. CASE ~Touches
      BY <2>5, OthersTouchNothing DEF disk
    <2> QED
      BY <1>5, <2>1, <2>2, <2>3, <2>4, <2>5 DEF Touches, Create
  <1>7. ASSUME op.claimed
        PROVE  /\ \A d \in Directory : archive[op.dir][d] = Missing => archive'[op.dir][d] = Missing
               /\ op.dir \notin archiveDir => op.dir \notin archiveDir'
               /\ dirDiscard'[op.dir] = "found" \/ op.dir \notin archiveDir' =>
                     dirDiscard[op.dir] = "found" \/ op.dir \notin archiveDir
    <2>1. \A d \in Directory : archive'[op.dir][d] \in {archive[op.dir][d], Missing}
      BY <1>4, <1>5, <1>7, ArchiveAhead
    <2>2. op.dir \notin archiveDir => op.dir \notin archiveDir'
      BY <1>4, <1>7, ArchiveAhead
    <2>3. dirDiscard'[op.dir] = "found" => dirDiscard[op.dir] = "found"
      <3>1. ~FindDirectoryToDiscard(op.dir)
        BY <1>4, <1>7 DEF FindDirectoryToDiscard
      <3> QED
        BY <1>4, <1>7, <3>1, DiscardAhead, Discarded DEF Stored
    <2>4. op.dir \in archiveDir /\ op.dir \notin archiveDir' => dirDiscard[op.dir] = "found"
      <3>1. CASE ArchiveDirectories
        BY <1>2, <3>1, Archived
      <3>2. CASE \E w \in Workspace : DiscardDirectory(w)
        BY <3>2, Discarded
      <3>3. CASE ~ArchiveDirectories /\ ~\E w \in Workspace : DiscardDirectory(w)
        BY <1>5, <3>3, OthersTouchNothing DEF Touches, disk, Create, PrepareStorage, OpenFileManager, WriteData
      <3> QED
        BY <3>1, <3>2, <3>3
    <2> QED
      BY <2>1, <2>2, <2>3, <2>4
  <1> QED
    BY <1>1, <1>2, <1>3, <1>4, <1>6, <1>7, RestoringStays DEF Gone

(* Its directories are archived before a delete forgets the workspace.     *)
LEMMA NextForgetting ==
  ASSUME Typed, Directories, [Next]_vars
  PROVE  Forgetting'
  <1> Turn /\ Stored /\ op \in Calls /\ Forgetting /\ Rooted
    BY DEF Typed, Turn, Directories, Places
  <1> SUFFICES ASSUME op'.step = "forget" PROVE Blank(op.ws)'
    BY DEF Forgetting
  <1> USE IdleTyped DEF Finish, Go, Step
  <1>1. CASE ArchiveDirectories
    <2>1. op'.ws = op.ws /\ op.ws \in Workspace
      BY <1>1, Archived DEF Calls
    <2>2. CASE \A d \in Directory : live'[op.ws][d] = Missing
      BY <2>1, <2>2, Vacant DEF Blank
    <2>3. CASE UNCHANGED live /\ (Dirs(op.ws) = {} \/ live[op.ws] = Nothing)
      BY <2>1, <2>3, Vacant DEF Blank, Rooted, Nothing
    <2> QED
      BY <1>1, <2>1, <2>2, <2>3, Archived DEF disk
  <1>2. CASE ~ArchiveDirectories
    <2>1. op' = op
      <3>1. CASE Create
        <4>1. CASE Leave
          BY <4>1, Stages DEF Leave, Calls, Unlisted, Listed, Creating
        <4>2. CASE \/ \E w \in Workspace, t \in Template, f \in [Volume -> Workspace \cup {None}],
                          d \in Workspace \cup {None} : BeginCreate(w, t, f, d)
                   \/ (\E v \in Volume : FindVolume(v)) \/ ClaimVolume \/ CheckVolume \/ MakeDirectories
          <5>1. CASE (\E v \in Volume : FindVolume(v)) \/ ClaimVolume
            BY <5>1 DEF FindVolume, ClaimVolume, Calls
          <5>2. CASE CheckVolume \/ MakeDirectories
            BY <5>2 DEF CheckVolume, MakeDirectories, Calls
          <5>3. ASSUME NEW w, NEW s, NEW f, NEW d, BeginCreate(w, s, f, d)
                PROVE  op'.step # "forget"
            BY <5>3 DEF BeginCreate
          <5> QED
            BY <4>2, <5>1, <5>2, <5>3
        <4>3. CASE InsertRow \/ ReservePorts \/ FindDirectory \/ ClaimDirectory \/ CheckDirectories
          BY <4>3 DEF InsertRow, ReservePorts, FindDirectory, ClaimDirectory, CheckDirectories, Continue,
             AfterDirectories, Calls
        <4>4. CASE (\E d \in Directory : MoveDirectory(d) \/ AbortMove(d)) \/ EndRestore
          BY <4>4 DEF MoveDirectory, AbortMove, EndRestore, Continue, AfterDirectories, Calls
        <4>5. CASE LaunchWorkspace \/ LaunchFailed \/ BootContainer \/ EndLaunch \/ CleanUp
          BY <4>5 DEF LaunchWorkspace, LaunchFailed, BootContainer, EndLaunch, CleanUp, Calls
        <4>6. CASE BootFailed
          <5>1. PICK runs \in BOOLEAN : op' = [op EXCEPT !.step = "cleanup", !.launched = runs]
            BY <4>6 DEF BootFailed
          <5> QED
            BY <5>1 DEF Calls
        <4> QED
          BY <3>1, <4>1, <4>2, <4>3, <4>4, <4>5, <4>6 DEF Create
      <3>2. CASE Lifecycle
        BY <1>2, <3>2 DEF Lifecycle, BeginStart, BeginDelete, Adopt, TimeoutRemoves, PrepareStorage,
           CreateContainer, CreateRefused, RemoveContainer, ForgetWorkspace, Interrupt, Calls
      <3>3. CASE Discard
        BY <3>3 DEF Discard, FindDirectoryToDiscard, DiscardDirectory, ForgetDirectory,
           FindVolumeToDiscard, DiscardVolume, ForgetVolume
      <3>4. CASE \E w \in Workspace : OpenFileManager(w) \/ \E d \in Directory : WriteData(w, d)
        BY <3>4 DEF OpenFileManager, WriteData
      <3> QED
        BY <3>1, <3>2, <3>3, <3>4 DEF Next, vars
    <2>2. op.kind = "delete" /\ op.ws \in Workspace /\ Blank(op.ws)
      BY <2>1, Stages DEF Forgetting
    <2>3. \A d \in Directory : live'[op.ws][d] \in Workspace => live'[op.ws][d] = live[op.ws][d]
      <3>1. CASE MakeDirectories \/ CleanUp \/ PrepareStorage \/ \E d \in Directory : MoveDirectory(d) \/ AbortMove(d)
        <4>1. op.kind # "delete"
          BY <3>1, Stages DEF MakeDirectories, CleanUp, PrepareStorage, MoveDirectory, AbortMove, Unlisted, Listed
        <4> QED
          BY <2>2, <4>1
      <3>2. CASE \E w \in Workspace : OpenFileManager(w)
        BY <2>2, <3>2, Ensured, Vacant DEF OpenFileManager
      <3>3. CASE \E w \in Workspace : DiscardDirectory(w)
        BY <3>3, Discarded
      <3>4. CASE \E w \in Workspace, d \in Directory : WriteData(w, d)
        <4>1. PICK y \in Workspace, m \in Directory : WriteData(y, m)
          BY <3>4
        <4>2. op.ws # y
          BY <2>1, <4>1, Written
        <4> QED
          BY <2>2, <4>1, <4>2, WrittenWhere
      <3>5. CASE ~Touches
        BY <3>5, OthersTouchNothing DEF disk
      <3> QED
        BY <1>2, <3>1, <3>2, <3>3, <3>4, <3>5 DEF Touches
    <2> QED
      BY <2>1, <2>2, <2>3 DEF Blank
  <1> QED
    BY <1>1, <1>2

(* What a step does to the ghosts: it writes, or it ends a creation that   *)
(* has got to its end or leaves what its container wrote, or neither.      *)
Spared == early' = early \ Tentative /\ UNCHANGED <<disk, written>> /\ op' = Idle

LEMMA GhostsAhead ==
  ASSUME Typed, [Next]_vars
  PROVE  \/ UNCHANGED <<written, early>>
         \/ UNCHANGED written /\ Spared
         \/ \E w \in Workspace, d \in Directory : WriteData(w, d)
  <1> USE DEF ghosts
  <1>1. CASE Create
    <2>1. CASE EndLaunch \/ CleanUp
      BY <2>1 DEF EndLaunch, CleanUp, Spared, disk, Finish
    <2>2. CASE \/ ClaimVolume \/ MakeDirectories \/ InsertRow \/ ClaimDirectory \/ LaunchWorkspace \/ LaunchFailed
               \/ \E d \in Directory : MoveDirectory(d) \/ AbortMove(d)
      BY <2>2 DEF ClaimVolume, MakeDirectories, InsertRow, ClaimDirectory, LaunchWorkspace, LaunchFailed,
         MoveDirectory, AbortMove
    <2>3. ASSUME NEW w, NEW t, NEW f, NEW d, BeginCreate(w, t, f, d) PROVE UNCHANGED <<written, early>>
      BY <2>3 DEF BeginCreate
    <2> QED
      BY <1>1, <2>1, <2>2, <2>3, CallsOnly DEF Create, OnlyTheCall
  <1>2. CASE Lifecycle
    BY <1>2, CallsOnly DEF Lifecycle, OnlyTheCall, Adopt, TimeoutRemoves, PrepareStorage, CreateContainer,
       CreateRefused, RemoveContainer, ArchiveDirectories, ForgetWorkspace, Interrupt, Spared, Finish
  <1>3. CASE Discard
    BY <1>3 DEF Discard, FindDirectoryToDiscard, DiscardDirectory, ForgetDirectory, FindVolumeToDiscard,
       DiscardVolume, ForgetVolume
  <1>4. CASE \E w \in Workspace : OpenFileManager(w)
    BY <1>4 DEF OpenFileManager
  <1> QED
    BY <1>1, <1>2, <1>3, <1>4 DEF Next, vars

LEMMA NextUnwritten ==
  ASSUME Typed, Typed', Unwritten, [Next]_vars
  PROVE  Unwritten'
  <1>1. RowsAhead /\ CallAhead
    BY NextAhead
  <1>2. op'.kind = "create" => op'.ws \in Workspace
    BY DEF Typed, Turn, Creating
  <1>3. CASE UNCHANGED written
    BY <1>1, <1>2, <1>3 DEF RowsAhead, CallAhead, Unwritten
  <1>4. CASE \E w \in Workspace, d \in Directory : WriteData(w, d)
    <2>1. PICK w \in Workspace, d \in Directory : WriteData(w, d)
      BY <1>4
    <2>2. /\ Present(w) /\ written' = written \cup {<<w, d>>} /\ UNCHANGED <<op, status>>
          /\ op.ws = w /\ op.kind = "create" => op.launched
      BY <2>1, Written DEF tables
    <2> QED
      BY <2>2 DEF Unwritten, Present
  <1> QED
    BY <1>3, <1>4, GhostsAhead

(* Only its own start lets a container write during a creation.            *)
LEMMA LaunchAhead ==
  ASSUME Typed, [Next]_vars, op'.launched, ~BootContainer, ~BootFailed
  PROVE  op.launched /\ op'.ws = op.ws /\ op'.restored = op.restored
  <1> Turn /\ op \in Calls
    BY DEF Typed, Turn
  <1> SUFFICES ASSUME op' # op, op' # Idle PROVE op.launched /\ op'.ws = op.ws /\ op'.restored = op.restored
    BY IdleTyped
  <1> USE IdleTyped DEF Finish, Go, Step, Calls
  <1>1. CASE Create
    <2>1. ASSUME NEW w \in Workspace, NEW t \in Template, NEW dir, NEW from, BeginCreate(w, t, from, dir)
          PROVE  FALSE
      BY <2>1 DEF BeginCreate
    <2>2. CASE Leave \/ EndLaunch
      BY <2>2 DEF Leave, EndLaunch
    <2>3. op.launched => op.step \in {"booted", "cleanup"}
      BY Stages DEF Turn, Creating
    <2>4. CASE \/ \E v \in Volume : FindVolume(v)
               \/ ClaimVolume \/ CheckVolume \/ MakeDirectories \/ InsertRow
      BY <2>3, <2>4 DEF FindVolume, ClaimVolume, CheckVolume, MakeDirectories, InsertRow
    <2>5. CASE ReservePorts \/ FindDirectory \/ ClaimDirectory \/ CheckDirectories \/ EndRestore
      BY <2>3, <2>5 DEF ReservePorts, FindDirectory, ClaimDirectory, CheckDirectories, EndRestore, Continue
    <2>6. CASE (\E d \in Directory : MoveDirectory(d) \/ AbortMove(d)) \/ LaunchWorkspace \/ LaunchFailed \/ CleanUp
      BY <2>3, <2>6 DEF MoveDirectory, AbortMove, LaunchWorkspace, LaunchFailed, CleanUp
    <2> QED
      BY <1>1, <2>1, <2>2, <2>4, <2>5, <2>6 DEF Create
  <1>2. CASE Lifecycle
    <2>1. CASE \E w \in Workspace : BeginStart(w) \/ BeginDelete(w)
      BY <2>1, Begun
    <2>2. CASE PrepareStorage \/ RemoveContainer \/ ArchiveDirectories
      BY <2>2, Stages DEF PrepareStorage, RemoveContainer, ArchiveDirectories, Turn
    <2> QED
      BY <1>2, <2>1, <2>2 DEF Lifecycle, Adopt, TimeoutRemoves, CreateContainer, CreateRefused, ForgetWorkspace,
         Interrupt
  <1>3. CASE Discard
    BY <1>3 DEF Discard, FindDirectoryToDiscard, DiscardDirectory, ForgetDirectory,
       FindVolumeToDiscard, DiscardVolume, ForgetVolume
  <1>4. CASE \E w \in Workspace : OpenFileManager(w) \/ \E d \in Directory : WriteData(w, d)
    BY <1>4 DEF OpenFileManager, WriteData
  <1> QED
    BY <1>1, <1>2, <1>3, <1>4 DEF Next, vars

LEMMA NextWorkload ==
  ASSUME Typed, Typed', Directories, [Next]_vars
  PROVE  Workload'
  <1> Turn /\ Stored /\ op \in Calls /\ Workload /\ Restoring /\ Unwritten
    BY DEF Typed, Turn, Directories
  <1> SUFFICES ASSUME op'.launched, NEW d \in Directory
               PROVE  /\ <<op'.ws, d>> \in early' => live'[op'.ws][d] = op'.ws
                      /\ ~op'.restored /\ live'[op'.ws][d] \in Workspace =>
                           live'[op'.ws][d] = op'.ws /\ <<op'.ws, d>> \in early'
    BY DEF Workload
  <1>1. CASE BootContainer \/ BootFailed
    <2>1. op.kind = "create" /\ Creating /\ op.step = "boot" /\ UNCHANGED <<early, live>>
      BY <1>1, Stages, CallsOnly DEF BootContainer, BootFailed, Step, Listed, OnlyTheCall, disk, ghosts
    <2>2. op'.ws = op.ws /\ op'.restored = op.restored
      <3>1. PICK s \in Steps, runs \in BOOLEAN : op' = [op EXCEPT !.step = s, !.launched = runs]
        BY <1>1 DEF BootContainer, BootFailed, Steps
      <3> QED
        BY <3>1 DEF Calls
    <2>3. ~op.launched
      BY <2>1 DEF Creating
    <2>4. <<op.ws, d>> \notin early
      BY <2>1, <2>3 DEF Unwritten, Stored
    <2>5. ~op.restored => live[op.ws][d] \notin Workspace
      BY <2>1, <2>3 DEF Restoring
    <2> QED
      BY <2>1, <2>2, <2>4, <2>5
  <1>2. CASE ~BootContainer /\ ~BootFailed
    <2>1. op.launched /\ op'.ws = op.ws /\ op'.restored = op.restored /\ op' # Idle
      BY <1>2, LaunchAhead, IdleTyped
    <2>2. op.kind = "create" /\ op.ws \in Workspace /\ op.step \in {"booted", "cleanup"}
      BY <2>1 DEF Turn, Creating
    <2>3. ASSUME UNCHANGED early,
                 live[op.ws][d] \in Workspace \/ live'[op.ws][d] \in Workspace => live'[op.ws][d] = live[op.ws][d]
          PROVE  /\ <<op'.ws, d>> \in early' => live'[op'.ws][d] = op'.ws
                 /\ ~op'.restored /\ live'[op'.ws][d] \in Workspace =>
                      live'[op'.ws][d] = op'.ws /\ <<op'.ws, d>> \in early'
      BY <2>1, <2>2, <2>3 DEF Workload
    <2>4. CASE ~Touches
      <3>1. UNCHANGED live
        BY <2>4, OthersTouchNothing DEF disk
      <3>2. UNCHANGED early
        BY <2>1, <2>4, GhostsAhead DEF Spared, Touches
      <3> QED
        BY <2>3, <3>1, <3>2
    <2>5. CASE \E w \in Workspace : OpenFileManager(w)
      BY <2>2, <2>3, <2>5, Ensured, Vacant DEF OpenFileManager, ghosts
    <2>6. CASE \E w \in Workspace : DiscardDirectory(w)
      BY <2>3, <2>6, Discarded DEF ghosts
    <2>7. CASE \E w \in Workspace, e \in Directory : WriteData(w, e)
      <3>1. PICK w \in Workspace, e \in Directory : WriteData(w, e)
        BY <2>7
      <3>2. early' = IF op.ws = w THEN early \cup {<<w, e>>} ELSE early
        BY <2>1, <3>1, Written
      <3>3. live'[op.ws][d] = IF op.ws = w /\ d = e THEN w ELSE live[op.ws][d]
        BY <2>2, <3>1, WrittenWhere
      <3> QED
        BY <2>1, <3>2, <3>3 DEF Workload
    <2>8. ~(MakeDirectories \/ PrepareStorage \/ ArchiveDirectories \/ CleanUp
            \/ \E e \in Directory : MoveDirectory(e) \/ AbortMove(e))
      BY <2>1, <2>2 DEF MakeDirectories, PrepareStorage, ArchiveDirectories, CleanUp, MoveDirectory, AbortMove,
         Step, Finish
    <2> QED
      BY <2>4, <2>5, <2>6, <2>7, <2>8 DEF Touches
  <1> QED
    BY <1>1, <1>2

(* Nothing that was written disappears, unless it was condemned or is of a *)
(* creation that fails.                                                    *)
LEMMA NextKept ==
  ASSUME Typed, Typed', Directories, [Next]_vars
  PROVE  Kept'
  <1> Turn /\ Stored /\ op \in Calls /\ Kept /\ Rooted /\ Restoring /\ Retired /\ Workload
    BY DEF Typed, Turn, Directories, Places
  <1> SUFFICES ASSUME NEW x \in Workspace, NEW d \in Directory,
                      <<x, d>> \in written' \ (condemned' \cup early')
               PROVE  \E w \in Workspace : live'[w][d] = x \/ archive'[w][d] = x
    BY DEF Kept
  <1>a. CASE <<x, d>> \in early
    <2>1. Spared
      BY <1>a, GhostsAhead, Written
    <2>2. op.launched /\ op.ws = x
      BY <1>a, <2>1 DEF Spared, Tentative
    <2> QED
      BY <1>a, <2>1, <2>2 DEF Workload, Spared, disk
  <1> SUFFICES ASSUME <<x, d>> \notin early
               PROVE  \E w \in Workspace : live'[w][d] = x \/ archive'[w][d] = x
    BY <1>a
  <1>1. <<x, d>> \notin condemned \cup early
    BY NextAhead DEF RecordsAhead
  <1>2. CASE UNCHANGED written /\ \A w \in Workspace :
                /\ live[w][d] = x => live'[w][d] = x \/ \E u \in Workspace : archive'[u][d] = x
                /\ archive[w][d] = x => archive'[w][d] = x \/ \E u \in Workspace : live'[u][d] = x
    BY <1>1, <1>2 DEF Kept
  <1>3. CASE ~Touches
    BY <1>2, <1>3, OthersTouchNothing DEF disk
  <1>4. ASSUME NEW w \in Workspace, EnsureDirectories(w), UNCHANGED <<archive, written>>
        PROVE  \E u \in Workspace : live'[u][d] = x \/ archive'[u][d] = x
    <2>1. \A u \in Workspace : live[u][d] = x => live'[u][d] = x
      BY <1>4, Ensured, Vacant
    <2> QED
      BY <1>2, <1>4, <2>1
  <1>5. CASE MakeDirectories \/ PrepareStorage \/ \E w \in Workspace : OpenFileManager(w)
    BY <1>2, <1>4, <1>5, Stages DEF MakeDirectories, PrepareStorage, OpenFileManager, ghosts, Step, Unlisted
  <1>6. CASE CleanUp
    <2>1. op.kind = "create" /\ op.ws \in Workspace /\ op.step = "cleanup"
      BY <1>6, Stages DEF CleanUp, Step
    <2>2. ~op.restored => live[op.ws][d] # x
      <3>1. CASE op.launched
        BY <1>1, <3>1 DEF Workload
      <3>2. CASE ~op.launched
        BY <1>1, <2>1, <3>2 DEF Restoring, Blank, Lost
      <3> QED
        BY <3>1, <3>2
    <2>3. \A u \in Workspace : live[u][d] = x => live'[u][d] = x
      BY <1>6, <2>1, <2>2, Removed DEF CleanUp
    <2> QED
      BY <1>2, <1>6, <2>3 DEF CleanUp, ghosts
  <1>7. CASE ArchiveDirectories
    <2>1. CASE UNCHANGED disk
      BY <1>2, <1>7, <2>1, Archived DEF disk, ghosts
    <2>2. CASE op.ws \notin archiveDir
      <3>1. op.ws \in Workspace /\ archive[op.ws][d] = Missing
        BY <1>7, <2>2, Archived DEF Rooted
      <3> QED
        BY <1>2, <1>7, <2>1, <2>2, <3>1, Archived, Vacant DEF ghosts
    <2> QED
      BY <1>7, <2>1, <2>2, Archived
  <1>8. CASE \E m \in Directory : MoveDirectory(m)
    <2>1. PICK m \in Directory : MoveDirectory(m)
      BY <1>8
    <2>2. op.ws \in Workspace /\ op.dir \in Workspace /\ live[op.ws][m] = Empty /\ UNCHANGED written
      BY <2>1, Moved DEF ghosts
    <2>3. \A u \in Workspace :
            /\ live'[u][d] = IF u = op.ws /\ d = m THEN archive[op.dir][m] ELSE live[u][d]
            /\ archive'[u][d] = IF u = op.dir /\ d = m THEN Missing ELSE archive[u][d]
      BY <2>1, MovedWhere
    <2> QED
      BY <1>2, <2>2, <2>3, Vacant
  <1>9. CASE \E m \in Directory : AbortMove(m)
    <2>1. PICK m \in Directory : AbortMove(m)
      BY <1>9
    <2>2. /\ op.ws \in Workspace /\ op.dir \in Workspace /\ UNCHANGED written
          /\ op.kind = "create" /\ op.step = "restore" /\ m \in op.todo
      BY <2>1, Aborted DEF ghosts
    <2>3. Restore /\ \A e \in Directory \ op.moved : live[op.ws][e] \notin Workspace
      BY <2>2 DEF Restoring, Turn, Creating, Launching
    <2>4. PICK back \in SUBSET op.moved : \A u \in Workspace :
            /\ live'[u][d] = IF u = op.ws /\ d \in back \cup {m} THEN Missing ELSE live[u][d]
            /\ archive'[u][d] = IF u = op.dir /\ d \in back THEN live[op.ws][d] ELSE archive[u][d]
      <3>1. PICK back \in SUBSET op.moved : Returned(m, back)
        BY <2>1, Aborted
      <3> QED
        BY <3>1 DEF Returned
    <2>5. d \in back => archive[op.dir][d] = Missing
      BY <2>3 DEF Restore
    <2>6. d = m => live[op.ws][d] # x
      BY <2>2, <2>3 DEF Restore
    <2> QED
      BY <1>2, <2>2, <2>4, <2>5, <2>6, Vacant
  <1>10. CASE \E a \in Workspace : DiscardDirectory(a)
    <2>1. PICK a \in Workspace : DiscardDirectory(a)
      BY <1>10
    <2>2. archive[a][d] # x
      BY <1>1, <2>1, Discarded DEF Retired
    <2>3. \A u \in Workspace : archive'[u][d] = archive[u][d] \/ u = a
      BY <2>1, Discarded
    <2> QED
      BY <1>2, <2>1, <2>2, <2>3, Discarded DEF ghosts
  <1>11. CASE \E w \in Workspace, m \in Directory : WriteData(w, m)
    <2>1. PICK y \in Workspace, m \in Directory : WriteData(y, m)
      BY <1>11
    <2>2. live[y][m] = Empty /\ written' = written \cup {<<y, m>>} /\ UNCHANGED archive
      BY <2>1, Written
    <2>3. \A u \in Workspace : live'[u][d] = IF u = y /\ d = m THEN y ELSE live[u][d]
      BY <2>1, WrittenWhere
    <2>4. CASE <<x, d>> \in written
      BY <1>1, <2>2, <2>3, <2>4, Vacant DEF Kept
    <2>5. CASE x = y /\ d = m
      BY <2>3, <2>5
    <2> QED
      BY <2>2, <2>4, <2>5
  <1> QED
    BY <1>3, <1>5, <1>6, <1>7, <1>8, <1>9, <1>10, <1>11 DEF Touches

LEMMA NextDirectories ==
  ASSUME "stuck" \notin Fault, Typed, Directories, [Next]_vars
  PROVE  Directories'
  <1>1. Typed'
    BY NextTyped
  <1> QED
    BY <1>1, NextSingle, NextRooted, NextFresh, NextRetired, NextUnwritten, NextWorkload, NextRestoring,
       NextForgetting, NextKept
       DEF Directories, Places

(* As long as a rename that was just made can be undone, data that was     *)
(* written exists until somebody asks to discard it: through creations     *)
(* that fail or are interrupted, restores that stop half-way, deletes and  *)
(* crashes (restoreDirectoryMounts and rollbackDirectoryMoves of           *)
(* mounts.go, the clean-up of CreateWorkspace), but for what the container *)
(* of a creation wrote before that failed (workspace.go:221).              *)
THEOREM DataIsKept ==
  ASSUME "stuck" \notin Fault
  PROVE  Spec => []DataSurvives
  <1>1. Init => Typed /\ Directories
    BY InitTyped, InitDirectories
  <1>2. Typed /\ Directories /\ [Next]_vars => (Typed /\ Directories)'
    BY NextTyped, NextDirectories
  <1>3. Typed /\ Directories => DataSurvives
    BY KeptMeansSurvives DEF Directories
  <1> QED
    BY <1>1, <1>2, <1>3, PTL DEF Spec

-----------------------------------------------------------------------------
(* Whose hands the data is in.                                             *)

LiveHand(w) == IF op.claimed /\ op.ws = w THEN "claimed"
               ELSE IF Present(w) THEN "held" ELSE "adrift"

ArchiveHand(w) == IF op.claimed /\ op.dir = w THEN "claimed"
                  ELSE IF w \in dirTombs THEN "retained"
                  ELSE IF Present(w) THEN "held" ELSE "adrift"

InHand(p) ==
    /\ \A w \in Workspace :
         /\ LiveIn(p, w) => CustodyOf(p) = IF p \in Tentative THEN "tentative" ELSE LiveHand(w)
         /\ ArchivedIn(p, w) => CustodyOf(p) = IF p \in Tentative THEN "tentative" ELSE ArchiveHand(w)
    /\ ~Exists(p) => CustodyOf(p) = IF p \in written THEN "discarded" ELSE "unwritten"
    /\ Exists(p) => p \in written

Hands == \A p \in Piece : InHand(p)

(* Each piece is in one place, so the place says whose it is.              *)
LEMMA PlaceTells == Typed /\ Single => Hands
  <1> SUFFICES ASSUME Typed, Single, NEW p \in Piece PROVE InHand(p)
    BY DEF Hands
  <1> Turn /\ Stored /\ p[1] \in Workspace /\ p[2] \in Directory /\ p = <<p[1], p[2]>>
    BY DEF Typed, Piece
  <1>1. op.claimed => op.ws \in Workspace /\ op.dir \in Workspace
    BY DEF Turn, Creating
  <1>2. \A w, u \in Workspace : SingleIn(w, u, p[2])
    BY DEF Single
  <1>6. Exists(p) => p \in written
    BY <1>2 DEF Exists, LiveIn, ArchivedIn, SingleIn
  <1>3. ASSUME NEW w \in Workspace, LiveIn(p, w)
        PROVE  CustodyOf(p) = IF p \in Tentative THEN "tentative" ELSE LiveHand(w)
    <2>1. /\ p \in written /\ Exists(p)
          /\ \A u \in Workspace : ~ArchivedIn(p, u) /\ (LiveIn(p, u) => u = w)
      BY <1>2, <1>3, <1>6 DEF Exists, LiveIn, ArchivedIn, SingleIn
    <2>2. InRestore(p) <=> op.claimed /\ op.ws = w
      BY <1>1, <1>3, <2>1 DEF InRestore
    <2>3. ~\E u \in dirTombs : ArchivedIn(p, u)
      BY <2>1 DEF Stored
    <2>4. (\E u \in Workspace : Present(u) /\ (LiveIn(p, u) \/ ArchivedIn(p, u))) <=> Present(w)
      BY <1>3, <2>1
    <2> QED
      BY <2>1, <2>2, <2>3, <2>4 DEF CustodyOf, LiveHand
  <1>4. ASSUME NEW w \in Workspace, ArchivedIn(p, w)
        PROVE  CustodyOf(p) = IF p \in Tentative THEN "tentative" ELSE ArchiveHand(w)
    <2>1. /\ p \in written /\ Exists(p)
          /\ \A u \in Workspace : ~LiveIn(p, u) /\ (ArchivedIn(p, u) => u = w)
      <3>1. \A u \in Workspace : SingleIn(u, w, p[2]) /\ SingleIn(w, u, p[2])
        BY <1>2
      <3> QED
        BY <1>4, <1>6, <3>1 DEF Exists, LiveIn, ArchivedIn, SingleIn
    <2>2. InRestore(p) <=> op.claimed /\ op.dir = w
      BY <1>1, <1>4, <2>1 DEF InRestore
    <2>3. (\E u \in dirTombs : ArchivedIn(p, u)) <=> w \in dirTombs
      BY <1>4, <2>1 DEF Stored
    <2>4. (\E u \in Workspace : Present(u) /\ (LiveIn(p, u) \/ ArchivedIn(p, u))) <=> Present(w)
      BY <1>4, <2>1
    <2> QED
      BY <2>1, <2>2, <2>3, <2>4 DEF CustodyOf, ArchiveHand
  <1>5. ~Exists(p) => CustodyOf(p) = IF p \in written THEN "discarded" ELSE "unwritten"
    BY DEF CustodyOf
  <1> QED
    BY <1>6, <1>3, <1>4, <1>5 DEF InHand

LEMMA PlaceTellsNext == Typed' /\ Single' => Hands'
  BY PlaceTells, PTL

LEMMA Handed ==
  ASSUME NEW from, NEW to,
         \A p \in Piece : \/ CustodyOf(p)' = CustodyOf(p)
                          \/ CustodyOf(p) \in from /\ CustodyOf(p)' \in to
  PROVE  Custody!Moves(from, to)
  BY DEF Custody!Moves

(* Steps that leave the data where it is.                                  *)
LEMMA HandsChange ==
  ASSUME Typed, Typed', Single, Single', UNCHANGED <<disk, written>>, Tentative' = Tentative,
         NEW from, NEW to,
         \A w \in Workspace :
            /\ \/ \A d \in Directory : live[w][d] \notin Workspace
               \/ LiveHand(w)' = LiveHand(w)
               \/ LiveHand(w) \in from /\ LiveHand(w)' \in to
            /\ \/ \A d \in Directory : archive[w][d] \notin Workspace
               \/ ArchiveHand(w)' = ArchiveHand(w)
               \/ ArchiveHand(w) \in from /\ ArchiveHand(w)' \in to
  PROVE  Custody!Moves(from, to)
  <1> SUFFICES ASSUME NEW p \in Piece
               PROVE  \/ CustodyOf(p)' = CustodyOf(p)
                      \/ CustodyOf(p) \in from /\ CustodyOf(p)' \in to
    BY Handed
  <1>1. InHand(p) /\ InHand(p)'
    BY PlaceTells, PlaceTellsNext DEF Hands
  <1>2. p[1] \in Workspace /\ p[2] \in Directory
    BY DEF Piece
  <1>3. /\ \A w \in Workspace : /\ LiveIn(p, w)' <=> LiveIn(p, w)
                                /\ ArchivedIn(p, w)' <=> ArchivedIn(p, w)
        /\ Exists(p)' <=> Exists(p)
    BY DEF disk, LiveIn, ArchivedIn, Exists
  <1>4. CASE \E w \in Workspace : LiveIn(p, w)
    BY <1>1, <1>2, <1>3, <1>4 DEF InHand, LiveIn
  <1>5. CASE \E w \in Workspace : ArchivedIn(p, w)
    BY <1>1, <1>2, <1>3, <1>5 DEF InHand, ArchivedIn
  <1>6. CASE ~Exists(p)
    BY <1>1, <1>3, <1>6 DEF InHand
  <1> QED
    BY <1>4, <1>5, <1>6 DEF Exists

HandedOver == \/ Custody!Write \/ Custody!Delete \/ Custody!Claim \/ Custody!Settle \/ Custody!Fail
              \/ Custody!Discard

(* What is tentative is with the workspace of the creation.                *)
LEMMA WorkIsLive ==
  ASSUME Typed, Workload, NEW p \in Tentative
  PROVE  op.launched /\ op.ws \in Workspace /\ LiveIn(p, op.ws) /\ Exists(p) /\ p \in Piece
  <1>1. p \in early /\ op.launched /\ p[1] = op.ws
    BY DEF Tentative
  <1>2. p \in Piece /\ op.ws \in Workspace
    BY <1>1 DEF Typed, Stored, Turn, Creating
  <1>3. p[2] \in Directory /\ p = <<p[1], p[2]>>
    BY <1>2 DEF Piece
  <1>4. LiveIn(p, op.ws)
    BY <1>1, <1>2, <1>3 DEF Workload, LiveIn
  <1> QED
    BY <1>1, <1>2, <1>4 DEF Exists

LEMMA NoWork ==
  /\ ~op.launched => Tentative = {}
  /\ ~op'.launched => Tentative' = {}
  BY DEF Tentative

LEMMA SameWork ==
  ASSUME UNCHANGED early, op'.launched = op.launched, op'.ws = op.ws
  PROVE  Tentative' = Tentative
  BY DEF Tentative

(* A creation whose container writes goes on until it ends.                *)
LEMMA LaunchStays ==
  ASSUME Typed, [Next]_vars, op.launched, ~EndLaunch, ~CleanUp, Create \/ ~Interrupt
  PROVE  op'.launched /\ op'.ws = op.ws
  <1> Turn /\ op \in Calls
    BY DEF Typed, Turn
  <1>1. op.kind = "create" /\ op.step \in {"booted", "cleanup"} /\ op # Idle
    BY IdleTyped DEF Turn, Creating
  <1> SUFFICES ASSUME op' # op PROVE op'.launched /\ op'.ws = op.ws
    OBVIOUS
  <1>2. CASE Create
    <2>1. CASE Leave
      BY <2>1 DEF Leave, Calls
    <2>2. CASE ~Leave
      BY <1>1, <1>2, <2>2 DEF Create, Step, BeginCreate, FindVolume, ClaimVolume, CheckVolume, MakeDirectories,
         InsertRow, ReservePorts, FindDirectory, ClaimDirectory, CheckDirectories, MoveDirectory, AbortMove,
         EndRestore, LaunchWorkspace, LaunchFailed, BootContainer, BootFailed
    <2> QED
      BY <2>1, <2>2
  <1>3. CASE Lifecycle /\ ~Interrupt
    BY <1>1, <1>3 DEF Lifecycle, Step, BeginStart, BeginDelete, Adopt, TimeoutRemoves, PrepareStorage,
       CreateContainer, CreateRefused, RemoveContainer, ArchiveDirectories, ForgetWorkspace
  <1>4. CASE Discard
    BY <1>4 DEF Discard, FindDirectoryToDiscard, DiscardDirectory, ForgetDirectory,
       FindVolumeToDiscard, DiscardVolume, ForgetVolume
  <1>5. CASE \E w \in Workspace : OpenFileManager(w) \/ \E d \in Directory : WriteData(w, d)
    BY <1>5 DEF OpenFileManager, WriteData
  <1> QED
    BY <1>2, <1>3, <1>4, <1>5 DEF Next, vars

(* Most steps leave alone what is tentative.                               *)
LEMMA WorkStays ==
  ASSUME Typed, Typed', Unwritten, [Next]_vars, ~EndLaunch, ~CleanUp, Create \/ ~Interrupt,
         ~\E w \in Workspace, d \in Directory : WriteData(w, d)
  PROVE  Tentative' = Tentative
  <1>1. CASE op.launched
    <2>1. op'.launched /\ op'.ws = op.ws
      BY <1>1, LaunchStays
    <2>2. UNCHANGED early
      BY <2>1, GhostsAhead, IdleTyped DEF Spared
    <2> QED
      BY <1>1, <2>1, <2>2 DEF Tentative
  <1>2. CASE ~op.launched /\ ~op'.launched
    BY <1>2, NoWork
  <1>3. CASE ~op.launched /\ op'.launched
    <2>1. BootContainer \/ BootFailed
      BY <1>3, LaunchAhead
    <2>2. op.kind = "create" /\ UNCHANGED early
      BY <2>1, Stages, CallsOnly DEF BootContainer, BootFailed, Step, Listed, OnlyTheCall, ghosts, Typed
    <2>3. op'.ws = op.ws
      <3>1. PICK s \in Steps, runs \in BOOLEAN : op' = [op EXCEPT !.step = s, !.launched = runs]
        BY <2>1 DEF BootContainer, BootFailed, Steps, Step
      <3> QED
        BY <3>1 DEF Typed, Turn, Calls
    <2>4. \A p \in early : p[1] # op.ws
      <3> SUFFICES ASSUME NEW p \in early PROVE p[1] # op.ws
        OBVIOUS
      <3>1. p \in written /\ p \in Piece
        BY DEF Typed, Stored
      <3>2. p[2] \in Directory /\ p = <<p[1], p[2]>>
        BY <3>1 DEF Piece
      <3> QED
        BY <1>3, <2>2, <3>1, <3>2 DEF Unwritten
    <2>5. Tentative' = {}
      BY <2>2, <2>3, <2>4 DEF Tentative
    <2> QED
      BY <1>3, <2>5, NoWork
  <1> QED
    BY <1>1, <1>2, <1>3

(* The call, the rows and the tombstones say of the data what they said.   *)
LEMMA HandsStay ==
  ASSUME Typed, Typed', Single, Single', UNCHANGED <<disk, written, dirTombs>>, Tentative' = Tentative,
         op'.claimed = op.claimed, op.claimed => op'.ws = op.ws /\ op'.dir = op.dir,
         \A w \in Workspace : \/ Present(w)' = Present(w)
                              \/ \A d \in Directory : live[w][d] \notin Workspace /\ archive[w][d] \notin Workspace
  PROVE  Custody!Settle
  <1>1. \A w \in Workspace : Present(w)' = Present(w) => LiveHand(w)' = LiveHand(w) /\ ArchiveHand(w)' = ArchiveHand(w)
    BY DEF LiveHand, ArchiveHand
  <1> QED
    BY <1>1, HandsChange DEF Custody!Settle

(* The creation is over, its data where it is.                             *)
LEMMA HandsSettle ==
  ASSUME Typed, Typed', Directories, Single', UNCHANGED <<disk, written, dirTombs, status>>, op' = Idle
  PROVE  Custody!Settle
  <1> Turn /\ Retired /\ Single /\ Workload
    BY DEF Typed, Directories, Places
  <1>1. ~op'.claimed /\ Tentative' = {}
    BY IdleTyped, NoWork
  <1>2. op.claimed => op.dir \notin dirTombs
    BY DEF Retired
  <1>3. \A w \in Workspace :
           /\ LiveHand(w)' \in {"held", "adrift"}
           /\ LiveHand(w)' = LiveHand(w) \/ LiveHand(w) = "claimed"
    BY <1>1 DEF LiveHand, Present
  <1>4. \A w \in Workspace :
           \/ ArchiveHand(w)' = ArchiveHand(w)
           \/ ArchiveHand(w) = "claimed" /\ ArchiveHand(w)' \in {"held", "adrift"}
    BY <1>1, <1>2 DEF ArchiveHand, Present
  <1>5. ASSUME NEW p \in Piece
        PROVE  \/ CustodyOf(p)' = CustodyOf(p)
               \/ CustodyOf(p) \in {"claimed", "tentative"} /\ CustodyOf(p)' \in {"held", "adrift"}
    <2>1. InHand(p) /\ InHand(p)'
      BY PlaceTells, PlaceTellsNext DEF Hands
    <2>2. /\ \A w \in Workspace : /\ LiveIn(p, w)' <=> LiveIn(p, w)
                                  /\ ArchivedIn(p, w)' <=> ArchivedIn(p, w)
          /\ Exists(p)' <=> Exists(p)
      BY DEF disk, LiveIn, ArchivedIn, Exists, Piece
    <2>3. CASE p \in Tentative
      BY <1>1, <1>3, <2>1, <2>2, <2>3, WorkIsLive DEF InHand
    <2>4. CASE p \notin Tentative
      BY <1>1, <1>3, <1>4, <2>1, <2>2, <2>4 DEF InHand, Exists
    <2> QED
      BY <2>3, <2>4
  <1> QED
    BY <1>5, Handed DEF Custody!Settle

(* The steps of a creation that touch no data.                             *)
LEMMA CreateHands ==
  ASSUME Typed, Typed', Directories, Single', Create, ~Touches
  PROVE  HandedOver
  <1> Turn /\ Stored /\ op \in Calls /\ Retired /\ Restoring /\ Fresh /\ Single
    BY DEF Typed, Turn, Directories, Places
  <1>0. UNCHANGED <<disk, written>>
    BY OthersTouchNothing DEF Next
  <1>a. CASE EndLaunch
    <2>1. UNCHANGED <<status, dirTombs>>
      BY <1>a DEF EndLaunch, tables
    <2>2. CASE op' = Idle
      BY <1>0, <2>1, <2>2, HandsSettle DEF HandedOver
    <2>3. CASE op' = [op EXCEPT !.step = "cleanup"] /\ UNCHANGED early
      <3>1. op'.claimed = op.claimed /\ op'.ws = op.ws /\ op'.dir = op.dir /\ op'.launched = op.launched
        BY <2>3 DEF Calls
      <3> QED
        BY <1>0, <2>1, <2>3, <3>1, SameWork, HandsStay DEF HandedOver, Present
    <2> QED
      BY <1>a, <2>2, <2>3 DEF EndLaunch, Finish, Go
  <1> SUFFICES ASSUME ~EndLaunch PROVE HandedOver
    BY <1>a
  <1>b. Tentative' = Tentative
    BY WorkStays DEF Directories, Next, Touches
  <1> USE <1>b, IdleTyped DEF Finish, Go, Step
  <1>1. ASSUME NEW w \in Workspace, NEW t \in Template, NEW dir, NEW from, BeginCreate(w, t, from, dir)
        PROVE  HandedOver
    <2>1. op'.claimed = FALSE /\ op.claimed = FALSE /\ UNCHANGED dirTombs
      BY <1>1 DEF BeginCreate, Calls
    <2>2. \A u \in Workspace : Present(u)' = Present(u)
      BY <1>1 DEF BeginCreate, Present, Stored
    <2> QED
      BY <1>0, <2>1, <2>2, HandsStay DEF HandedOver
  <1>2. CASE \/ \E v \in Volume : FindVolume(v)
             \/ ClaimVolume \/ CheckVolume \/ ReservePorts
    <2>1. op.claimed = FALSE /\ op'.claimed = FALSE /\ UNCHANGED <<status, dirTombs>>
      BY <1>2, Stages, CallsOnly DEF OnlyTheCall, tables, FindVolume, ClaimVolume, CheckVolume, ReservePorts,
         Continue, AfterDirectories, Unlisted, Listed, Launching, Creating, Calls
    <2>2. \A w \in Workspace : Present(w)' = Present(w)
      BY <2>1 DEF Present
    <2> QED
      BY <1>0, <2>1, <2>2, HandsStay DEF HandedOver
  <1>3. CASE FindDirectory \/ CheckDirectories \/ LaunchFailed \/ BootContainer \/ BootFailed \/ Leave
    <2>1. op'.claimed = op.claimed /\ op'.ws = op.ws /\ op'.dir = op.dir
      <3>1. CASE BootFailed
        <4>1. PICK runs \in BOOLEAN : op' = [op EXCEPT !.step = "cleanup", !.launched = runs]
          BY <3>1 DEF BootFailed
        <4> QED
          BY <4>1 DEF Calls
      <3>2. CASE ~BootFailed
        BY <1>3, <3>2 DEF FindDirectory, CheckDirectories, LaunchFailed, BootContainer, Leave, Calls
      <3> QED
        BY <3>1, <3>2
    <2>2. UNCHANGED <<status, dirTombs>>
      BY <1>3, CallsOnly DEF OnlyTheCall, tables, LaunchFailed
    <2> QED
      BY <1>0, <2>1, <2>2, HandsStay DEF HandedOver, Present
  <1>4. CASE InsertRow
    <2>1. /\ op.kind = "create" /\ op.ws \in Workspace /\ ~op.claimed /\ op'.claimed = op.claimed
          /\ UNCHANGED dirTombs /\ op.step = "insertRow" /\ ~op.restored /\ ~op.launched
      BY <1>4, Stages DEF InsertRow, Unlisted, Launching, Creating, Calls
    <2>2. \A d \in Directory : live[op.ws][d] \notin Workspace /\ archive[op.ws][d] \notin Workspace
      BY <2>1, Vacant DEF Restoring, Fresh
    <2>3. \A u \in Workspace : Present(u)' = Present(u) \/ u = op.ws
      BY <1>4 DEF InsertRow, Present, Stored
    <2> QED
      BY <1>0, <2>1, <2>2, <2>3, HandsStay DEF HandedOver
  <1>5. CASE ClaimDirectory
    <2>1. /\ op.kind = "create" /\ op.ws \in Workspace /\ ~op.claimed /\ op.step = "claimDir" /\ ~op.restored
          /\ ~op.launched /\ UNCHANGED status
      BY <1>5, Stages DEF ClaimDirectory, Listed, Launching, Creating
    <2>2. CASE UNCHANGED dirTombs /\ op' = [op EXCEPT !.step = "cleanup"]
      BY <1>0, <2>1, <2>2, HandsStay DEF HandedOver, Present, Calls
    <2>3. CASE /\ op.dir \in dirTombs /\ dirTombs' = dirTombs \ {op.dir}
               /\ op' = [op EXCEPT !.step = "checkDir", !.claimed = TRUE]
      <3>1. op'.claimed /\ op'.ws = op.ws /\ op'.dir = op.dir
        BY <2>3 DEF Calls
      <3>2. \A d \in Directory : live[op.ws][d] \notin Workspace
        BY <2>1 DEF Restoring
      <3>3. \A w \in Workspace : w = op.ws \/ LiveHand(w)' = LiveHand(w)
        BY <2>1, <3>1 DEF LiveHand, Present
      <3>4. \A w \in Workspace :
               \/ ArchiveHand(w)' = ArchiveHand(w)
               \/ ArchiveHand(w) \in {"retained"} /\ ArchiveHand(w)' \in {"claimed"}
        BY <2>1, <2>3, <3>1 DEF ArchiveHand, Present
      <3> QED
        BY <1>0, <3>2, <3>3, <3>4, HandsChange DEF Custody!Claim, HandedOver
    <2> QED
      BY <1>5, <2>2, <2>3 DEF ClaimDirectory
  <1>6. CASE EndRestore \/ LaunchWorkspace
    <2>1. UNCHANGED <<status, dirTombs>>
      BY <1>6, CallsOnly DEF OnlyTheCall, tables, LaunchWorkspace
    <2>2. CASE op' = Idle
      BY <1>0, <2>1, <2>2, HandsSettle DEF HandedOver
    <2>3. CASE op' # Idle
      <3>1. op'.claimed = op.claimed /\ op'.ws = op.ws /\ op'.dir = op.dir
        BY <1>6, <2>3 DEF EndRestore, LaunchWorkspace, Continue, AfterDirectories, Calls
      <3> QED
        BY <1>0, <2>1, <3>1, HandsStay DEF HandedOver, Present
    <2> QED
      BY <2>2, <2>3
  <1> QED
    BY <1>1, <1>2, <1>3, <1>4, <1>5, <1>6 DEF Create, Touches, HandedOver

(* Those of starts, deletes and the timeout pass; only the end of a delete *)
(* hands over data.                                                        *)
LEMMA LifecycleHands ==
  ASSUME Typed, Typed', Directories, Single', Lifecycle, ~Touches
  PROVE  HandedOver
  <1> Turn /\ Stored /\ op \in Calls /\ Retired /\ Rooted /\ Forgetting /\ Single
    BY DEF Typed, Turn, Directories, Places
  <1>0. UNCHANGED <<disk, written>>
    BY OthersTouchNothing DEF Next
  <1>a. CASE Interrupt
    BY <1>0, <1>a, HandsSettle DEF Interrupt, Finish, tables, HandedOver
  <1>b. CASE EndLaunch
    BY <1>b, CreateHands DEF Create
  <1> SUFFICES ASSUME ~Interrupt, ~EndLaunch PROVE HandedOver
    BY <1>a, <1>b
  <1>c. Tentative' = Tentative
    BY WorkStays DEF Directories, Next, Touches
  <1> USE <1>c, IdleTyped DEF Finish, Go, Step
  <1>1. CASE \E w \in Workspace : Adopt(w) \/ TimeoutRemoves(w)
    <2>1. UNCHANGED <<op, status, dirTombs>>
      BY <1>1 DEF Adopt, TimeoutRemoves, tables
    <2> QED
      BY <1>0, <2>1, HandsStay DEF HandedOver, Present
  <1>2. CASE \/ \E w \in Workspace : BeginStart(w) \/ BeginDelete(w)
             \/ CreateContainer \/ CreateRefused \/ RemoveContainer
    <2>1. UNCHANGED <<status, dirTombs>>
      BY <1>2, CallsOnly DEF OnlyTheCall, tables, CreateContainer, CreateRefused, RemoveContainer
    <2>2. op.claimed = FALSE /\ op'.claimed = FALSE
      BY <1>2, Stages DEF BeginStart, BeginDelete, CreateContainer, CreateRefused, RemoveContainer, Calls, Turn
    <2> QED
      BY <1>0, <2>1, <2>2, HandsStay DEF HandedOver, Present
  <1>3. CASE ForgetWorkspace
    <2>1. op.kind = "delete" /\ op.ws \in Workspace /\ Present(op.ws) /\ ~op.claimed /\ op.step = "forget"
      BY <1>3, Stages DEF ForgetWorkspace, Turn
    <2>2. op'.claimed = FALSE /\ status' = [status EXCEPT ![op.ws] = "absent"]
          /\ dirTombs' = IF Dirs(op.ws) = {} THEN dirTombs ELSE dirTombs \cup {op.ws}
      BY <1>3 DEF ForgetWorkspace
    <2>3. \A d \in Directory : live[op.ws][d] \notin Workspace
      BY <2>1 DEF Forgetting, Blank
    <2>4. \A d \in Directory : archive[op.ws][d] \in Workspace => Dirs(op.ws) # {}
      BY <2>1, Vacant DEF Rooted
    <2>5. op.ws \notin dirTombs
      BY <2>1 DEF Retired, Gone, Present
    <2>6. \A w \in Workspace \ {op.ws} : LiveHand(w)' = LiveHand(w) /\ ArchiveHand(w)' = ArchiveHand(w)
      BY <2>1, <2>2 DEF LiveHand, ArchiveHand, Present, Stored
    <2>7. \A w \in Workspace : w = op.ws /\ Dirs(w) # {} => ArchiveHand(w) = "held" /\ ArchiveHand(w)' = "retained"
      BY <2>1, <2>2, <2>5 DEF ArchiveHand
    <2> QED
      BY <1>0, <2>3, <2>4, <2>6, <2>7, HandsChange DEF Custody!Delete, HandedOver
  <1> QED
    BY <1>1, <1>2, <1>3 DEF Lifecycle, Touches

(* A tombstone goes when nothing of its directories is left.               *)
LEMMA DiscardHands ==
  ASSUME Typed, Typed', Directories, Single', Discard, ~Touches
  PROVE  HandedOver
  <1> Turn /\ Stored /\ Retired /\ Rooted /\ Single
    BY DEF Typed, Directories, Places
  <1>0. UNCHANGED <<disk, written>>
    BY OthersTouchNothing DEF Next
  <1>1. UNCHANGED <<op, status>>
    BY DEF Discard, Touches, FindDirectoryToDiscard, ForgetDirectory, FindVolumeToDiscard, DiscardVolume,
       ForgetVolume, tables
  <1>a. Tentative' = Tentative
    <2>1. UNCHANGED early
      BY DEF Discard, Touches, FindDirectoryToDiscard, ForgetDirectory, FindVolumeToDiscard, DiscardVolume,
         ForgetVolume, ghosts
    <2> QED
      BY <1>1, <2>1, SameWork
  <1> USE <1>a
  <1>2. CASE UNCHANGED dirTombs
    BY <1>0, <1>1, <1>2, HandsStay DEF HandedOver, Present
  <1>3. CASE \E a \in Workspace : ForgetDirectory(a)
    <2>1. PICK a \in Workspace : ForgetDirectory(a)
      BY <1>3
    <2>2. dirTombs' = dirTombs \ {a} /\ a \notin archiveDir
      BY <2>1 DEF ForgetDirectory, Retired
    <2>3. \A d \in Directory : archive[a][d] \notin Workspace
      BY <2>2, Vacant DEF Rooted
    <2>4. \A w \in Workspace : /\ LiveHand(w)' = LiveHand(w)
                               /\ w = a \/ ArchiveHand(w)' = ArchiveHand(w)
      BY <1>1, <2>2 DEF LiveHand, ArchiveHand, Present
    <2> QED
      BY <1>0, <2>3, <2>4, HandsChange DEF Custody!Settle, HandedOver
  <1> QED
    BY <1>2, <1>3 DEF Discard, Touches, FindDirectoryToDiscard, FindVolumeToDiscard, DiscardVolume,
       ForgetVolume, tables

(* Steps that touch data and hand over none of it.                         *)
LEMMA HandsFollow ==
  ASSUME Typed, Typed', Single, Single', UNCHANGED written, Tentative' = Tentative,
         \A p \in Piece, w \in Workspace :
            /\ LiveIn(p, w) => \E u \in Workspace :
                  \/ LiveIn(p, u)' /\ LiveHand(u)' = LiveHand(w)
                  \/ ArchivedIn(p, u)' /\ ArchiveHand(u)' = LiveHand(w)
            /\ ArchivedIn(p, w) => \E u \in Workspace :
                  \/ LiveIn(p, u)' /\ LiveHand(u)' = ArchiveHand(w)
                  \/ ArchivedIn(p, u)' /\ ArchiveHand(u)' = ArchiveHand(w),
         \A p \in Piece : Exists(p)' => Exists(p)
  PROVE  HandedOver
  <1> SUFFICES ASSUME NEW p \in Piece PROVE CustodyOf(p)' = CustodyOf(p)
    BY Handed DEF Custody!Settle, HandedOver
  <1>1. InHand(p) /\ InHand(p)'
    BY PlaceTells, PlaceTellsNext DEF Hands
  <1>2. CASE \E w \in Workspace : LiveIn(p, w)
    BY <1>1, <1>2 DEF InHand
  <1>3. CASE \E w \in Workspace : ArchivedIn(p, w)
    BY <1>1, <1>3 DEF InHand
  <1>4. CASE ~Exists(p)
    BY <1>1, <1>4 DEF InHand
  <1> QED
    BY <1>2, <1>3, <1>4 DEF Exists

LEMMA EnsureHands ==
  ASSUME Typed, Typed', Single, Single', NEW w \in Workspace, EnsureDirectories(w),
         UNCHANGED <<archive, written, status, dirTombs>>, Tentative' = Tentative,
         op'.claimed = op.claimed, op.claimed => op'.ws = op.ws /\ op'.dir = op.dir
  PROVE  HandedOver
  <1>1. \A u \in Workspace : LiveHand(u)' = LiveHand(u) /\ ArchiveHand(u)' = ArchiveHand(u)
    BY DEF LiveHand, ArchiveHand, Present
  <1>2. \A p \in Piece : p[1] \in Workspace /\ p[2] \in Directory
    BY DEF Piece
  <1>3. \A p \in Piece, u \in Workspace : /\ LiveIn(p, u)' <=> LiveIn(p, u)
                                          /\ ArchivedIn(p, u)' <=> ArchivedIn(p, u)
    BY <1>2, Ensured, Vacant DEF LiveIn, ArchivedIn, Typed
  <1>4. \A p \in Piece : Exists(p)' => Exists(p)
    BY <1>3 DEF Exists
  <1> QED
    BY <1>1, <1>3, <1>4, HandsFollow

(* A delete holds in the archive what the workspace held.                  *)
LEMMA ArchiveHands ==
  ASSUME Typed, Typed', Directories, Single', ArchiveDirectories, ~UNCHANGED disk
  PROVE  HandedOver
  <1> Turn /\ Stored /\ Retired /\ Rooted /\ Single
    BY DEF Typed, Directories, Places
  <1>1. PICK v \in Workspace : v = op.ws
    BY Archived
  <1>2. /\ op.kind = "delete" /\ Present(v) /\ op.claimed = FALSE /\ v \notin archiveDir /\ UNCHANGED written
        /\ op'.claimed = FALSE /\ op.launched = FALSE /\ op'.launched = FALSE
    BY <1>1, Archived DEF ghosts, Turn, Calls
  <1>3. UNCHANGED <<status, dirTombs>>
    BY DEF ArchiveDirectories, tables
  <1>4. \A u \in Workspace, e \in Directory :
           /\ live'[u][e] = IF u = v THEN Missing ELSE live[u][e]
           /\ archive'[u][e] = IF u = v THEN live[u][e] ELSE archive[u][e]
    BY <1>1, Archived
  <1>5. \A e \in Directory : archive[v][e] = Missing
    BY <1>2 DEF Rooted
  <1>6. v \notin dirTombs
    BY <1>2 DEF Retired, Gone, Present
  <1>7. \A u \in Workspace : LiveHand(u)' = LiveHand(u) /\ ArchiveHand(u)' = ArchiveHand(u)
    BY <1>2, <1>3 DEF LiveHand, ArchiveHand, Present
  <1>8. ArchiveHand(v)' = LiveHand(v)
    BY <1>2, <1>3, <1>6 DEF LiveHand, ArchiveHand, Present
  <1>9. ASSUME NEW p \in Piece, NEW u \in Workspace
        PROVE  /\ LiveIn(p, u) => IF u = v THEN ArchivedIn(p, u)' ELSE LiveIn(p, u)'
               /\ ArchivedIn(p, u) => u # v /\ ArchivedIn(p, u)'
               /\ LiveIn(p, u)' => LiveIn(p, u)
               /\ ArchivedIn(p, u)' => LiveIn(p, u) \/ ArchivedIn(p, u)
    BY <1>4, <1>5, Vacant DEF LiveIn, ArchivedIn, Piece
  <1>10. \A p \in Piece : Exists(p)' => Exists(p)
    BY <1>9 DEF Exists
  <1> QED
    BY <1>2, <1>7, <1>8, <1>9, <1>10, NoWork, HandsFollow

(* What is moved remains claimed. *)
LEMMA MoveHands ==
  ASSUME Typed, Typed', Directories, Single', NEW d \in Directory, MoveDirectory(d)
  PROVE  HandedOver
  <1> Turn /\ Stored /\ Single /\ op \in Calls
    BY DEF Typed, Turn, Directories, Places
  <1>1. PICK v \in Workspace, a \in Workspace : v = op.ws /\ a = op.dir
    BY Moved
  <1>2. op.claimed /\ live[v][d] = Empty /\ UNCHANGED written
        /\ op' = [op EXCEPT !.todo = @ \ {d}, !.moved = @ \cup {d}]
    BY <1>1, Moved DEF ghosts
  <1>3. UNCHANGED <<status, dirTombs>> /\ op'.claimed = op.claimed /\ op'.ws = v /\ op'.dir = a
        /\ op'.launched = op.launched /\ UNCHANGED early
    BY <1>1, <1>2 DEF MoveDirectory, tables, ghosts, Calls
  <1>4. \A u \in Workspace, e \in Directory :
           /\ live'[u][e] = IF u = v /\ e = d THEN archive[a][d] ELSE live[u][e]
           /\ archive'[u][e] = IF u = a /\ e = d THEN Missing ELSE archive[u][e]
    BY <1>1, MovedWhere
  <1>5. \A u \in Workspace : LiveHand(u)' = LiveHand(u) /\ ArchiveHand(u)' = ArchiveHand(u)
    BY <1>1, <1>3 DEF LiveHand, ArchiveHand, Present
  <1>6. LiveHand(v)' = ArchiveHand(a)
    BY <1>1, <1>2, <1>3 DEF LiveHand, ArchiveHand
  <1>7. ASSUME NEW p \in Piece, NEW u \in Workspace
        PROVE  /\ LiveIn(p, u) => LiveIn(p, u)'
               /\ ArchivedIn(p, u) => ArchivedIn(p, u)' \/ (u = a /\ LiveIn(p, v)')
               /\ LiveIn(p, u)' => LiveIn(p, u) \/ ArchivedIn(p, a)
               /\ ArchivedIn(p, u)' => ArchivedIn(p, u)
    BY <1>2, <1>4, Vacant DEF LiveIn, ArchivedIn, Piece
  <1>8. \A p \in Piece : Exists(p)' => Exists(p)
    BY <1>7 DEF Exists
  <1> QED
    BY <1>1, <1>2, <1>3, <1>5, <1>6, <1>7, <1>8, SameWork, HandsFollow

LEMMA AbortHands ==
  ASSUME Typed, Typed', Directories, Single', NEW d \in Directory, AbortMove(d)
  PROVE  HandedOver
  <1> Turn /\ Stored /\ Single /\ op \in Calls /\ Restoring
    BY DEF Typed, Turn, Directories, Places
  <1>1. PICK v \in Workspace, a \in Workspace : v = op.ws /\ a = op.dir
    BY Aborted
  <1>2. op.kind = "create" /\ op.claimed /\ op.step = "restore" /\ d \in op.todo /\ UNCHANGED written
        /\ op' = [op EXCEPT !.step = "cleanup"] /\ ~op.restored /\ ~op.launched
    BY Aborted DEF ghosts, Turn, Creating, Launching
  <1>3. UNCHANGED <<status, dirTombs>> /\ op'.claimed = op.claimed /\ op'.ws = v /\ op'.dir = a
        /\ ~op'.launched
    BY <1>1, <1>2 DEF AbortMove, tables, Calls
  <1>4. PICK back \in SUBSET op.moved : \A u \in Workspace, e \in Directory :
           /\ live'[u][e] = IF u = v /\ e \in back \cup {d} THEN Missing ELSE live[u][e]
           /\ archive'[u][e] = IF u = a /\ e \in back THEN live[v][e] ELSE archive[u][e]
    <2>1. PICK back \in SUBSET op.moved : Returned(d, back)
      BY Aborted
    <2> QED
      BY <1>1, <2>1 DEF Returned
  <1>5. \A u \in Workspace : LiveHand(u)' = LiveHand(u) /\ ArchiveHand(u)' = ArchiveHand(u)
    BY <1>1, <1>3 DEF LiveHand, ArchiveHand, Present
  <1>6. ArchiveHand(a)' = LiveHand(v)
    BY <1>1, <1>2, <1>3 DEF LiveHand, ArchiveHand
  <1>7. live[v][d] \notin Workspace /\ \A e \in back : archive[a][e] = Missing
    BY <1>1, <1>2 DEF Restoring, Restore
  <1>8. ASSUME NEW p \in Piece, NEW u \in Workspace
        PROVE  /\ LiveIn(p, u) => LiveIn(p, u)' \/ (u = v /\ ArchivedIn(p, a)')
               /\ ArchivedIn(p, u) => ArchivedIn(p, u)'
               /\ LiveIn(p, u)' => LiveIn(p, u)
               /\ ArchivedIn(p, u)' => ArchivedIn(p, u) \/ LiveIn(p, v)
    BY <1>4, <1>7, Vacant DEF LiveIn, ArchivedIn, Piece
  <1>9. \A p \in Piece : Exists(p)' => Exists(p)
    BY <1>8 DEF Exists
  <1> QED
    BY <1>2, <1>3, <1>5, <1>6, <1>8, <1>9, NoWork, HandsFollow

(* The clean-up of a creation: what it had claimed is where it got to, or  *)
(* goes with the new workspace after a discard of the rest.                *)
LEMMA CleanUpHands ==
  ASSUME Typed, Typed', Directories, Single', CleanUp
  PROVE  HandedOver
  <1> Turn /\ Stored /\ Single /\ op \in Calls /\ Restoring /\ Retired /\ Rooted /\ Fresh /\ Workload
    BY DEF Typed, Turn, Directories, Places
  <1>1. PICK v \in Workspace : v = op.ws
    BY Stages DEF CleanUp, Step
  <1>2. /\ op.kind = "create" /\ op.step = "cleanup" /\ op'.claimed = FALSE /\ Tentative' = {}
        /\ UNCHANGED <<dirTombs, archive, archiveDir, written>>
    BY IdleTyped, Stages, NoWork DEF CleanUp, Step, Finish
  <1>3. \A w \in Workspace : w # v => Present(w)' = Present(w)
    BY <1>1 DEF CleanUp, Present, Stored
  <1>4. op.claimed => op.dir \in Workspace /\ op.dir \notin dirTombs
    BY <1>2 DEF Retired, Turn, Creating
  <1>5. \A w \in Workspace, d \in Directory :
           live'[w][d] = IF w = v /\ ~op.restored THEN Missing ELSE live[w][d]
    BY <1>1, Removed DEF CleanUp
  <1>6. \A p \in Piece : InHand(p) /\ InHand(p)' /\ p[1] \in Workspace /\ p[2] \in Directory
    BY PlaceTells, PlaceTellsNext DEF Hands, Piece
  <1>7. \A w \in Workspace : w # v =>
           /\ LiveHand(w)' = LiveHand(w)
           /\ \/ ArchiveHand(w)' = ArchiveHand(w)
              \/ /\ op.claimed /\ w = op.dir
                 /\ ArchiveHand(w) = "claimed" /\ ArchiveHand(w)' \in {"held", "adrift"}
    BY <1>1, <1>2, <1>3, <1>4 DEF LiveHand, ArchiveHand
  <1>8. \A p \in Piece, w \in Workspace : /\ ArchivedIn(p, w) => w # v /\ ArchivedIn(p, w)'
                                          /\ ArchivedIn(p, w)' => ArchivedIn(p, w)
                                          /\ LiveIn(p, w)' => LiveIn(p, w)
                                          /\ LiveIn(p, w) /\ w # v => LiveIn(p, w)'
    BY <1>1, <1>2, <1>5, <1>6, Vacant DEF Fresh, ArchivedIn, LiveIn
  <1>9. \A p \in Piece : ~Exists(p) => CustodyOf(p)' = CustodyOf(p)
    BY <1>2, <1>6, <1>8 DEF Exists, InHand
  <1>10. CASE op.restored
    <2>1. op.claimed
      BY <1>2, <1>10 DEF Turn, Creating
    <2>2. \A p \in Piece : LiveIn(p, v) => LiveIn(p, v)'
      BY <1>5, <1>6, <1>10 DEF LiveIn
    <2>3. LiveHand(v) = "claimed" /\ LiveHand(v)' \in {"held", "adrift"}
      BY <1>1, <1>2, <2>1 DEF LiveHand
    <2>4. ASSUME NEW p \in Piece
          PROVE  \/ CustodyOf(p)' = CustodyOf(p)
                 \/ CustodyOf(p) \in {"claimed", "tentative"} /\ CustodyOf(p)' \in {"held", "adrift"}
      <3>1. CASE p \in Tentative
        BY <1>1, <1>2, <1>6, <2>2, <2>3, <3>1, WorkIsLive DEF InHand
      <3>2. CASE p \notin Tentative
        BY <1>2, <1>6, <1>7, <1>8, <1>9, <2>2, <2>3, <3>2 DEF Exists, InHand
      <3> QED
        BY <3>1, <3>2
    <2> QED
      BY <2>4, Handed DEF Custody!Settle, HandedOver
  <1>11. CASE ~op.launched /\ Blank(v)
    <2>0. Tentative = {}
      BY <1>11, NoWork
    <2>1. \A p \in Piece : ~LiveIn(p, v)
      BY <1>6, <1>11 DEF Blank, LiveIn
    <2>2. ASSUME NEW p \in Piece
          PROVE  \/ CustodyOf(p)' = CustodyOf(p)
                 \/ CustodyOf(p) \in {"claimed", "tentative"} /\ CustodyOf(p)' \in {"held", "adrift"}
      BY <1>2, <1>6, <1>7, <1>8, <1>9, <2>0, <2>1 DEF Exists, InHand
    <2> QED
      BY <2>2, Handed DEF Custody!Settle, HandedOver
  <1>12. CASE ~op.launched /\ ~op.restored /\ op.claimed /\ op.dir \notin archiveDir
    <2>0. Tentative = {}
      BY <1>12, NoWork
    <2>1. \A p \in Piece : ~ArchivedIn(p, op.dir)
      BY <1>4, <1>6, <1>12, Vacant DEF Rooted, ArchivedIn
    <2>2. LiveHand(v) = "claimed"
      BY <1>1, <1>12 DEF LiveHand
    <2>3. ASSUME NEW p \in Piece, LiveIn(p, v) PROVE CustodyOf(p) = "claimed" /\ CustodyOf(p)' = "discarded"
      <3>1. p \in written' /\ CustodyOf(p) = "claimed"
        BY <1>2, <1>6, <2>0, <2>2, <2>3 DEF InHand, Exists
      <3>2. \A w \in Workspace : (LiveIn(p, w) => w = v) /\ ~ArchivedIn(p, w)
        <4>1. \A w \in Workspace : SingleIn(v, w, p[2])
          BY <1>6 DEF Single
        <4> QED
          BY <1>6, <2>3, <4>1 DEF SingleIn, LiveIn, ArchivedIn
      <3>3. ~Exists(p)'
        BY <1>5, <1>6, <1>8, <1>12, <3>2, Vacant DEF Exists, LiveIn
      <3> QED
        BY <1>6, <3>1, <3>3 DEF InHand
    <2>4. ASSUME NEW p \in Piece
          PROVE  \/ CustodyOf(p)' = CustodyOf(p)
                 \/ CustodyOf(p) \in {"retained", "claimed", "adrift"} /\ CustodyOf(p)' \in {"discarded"}
      BY <1>2, <1>6, <1>7, <1>8, <1>9, <2>0, <2>1, <2>3 DEF Exists, InHand
    <2> QED
      BY <2>4, Handed DEF Custody!Discard, HandedOver
  <1>13. CASE op.launched /\ ~op.restored
    <2>1. ~op.claimed
      BY <1>2, <1>13 DEF Turn, Creating
    <2>2. ASSUME NEW p \in Piece, LiveIn(p, v) PROVE p \in Tentative
      <3>1. p[1] = v /\ <<v, p[2]>> \in early
        BY <1>1, <1>6, <1>13, <2>2 DEF Workload, LiveIn
      <3>2. p = <<p[1], p[2]>>
        BY DEF Piece
      <3> QED
        BY <1>1, <1>13, <3>1, <3>2 DEF Tentative
    <2>3. ASSUME NEW p \in Piece, p \in Tentative PROVE CustodyOf(p) = "tentative" /\ CustodyOf(p)' = "discarded"
      <3>1. LiveIn(p, v) /\ p \in written /\ CustodyOf(p) = "tentative"
        BY <1>1, <1>6, <2>3, WorkIsLive DEF InHand
      <3>2. \A w \in Workspace : (LiveIn(p, w) => w = v) /\ ~ArchivedIn(p, w)
        <4>1. \A w \in Workspace : SingleIn(v, w, p[2])
          BY <1>6 DEF Single
        <4> QED
          BY <1>6, <3>1, <4>1 DEF SingleIn, LiveIn, ArchivedIn
      <3>3. ~Exists(p)'
        BY <1>5, <1>6, <1>8, <1>13, <3>2, Vacant DEF Exists, LiveIn
      <3> QED
        BY <1>2, <1>6, <3>1, <3>3 DEF InHand
    <2>4. \A w \in Workspace : w # v => LiveHand(w)' = LiveHand(w) /\ ArchiveHand(w)' = ArchiveHand(w)
      BY <1>7, <2>1
    <2>5. ASSUME NEW p \in Piece
          PROVE  \/ CustodyOf(p)' = CustodyOf(p)
                 \/ CustodyOf(p) \in {"tentative"} /\ CustodyOf(p)' \in {"discarded"}
      <3>1. CASE p \in Tentative
        BY <2>3, <3>1
      <3>2. CASE p \notin Tentative
        <4>1. ~LiveIn(p, v)
          BY <2>2, <3>2
        <4> QED
          BY <1>2, <1>6, <1>8, <1>9, <2>4, <3>2, <4>1 DEF Exists, InHand
      <3> QED
        BY <3>1, <3>2
    <2> QED
      BY <2>5, Handed DEF Custody!Fail, HandedOver
  <1> QED
    BY <1>1, <1>2, <1>10, <1>11, <1>12, <1>13 DEF Restoring

LEMMA RemoveHands ==
  ASSUME Typed, Typed', Directories, Single', NEW a \in Workspace, DiscardDirectory(a)
  PROVE  HandedOver
  <1> Turn /\ Stored /\ Single /\ Retired /\ Workload
    BY DEF Typed, Directories, Places
  <1>1. /\ UNCHANGED <<live, op, status, dirTombs, written, early>> /\ dirDiscard[a] = "found"
        /\ \A u \in Workspace, e \in Directory :
              archive'[u][e] = archive[u][e] \/ (u = a /\ archive'[u][e] = Missing)
    BY Discarded DEF DiscardDirectory, tables, ghosts
  <1>2. \A p \in Piece : InHand(p) /\ InHand(p)' /\ p[1] \in Workspace /\ p[2] \in Directory
    BY PlaceTells, PlaceTellsNext DEF Hands, Piece
  <1>3. \A w \in Workspace : LiveHand(w)' = LiveHand(w) /\ ArchiveHand(w)' = ArchiveHand(w)
    BY <1>1 DEF LiveHand, ArchiveHand, Present
  <1>4. ArchiveHand(a) \in {"retained", "claimed", "adrift"}
    BY <1>1 DEF ArchiveHand, Retired, Gone, Present
  <1>5. \A p \in Piece, w \in Workspace : /\ LiveIn(p, w)' <=> LiveIn(p, w)
                                          /\ ArchivedIn(p, w)' => ArchivedIn(p, w)
                                          /\ ArchivedIn(p, w) /\ w # a => ArchivedIn(p, w)'
    BY <1>1, <1>2, Vacant DEF LiveIn, ArchivedIn
  <1>a. Tentative' = Tentative
    BY <1>1, SameWork
  <1>b. \A p \in Piece : p \in Tentative => Exists(p)'
    BY <1>5, WorkIsLive DEF Exists
  <1>6. ASSUME NEW p \in Piece
        PROVE  \/ CustodyOf(p)' = CustodyOf(p)
               \/ CustodyOf(p) \in {"retained", "claimed", "adrift"} /\ CustodyOf(p)' \in {"discarded"}
    <2>1. CASE Exists(p)'
      BY <1>2, <1>3, <1>5, <1>a, <2>1 DEF Exists, InHand
    <2>2. CASE ~Exists(p)'
      BY <1>1, <1>2, <1>4, <1>5, <1>b, <2>2 DEF Exists, InHand
    <2> QED
      BY <2>1, <2>2
  <1> QED
    BY <1>6, Handed DEF Custody!Discard, HandedOver

LEMMA WriteHands ==
  ASSUME Typed, Typed', Single, Single', NEW w \in Workspace, NEW d \in Directory, WriteData(w, d)
  PROVE  HandedOver
  <1>1. /\ Present(w) /\ live[w][d] = Empty /\ written' = written \cup {<<w, d>>}
        /\ op.ws = w => op.kind # "create" \/ op.launched
        /\ early' = IF op.launched /\ op.ws = w THEN early \cup {<<w, d>>} ELSE early
        /\ <<w, d>> \notin written /\ UNCHANGED <<tables, archive, op>>
    BY Written
  <1>2. \A p \in Piece : InHand(p) /\ InHand(p)' /\ p[1] \in Workspace /\ p[2] \in Directory /\ p = <<p[1], p[2]>>
    BY PlaceTells, PlaceTellsNext DEF Hands, Piece
  <1>3. \A u \in Workspace : LiveHand(u)' = LiveHand(u) /\ ArchiveHand(u)' = ArchiveHand(u)
    BY <1>1 DEF LiveHand, ArchiveHand, Present, tables
  <1>4. LiveHand(w) = "held" \/ <<w, d>> \in Tentative'
    <2>1. CASE op.launched /\ op.ws = w
      BY <1>1, <2>1 DEF Tentative
    <2>2. CASE ~(op.launched /\ op.ws = w)
      BY <1>1, <2>2 DEF LiveHand, Typed, Turn
    <2> QED
      BY <2>1, <2>2
  <1>a. \A p : p # <<w, d>> => (p \in Tentative' <=> p \in Tentative)
    BY <1>1 DEF Tentative
  <1>5. \A u \in Workspace, e \in Directory : live'[u][e] = IF u = w /\ e = d THEN w ELSE live[u][e]
    BY WrittenWhere
  <1>6. ASSUME NEW p \in Piece
        PROVE  \/ CustodyOf(p)' = CustodyOf(p)
               \/ CustodyOf(p) \in {"unwritten"} /\ CustodyOf(p)' \in {"held", "tentative"}
    <2>1. CASE p = <<w, d>>
      <3>1. LiveIn(p, w)' /\ ~Exists(p)
        BY <1>1, <1>2, <1>5, <2>1 DEF LiveIn, InHand
      <3> QED
        BY <1>1, <1>2, <1>3, <1>4, <2>1, <3>1 DEF InHand
    <2>2. CASE p # <<w, d>>
      <3>1. \A u \in Workspace : (LiveIn(p, u)' <=> LiveIn(p, u)) /\ (ArchivedIn(p, u)' <=> ArchivedIn(p, u))
        BY <1>1, <1>2, <1>5, <2>2, Vacant DEF LiveIn, ArchivedIn
      <3>2. (p \in written)' <=> p \in written
        BY <1>1, <2>2
      <3> QED
        BY <1>2, <1>3, <1>a, <2>2, <3>1, <3>2 DEF InHand, Exists
    <2> QED
      BY <2>1, <2>2
  <1> QED
    BY <1>6, Handed DEF Custody!Write, HandedOver

LEMMA NextHands ==
  ASSUME Typed, Typed', Directories, Directories', Next
  PROVE  HandedOver
  <1> Turn /\ Stored /\ Single /\ Single' /\ op \in Calls
    BY DEF Typed, Turn, Directories, Places
  <1>1. CASE MakeDirectories \/ PrepareStorage
    <2>1. CASE op' = Idle /\ UNCHANGED live
      <3>1. UNCHANGED <<disk, written, status, dirTombs>>
        BY <1>1, <2>1 DEF MakeDirectories, PrepareStorage, disk, tables, ghosts
      <3> QED
        BY <2>1, <3>1, HandsSettle DEF HandedOver
    <2>2. CASE EnsureDirectories(op.ws) /\ op'.claimed = op.claimed /\ op'.ws = op.ws /\ op'.dir = op.dir
      <3>1. op.ws \in Workspace
        BY <1>1, Stages DEF MakeDirectories, PrepareStorage, Step
      <3>2. UNCHANGED <<archive, written, early, status, dirTombs>>
        BY <1>1 DEF MakeDirectories, PrepareStorage, tables, ghosts
      <3>3. op'.launched = op.launched
        BY <1>1, <2>2, IdleTyped, Stages DEF MakeDirectories, PrepareStorage, Go, Finish, Step, Calls, Turn,
           Unlisted, Creating
      <3> QED
        BY <2>2, <3>1, <3>2, <3>3, SameWork, EnsureHands
    <2> QED
      BY <1>1, <2>1, <2>2 DEF MakeDirectories, PrepareStorage, Go, Finish, Calls
  <1>2. CASE \E w \in Workspace : OpenFileManager(w)
    <2>1. PICK w \in Workspace : OpenFileManager(w)
      BY <1>2
    <2>2. EnsureDirectories(w) /\ UNCHANGED <<archive, written, early, status, dirTombs, op>>
      BY <2>1 DEF OpenFileManager, tables, ghosts
    <2> QED
      BY <2>2, SameWork, EnsureHands
  <1>3. CASE ArchiveDirectories
    <2>1. CASE UNCHANGED disk
      <3>1. UNCHANGED <<written, status, dirTombs>>
        BY <1>3 DEF ArchiveDirectories, tables, ghosts
      <3>2. op.claimed = FALSE /\ op'.claimed = FALSE /\ op.launched = FALSE /\ op'.launched = FALSE
        BY <1>3, Archived, IdleTyped DEF Turn, Calls
      <3> QED
        BY <2>1, <3>1, <3>2, NoWork, HandsStay DEF HandedOver, Present
    <2> QED
      BY <1>3, <2>1, ArchiveHands
  <1>4. CASE Touches
    BY <1>1, <1>2, <1>3, <1>4, CleanUpHands, MoveHands, AbortHands, RemoveHands, WriteHands DEF Touches
  <1>5. CASE ~Touches
    <2>1. CASE Create
      BY <1>5, <2>1, CreateHands
    <2>2. CASE Lifecycle
      BY <1>5, <2>2, LifecycleHands
    <2>3. CASE Discard
      BY <1>5, <2>3, DiscardHands
    <2> QED
      BY <1>5, <2>1, <2>2, <2>3 DEF Next, Touches
  <1> QED
    BY <1>4, <1>5

LEMMA CustodyStates ==
  ASSUME NEW p
  PROVE  CustodyOf(p) \in Custody!State /\ CustodyOf(p)' \in Custody!State
  BY DEF CustodyOf, Custody!State

LEMMA InitCustody == Init => Custody!Init
  <1> SUFFICES ASSUME Init, NEW p \in Piece PROVE CustodyOf(p) = "unwritten"
    BY DEF Custody!Init
  <1> QED
    BY DEF Init, CustodyOf

(* The operations on retained storage implement StorageCustody, as long as *)
(* a rename that was just made can be undone: data in a workspace leaves   *)
(* it only into retention, retained data only by the claim of one creation *)
(* or by a discard (ForgetWorkspace, consumeReattachedDirectory and        *)
(* DeleteRetainedDirectory), and a creation that fails takes along only    *)
(* what its own container wrote (workspace.go:214-223).                    *)
THEOREM StorageKeepsCustody ==
  ASSUME "stuck" \notin Fault
  PROVE  Spec => KeepsCustody
  <1>1. Init => Typed /\ Directories
    BY InitTyped, InitDirectories
  <1>2. Typed /\ Directories /\ [Next]_vars => (Typed /\ Directories)'
    BY NextTyped, NextDirectories
  <1> DEFINE custody == [p \in Piece |-> CustodyOf(p)]
  <1>3. Typed /\ Directories /\ (Typed /\ Directories)' /\ [Next]_vars => [Custody!Next]_custody
    <2> SUFFICES ASSUME Typed, Directories, Typed', Directories', [Next]_vars
                 PROVE  [Custody!Next]_custody
      OBVIOUS
    <2>1. CASE Next
      <3>1. HandedOver
        BY <2>1, NextHands
      <3>2. custody' \in [Piece -> Custody!State]
        BY CustodyStates
      <3> QED
        BY <3>1, <3>2 DEF HandedOver, Custody!Next
    <2>2. CASE UNCHANGED vars
      <3>1. \A p \in Piece : CustodyOf(p)' = CustodyOf(p)
        BY <2>2 DEF vars, tables, disk, ghosts, CustodyOf, Tentative, Exists, InRestore, LiveIn, ArchivedIn,
           Present
      <3>2. custody' = custody
        BY <3>1
      <3> QED
        BY <3>2
    <2> QED
      BY <2>1, <2>2
  <1> QED
    BY <1>1, <1>2, <1>3, InitCustody, PTL DEF Spec, KeepsCustody, Custody!Spec

=============================================================================
