--------------------------- MODULE RetainedStorage ---------------------------
(***************************************************************************)
(* What becomes of the directories and named volumes of workspaces:        *)
(* creation with reattachment, start, timeout removal and explicit delete  *)
(* in internal/workspace/workspace.go, the renames of mounts.go, and the   *)
(* handlers that discard retained storage.                                 *)
(*                                                                         *)
(* Creation, start, delete and the removals of the timeout pass hold the   *)
(* admission lock, so one of them runs at a time (LifecycleLocks); the     *)
(* discards and the file manager hold no lock and run between its steps.   *)
(* One user owns everything; quotas, ports and networks are refusals.      *)
(***************************************************************************)
EXTENDS Naturals, FiniteSets, TLC

CONSTANTS
    Workspace,      \* identifiers; each is used once
    Directory, Volume,  \* names of mounts of either type
    Template,       \* the sets of mounts that templates define
    Fault,          \* what may go wrong: a subset of Faults
    WriteLimit,     \* bound: pieces of data that are written
    None

Faults == {"podman", "disk", "crash", "leave", "stuck"}

Missing == "missing"
Empty == "empty"

ASSUME StorageAssumption ==
    /\ Workspace \cap {None, Missing, Empty} = {} /\ Directory \cap Volume = {}
    /\ Template \subseteq SUBSET (Directory \cup Volume)
    /\ Fault \subseteq Faults /\ WriteLimit \in Nat

VARIABLES
    status,     \* status[w]: no such identifier yet, a row, or no row any more
    ran,        \* workspaces whose row has a runtime ID
    mounts,     \* mounts[w]: the template configuration copied into the row
    container,  \* container[w]: whether cows-<w> exists, whether the timeout pass once
                \* removed it, and what its volumes come from, or last came from
    live,       \* live[w][d]: the data in directory d under the mount root
    archive,    \* archive[w][d]: the same under the archive root
    archiveDir, \* workspaces whose container directory is under the archive root
    volumes,    \* the named volumes; <<w, v>> is "cows-w-v"
    dirTombs,   \* retained_workspace_directories
    volTombs,   \* retained_workspace_volumes
    op,         \* the call that holds the admission lock
    dirDiscard, volDiscard,     \* where the discards of retained storage are
    written,    \* ghost: the pieces of data ever written
    condemned,  \* ghost: those somebody asked to discard
    early       \* ghost: those written while the creation of their workspace went on,
                \* unless it has succeeded or left them in place

tables == <<status, ran, mounts, dirTombs, volTombs>>
disk == <<live, archive, archiveDir>>
podman == <<container, volumes>>
discards == <<dirDiscard, volDiscard>>
ghosts == <<written, condemned, early>>
vars == <<tables, disk, podman, op, discards, ghosts>>

Piece == Workspace \X Directory     \* what was first written where
VolumeName == Workspace \X Volume

NoVolumes == [v \in Volume |-> None]
NeverMade == [made |-> FALSE, again |-> FALSE, from |-> NoVolumes]

Steps == {"findVolume", "claimVolume", "checkVolume", "makeDirs", "insertRow", "ports",
          "findDir", "claimDir", "checkDir", "restore", "launch", "boot", "booted", "cleanup",
          "prepare", "create", "removeContainer", "archive", "forget"}

(* from[v] is the workspace whose volume is to be attached as v, at the    *)
(* volume being claimed, dir the workspace whose directories are; claimed, *)
(* moved and restored are how far it got, launched is whether its          *)
(* container runs; left is whether the client's context has ended.  A      *)
(* delete remembers in hadId whether the row it read had a runtime ID.     *)
Idle == [kind |-> "none", step |-> "idle", ws |-> None, from |-> NoVolumes,
         todo |-> {}, at |-> None, dir |-> None, claimed |-> FALSE, moved |-> {},
         restored |-> FALSE, launched |-> FALSE, left |-> FALSE, hadId |-> FALSE]

TypeOK ==
    /\ status \in [Workspace -> {"unused", "absent", "present"}]
    /\ ran \subseteq Workspace
    /\ mounts \in [Workspace -> Template \cup {{}}]
    /\ container \in [Workspace -> [made : BOOLEAN, again : BOOLEAN,
                                    from : [Volume -> Workspace \cup {None}]]]
    /\ live \in [Workspace -> [Directory -> Workspace \cup {Missing, Empty}]]
    /\ archive \in [Workspace -> [Directory -> Workspace \cup {Missing, Empty}]]
    /\ archiveDir \subseteq Workspace
    /\ volumes \subseteq VolumeName
    /\ dirTombs \subseteq Workspace /\ volTombs \subseteq VolumeName
    /\ op = Idle \/ (op.ws \in Workspace /\ op.step \in Steps)
    /\ dirDiscard \in [Workspace -> {"no", "found", "removed"}]
    /\ volDiscard \in [VolumeName -> {"no", "found", "removed"}]
    /\ condemned \cup early \subseteq written /\ written \subseteq Piece

Nothing == [d \in Directory |-> Missing]

Init ==
    /\ status = [w \in Workspace |-> "unused"]
    /\ ran = {} /\ mounts = [w \in Workspace |-> {}]
    /\ container = [w \in Workspace |-> NeverMade]
    /\ live = [w \in Workspace |-> Nothing] /\ archive = [w \in Workspace |-> Nothing]
    /\ archiveDir = {} /\ volumes = {}
    /\ dirTombs = {} /\ volTombs = {}
    /\ op = Idle
    /\ dirDiscard = [w \in Workspace |-> "no"] /\ volDiscard = [n \in VolumeName |-> "no"]
    /\ written = {} /\ condemned = {} /\ early = {}

-----------------------------------------------------------------------------

Dirs(w) == mounts[w] \cap Directory
Vols(w) == mounts[w] \cap Volume
Present(w) == status[w] = "present"
Step(s) == op.step = s
Go(s) == op' = [op EXCEPT !.step = s]
Finish == op' = Idle
Holds(fault) == fault \in Fault

(* ensureMountDirectories leaves what is there. *)
EnsureDirectories(w) ==
    live' = [live EXCEPT ![w] = [d \in Directory |->
                IF d \in Dirs(w) /\ @[d] = Missing THEN Empty ELSE @[d]]]

(* removeMountDirectories removes the whole tree of the workspace. *)
RemoveDirectories(w) == live' = [live EXCEPT ![w] = Nothing]

(* A statement of a request whose client has left fails, others do not. *)
CanWrite == ~op.left

-----------------------------------------------------------------------------
(* CreateWorkspace, in the order of its steps.                             *)

(* validateReattachCompatibility: each volume by name and type, of the     *)
(* directories only that the template has one.                             *)
Compatible(t, from, dir) ==
    /\ \A v \in Volume : from[v] # None => v \in t
    /\ dir # None => t \cap Directory # {}

BeginCreate(w, t, from, dir) ==
    /\ op = Idle /\ status[w] = "unused"
    /\ Compatible(t, from, dir)
    /\ status' = [status EXCEPT ![w] = "absent"]
    /\ mounts' = [mounts EXCEPT ![w] = t]
    /\ LET wanted == {v \in Volume : from[v] # None} IN
         op' = [Idle EXCEPT !.kind = "create", !.ws = w, !.from = from, !.dir = dir,
                            !.todo = wanted,
                            !.step = IF wanted = {} THEN "makeDirs" ELSE "findVolume"]
    /\ UNCHANGED <<ran, dirTombs, volTombs, disk, podman, discards, ghosts>>

(* consumeReattachedVolumes: a SELECT, a DELETE whose count is checked,    *)
(* and a question to Podman.  An error returns without any clean-up.       *)
FindVolume(v) ==
    /\ Step("findVolume") /\ v \in op.todo
    /\ IF CanWrite /\ <<op.from[v], v>> \in volTombs
          THEN op' = [op EXCEPT !.step = "claimVolume", !.at = v]
          ELSE Finish
    /\ UNCHANGED <<tables, disk, podman, discards, ghosts>>

Claimed == <<op.from[op.at], op.at>>

(* A slip: looks the tombstone up and leaves it. *)
ClaimVolumeKeeping ==
    /\ Step("claimVolume")
    /\ IF CanWrite /\ Claimed \in volTombs THEN Go("checkVolume") ELSE Finish
    /\ UNCHANGED <<tables, disk, podman, discards, ghosts>>

ClaimVolume ==
    /\ Step("claimVolume")
    /\ IF CanWrite /\ Claimed \in volTombs
          THEN volTombs' = volTombs \ {Claimed} /\ Go("checkVolume")
          ELSE Finish /\ UNCHANGED volTombs
    /\ UNCHANGED <<status, ran, mounts, dirTombs, disk, podman, discards, ghosts>>

CheckVolume ==
    /\ Step("checkVolume")
    /\ \/ /\ CanWrite /\ Claimed \in volumes
          /\ op' = [op EXCEPT !.todo = @ \ {op.at},
                              !.step = IF op.todo = {op.at} THEN "makeDirs" ELSE "findVolume"]
       \/ /\ op.left \/ Claimed \notin volumes \/ Holds("podman")
          /\ Finish
    /\ UNCHANGED <<tables, disk, podman, discards, ghosts>>

MakeDirectories ==
    /\ Step("makeDirs")
    /\ \/ EnsureDirectories(op.ws) /\ Go("insertRow")
       \/ Holds("disk") /\ Finish /\ UNCHANGED live
    /\ UNCHANGED <<tables, archive, archiveDir, podman, discards, ghosts>>

InsertRow ==
    /\ Step("insertRow")
    /\ IF CanWrite
          THEN status' = [status EXCEPT ![op.ws] = "present"] /\ Go("ports")
          ELSE Go("cleanup") /\ UNCHANGED status
    /\ UNCHANGED <<ran, mounts, dirTombs, volTombs, disk, podman, discards, ghosts>>

AfterDirectories == IF \E v \in Volume : op.from[v] # None THEN "launch" ELSE "done"

Continue(o, s) == IF s = "done" THEN Idle ELSE [o EXCEPT !.step = s]

(* reserveWorkspacePorts may find no free port. *)
ReservePorts ==
    /\ Step("ports")
    /\ \/ Go("cleanup")
       \/ CanWrite /\ op' = Continue(op, IF op.dir # None THEN "findDir" ELSE AfterDirectories)
    /\ UNCHANGED <<tables, disk, podman, discards, ghosts>>

FindDirectory ==
    /\ Step("findDir")
    /\ Go(IF CanWrite /\ op.dir \in dirTombs THEN "claimDir" ELSE "cleanup")
    /\ UNCHANGED <<tables, disk, podman, discards, ghosts>>

ClaimDirectory ==
    /\ Step("claimDir")
    /\ IF CanWrite /\ op.dir \in dirTombs
          THEN /\ dirTombs' = dirTombs \ {op.dir}
               /\ op' = [op EXCEPT !.step = "checkDir", !.claimed = TRUE]
          ELSE Go("cleanup") /\ UNCHANGED dirTombs
    /\ UNCHANGED <<status, ran, mounts, volTombs, disk, podman, discards, ghosts>>

(* restoreDirectoryMounts: all names must match and all sources exist      *)
(* before the first is moved.                                              *)
CheckDirectories ==
    /\ Step("checkDir")
    /\ IF /\ Dirs(op.dir) \subseteq Dirs(op.ws)
          /\ \A d \in Dirs(op.dir) : archive[op.dir][d] # Missing
          THEN op' = [op EXCEPT !.step = "restore", !.todo = Dirs(op.dir)]
          ELSE Go("cleanup")
    /\ UNCHANGED <<tables, disk, podman, discards, ghosts>>

MoveDirectory(d) ==
    /\ Step("restore") /\ d \in op.todo
    /\ archive[op.dir][d] # Missing /\ live[op.ws][d] = Empty
    /\ live' = [live EXCEPT ![op.ws][d] = archive[op.dir][d]]
    /\ archive' = [archive EXCEPT ![op.dir][d] = Missing]
    /\ op' = [op EXCEPT !.todo = @ \ {d}, !.moved = @ \cup {d}]
    /\ UNCHANGED <<tables, archiveDir, podman, discards, ghosts>>

(* A slip: the moves made so far are left as they are. *)
AbortMoveWithoutRollback(d) ==
    /\ Step("restore") /\ d \in op.todo
    /\ Holds("disk") \/ archive[op.dir][d] = Missing \/ live[op.ws][d] # Empty
    /\ Go("cleanup")
    /\ UNCHANGED <<tables, disk, podman, discards, ghosts>>

(* rollbackDirectoryMoves renames back what it can: nothing when a discard *)
(* has removed the directory it came from, or when the disk refuses.       *)
AbortMove(d) ==
    /\ Step("restore") /\ d \in op.todo
    /\ Holds("disk") \/ archive[op.dir][d] = Missing \/ live[op.ws][d] # Empty
    /\ \E back \in SUBSET op.moved :
         /\ IF op.dir \notin archiveDir THEN back = {} ELSE back = op.moved \/ Holds("stuck")
         /\ archive' = [archive EXCEPT ![op.dir] = [e \in Directory |->
                          IF e \in back THEN live[op.ws][e] ELSE @[e]]]
         /\ live' = [live EXCEPT ![op.ws] = [e \in Directory |->
                          IF e \in back \cup {d} THEN Missing ELSE @[e]]]
    /\ Go("cleanup")
    /\ UNCHANGED <<tables, archiveDir, podman, discards, ghosts>>

EndRestore ==
    /\ Step("restore") /\ op.todo = {}
    /\ op' = Continue([op EXCEPT !.restored = TRUE], AfterDirectories)
    /\ UNCHANGED <<tables, disk, podman, discards, ghosts>>

(* The volume a mount of a new container is given: the one that was        *)
(* claimed, or else the one named after the workspace.                     *)
Source(w, v) == IF v \notin mounts[w] THEN None
                ELSE IF op.from[v] # None THEN op.from[v] ELSE w

(* Podman makes the volumes that do not exist. *)
MakeContainer(w) ==
    /\ container' = [container EXCEPT ![w] =
                        [made |-> TRUE, again |-> @.again, from |-> [v \in Volume |-> Source(w, v)]]]
    /\ volumes' = volumes \cup {<<Source(w, v), v>> : v \in Vols(w)}

(* startWorkspace from within the creation, with its claimed volumes: the  *)
(* container is made and recorded, started, and the start recorded.        *)
LaunchWorkspace ==
    /\ Step("launch") /\ CanWrite
    /\ MakeContainer(op.ws) /\ ran' = ran \cup {op.ws}
    /\ Go("boot")
    /\ UNCHANGED <<status, mounts, dirTombs, volTombs, disk, discards, ghosts>>

(* Admission, Podman or a statement refuses, before the container is made  *)
(* or after it.                                                            *)
LaunchFailed ==
    /\ Step("launch") /\ (Holds("podman") \/ op.left)
    /\ \/ UNCHANGED podman
       \/ MakeContainer(op.ws)
    /\ Go("cleanup")
    /\ UNCHANGED <<tables, disk, discards, ghosts>>

BootContainer ==
    /\ Step("boot") /\ CanWrite
    /\ op' = [op EXCEPT !.step = "booted", !.launched = TRUE]
    /\ UNCHANGED <<tables, disk, podman, discards, ghosts>>

(* Podman may have started it all the same. *)
BootFailed ==
    /\ Step("boot") /\ (Holds("podman") \/ op.left)
    /\ \E runs \in BOOLEAN : op' = [op EXCEPT !.step = "cleanup", !.launched = runs]
    /\ UNCHANGED <<tables, disk, podman, discards, ghosts>>

(* What the container of the creation under way has written so far. *)
Tentative == {p \in early : op.launched /\ p[1] = op.ws}

EndLaunch ==
    /\ Step("booted")
    /\ IF CanWrite THEN Finish /\ early' = early \ Tentative ELSE Go("cleanup") /\ UNCHANGED early
    /\ UNCHANGED <<tables, disk, podman, discards, written, condemned>>

(* A slip: the directories go, whatever has been restored to them. *)
CleanUpRestored ==
    /\ Step("cleanup")
    /\ IF CanWrite THEN status' = [status EXCEPT ![op.ws] = "absent"] ELSE UNCHANGED status
    /\ RemoveDirectories(op.ws)
    /\ Finish
    /\ UNCHANGED <<ran, mounts, dirTombs, volTombs, archive, archiveDir, podman, discards,
                   ghosts>>

(* The container is left as it is, and the directories go with what it has *)
(* written to them, unless some have been restored.                        *)
CleanUp ==
    /\ Step("cleanup")
    /\ IF CanWrite THEN status' = [status EXCEPT ![op.ws] = "absent"] ELSE UNCHANGED status
    /\ IF op.restored THEN early' = early \ Tentative /\ UNCHANGED live
          ELSE RemoveDirectories(op.ws) /\ UNCHANGED early
    /\ Finish
    /\ UNCHANGED <<ran, mounts, dirTombs, volTombs, archive, archiveDir, podman, discards,
                   written, condemned>>

Leave ==
    /\ Holds("leave") /\ op.kind = "create" /\ ~op.left
    /\ op' = [op EXCEPT !.left = TRUE]
    /\ UNCHANGED <<tables, disk, podman, discards, ghosts>>

Create ==
    \/ LET Former == {w \in Workspace : status[w] # "unused"} \cup {None} IN
         \E w \in Workspace, t \in Template, f \in [Volume -> Former], d \in Former :
             BeginCreate(w, t, f, d)
    \/ \E v \in Volume : FindVolume(v)
    \/ ClaimVolume \/ CheckVolume
    \/ MakeDirectories \/ InsertRow \/ ReservePorts
    \/ FindDirectory \/ ClaimDirectory \/ CheckDirectories
    \/ \E d \in Directory : MoveDirectory(d) \/ AbortMove(d)
    \/ EndRestore \/ LaunchWorkspace \/ LaunchFailed \/ BootContainer \/ BootFailed
    \/ EndLaunch \/ CleanUp \/ Leave

-----------------------------------------------------------------------------
(* StartWorkspace, the removal by timeout and DeleteWorkspace, as far as   *)
(* they touch storage; WorkspaceLifecycle has their other steps.           *)

BeginStart(w) ==
    /\ op = Idle /\ Present(w) /\ (w \notin ran \/ ~container[w].made)
    /\ op' = [Idle EXCEPT !.kind = "start", !.ws = w, !.step = "prepare"]
    /\ UNCHANGED <<tables, disk, podman, discards, ghosts>>

PrepareStorage ==
    /\ Step("prepare")
    /\ EnsureDirectories(op.ws)
    /\ Go("create")
    /\ UNCHANGED <<tables, archive, archiveDir, podman, discards, ghosts>>

CreateContainer ==
    /\ Step("create") /\ ~container[op.ws].made
    /\ MakeContainer(op.ws) /\ ran' = ran \cup {op.ws}
    /\ Finish
    /\ UNCHANGED <<status, mounts, dirTombs, volTombs, disk, discards, ghosts>>

(* Also when cows-<w> is left over from a creation; the row forgets its    *)
(* runtime ID.                                                             *)
CreateRefused ==
    /\ Step("create") /\ (Holds("podman") \/ container[op.ws].made)
    /\ ran' = ran \ {op.ws}
    /\ Finish
    /\ UNCHANGED <<status, mounts, dirTombs, volTombs, disk, podman, discards, ghosts>>

(* Reconcile finds the container of a row that does not know it. *)
Adopt(w) ==
    /\ Present(w) /\ container[w].made
    /\ ran' = ran \cup {w}
    /\ UNCHANGED <<status, mounts, dirTombs, volTombs, disk, podman, op, discards, ghosts>>

TimeoutRemoves(w) ==
    /\ op = Idle /\ Present(w) /\ w \in ran /\ container[w].made
    /\ container' = [container EXCEPT ![w].made = FALSE, ![w].again = TRUE]
    /\ UNCHANGED <<tables, disk, volumes, op, discards, ghosts>>

(* The row was read before the locks were taken, perhaps before the first  *)
(* start.                                                                  *)
BeginDelete(w) ==
    /\ op = Idle /\ Present(w)
    /\ \E had \in BOOLEAN :
         /\ had => w \in ran
         /\ op' = [Idle EXCEPT !.kind = "delete", !.ws = w, !.hadId = had,
                               !.step = IF had THEN "removeContainer" ELSE "archive"]
    /\ UNCHANGED <<tables, disk, podman, discards, ghosts>>

(* Nothing is removed when the row that was read said that the timeout     *)
(* pass had done so.                                                       *)
RemoveContainer ==
    /\ Step("removeContainer")
    /\ \/ container' = [container EXCEPT ![op.ws].made = FALSE] /\ Go("archive")
       \/ container[op.ws].again /\ Go("archive") /\ UNCHANGED container
       \/ Holds("podman") /\ Finish /\ UNCHANGED container
    /\ UNCHANGED <<tables, disk, volumes, discards, ghosts>>

(* archiveMountDirectories is one rename of the whole tree. *)
ArchiveDirectories ==
    /\ Step("archive")
    /\ IF Dirs(op.ws) = {} \/ live[op.ws] = Nothing
          THEN Go("forget") /\ UNCHANGED disk
          ELSE \/ /\ op.ws \notin archiveDir
                  /\ archive' = [archive EXCEPT ![op.ws] = live[op.ws]]
                  /\ archiveDir' = archiveDir \cup {op.ws}
                  /\ RemoveDirectories(op.ws)
                  /\ Go("forget")
               \/ /\ op.ws \in archiveDir \/ Holds("disk")
                  /\ Finish /\ UNCHANGED disk
    /\ UNCHANGED <<tables, podman, discards, ghosts>>

(* A slip: no tombstone for directories when the row had no runtime ID. *)
ForgetWithoutDirectories ==
    /\ Step("forget")
    /\ status' = [status EXCEPT ![op.ws] = "absent"]
    /\ dirTombs' = IF op.hadId /\ Dirs(op.ws) # {} THEN dirTombs \cup {op.ws} ELSE dirTombs
    /\ volTombs' = volTombs \cup IF op.hadId THEN {op.ws} \X Vols(op.ws) ELSE {}
    /\ Finish
    /\ UNCHANGED <<ran, mounts, disk, podman, discards, ghosts>>

(* DeleteWorkspaceRetainingStorage: a transaction.  The volumes are named  *)
(* after the workspace, and left out when its row had no runtime ID.       *)
ForgetWorkspace ==
    /\ Step("forget")
    /\ status' = [status EXCEPT ![op.ws] = "absent"]
    /\ dirTombs' = IF Dirs(op.ws) = {} THEN dirTombs ELSE dirTombs \cup {op.ws}
    /\ volTombs' = volTombs \cup IF op.hadId THEN {op.ws} \X Vols(op.ws) ELSE {}
    /\ Finish
    /\ UNCHANGED <<ran, mounts, disk, podman, discards, ghosts>>

(* The process ends, or the client of a start or delete leaves: what was   *)
(* under way stays as it is.                                               *)
Interrupt ==
    /\ Holds("crash")
    /\ Finish
    /\ early' = early \ Tentative
    /\ dirDiscard' = [w \in Workspace |-> "no"] /\ volDiscard' = [n \in VolumeName |-> "no"]
    /\ UNCHANGED <<tables, disk, podman, written, condemned>>

Lifecycle ==
    \/ \E w \in Workspace : BeginStart(w) \/ Adopt(w) \/ TimeoutRemoves(w) \/ BeginDelete(w)
    \/ PrepareStorage \/ CreateContainer \/ CreateRefused
    \/ RemoveContainer \/ ArchiveDirectories \/ ForgetWorkspace \/ Interrupt

-----------------------------------------------------------------------------
(* Users of the data, without the admission lock                           *)

(* ListFileMounts makes the directories of a workspace that has run, with  *)
(* no lock: its row may be gone since it was read.                         *)
OpenFileManager(w) ==
    /\ w \in ran
    /\ EnsureDirectories(w)
    /\ UNCHANGED <<tables, archive, archiveDir, podman, op, discards, ghosts>>

(* The owner writes through the file manager, which a call on the same     *)
(* workspace excludes, or the workload does, whenever it runs.  It is seen *)
(* no more once its directories have been archived or its row is gone.     *)
WriteData(w, d) ==
    /\ Present(w) /\ w \in ran
    /\ op.ws = w => /\ container[w].made /\ op.step # "forget"
                    /\ op.kind = "create" => op.launched
    /\ live[w][d] = Empty /\ <<w, d>> \notin written
    /\ Cardinality(written) < WriteLimit
    /\ live' = [live EXCEPT ![w][d] = w]
    /\ written' = written \cup {<<w, d>>}
    /\ early' = IF op.launched /\ op.ws = w THEN early \cup {<<w, d>>} ELSE early
    /\ UNCHANGED <<tables, archive, archiveDir, podman, op, discards, condemned>>

-----------------------------------------------------------------------------
(* DeleteRetainedDirectory and its administrator's counterpart; the volume *)
(* handlers of web/server.go.  Each removes the data, then the tombstone.  *)

FindDirectoryToDiscard(a) ==
    /\ dirDiscard[a] = "no" /\ a \in dirTombs
    /\ dirDiscard' = [dirDiscard EXCEPT ![a] = "found"]
    /\ condemned' = condemned \cup {p \in written : archive[a][p[2]] = p[1]}
    /\ UNCHANGED <<tables, disk, podman, op, volDiscard, written, early>>

DiscardDirectory(a) ==
    /\ dirDiscard[a] = "found"
    /\ \/ /\ archive' = [archive EXCEPT ![a] = Nothing]
          /\ archiveDir' = archiveDir \ {a}
          /\ dirDiscard' = [dirDiscard EXCEPT ![a] = "removed"]
       \/ /\ Holds("disk")
          /\ \E part \in SUBSET Dirs(a) :
               archive' = [archive EXCEPT ![a] = [d \in Directory |->
                             IF d \in part THEN Missing ELSE @[d]]]
          /\ dirDiscard' = [dirDiscard EXCEPT ![a] = "no"]
          /\ UNCHANGED archiveDir
    /\ UNCHANGED <<tables, live, podman, op, volDiscard, ghosts>>

ForgetDirectory(a) ==
    /\ dirDiscard[a] = "removed"
    /\ dirTombs' = dirTombs \ {a}
    /\ dirDiscard' = [dirDiscard EXCEPT ![a] = "no"]
    /\ UNCHANGED <<status, ran, mounts, volTombs, disk, podman, op, volDiscard, ghosts>>

FindVolumeToDiscard(n) ==
    /\ volDiscard[n] = "no" /\ n \in volTombs
    /\ volDiscard' = [volDiscard EXCEPT ![n] = "found"]
    /\ UNCHANGED <<tables, disk, podman, op, dirDiscard, ghosts>>

Mounts(w, n) == container[w].made /\ container[w].from[n[2]] = n[1]
Mounted(n) == \E w \in Workspace : Mounts(w, n)

(* Podman refuses a volume that a container mounts. *)
DiscardVolume(n) ==
    /\ volDiscard[n] = "found"
    /\ \/ /\ ~Mounted(n)
          /\ volumes' = volumes \ {n}
          /\ volDiscard' = [volDiscard EXCEPT ![n] = "removed"]
       \/ /\ Mounted(n) \/ Holds("podman")
          /\ volDiscard' = [volDiscard EXCEPT ![n] = "no"]
          /\ UNCHANGED volumes
    /\ UNCHANGED <<tables, disk, container, op, dirDiscard, ghosts>>

ForgetVolume(n) ==
    /\ volDiscard[n] = "removed"
    /\ volTombs' = volTombs \ {n}
    /\ volDiscard' = [volDiscard EXCEPT ![n] = "no"]
    /\ UNCHANGED <<status, ran, mounts, dirTombs, disk, podman, op, dirDiscard, ghosts>>

Discard ==
    \/ \E a \in Workspace : FindDirectoryToDiscard(a) \/ DiscardDirectory(a) \/ ForgetDirectory(a)
    \/ \E n \in VolumeName : FindVolumeToDiscard(n) \/ DiscardVolume(n) \/ ForgetVolume(n)

Next ==
    \/ Create \/ Lifecycle \/ Discard
    \/ \E w \in Workspace : OpenFileManager(w) \/ \E d \in Directory : WriteData(w, d)

Spec == Init /\ [][Next]_vars

-----------------------------------------------------------------------------

LiveIn(p, w) == live[w][p[2]] = p[1]
ArchivedIn(p, w) == archive[w][p[2]] = p[1]
Exists(p) == \E w \in Workspace : LiveIn(p, w) \/ ArchivedIn(p, w)

(* Data that was written to a directory exists until somebody asks to      *)
(* discard it, through failed and interrupted creations, restores that     *)
(* stop half-way, deletes and crashes (mounts.go, decision 0025), unless a *)
(* rename that was just made cannot be undone ("stuck"), and but for what  *)
(* a container wrote while the creation that had started it was going on,  *)
(* when that fails (workspace.go:221).                                     *)
DataSurvives == \A p \in written \ (condemned \cup early) : Exists(p)

(* What the comment on CreateWorkspace (workspace.go:188) says of the      *)
(* clean-up: that it never loses data.                                     *)
FailuresLoseNothing == \A p \in written \ condemned : Exists(p)

(* A volume is mounted by the container of one workspace that has a row,   *)
(* and by none while it is listed as retained storage: a tombstone is used *)
(* once (decision 0025).  A container that a delete of a stale row left    *)
(* behind is not counted.                                                  *)
VolumesExclusive ==
    LET users(n) == {w \in Workspace : Present(w) /\ Mounts(w, n)} IN
      \A n \in VolumeName : /\ \A w, x \in users(n) : w = x
                           /\ n \in volTombs => users(n) = {}

InRestore(p) == op.claimed /\ (ArchivedIn(p, op.dir) \/ LiveIn(p, op.ws))

CustodyOf(p) ==
    IF p \notin written THEN "unwritten"
    ELSE IF ~Exists(p) THEN "discarded"
    ELSE IF p \in Tentative THEN "tentative"
    ELSE IF InRestore(p) THEN "claimed"
    ELSE IF \E w \in dirTombs : ArchivedIn(p, w) THEN "retained"
    ELSE IF \E w \in Workspace : Present(w) /\ (LiveIn(p, w) \/ ArchivedIn(p, w)) THEN "held"
    ELSE "adrift"

Custody == INSTANCE StorageCustody WITH custody <- [p \in Piece |-> CustodyOf(p)]

(* Data in a workspace leaves it only into retention, retained data only   *)
(* by a claim or a discard, and only what its container wrote during a     *)
(* creation goes when that fails: the operations implement StorageCustody. *)
KeepsCustody == Custody!Spec

(* What decision 0025 says of a tombstone the new template does not match: *)
(* it is rejected before it is consumed, so without faults no data is ever *)
(* out of everybody's hands.                                               *)
NothingAdrift == \A p \in Piece : CustodyOf(p) # "adrift"

(* Once its container is removed, a delete lists the volumes the container *)
(* had, so that their owner finds them (ARCHITECTURE.md): they are named   *)
(* in the tombstones when the row goes.                                    *)
DeleteListsVolumes ==
    [][op.kind = "delete" /\ op.hadId /\ Present(op.ws) /\ status'[op.ws] = "absent" =>
         \A v \in Volume : container[op.ws].from[v] # None =>
             <<container[op.ws].from[v], v>> \in volTombs']_vars

Identifiers == Permutations(Workspace) \cup Permutations(Directory)
=============================================================================
