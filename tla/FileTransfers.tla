--------------------------- MODULE FileTransfers ---------------------------
(***************************************************************************)
(* What the file manager does to one directory of a workspace: Upload,     *)
(* Rename, CreateDirectory and Delete (files.Service), through the helper  *)
(* process that works inside the container's user namespace, or with       *)
(* COWS's own rooted calls when the helper can not be used.  Each call of  *)
(* the file system is a step; programs in the container, and helpers that  *)
(* survive a crash of COWS, run in between.                                *)
(*                                                                         *)
(* A name shows nothing, a directory, a file of others, or an upload:      *)
(* whole, still being copied ("part"), or ended early because its input    *)
(* ended early ("cut").                                                    *)
(***************************************************************************)
EXTENDS Naturals

CONSTANTS
    Request, Name,
    Programs,              \* whether programs write in the directory meanwhile
    MaxCrash, None

TransferAssumption == Programs \in BOOLEAN /\ MaxCrash \in Nat /\ None \notin Request

VARIABLES
    entry,                 \* what each name shows
    temporary,             \* the temporary file of each request
    request,
    lock,                  \* the lock of the workspace
    crashes

vars == <<entry, temporary, request, lock, crashes>>

(* `raced` tells that somebody else has written the target since the       *)
(* request looked.                                                         *)
Idle == [at |-> "idle", op |-> "none", from |-> None, name |-> None,
         local |-> FALSE, raced |-> FALSE]

Shown == {"none", "dir", "theirs", "part", "cut", "whole"}

TypeOK ==
    /\ entry \in [Name -> Shown]
    /\ temporary \in [Request -> {"none", "part", "cut", "whole"}]
    /\ \A r \in Request :
        \/ request[r] = Idle
        \/ /\ request[r].at \in {"check", "make", "remove", "move", "create", "copy", "place",
                                 "clear", "exit"}
           /\ request[r].name \in Name
           /\ request[r].at \notin {"copy", "place", "clear"} => temporary[r] = "none"
    /\ lock \in Request \cup {None}
    /\ crashes \in 0..MaxCrash

Init ==
    /\ entry \in [Name -> {"none", "theirs"}]
    /\ temporary = [r \in Request |-> "none"]
    /\ request = [r \in Request |-> Idle]
    /\ lock = None
    /\ crashes = 0

At(r, place) == request[r].at = place
Goes(r, at) == request' = [request EXCEPT ![r].at = at]

(* Whoever else has looked at the name has looked too early. *)
Raced(n, r) == [q \in Request |->
    IF q # r /\ request[q] # Idle /\ request[q].name = n
    THEN [request[q] EXCEPT !.raced = TRUE] ELSE request[q]]

(* A request does its last step on the file system: `shows` replaces what  *)
(* was there.                                                              *)
Effect(r, shows, at) ==
    /\ entry' = [n \in Name |-> IF n \in DOMAIN shows THEN shows[n] ELSE entry[n]]
    /\ request' = [Raced(request[r].name, r) EXCEPT ![r].at = at]

-----------------------------------------------------------------------------
(* Upload, Rename, CreateDirectory, Delete: the reservation of the         *)
(* workspace, and the choice of who does the work (openBackend).           *)
Begin(r, op, from, n, local) ==
    /\ request[r] = Idle /\ lock = None
    /\ IF op = "rename" THEN from # n ELSE from = n
    /\ lock' = r
    /\ request' = [request EXCEPT ![r] = [at |-> "check", op |-> op, from |-> from, name |-> n,
                                          local |-> local, raced |-> FALSE]]
    /\ UNCHANGED <<entry, temporary, crashes>>

(* A slip: the new name is taken as it comes. *)
AcceptsAnyName(r) ==
    CASE request[r].op = "upload" -> request[r].local \/ entry[request[r].name] = "none"
      [] request[r].op = "mkdir"  -> entry[request[r].name] = "none"
      [] request[r].op = "delete" -> entry[request[r].name] # "none"
      [] request[r].op = "rename" -> entry[request[r].from] # "none"

(* What an operation requires: the helper refuses an upload to a name that *)
(* exists, the local path replaces what has it.                            *)
Accepts(r) ==
    CASE request[r].op = "upload" -> request[r].local \/ entry[request[r].name] = "none"
      [] request[r].op = "mkdir"  -> entry[request[r].name] = "none"
      [] request[r].op = "delete" -> entry[request[r].name] # "none"
      [] request[r].op = "rename" -> entry[request[r].from] # "none" /\ entry[request[r].name] = "none"

First(op) ==
    CASE op = "upload" -> "create" [] op = "mkdir" -> "make"
      [] op = "delete" -> "remove" [] op = "rename" -> "move"

Check(r) ==
    /\ At(r, "check")
    /\ \/ Accepts(r) /\ request' = [request EXCEPT ![r].at = First(request[r].op), ![r].raced = FALSE]
       \/ Goes(r, "exit")
    /\ UNCHANGED <<entry, temporary, lock, crashes>>

(* Mkdir fails where something is. *)
Make(r) ==
    /\ At(r, "make")
    /\ \/ /\ entry[request[r].name] = "none"
          /\ Effect(r, [n \in {request[r].name} |-> "dir"], "exit")
       \/ Goes(r, "exit") /\ UNCHANGED entry
    /\ UNCHANGED <<temporary, lock, crashes>>

Remove(r) ==
    /\ At(r, "remove")
    /\ \/ Effect(r, [n \in {request[r].name} |-> "none"], "exit")
       \/ Goes(r, "exit") /\ UNCHANGED entry
    /\ UNCHANGED <<temporary, lock, crashes>>

(* rename(2) replaces a file that has appeared, though not by a directory, *)
(* nor a directory.                                                        *)
Move(r) ==
    LET old == request[r].from
        new == request[r].name IN
    /\ At(r, "move")
    /\ \/ /\ entry[old] # "none"
          /\ entry[new] # "none" => "dir" \notin {entry[old], entry[new]}
          /\ Effect(r, [n \in {old, new} |-> IF n = new THEN entry[old] ELSE "none"], "exit")
       \/ Goes(r, "exit") /\ UNCHANGED entry
    /\ UNCHANGED <<temporary, lock, crashes>>

Create(r) ==
    /\ At(r, "create")
    /\ \/ Goes(r, "copy") /\ temporary' = [temporary EXCEPT ![r] = "part"]
       \/ Goes(r, "exit") /\ UNCHANGED temporary
    /\ UNCHANGED <<entry, lock, crashes>>

(* A slip: the file is put in place whatever its copy came to. *)
CopyAnyway(r) ==
    /\ At(r, "copy")
    /\ \/ Goes(r, "place") /\ temporary' = [temporary EXCEPT ![r] = "whole"]
       \/ Goes(r, "place") /\ UNCHANGED temporary
    /\ UNCHANGED <<entry, lock, crashes>>

(* The copy ends: whole, or too large or failing to write, or because the  *)
(* source fails.  The helper only sees the end of its input, and takes it  *)
(* for the end of the file.                                                *)
Copy(r) ==
    /\ At(r, "copy")
    /\ \/ Goes(r, "place") /\ temporary' = [temporary EXCEPT ![r] = "whole"]
       \/ Goes(r, "clear") /\ UNCHANGED temporary
       \/ /\ ~request[r].local
          /\ Goes(r, "place") /\ temporary' = [temporary EXCEPT ![r] = "cut"]
    /\ UNCHANGED <<entry, lock, crashes>>

Place(r) ==
    /\ At(r, "place")
    /\ \/ /\ entry[request[r].name] # "dir"
          /\ Effect(r, [n \in {request[r].name} |-> temporary[r]], "exit")
          /\ temporary' = [temporary EXCEPT ![r] = "none"]
       \/ Goes(r, "clear") /\ UNCHANGED <<entry, temporary>>
    /\ UNCHANGED <<lock, crashes>>

Clear(r) ==
    /\ At(r, "clear")
    /\ temporary' = [temporary EXCEPT ![r] = "none"]
    /\ Goes(r, "exit")
    /\ UNCHANGED <<entry, lock, crashes>>

(* The request is answered, and the workspace released. *)
Exit(r) ==
    /\ At(r, "exit")
    /\ request' = [request EXCEPT ![r] = Idle]
    /\ lock' = IF lock = r THEN None ELSE lock
    /\ UNCHANGED <<entry, temporary, crashes>>

-----------------------------------------------------------------------------
(* The request's context ends and its helper is killed: its temporary file *)
(* stays, under a name nobody uses again.                                  *)
Kill(r) ==
    /\ request[r] # Idle /\ ~request[r].local /\ ~At(r, "exit")
    /\ temporary' = [temporary EXCEPT ![r] = "none"]
    /\ Goes(r, "exit")
    /\ UNCHANGED <<entry, lock, crashes>>

(* COWS stops: its own requests with it, while helpers may live on; the    *)
(* input of one that copies ends.  The locks start anew.                   *)
Crash ==
    /\ crashes < MaxCrash
    /\ crashes' = crashes + 1
    /\ lock' = None
    /\ request' = [r \in Request |-> IF request[r].local THEN Idle ELSE request[r]]
    /\ temporary' = [r \in Request |-> IF request[r].local THEN "none" ELSE temporary[r]]
    /\ UNCHANGED entry

Program(n) ==
    /\ Programs
    /\ \E shows \in {"none", "theirs"} : entry' = [entry EXCEPT ![n] = shows]
    /\ request' = Raced(n, None)
    /\ UNCHANGED <<temporary, lock, crashes>>

Step(r) ==
    \/ Check(r) \/ Make(r) \/ Remove(r) \/ Move(r)
    \/ Create(r) \/ Copy(r) \/ Place(r) \/ Clear(r)

Next ==
    \/ \E r \in Request :
        \/ \E op \in {"upload", "mkdir", "delete", "rename"}, from, n \in Name, local \in BOOLEAN :
              Begin(r, op, from, n, local)
        \/ Step(r) \/ Exit(r) \/ Kill(r)
    \/ Crash
    \/ \E n \in Name : Program(n)

Spec == Init /\ [][Next]_vars

-----------------------------------------------------------------------------
(* No name ever shows an upload that is still being copied, or whose copy  *)
(* failed: a part is seen only where the helper took the end of its input  *)
(* for the end of the file.                                                *)
NoPartShown == \A n \in Name : entry[n] # "part"

(* COWS takes away what a name shows only where somebody asked for that    *)
(* (delete, the old name of a rename, an upload past the helper), or where *)
(* somebody else wrote the name between its look and its call.             *)
NothingReplaced == [][
    \A n \in Name, r \in Request :
        /\ Step(r) /\ entry[n] # "none" /\ entry'[n] # entry[n]
        => \/ request[r].op = "delete" /\ request[r].name = n
           \/ request[r].op = "rename" /\ request[r].from = n
           \/ request[r].op = "upload" /\ request[r].local
           \/ request[r].raced]_vars

(* What the documents say of uploads: a name that exists is refused.       *)
DuplicatesRefused == [][
    \A n \in Name, r \in Request :
        /\ Step(r) /\ request[r].op = "upload"
        /\ entry[n] # "none" /\ entry'[n] # entry[n]
        => request[r].raced]_vars

=============================================================================
