------------------------------ MODULE MCParts ------------------------------
(***************************************************************************)
(* Six parts of the process that share no state, side by side: a terminal  *)
(* and a desktop, the cache of storage usage, the table of failed logins,  *)
(* the file manager, and the pulls of images.  The one named by `part`     *)
(* moves, the others stay as they began.  The cache comes twice: with      *)
(* callers that meet on one workspace, and with more workspaces than it    *)
(* has room for.                                                           *)
(***************************************************************************)
EXTENDS Naturals, TLC

CONSTANTS
    Terminal, Desktop,
    Workspace, Fingerprint, Caller,    \* callers that meet
    Many, Fewer,                       \* callers of many workspaces
    MaxCache,
    Source, Resets, Login, MaxFailures, Window, MaxTracked,
    Request, Name, Programs, MaxCrash,
    Template, Image, Page, Puller,
    None

VARIABLES
    part,
    bridge,
    cache, call, fullCache, fullCall,
    entries, login,
    entry, temporary, request, lock, crashes,
    image, pulls, puller, page, pullMutex

B == INSTANCE StreamBridge
U == INSTANCE StorageUsage
V == INSTANCE StorageUsage WITH Workspace <- Many, Caller <- Fewer, Fingerprint <- {"same"},
                                cache <- fullCache, call <- fullCall
L == INSTANCE LoginLimiter
F == INSTANCE FileTransfers
I == INSTANCE ImagePulls

ASSUME PartsAssumption ==
    /\ Terminal \cap Desktop = {} /\ U!UsageAssumption /\ V!UsageAssumption
    /\ L!LimiterAssumption /\ F!TransferAssumption /\ I!PullAssumption

usage == <<cache, call>>
full == <<fullCache, fullCall>>
limiter == <<entries, login>>
files == <<entry, temporary, request, lock, crashes>>
images == <<image, pulls, puller, page, pullMutex>>
everything == <<part, bridge, usage, full, limiter, files, images>>

(* Where the file manager does not move, its directory is empty; where     *)
(* nothing is pulled, the templates have one image.                        *)
PartsInit ==
    /\ part \in {"terminal", "desktop", "usage", "full", "limiter", "files", "images"}
    /\ B!Init /\ U!Init /\ V!Init /\ L!Init /\ F!Init /\ I!Init
    /\ part # "files" => \A n \in Name : entry[n] = "none"
    /\ part # "images" => \A t \in Template : image[t] = CHOOSE i \in Image : TRUE

BridgeMoves(b) == B!Step(b) /\ UNCHANGED <<usage, full, limiter, files, images>>

PartsNext ==
    /\ UNCHANGED part
    /\ \/ part = "terminal" /\ \E b \in Terminal : BridgeMoves(b)
       \/ part = "desktop" /\ \E b \in Desktop : BridgeMoves(b)
       \/ part = "usage" /\ U!Next /\ UNCHANGED <<bridge, full, limiter, files, images>>
       \/ part = "full" /\ V!Next /\ UNCHANGED <<bridge, usage, limiter, files, images>>
       \/ part = "limiter" /\ L!Next /\ UNCHANGED <<bridge, usage, full, files, images>>
       \/ part = "files" /\ F!Next /\ UNCHANGED <<bridge, usage, full, limiter, images>>
       \/ part = "images" /\ I!Next /\ UNCHANGED <<bridge, usage, full, limiter, files>>

(* A part that does not move has nothing that fairness could ask for. *)
PartsSpec == PartsInit /\ [][PartsNext]_everything /\ B!Fairness /\ L!Fairness

-----------------------------------------------------------------------------
(* The types of the modules. *)
PartsTypeOK == B!TypeOK /\ U!TypeOK /\ V!TypeOK /\ L!TypeOK /\ F!TypeOK /\ I!TypeOK

(* However a bridge is left, its shell is stopped before its transport is  *)
(* closed (terminal.Close, openShell) and the end of its session recorded  *)
(* exactly when its begin was (recordDisconnect).                          *)
BridgesSettle == B!ShellsAreStopped /\ B!SessionsBalance

(* Calls that meet on one workspace share a measurement                    *)
(* (WorkspaceStorageUsage): the same is measured twice only after a call   *)
(* for another state came between, and whoever waits has somebody          *)
(* measuring the same for it, who will wake it.                            *)
UsageIsShared == U!MeasuredOnce /\ U!WaitersAreLed

(* A source gets past the limit of failures by the requests in flight      *)
(* only, the table of sources keeps its limit (LoginLimiter.Failure), and  *)
(* the cache of usage never has more entries than its limit or, if that is *)
(* larger, than there can be calls at a time (WorkspaceStorageUsage).      *)
TablesBounded == L!FailuresBounded /\ L!TrackedBounded /\ V!CacheBounded

(* A bridge ends after its hour or with its session (the loops of the two  *)
(* handlers), but for a terminal inside a write that blocks for good, and  *)
(* its goroutines end with it; a refused source is admitted again,         *)
(* whatever it tries meanwhile (LoginLimiter.Allow does not extend the     *)
(* window).                                                                *)
PartsEnd == B!BridgesEnd /\ B!ReadersEnd /\ L!RefusalEnds

(* One pull of a template runs at a time, and the entry it finds in the    *)
(* end is its own (startImagePull, runImagePull).                          *)
PullsMatch == I!PullsMatch

(* No name shows an upload that is being copied or has failed, and what a  *)
(* name shows is replaced only where that was asked for, or where somebody *)
(* else wrote the name between the look and the call (files.Service).      *)
FilesKept == []F!NoPartShown /\ F!NothingReplaced

(* For TLC: the operations and the names of the file manager, of which no  *)
(* liveness property speaks and which nothing else has.                    *)
Alike == Permutations(Request) \cup Permutations(Name)

=============================================================================
