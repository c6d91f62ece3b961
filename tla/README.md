# COWS in TLA+

COWS runs one container workspace per row of a SQLite table: users create, start, stop, delete and
reach them through a Go web server; a background goroutine compares the rows with Podman and acts
on timeouts, another one delivers mail. One process, one database connection, one Podman socket.
This directory holds TLA+ models of that program, the TLC configurations that check them and
proofs about them that TLAPS checks. Every definition is a translation of the source; `PROJECT.json`
maps each to its lines, lists the runs, the hazards and which properties are about them.

## The system

| Component | State it keeps | What is hard | What makes it correct | Module |
|---|---|---|---|---|
| Lifecycle locks (`workspace/file_access.go`, `acquireAdmission`) | one mutex, one semaphore per workspace | two locks taken in two orders; cancellation | exclusion; nothing leaks; every call ends | `LifecycleLocks` |
| Workspace lifecycle (`workspace/workspace.go`) | `workspaces` rows, host directories, tombstones | ten external steps per call, each may fail, be lost or be the last | data stays reachable; rows tell the truth | `WorkspaceLifecycle` |
| Reconciliation (`Reconcile`) | none of its own | takes no lock | rows converge to Podman's state | `WorkspaceLifecycle` |
| Timeouts and sessions (`timeouts.go`, `RunTimeouts`, counters in `store.go`) | `active_sessions`, `idle_since`, `stopped_at`, `container_deleted_at` | snapshot read before the locks; counts lost in a crash | no early stop or removal; idle runs end | `IdleTimeouts` |
| Retained storage (`mounts.go`, reattachment) | archive directory, `retained_*` rows | several renames and rows that must agree | data lasts until it is discarded | `RetainedStorage` |
| Email outbox (`notifications/`, `notice.go`), SMTP | `email_messages` | at-least-once relay, requeue during a send, sweeps | bounded tries, no stale or repeated mail, every message settles | `EmailOutbox` |
| Podman adapter (`runtime/podman`) | none; Podman keeps the containers | a call outlives its client | names and IDs agree with the rows | in the modules that call it |
| Admission and quota (`quota/`), ports (`workspace/configuration.go`) | quotas, capacity, `workspace_port_allocations` | check, then act, over rows that others write | what runs stays within what was checked; every service has its port | `Admission` |
| Credentials (`auth/service.go`, `invitation.go`) | passwords, sessions, links | four ways to replace a password, in several statements, against logins | no session outlives its revocation; links follow the address | `Credentials` |
| Accounts (`auth/service.go`, `auth/import.go`, `web/user_import.go`) | `users`, owners of workspaces | check and write in separate statements | an administrator remains, addresses are distinct, workspaces are archived before their owner goes | `Accounts` |
| Templates and groups (`workspace/template.go`, groups in `auth`) | `workspace_templates`, `groups`, snapshots | forms loaded, edited and saved while others do the same | a revision names its content; deleting a group opens nothing | `TemplateAccess` |
| Terminal and desktop bridges (`web/server.go`, exec of the adapter) | three goroutines and two ends per stream | a dozen exits, timers, blocking writes | every stream ends, its shell and its session with it | `StreamBridge` |
| Storage usage cache (`workspace/storage.go`) | entry per workspace | coalescing against changing fingerprints | one measurement at a time; no waiter is left | `StorageUsage` |
| Login limiter (`auth/limiter.go`) | failures per source | check, then act; bounded table | bounded guesses per window | `LoginLimiter` |
| File manager and agent (`files/`, `fileagent/`) | temporary files | look, then act, among programs of the container; killed helpers | nothing half-copied or replaced unasked | `FileTransfers` |
| Image pulls (`web/server.go`) | status per template | a goroutine that looks its entry up after minutes | the entry is its own | `ImagePulls` |
| Rendering, static assets, migrations, start-up | constants, schema | - | - | not modelled |

Calls go from the web handlers into the services and from these to the store and to Podman. What
the goroutines share is the two locks, the rows, and Podman's containers. Reconciliation and the
session counters write rows without a lock, so between two statements of an operation anything may
happen to its row. The store has one connection: a statement or a transaction is one step everywhere.

## The modules

**`LifecycleLocks`** — `admission` is the holder of `Service.admissionMu`, `wlock[w]` that of
`fileAccessLocks[w]`, `task[p]` the operation of goroutine `p` and how many of its locks it has. Start
and create take the admission lock first; stop, delete and the timeout pass take the workspace lock
first; file access takes only the latter. `GiveUp` is `acquireWorkspaceLock` seeing its context done, which
may never happen; a wait for the mutex cannot be given up. `Crossed(p)` says that `p` holds admission and
waits for a workspace whose holder waits for admission. `Restart` is the end of the process: both locks are memory.

**`WorkspaceLifecycle`** — start, stop, delete, file access, one reconciliation pass and one timeout
pass, each a sequence of actions: one per Podman call, per statement on a row and per change of the
directories. `row[w]` keeps the columns other operations read back (observed state, runtime ID, whether
`stopped_at` and `container_deleted_at` are set), `container[w]` what Podman has under the name
`cows-<w>`, `files[w]` which data exists, `tombs[w]` the tombstones. A Podman call has three outcomes:
done and answered, refused, done and unanswered (`AnswerLost`: `requestMethod` gives up while Podman
goes on). `Abandon` is the client of a request going away, `ContainerExits` and `ContainerVanishes`
are changes from outside. It implements `LifecycleLocks` under the mapping `LockTask`.

**`IdleTimeouts`** — one workspace, its clocks and its sessions. Times are ages: `row` has the idle and
stopped ages that the columns encode, `elapsed` is the true time since the container started or ended. A session is attached
by Podman, recorded (`RecordWorkspaceSessionStart`), ended, and its end is recorded. The steps of start
and stop are their Podman calls and writes, in order, each of which may fail or be the last. `look[r]` is what a
reconciliation has read and has still to write: it inspects, lists the rows, writes the state and then the times, and
anything may happen in between. The timeout pass lists (`ListForTimeouts`), waits for its locks and acts on what it listed.
Two ghosts: `lost` tells what a crash or a cut-off operation took from the run, `origin` whose stop `stopped_at` tells of.

**`MCIdle`** — `IdleTimeouts` in three scenes for TLC: two sessions and every failure without reconciliation; reconciliation
and every failure without sessions; a session and reconciliation, no run losing anything.

**`EmailOutbox`** — `mail[k]` is the row of `email_messages` with dedupe key `k`, or of one-shot message
`k`; its body is the number of the deadline or deletion it speaks of. `pass` is where the notification
goroutine is: it lists workspaces, queues warnings, lists what is pending, re-checks each message,
sends it, records the outcome. `ws` and `deletion` are the lifecycle as far as it moves deadlines, sweeps
mail and queues notices. `sends` and `tries` count what the relay accepted and was handed.

**`RetainedStorage`** — what becomes of directories and named volumes. `live[w]` and `archive[w]` say
what is in each directory under the two roots, `volumes` which volumes exist, `dirTombs` and `volTombs`
are the tombstone tables, `container[w]` says which volumes `cows-<w>` mounts. `op` is the call that holds
the admission lock: creation with its claims, restore, start of the container and clean-up, or the storage steps of
start, timeout removal and delete, one action per statement, rename or Podman call. The discards and the file manager
take no lock and run between them. A delete may act on a row it read before a start (`hadId`,
`container[w].again`), as it does in `WorkspaceLifecycle`. Data is written by the owner or by the workload, as soon as a
container runs, also within the creation that starts it (`op.launched`); `early` remembers what was written then.
`Fault` names what may go wrong: Podman or the disk refuses, the process ends, the client leaves, a rename cannot be undone.

**`StorageCustody`** — the abstract specification: each piece of data is unwritten, held by a workspace,
retained under a tombstone, claimed by a creation, adrift or discarded - or tentative, which is what the container of a
creation under way has written and goes if the creation fails. Six kinds of steps move it.
`RetainedStorage` implements it under the mapping `CustodyOf`.

**`Admission`** - `quota` and `capacity` are the limits, `row`, `port` and `container` what a workspace has in the
store and in Podman, `admission` the holder of the mutex, `task[p]` where an operation is and what it read before
it got there. Create, start, stop, delete and a workspace's turn in the timeout pass hold the mutex from their check
to their last write; reconciliation and changes of the limits do not. `AggregateLimit` adds the limits of groups
the way `quota.aggregateLimit` does, with its saturation at the largest number. `raised` holds workspaces whose row
says running because reconciliation saw them run. A container is made only when every service has a reserved port
(`resolveConfiguration` refuses otherwise).

**`MCAdmission`** - `Admission` in two scenes for TLC: two workspaces that contend for limits, whose reservations
succeed; one workspace whose reservations may fail, with a second container after the first.

**`Credentials`** - a password is the number of replacements before it. Login (verify, then insert the session),
password change, administrator's replacement, reset and invitation links from their request over the outbox to
their use, correction of an address by form or import, disabling and enabling: each handler is its statements
in order, and may end after any of them (`Abandon`). A session remembers which password its login verified,
`account[u].revoked` up to which password sessions were revoked; `late`, `stale` and `mailed` mark the races the
properties except.

**`Accounts`** - the administrators' handlers for accounts, one step per statement, with the removal of an
account's workspaces before the account, imports of several rows in one transaction, and workspaces being created
meanwhile. A handler notes in `overtaken` what another one wrote after its check; `raced` collects the subjects on
which a handler wrote all the same.

**`TemplateAccess`** - groups, memberships, templates with their revisions and rules, the forms that read a template
and write it back whole, the deletion of a group with its look at the templates first, and the workspaces created
from a template, with the snapshot they keep (`built`).

**`StreamBridge`** - one bridge is a request handler (`at`), the goroutines that read the browser (`up`) and the
container (`down`), the channels between them (`input`, `output`), the shell, its exec stream, and what the
session count has been told (`begun`, `ended`). A desktop has no shell and copies with two goroutines.

**`StorageUsage`** - `cache[w]` is the entry with the call that measures it, `call[c]` what a caller is at. A waiter
waits for one measurement (`leader`) and looks again when it ends. A measurement ends well, with a failure, with a
cancellation the cache recognises (`"canceled"`), or with one the adapter has hidden in `ErrUnavailable` (`"hidden"`).

**`LoginLimiter`** - `entries[s]` counts failures of a source and their age, `login[l]` is a request that was allowed
and has not reported yet.

**`FileTransfers`** - `entry[n]` is what a name of one directory shows, `temporary[r]` the temporary file of an upload;
an operation is its calls of the file system, through the helper or by COWS itself (`local`). Programs write in
between, helpers are killed, and a crash of COWS leaves helpers running.

**`ImagePulls`** - `pulls[t]` is the entry of a template, `puller[g]` a goroutine, `page[p]` a request that has read
the template and is about to look at the pulls.

**`MCParts`** - the last five side by side, as six parts: they share no state, `part` says which one a behaviour is about
(terminals and desktops apart, and the cache twice: with callers that meet, and with more workspaces than it has room for).
TLC checks it, and the theorems on these modules are about its `PartsSpec`.

**`MCOutbox`** - `EmailOutbox` from two kinds of initial states for TLC: a workspace about to be made, whose owner also gets
letters, and one that is stopped and may be deleted twice, whose owner gets none.

**`LifecycleLocksProofs`**, **`WorkspaceLifecycleProofs`**, **`CredentialsProofs`**, **`AccountsProofs`**,
**`TemplateAccessProofs`**, **`RetainedStorageProofs`** - the theorems (below), each module about the one it is named for.
**`AdmissionMailProofs`** - those on `Admission` and on `EmailOutbox`, which share neither state nor names.
**`PartsProofs`** - those on `IdleTimeouts` and on the parts of `MCParts`.

A comment that begins "A slip:" marks an operator that no action uses: a step as a plausible mistake would write
it, put in place of the step after it to see that a property notices.

## The runs

| Run | Bounds | Shows |
|---|---|---|
| `locks` | 3 requests, loop, 2 workspaces, fairness | the recorded holder of a lock is the goroutine that holds it; exclusion per workspace and of admission; no state without a successor; every operation ends unless two wait for each other or a transfer never ends |
| `lifecycle` | 1 request, loop, 1 workspace, 1 container, fairness | directories are live under a row or archived under a tombstone through every failure and restart; the operations implement `LifecycleLocks!Spec`; when requests and the outside rest, rows agree with Podman from some point on |
| `lifecycle_calm` | 2 requests, loop in its timeout pass, 2 containers | from agreeing rows, without lost answers or outside changes, rows are true whenever nobody works on them |
| `idle` | `MCIdle`: 2 sessions, 1 reconciliation at a time, count up to 2, limits of one tick, fairness | no session is counted twice; a row calls for a stop or a removal only after a full period; a run without users ends |
| `outbox` | `MCOutbox`: a new workspace and 1 letter, or a stopped one that may be deleted twice; 2 attempts, 2 statements, 1 restart, fairness | deliveries and tries bounded, `sent` means accepted (`OutboxIsTrue`); a notice is not swept by its own deletion; every message is sent or canceled |
| `storage` | 2 workspaces, 2 directories and a volume each, 1 piece of data, four of five faults | data lasts until somebody asks to discard it; a volume serves one workspace; the operations implement `StorageCustody` |
| `admission` | `MCAdmission`: 1 user, an administrator, who has no limit until one is set; 1 group, 2 services, 3 ports, capacity 2 or 1, 2 operations, one of them possibly a reconciliation; 2 workspaces of size 1 with 1 container each and 1 change of the limits, or 1 workspace with 2 containers | once a start has recorded a workspace as running, what COWS let run is within the limits the start was checked against; a start about to make its container has a port for every service |
| `credentials` | 1 account, 2 addresses, 2 handlers, 2 sessions, 2 replacements, 2 links | no session outlives a revocation; an administrator's replacement revokes before it ends; a usable link was mailed to the present address; a waiting message carries a link that works |
| `accounts` | 2 accounts, 1 address, 1 workspace, 2 handlers, imports of 2 rows | an administrator remains; an address has one account; no workspace goes with its owner's row |
| `templates` | 1 user, 2 groups, 1 template, 2 contents, 2 handlers, 2 revisions | a revision names what a workspace was built from; deleting a group opens a template to nobody |
| `parts` | 1 terminal; 1 desktop; 3 callers of one workspace in 2 states, and 2 callers of 3 workspaces with a cache for 1; 3 sources, 2 requests in flight, limit, window and table of 2; 2 file operations, 2 names, programs, 1 crash; 1 template, 2 images, 2 goroutines | see `MCParts`: streams leave nothing behind and end; measurements are shared; tables keep their limits; files are kept; a pull finds its own entry |
| `accounts_last` (violation) | as `accounts`, imports of 1 row | two administrators who disable each other at once leave none |

The bounds. Two requests and the loop are the most that meet on one pair of locks in both orders, a third
request is one more waiter; all workspaces behave alike and share only the admission lock, so two suffice
for the locks and one for what happens under them. Two containers let an operation hold the ID of the
former one while the next exists; the faulty run has one, and every way of losing and finding it. Two
attempts show the first retry and the last. Ages stop at their limits, since the code only compares them
with the limit. A second workspace is what takes over the storage of the first; two directories let a
restore stop half-way; the code never compares two pieces of data, so one stands for all. Every race of a
check with a write is one of two handlers, and a handler may end anywhere, so a third adds only another
waiter; two links let one supersede another that a handler still holds; two administrators are what it takes
to disable each other; two workspaces of one user contend for its quota and for a port, and a change of a limit
can fall between the check of a start and its end. Two services and three ports let a create stop between two reservations and
a start find one port taken; a second container follows a timeout that gave the ports back. A session and a reconciliation
each need two or three steps of the other operations in between; the scenes of `MCIdle` have the two together with these,
and each of them with every failure, too. Two measurements of one workspace can be under way when a call for another
state comes between, and the third caller waits; of three sources, two fill the table.
`CHECK_DEADLOCK` is off where bounded counters or used identifiers leave nothing to do; it is on for the locks
and for `parts`.

Symmetry. The accounts, handlers, sessions, contents and ports that a run permutes are model values that no constant
or property distinguishes. In `parts` only the operations and the names of the file manager are permuted: TLC warns
that symmetry may hide liveness violations, but no liveness property and no fairness condition speaks of those two
sets, and in the behaviours where they matter nothing else moves.

Fairness. In `LifecycleLocks`, `SF` on acquisition: Go's mutex and channels hand over to a waiter in turn;
`WF` on the way to the release, except for transfers: statements and Podman calls end. Nothing makes a client give up
or finish a transfer: the server sets no deadline for requests (`main.go:133`, `server.go:1258`). A start that holds
admission and a stop that holds the workspace wait for each other as long as both clients stay, so `OperationsEnd` has as
its premise that operations do not stay `Crossed` and transfers do not go on for ever; it says that an operation waits
for nothing else. In `WorkspaceLifecycle` only the loop is
fair: its ticker comes back, its calls return; `RowsConverge` therefore has the premise that requests come to
rest and nothing happens from outside. In `IdleTimeouts` time passes, handlers and reconciliations run to their
end, and the loop comes back and gets its locks in its turn (`SF` on its timeout step, as for the locks);
a live session need not end. In `EmailOutbox` the loop comes back and `Send` returns. That
last one is an assumption about relays: only the dial has a timeout, and a relay that falls silent later
holds up all mail, `MailSettles` with it. In `StreamBridge` goroutines run, a `select` that finds a case ready again and
again takes it in the end (`SF`: Go picks at random), the adapter's calls have timeouts, and the hour of a bridge
passes; nothing makes a browser or a shell send or take data, so that a write to a shell may block for good, which
`PartsEnd` excepts for terminals. In `LoginLimiter` time passes.

What the properties except. `IdlePeriodIsFull` and `RetentionIsFull` speak of the row: the timeout pass
acts on a snapshot that may be older than the row. Both, and `IdleRunsEnd`, except runs that a crash, an abandoned
start or a lost answer left without their clock (`lost`); `RetentionIsFull` also rows in which a reconciliation that a start overtook
wrote the former run's stop back (`origin`). `NoSessionCountedTwice` bounds the count from above only: the late end of a
session of a former run may lower the count of the present one. `DataSurvives` excepts what the container of a creation wrote
before the creation ended (`early`), and `StorageCustody` has it as tentative. `VolumesExclusive` counts the containers of workspaces with a row:
one that a delete of a stale row left running still mounts its volumes. `RevocationIsComplete` excepts a login that
verified the former password and inserted its session after the revocation (`late`), `LinksFollowAddress` links
issued by a handler that had read the former address and links left behind by an import (`stale`),
`PendingMailOpens` messages queued after their link had gone (`late`). `AdministratorRemains`, `AddressesDistinct`,
`NoRowCascades`, `RevisionNamesContent` and `DeletionOpensNothing` except what follows once a handler wrote on
what another one had changed since its check (`raced`): no index or transaction forbids that. They say that this is
the only way, and the run `accounts_last` shows one such race. `AdmittedWithinLimits` counts out workspaces in `raised`.
`MeasuredOnce` excepts a measurement whose entry a call for another state replaced (`displaced`); `FilesKept` excepts
writes on a name that somebody else wrote after the operation had looked (`raced`), uploads past the helper, which
replace on purpose, and files that ended early because their input did (`cut`).

## Where the code and its documents part

`accounts_last` shows one statement refuted by a run: `web/server.go:4417` says that the last active administrator cannot be
disabled. The modules state others which the code does not keep either. Their definitions stay, and TLC refutes each
in the module and instance named here:

* `ArchivedAfterRemoval`, `StoppedHasDeadline` (`WorkspaceLifecycle`, 1-2 requests, no faults): a delete that read its row
  before a start ended archives the directories of a running container (ARCHITECTURE.md:289: removal is confirmed first);
  a workspace whose container was once removed by the timeout keeps `container_deleted_at`, so its next container gets
  no deletion deadline (ARCHITECTURE.md:276).
* `WarningNamesDeadline` (`EmailOutbox`): a warning is sent although the deadline it names has moved
  (`notifications/service.go:224`).
* `NothingAdrift` (`RetainedStorage` with two templates, of one and of two directories, no fault): a directory tombstone whose mounts the template lacks is consumed and then rejected;
  its data stays in the archive without a record (docs/decisions/0025:44: validated before it is consumed).
* `FailuresLoseNothing` (`RetainedStorage`, as in `storage`): a creation that reattaches volumes starts its container, and
  when a later step fails - the client has left - removes the directories with what the container has written to them
  (`workspace.go:217-222`; the comment at 188-195 says that no clean-up from there on loses data, and holds for restored
  directories only).
* `DeletionIsDue` (`IdleTimeouts`, as in `idle`): a reconciliation that inspected a stopped container and listed its row writes
  the old `stopped_at` over the reset of a start that came in between (`workspace.go:1347-1388`). When that run's
  container ends by itself, its row calls for a deletion before the retention period is over (docs/decisions/0006).
  A start that is cut off before its reset does the same.
* `CancellationIsOwn` (`StorageUsage`, as in `parts`): the adapter formats a cancelled context into `ErrUnavailable`
  (`podman.go:1182`, `file_access.go:281`), `storage.go:92` does not recognise it, and for five seconds others are
  answered with the cancellation of a client that left.
* `DeleteListsVolumes` (`RetainedStorage`, `StorageVolumes.cfg`): the name of a reattached volume is not kept in the row, so
  the tombstone of the next delete names a volume that does not exist, and the reattached one has none
  (ARCHITECTURE.md:289-293, `workspace.go:947`). A start after a timeout removal mounts a fresh volume for the same reason.
* `TerminalsEnd` (`StreamBridge`, `StreamTerminals.cfg`): a terminal whose write to the shell blocks outlives its hour
  (`server.go:1752`, ARCHITECTURE.md:113).
* `DuplicatesRefused` (`FileTransfers`, `FileDuplicates.cfg`): an upload past the helper replaces a file of the same name
  (`files/service.go:533`, docs/implementation/runtime-file-access.md:33).
* `TemplatesNameGroups` (`TemplateAccess`, `TemplateAccess.cfg`): a form older than the deletion of a group makes a template
  name it again (docs/decisions/0017-user-and-group-lifecycle.md:47-49).
* `PublishedPortsReserved` (`Admission` with two containers, one workspace, no group, `MaxReconcile = 2`): a timeout
  removal by an old snapshot releases the ports of the container that replaced the one it meant
  (docs/decisions/0007:39-42, `workspace.go:1281`).
* `ZeroIsUnlimited` (`Admission` with three groups, three changes and no workspace): a sum of group limits that saturates
  before an unlimited group is met stays finite (docs/decisions/0013, `quota/service.go:185`).

Met while modelling, without a statement: start and stop of one workspace wait for each other until a
client leaves; a refused create clears the runtime ID and with it the volume tombstones of the next delete;
a delete interrupted after archiving, followed by anything that makes the directories again, can never be
completed, since the archive directory exists; the timeout pass stops a workspace that somebody connected to
after its snapshot; a session recorded between the running state and the reset of the count is wiped; an
abandoned start leaves a run without idle clock; the body of a deletion notice that changes during a send is
never delivered; a failed create of a container leaves behind the volumes it had claimed without tombstone
(decision 0025 accepts that); a rename that `rollbackDirectoryMoves` cannot undo is, against its comment
(`mounts.go:331`), not orphaned: `CreateWorkspace` removes the tree (`workspace.go:211`), for which the fault
`"stuck"` stands, and `DataSurvives` fails with it; a second deletion's notice takes the row of the first one's, and when the
delivery of that one is given up for good, the cancellation goes by the row's ID and reaches the new notice, which nobody
has tried to send (`notifications/service.go:193`, `store.go:1551`); a second commit of one import draft is another import of the same
rows; an upload whose input ends early because COWS ended is put in place as if it were whole
(`helper.go:325`); a long download holds up the timeout pass of all workspaces; a pull that
never ends keeps its template from being pulled again until a restart.

## What is proved

TLAPS proves the following for all values of the constants, from each module's named assumptions alone, unless said.
All are proved the same way: an invariant that holds initially, that every action keeps, and that implies the property,
with one lemma per action or per group of actions that disturb the same part of it. TLC finds each
of these invariants true on the instances of the runs, too.

`LifecycleLocksProofs` (from `HolderAssumption`: the loop is no request, `Free` is nobody, there is a workspace):
`LocksAgree` (types and `LocksMatchTasks`), `WorkspacesAreExclusive`, `AdmissionIsExclusive`.
The exclusion properties are not inductive: they do not say that a lock's recorded owner is the one that
works. `LocksMatchTasks` says it, process by process, and with the types it is inductive. The proof has one
lemma per action; that of an acquisition uses that the lock was free, that of a release that no other
process's record names the lock.

`WorkspaceLifecycleProofs` (from `LifecycleAssumption`):

* `LifecycleTyped` strengthens the types by `TasksFit`: which steps each kind of call goes through, that it has read a row
  where it relies on one, that the loop's pass has taken the workspace it works on off its list.
* `LocksAreFollowed` (`FollowsLockProtocol`): every behaviour is one of `LifecycleLocks`. Each action is shown to take one of its
  steps or none; most are moves under both locks, which it does not see (`WorksOn`). With it `LifecycleLocksProofs`,
  instantiated with the mapped tasks, says of this module who holds what.
* `DirectoriesStay` (`DirectoriesRecoverable`) needs two facts about calls between two steps: a start that is about to make
  directories has a row (`Prepared`), and a delete that is about to forget the row has no live directory left
  (`Cleared`). Another call could break either; that no other call works on the same workspace is what the refinement
  gives (`WorkersApart`).
* `RowsAreTrue` (`RowsTrueWhenUnlocked`, of `CalmSpec`). Rows and containers disagree for one step after each Podman call;
  the invariant `Calm` says that they agree otherwise (`Settled`), what a call is about to write at each of its steps
  (`Between`), and what it may still rely on of a row it read earlier: a start, all of it, since it read it under the
  admission lock (`Knows`); the timeout pass, only that a row which named a container still names the same one
  (`Remembers`). Whoever writes holds the admission lock (`AdmittedHoldsAdmission`), so there is one writer
  (`CalmWriting`).

`CredentialsProofs`: `CredentialsTyped`, `NoSessionOutlivesRevocation` (`RevocationIsComplete`),
`ReplacementRevokesFirst` (`ReplacedMeansRevoked`), `LinksAreForTheAddress` (`LinksFollowAddress`), `PendingMailCarriesALink`
(`PendingMailOpens`). `TypeOK` is strengthened to `Typed`, which ties the fields of a handler to
what it is doing. `RevocationIsComplete` needs two more facts: a revocation never names a password yet to be set
(`RevokedIsPast`), and a password change that has deleted the other sessions keeps its own only at the version it wrote
(`Kept`). Lemmas say what steps that revoke nothing, and those that revoke everything, do to the three; the action
property follows because versions and revocations only grow (`AccountsGoForward`). For links, `Carried` says that the serial number
of a link names one account and one purpose wherever it occurs: in the table of links, in a waiting message and in a handler
that has just issued it; a number not yet issued occurs nowhere.

`AccountsProofs`: `AccountsTyped`, `SomebodyAdministers` (`AdministratorRemains`), `WorkspacesGoFirst` (`NoRowCascades`),
`AddressesHaveOneAccount` (`AddressesDistinct`). The
invariant says, beyond the properties, that unless somebody wrote on a changed subject, a handler that counted and was not
overtaken counted what is still there (`Counted`), that one which found no workspace left still finds none
(`Emptied`), that an address a handler found free still is (`Checked`), and that the rows of an import differ among
themselves (`Batched`).

`TemplateAccessProofs`: `TemplatesTyped`, `RevisionsAreDistinct` (`RevisionNamesContent`), `DeletingIsSafe`
(`DeletionOpensNothing`). Snapshots and handlers that have read a template hold a revision not newer than the row, with
the row's content where it is the same (`Snapshots`, `Fresh`); a deletion that has looked and was not overtaken deletes
a group no template names (`GroupsUnused`, `StillUnused`).

`AdmissionMailProofs`, on `EmailOutbox`: `OutboxTellsTheTruth` (`OutboxIsTrue`), `NoticesSurvive` (`NoticeSurvivesSweep`). What
the relay has been handed and has accepted of a statement is followed through three places: the attempts of the row that
has it as its body, the copy of it that the pass has listed, and nowhere any more. Statements are numbered in order: nothing
of one yet to come has been tried (`Ordered`), nor anything of one that took the place of the copy being delivered (`Fresh`).
`Notices` says which notice a deletion under way may still find, `Over` when the last one has been queued.

`AdmissionMailProofs`, on `Admission`: `AdmissionTyped` (`TypeOK` and `Well`), `StartsAreEquipped` (`StartsFindTheirPorts`),
`LimitsAreKept` (`AdmittedWithinLimits`). All start from `Well`: the types, the steps each operation goes through (`Way`), and that whoever
is past its wait holds the mutex (`AdmittedHold`), so that two operations are never past their checks together.

* A start that is about to make its container has every port since it reserved them:
  ports are given back only by holders of the mutex, and no other can run between the reservation and the container.
* For the limits, `Rooms` says what may still be relied on of a check. A create: the rows of its user leave room for one more.
  A start: its row is as it was read, and what runs, leaving aside its own workspace and what reconciliation raised, leaves
  room for it. Only reconciliation writes rows beside the holder, and what it takes to running is in `raised` from that
  step on; what it takes away only makes room. The limits in the property are those of the check, so that changes of
  quotas and capacity do not matter to it.
* Allocations are sums over sets of workspaces, folded in an order nobody chose. That the fold exists, that any element may
  be taken out first (`SumTaking`) and that fewer or smaller terms come to less (`SumIsMonotone`) follow by induction over
  the subsets of a finite set (`SetInduction`, from the library's well-founded order on them); the saturating sum of group
  limits only needs its type (`AggregateTyped`).

`PartsProofs`, on `IdleTimeouts`: `CountIsNotTooHigh` (`NoSessionCountedTwice`), `StopsAreDue` (`IdlePeriodIsFull`),
`DeletionsAreDue` (`RetentionIsFull`). The count of a row is compared with the sessions that are open or whose end is being
recorded; who holds the workspace's lock at which step, and what nothing else does meanwhile, is `Turns`. The idle and the
stopped age of a row are at most the true ones once the operation under way has set the clock it is about to set
(`IdleClock`, `StopClock`), and so is the stopped age that a reconciliation has still to write, unless it was overtaken.

`PartsProofs`, on `MCParts` (of `PartsSpec`, from `PartsAssumption`): a step of the process is one of its parts' and leaves the
other parts alone, so the invariant `Parts` is one of each part.

* `PartsAreTyped` (`PartsTypeOK`): the types of the five modules.
* `BridgesAlwaysSettle` (`BridgesSettle`). `Sound` says at which place of the handler its session is begun and ended, that a
  closed stream belongs to a handler that has passed its clean-up, and that a shell which outlives the clean-up was left.
* `UsageIsAlwaysShared` (`UsageIsShared`) needs that an entry being measured names the call that measures it, for its
  workspace and fingerprint (`UsageSound`).
* `TablesAreBounded` (`TablesBounded`). The failures of a source and its requests in flight together stay below the sum of
  their bounds (`Limited`). The entries of the cache that are being measured are at most as many as the calls, since each
  names another call (`FullSound`); eviction takes the others.
* `PullsAlwaysMatch` (`PullsMatch`): the goroutines that pull and the entries that say so are in pairs (`Pulled`).
* `FilesAreKept` (`FilesKept`). A request has a temporary file only while it uploads, whole or cut once it is put in place
  (`Handled`), and a name it found free is free until somebody else writes there (`Looked`).

`RetainedStorageProofs`: `VolumesServeOne` (`VolumesExclusive`), `DataIsKept` (`DataSurvives`), `StorageKeepsCustody`
(`KeepsCustody`, the refinement of `StorageCustody`). For volumes, a name is followed from the tombstone over the creation
that took it (`Took`) to the workspace it was attached to. For directories, the invariant says where each piece may be
(`Places`), and what a creation that is restoring, a deletion that is retiring or one that is forgetting has in its hand
(`Restoring`, `Retired`, `Forgetting`). Nothing has been written to a new workspace before its container runs (`Unwritten`); what that container writes
while the creation goes on stays where it was written, beside what has been restored (`Workload`). The refinement then maps each action to one step of `StorageCustody` or none, from the fact
that a piece is in one place at a time. The last two theorems assume that a rename just made can be undone (`"stuck"` is
not among the faults): without that the code does lose data, see above.

Only model-checked: liveness, which TLAPS does not prove under fairness - `OperationsEnd`, `RowsConverge`, `IdleRunsEnd`,
`MailSettles` and `PartsEnd` - and the violation of `accounts_last`, which is a behaviour. The type invariants of
`IdleTimeouts`, `EmailOutbox`, `RetainedStorage`, `WorkspaceLifecycle` and `LifecycleLocks` are not among the listed runs'
properties, since their other properties read the same fields; the proofs above start from them.

## What is left out

* Columns nobody reads back (desired state, `operation_*`, error texts), audit, logging, wording.
* Database failures where a later step would fail as well; where a handler's end matters, `Abandon` covers them.
* Podman's transitional states, which `stateFromPodman` maps to unknown until the next pass.
* In `WorkspaceLifecycle`: creation, ports, private networks; creation is in `RetainedStorage` and `Admission`,
  where private networks and images are one refusal. In `RetainedStorage`: what a container writes once its directories have
  been archived or removed under it, or its row is gone. In `IdleTimeouts` and `Admission`: a reconciliation's other rows,
  of which each is read and written like this one. In `EmailOutbox`:
  a changed mail address (it cancels a warning as a disabled owner does), the batch of 50, above the number of
  messages, and the arithmetic of the lead time, which is a free choice.
* In `Admission`: memory, which is checked as CPU is; the number of running workspaces and storage in use, which only
  refuse more. In `Credentials`: expiry, which is a link or a session nobody uses any more. In `Accounts`: the in-memory
  drafts and downloads of an import and the reading of the CSV.
* Sequential code around the services: request parsing, rendering, static assets, field-by-field validation of
  templates and configuration, ZIP writing, listings and downloads, path checks of the file agent, migrations, start-up
  and `recover-admin`: they keep no state between two calls.

## The plan

1. Done: all components that keep state, the runs above, and a theorem for every safety property of a run that passes,
   both refinements among them.
2. Pure operators against references: the lead time of warnings, the scaling of the host's capacity, path containment.
