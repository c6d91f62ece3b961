---------------------------- MODULE IdleTimeouts ----------------------------
(***************************************************************************)
(* When an idle workspace is stopped and a stopped container deleted:      *)
(* EvaluateTimeouts and RunTimeouts, against the terminal and desktop      *)
(* sessions that come and go, starts and stops.  One workspace.            *)
(*                                                                         *)
(* A timestamp is modelled by its age, which stops counting at the limit   *)
(* that is compared with it; Unset is the zero time.  The steps of start   *)
(* and stop are those of WorkspaceLifecycle, whose locks make them one at  *)
(* a time; reconciliation takes no lock and runs beside them.              *)
(***************************************************************************)
EXTENDS Integers, FiniteSets

CONSTANTS
    Session,        \* browser connections: terminals and desktops
    Reconciler,     \* goroutines that reconcile: the loop, and requests that begin with it
    IdleLimit,      \* initial_connection_timeout_seconds
    Retention,      \* stopped_retention_seconds
    MaxActive       \* bound: the count a row may reach

ASSUME TimeoutAssumption ==
    /\ IsFiniteSet(Session) /\ MaxActive \in Nat
    /\ IdleLimit \in Nat \ {0} /\ Retention \in Nat \ {0}

VARIABLES
    row,        \* the columns EvaluateTimeouts reads
    container,  \* what Podman runs
    session,    \* session[s]: how far a connection has come
    look,       \* look[r]: what a reconciliation has read and has still to write
    holder,     \* who holds the workspace's lock
    step,       \* where that operation is
    due,        \* what the timeout pass found due when it read the row
    elapsed,    \* time since the container was started, or has ended
    lost,       \* what this run has lost: ends of sessions, a change of its clocks
    origin      \* whose stop stopped_at tells: of the current or a former run, or rewritten

vars == <<row, container, session, look, holder, step, due, elapsed, lost, origin>>

Unset == -1
Upto(limit) == {Unset} \cup 0..limit
Limit == IF IdleLimit > Retention THEN IdleLimit ELSE Retention

(* An inspection keeps its time as the stop it may have to record; late:   *)
(* the container has been started since that stop.                         *)
Look == [step : {"none", "listRows", "observe", "times"},
         saw : {"none", "created", "running", "exited"},
         stopped : Upto(Retention), removed : BOOLEAN, late : BOOLEAN]

NoLook == [step |-> "none", saw |-> "none", stopped |-> Unset, removed |-> FALSE, late |-> FALSE]

(* A row whose observed state is "unknown", which stands for "failed" too, *)
(* has no runtime ID; every other row names a container.                   *)
TypeOK ==
    /\ row \in [observed : {"unknown", "created", "running", "stopped", "missing", "removed"},
                active : 0..MaxActive,
                idle : Upto(IdleLimit), stopped : Upto(Retention), removed : BOOLEAN]
    /\ container \in {"none", "created", "running", "exited"}
    /\ session \in [Session -> [step : {"closed", "attached", "checked", "open", "ending"},
                                live : BOOLEAN]]
    /\ look \in [Reconciler -> Look]
    /\ holder \in {"nobody", "user", "timeout"}
    /\ step \in {"none", "make", "made", "boot", "booted", "ran", "reset", "halt", "halted",
                 "haltTime", "remove", "removed"}
    /\ due \in {"none", "stop", "delete"}
    /\ elapsed \in 0..Limit
    /\ lost \in {"nothing", "clock", "sessions"}
    /\ origin \in {"current", "former", "rewritten"}

(* A workspace as CreateWorkspace leaves it: idle_since is not set. *)
Init ==
    /\ row = [observed |-> "unknown", active |-> 0, idle |-> Unset, stopped |-> Unset,
              removed |-> FALSE]
    /\ container = "none"
    /\ session = [s \in Session |-> [step |-> "closed", live |-> FALSE]]
    /\ look = [r \in Reconciler |-> NoLook]
    /\ holder = "nobody" /\ step = "none" /\ due = "none"
    /\ elapsed = 0
    /\ lost = "nothing" /\ origin = "current"

Older(age, limit) == IF age = Unset \/ age = limit THEN age ELSE age + 1

Tick ==
    /\ row' = [row EXCEPT !.idle = Older(@, IdleLimit), !.stopped = Older(@, Retention)]
    /\ look' = [r \in Reconciler |-> [look[r] EXCEPT !.stopped = Older(@, Retention)]]
    /\ elapsed' = Older(elapsed, Limit)
    /\ UNCHANGED <<container, session, holder, step, due, lost, origin>>

-----------------------------------------------------------------------------
(* OpenTerminal and OpenDesktop, and the handlers around them.  They take  *)
(* no lock.  A session is live as long as its stream is attached to the    *)
(* container that runs now.                                                *)

SetSession(s, phase) == session' = [session EXCEPT ![s].step = phase]
OnlySession == UNCHANGED <<container, look, holder, step, due, elapsed, lost, origin>>

(* OpenShell, or the connection to the desktop service. *)
Attach(s) ==
    /\ session[s].step = "closed"
    /\ row.observed = "running" /\ container = "running"
    /\ session' = [session EXCEPT ![s] = [step |-> "attached", live |-> TRUE]]
    /\ UNCHANGED row /\ OnlySession

(* RecordWorkspaceConnection reads the row again ... *)
CheckConnection(s) ==
    /\ session[s].step = "attached"
    /\ SetSession(s, IF row.observed = "running" THEN "checked" ELSE "closed")
    /\ UNCHANGED row /\ OnlySession

(* ... and counts the session, in one statement. *)
RecordSessionStart(s) ==
    /\ session[s].step = "checked" /\ row.active < MaxActive
    /\ row' = [row EXCEPT !.active = @ + 1, !.idle = Unset]
    /\ SetSession(s, "open")
    /\ OnlySession

(* The browser leaves, a limit of the handler is reached, or the stream    *)
(* ended with its container.  A request whose context ended before it was  *)
(* counted closes the stream and counts nothing.                           *)
EndSession(s) ==
    /\ \/ session[s].step = "open" /\ SetSession(s, "ending")
       \/ session[s].step \in {"attached", "checked"} /\ SetSession(s, "closed")
    /\ UNCHANGED row /\ OnlySession

(* A slip: the idle period begins only when nobody was connected before. *)
RecordSessionEndLate(s) ==
    /\ session[s].step = "ending"
    /\ row' = [row EXCEPT !.active = IF @ = 0 THEN 0 ELSE @ - 1,
                          !.idle = IF row.active < 1 THEN 0 ELSE @]
    /\ SetSession(s, "closed")
    /\ OnlySession

(* RecordWorkspaceSessionEnd: both right-hand sides see the old count. *)
RecordSessionEnd(s) ==
    /\ session[s].step = "ending"
    /\ row' = [row EXCEPT !.active = IF @ = 0 THEN 0 ELSE @ - 1,
                          !.idle = IF row.active <= 1 THEN 0 ELSE @]
    /\ SetSession(s, "closed")
    /\ OnlySession

SessionStep(s) ==
    \/ CheckConnection(s) \/ RecordSessionStart(s) \/ RecordSessionEnd(s)

-----------------------------------------------------------------------------
(* Start and stop, under the lock. *)

Proceed(next) ==
    /\ step' = next
    /\ holder' = IF next = "none" THEN "nobody" ELSE holder
    /\ due' = IF next = "none" /\ holder = "timeout" THEN "none" ELSE due

(* A row that names no container, or says it is not there, has one made. *)
BeginStart ==
    /\ holder = "nobody" /\ row.observed # "running"
    /\ holder' = "user"
    /\ step' = IF row.observed \in {"unknown", "removed", "missing"} THEN "make" ELSE "boot"
    /\ UNCHANGED <<row, container, session, look, due, elapsed, lost, origin>>

(* Podman refuses a second container of the same name. *)
MakeContainer ==
    /\ step = "make" /\ container = "none"
    /\ container' = "created"
    /\ Proceed("made")
    /\ UNCHANGED <<row, session, look, elapsed, lost, origin>>

RecordMade ==
    /\ step = "made"
    /\ row' = [row EXCEPT !.observed = "created"]
    /\ Proceed("boot")
    /\ UNCHANGED <<container, session, look, elapsed, lost, origin>>

(* Podman refuses, or its answer does not arrive: the row names nothing. *)
MakeFailed ==
    /\ step \in {"make", "made"}
    /\ row' = [row EXCEPT !.observed = "unknown"]
    /\ Proceed("none")
    /\ UNCHANGED <<container, session, look, elapsed, lost, origin>>

(* From here on every stop that has been recorded, or read to be recorded, *)
(* is one of a former run.                                                 *)
BootContainer ==
    /\ step = "boot" /\ container # "none"
    /\ container' = "running"
    /\ elapsed' = IF container = "running" THEN elapsed ELSE 0
    /\ look' = [r \in Reconciler |-> [look[r] EXCEPT !.late = look[r].stopped # Unset]]
    /\ origin' = IF row.stopped = Unset THEN "current" ELSE "former"
    /\ Proceed("booted")
    /\ UNCHANGED <<row, session, lost>>

Cut == IF lost = "nothing" /\ holder # "nobody" THEN "clock" ELSE lost

(* Podman refuses, or started the container and its answer does not arrive. *)
BootFailed ==
    /\ step \in {"boot", "booted"}
    /\ row' = [row EXCEPT !.observed = "created"]
    /\ lost' = IF step = "booted" THEN Cut ELSE lost
    /\ Proceed("none")
    /\ UNCHANGED <<container, session, look, elapsed, origin>>

RecordRunning ==
    /\ step = "booted"
    /\ row' = [row EXCEPT !.observed = "running"]
    /\ Proceed("ran")
    /\ UNCHANGED <<container, session, look, elapsed, lost, origin>>

RecordStartTimes ==
    /\ step = "ran"
    /\ row' = [row EXCEPT !.stopped = Unset]
    /\ origin' = "current"
    /\ Proceed("reset")
    /\ UNCHANGED <<container, session, look, elapsed, lost>>

(* A slip: only the count is reset. *)
ResetSessionCount ==
    /\ step = "reset"
    /\ row' = [row EXCEPT !.active = 0]
    /\ lost' = "nothing"
    /\ Proceed("none")
    /\ UNCHANGED <<container, session, look, elapsed, origin>>

(* A slip: only the idle period is reset. *)
ResetIdlePeriod ==
    /\ step = "reset"
    /\ row' = [row EXCEPT !.idle = 0]
    /\ lost' = "nothing"
    /\ Proceed("none")
    /\ UNCHANGED <<container, session, look, elapsed, origin>>

ResetSessions ==
    /\ step = "reset"
    /\ row' = [row EXCEPT !.active = 0, !.idle = 0]
    /\ lost' = "nothing"
    /\ Proceed("none")
    /\ UNCHANGED <<container, session, look, elapsed, origin>>

BeginStop ==
    /\ holder = "nobody" /\ row.observed \notin {"unknown", "stopped", "missing"}
    /\ holder' = "user" /\ step' = "halt"
    /\ UNCHANGED <<row, container, session, look, due, elapsed, lost, origin>>

(* The streams into a container end with it; one that does not run is left *)
(* as it is, and one that is not there ends the operation with an error.   *)
HaltContainer ==
    /\ step = "halt"
    /\ container' = IF container = "running" THEN "exited" ELSE container
    /\ elapsed' = IF container = "running" THEN 0 ELSE elapsed
    /\ session' = [s \in Session |-> [session[s] EXCEPT !.live = FALSE]]
    /\ Proceed(IF container = "none" THEN "none" ELSE "halted")
    /\ UNCHANGED <<row, look, lost, origin>>

RecordStopped ==
    /\ step = "halted"
    /\ row' = [row EXCEPT !.observed = "stopped"]
    /\ Proceed("haltTime")
    /\ UNCHANGED <<container, session, look, elapsed, lost, origin>>

RecordStopTime ==
    /\ step = "haltTime"
    /\ row' = [row EXCEPT !.stopped = 0]
    /\ origin' = "current"
    /\ Proceed("none")
    /\ UNCHANGED <<container, session, look, elapsed, lost>>

(* The client of a start or a stop is gone: what is left of it is not done. *)
AbandonRequest ==
    /\ holder = "user"
    /\ lost' = Cut
    /\ Proceed("none")
    /\ UNCHANGED <<row, container, session, look, elapsed, origin>>

Operation ==
    \/ MakeContainer \/ RecordMade \/ MakeFailed \/ BootContainer \/ BootFailed
    \/ RecordRunning \/ RecordStartTimes \/ ResetSessions
    \/ HaltContainer \/ RecordStopped \/ RecordStopTime

-----------------------------------------------------------------------------
(* Reconcile, without a lock. *)

SetLook(r, found) == look' = [look EXCEPT ![r] = found]
OnlyLook == UNCHANGED <<container, session, holder, step, due, elapsed, lost>>

Inspect(r) ==
    /\ look[r].step = "none"
    /\ SetLook(r, [NoLook EXCEPT !.step = "listRows", !.saw = container,
                                 !.stopped = IF container = "exited" THEN 0 ELSE Unset])
    /\ UNCHANGED <<row, origin>> /\ OnlyLook

(* What will be written is settled here; a workspace without a container   *)
(* is passed over when its row names none or knows of its removal.         *)
ListRows(r) ==
    /\ look[r].step = "listRows"
    /\ LET saw == look[r].saw
           kept == saw \in {"created", "exited"} /\ row.stopped # Unset
       IN IF saw = "none" /\ row.observed \in {"unknown", "removed"} THEN SetLook(r, NoLook)
          ELSE SetLook(r, [look[r] EXCEPT
                   !.step = "observe", !.removed = saw # "none" /\ row.removed,
                   !.stopped = IF kept THEN row.stopped ELSE @,
                   !.late = @ \/ (kept /\ origin # "current")])
    /\ UNCHANGED <<row, origin>> /\ OnlyLook

(* normalizeObservedState *)
NormalizeState(saw) == CASE saw = "none" -> "missing" [] saw = "exited" -> "stopped" [] OTHER -> saw

Observe(r) ==
    /\ look[r].step = "observe"
    /\ row' = [row EXCEPT !.observed = NormalizeState(look[r].saw)]
    /\ SetLook(r, IF look[r].saw = "none" THEN NoLook
                  ELSE [look[r] EXCEPT !.step = "times", !.saw = "none"])
    /\ UNCHANGED origin /\ OnlyLook

ObserveTimes(r) ==
    /\ look[r].step = "times"
    /\ row' = [row EXCEPT !.stopped = look[r].stopped, !.removed = look[r].removed]
    /\ origin' = IF look[r].late THEN "rewritten" ELSE "current"
    /\ SetLook(r, NoLook)
    /\ OnlyLook

(* An error, or the end of the request that reconciles. *)
AbandonReconcile(r) ==
    /\ look[r].step # "none"
    /\ SetLook(r, NoLook)
    /\ UNCHANGED <<row, origin>> /\ OnlyLook

Reconcile(r) == Inspect(r) \/ ListRows(r) \/ Observe(r) \/ ObserveTimes(r)

-----------------------------------------------------------------------------
(* RunTimeouts *)

(* A slip: retention is counted from the last connection. *)
EvaluateTimeoutsFromIdle(r) ==
    IF r.stopped # Unset /\ r.observed # "unknown" /\ ~r.removed
       THEN IF r.idle >= Retention THEN "delete" ELSE "none"
       ELSE IF r.observed = "running" /\ r.active = 0 /\ r.idle # Unset /\ r.idle >= IdleLimit
               THEN "stop" ELSE "none"

EvaluateTimeouts(r) ==
    IF r.stopped # Unset /\ r.observed # "unknown" /\ ~r.removed
       THEN IF r.stopped >= Retention THEN "delete" ELSE "none"
       ELSE IF r.observed = "running" /\ r.active = 0 /\ r.idle # Unset /\ r.idle >= IdleLimit
               THEN "stop" ELSE "none"

(* ListAllWorkspaces: before the lock is waited for.  A pass that finds    *)
(* nothing due takes the lock and gives it back.                           *)
ListForTimeouts ==
    /\ due = "none"
    /\ EvaluateTimeouts(row) = "delete" => row.observed = "stopped"
    /\ due' = EvaluateTimeouts(row)
    /\ UNCHANGED <<row, container, session, look, holder, step, elapsed, lost, origin>>

BeginTimeout ==
    /\ due # "none" /\ holder = "nobody"
    /\ holder' = "timeout"
    /\ step' = IF due = "stop" THEN "halt" ELSE "remove"
    /\ UNCHANGED <<row, container, session, look, due, elapsed, lost, origin>>

(* Podman removes no container that runs. *)
RemoveExpired ==
    /\ step = "remove"
    /\ IF container = "running"
          THEN Proceed("none") /\ UNCHANGED container
          ELSE Proceed("removed") /\ container' = "none"
    /\ UNCHANGED <<row, session, look, elapsed, lost, origin>>

RecordRemoved ==
    /\ step = "removed"
    /\ row' = [row EXCEPT !.observed = "removed", !.removed = TRUE]
    /\ Proceed("none")
    /\ UNCHANGED <<container, session, look, elapsed, lost, origin>>

TimeoutStep == ListForTimeouts \/ BeginTimeout \/ RemoveExpired \/ RecordRemoved

(* The container ends by itself. *)
ContainerExits ==
    /\ container = "running"
    /\ container' = "exited" /\ elapsed' = 0
    /\ session' = [s \in Session |-> [session[s] EXCEPT !.live = FALSE]]
    /\ UNCHANGED <<row, look, holder, step, due, lost, origin>>

(* The process dies: connections end, their ends are never recorded. *)
Restart ==
    /\ lost' = IF row.active > 0 \/ \E s \in Session : session[s].step # "closed"
                  THEN "sessions" ELSE Cut
    /\ session' = [s \in Session |-> [step |-> "closed", live |-> FALSE]]
    /\ look' = [r \in Reconciler |-> NoLook]
    /\ holder' = "nobody" /\ step' = "none" /\ due' = "none"
    /\ UNCHANGED <<row, container, elapsed, origin>>

-----------------------------------------------------------------------------

Others ==
    \/ Tick
    \/ \E s \in Session : Attach(s) \/ EndSession(s) \/ SessionStep(s)
    \/ BeginStart \/ BeginStop \/ Operation
    \/ \E r \in Reconciler : Reconcile(r)
    \/ ContainerExits

Next ==
    \/ Others \/ TimeoutStep
    \/ AbandonRequest \/ (\E r \in Reconciler : AbandonReconcile(r)) \/ Restart

(***************************************************************************)
(* Time passes, the loop comes back, operations and handlers run to their  *)
(* end.  A stream that is not live reaches its end of file.  The lock goes *)
(* to those who wait for it in turn.                                       *)
(***************************************************************************)
OwnFairness ==
    /\ WF_vars(Tick) /\ WF_vars(Operation)
    /\ WF_vars(ListForTimeouts) /\ SF_vars(BeginTimeout)
    /\ WF_vars(RemoveExpired) /\ WF_vars(RecordRemoved)
    /\ \A s \in Session :
          WF_vars(SessionStep(s)) /\ WF_vars(~session[s].live /\ EndSession(s))

Fairness == OwnFairness /\ \A r \in Reconciler : WF_vars(Reconcile(r))

Spec == Init /\ [][Next]_vars

FairSpec == Spec /\ Fairness

-----------------------------------------------------------------------------

(* store.go: the count is kept by single statements so that concurrent     *)
(* connects and disconnects cannot race each other into a wrong one, and   *)
(* every start wipes what a dead process left.  It never exceeds the       *)
(* sessions whose end is still to be recorded, or an idle workspace would  *)
(* run for ever.                                                           *)
NoSessionCountedTwice ==
    lost # "sessions"
        => row.active <= Cardinality({s \in Session : session[s].step \in {"open", "ending"}})

(* ARCHITECTURE.md: "Each successful start begins a new initial-connection *)
(* period".  A row that calls for a stop tells the truth: the run has been *)
(* up for the whole idle limit, whatever sessions of former runs end late. *)
IdlePeriodIsFull ==
    lost = "nothing" /\ holder # "user" /\ container = "running" /\ EvaluateTimeouts(row) = "stop"
        => elapsed >= IdleLimit

(* ADR 0006: "after the container enters a stopped state, COWS may delete  *)
(* the container once this duration expires."  A row that calls for the    *)
(* deletion tells the truth, whoever stopped the container.                *)
DeletionIsDue ==
    container = "exited" /\ EvaluateTimeouts(row) = "delete" => elapsed >= Retention

(* The only rows of which that is not so: the run has lost the changes of  *)
(* its clocks, or a start overtook a reconciliation, which then wrote back *)
(* the stop of a former run over the start's reset.                        *)
RetentionIsFull ==
    lost = "nothing" /\ holder # "user" /\ origin # "rewritten" => DeletionIsDue

(* ADR 0006: a run to which nobody is connected is stopped in the end,     *)
(* once users leave it alone and reconciliations reach their end, unless a *)
(* crash or an abandoned start has left it without its clock.              *)
IdleRunsEnd ==
    (/\ <>[][~(\/ BeginStart \/ BeginStop \/ AbandonRequest \/ Restart
               \/ \E s \in Session : Attach(s)
               \/ \E r \in Reconciler : AbandonReconcile(r))]_vars
     /\ <>[](lost = "nothing" /\ \A s \in Session : session[s].step = "closed"))
        => <>[](container # "running")

=============================================================================
