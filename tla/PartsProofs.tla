---------------------------- MODULE PartsProofs -------------------------------
(***************************************************************************)
(* The smaller parts of the process, for any numbers of sessions, bridges, *)
(* callers, sources, requests and goroutines, and for any limits.          *)
(*                                                                         *)
(* The lifecycle timeouts: no session is counted twice, and a row that     *)
(* calls for a stop or a deletion tells the truth.  The three statements   *)
(* compare the row with what it does not know: who is connected, how long  *)
(* the container has run and rested.  `Clocks` says which of the row's     *)
(* clocks can be trusted at which step of a start or a stop, and which     *)
(* stop a reconciliation carries that started before; the lock, in         *)
(* `Turns`, keeps a stop from meeting a start.                             *)
(*                                                                         *)
(* The six parts of MCParts: each has an inductive invariant of its own    *)
(* (Bridges, UsageSound and Meets, Room, Limited, Filing, Pulls), which a  *)
(* step of its own keeps and a step of another part leaves alone.          *)
(***************************************************************************)
EXTENDS IdleTimeouts, MCParts, FiniteSetTheorems, TLAPS

-----------------------------------------------------------------------------
(* The lifecycle timeouts *)

Row == [observed : {"unknown", "created", "running", "stopped", "missing", "removed"},
        active : 0..MaxActive,
        idle : Upto(IdleLimit), stopped : Upto(Retention), removed : BOOLEAN]
Steps == {"none", "make", "made", "boot", "booted", "ran", "reset", "halt", "halted", "haltTime",
          "remove", "removed"}
Connection == [step : {"closed", "attached", "checked", "open", "ending"}, live : BOOLEAN]

Counted == {s \in Session : session[s].step \in {"open", "ending"}}

(* Who holds the lock, and what nothing else does meanwhile. *)
Turns ==
    /\ holder = "nobody" <=> step = "none"
    /\ step \in {"make", "made", "boot", "booted", "ran", "reset"} => holder = "user"
    /\ step \in {"halted", "haltTime"} => container # "running"

(* The idle period is no longer than the run, once its start has reset it. *)
IdleClock ==
    lost = "nothing" /\ step \notin {"booted", "ran", "reset"} /\ container = "running"
        /\ row.idle # Unset
        => row.idle <= elapsed

(* The time of a stop that no start has followed. *)
Rests(time) ==
    time # Unset => container # "running" /\ (container = "exited" => time <= elapsed)

(* A start clears the time of the stop before it, and a reconciliation     *)
(* knows of no stop but those that a start has overtaken or none has.      *)
StopClock ==
    /\ origin = "current" => Rests(row.stopped)
    /\ origin = "former" =>
          step \in {"booted", "ran"} \/ (lost # "nothing" /\ step # "reset")
    /\ \A r \in Reconciler : look[r].step # "none" /\ ~look[r].late => Rests(look[r].stopped)

Clocks == Turns /\ IdleClock /\ StopClock

-----------------------------------------------------------------------------
(* Typing *)

LEMMA TypedMeans ==
  TypeOK => /\ row \in Row /\ container \in {"none", "created", "running", "exited"}
            /\ session \in [Session -> Connection]
            /\ look \in [Reconciler -> Look]
            /\ holder \in {"nobody", "user", "timeout"}
            /\ step \in Steps
            /\ due \in {"none", "stop", "delete"}
            /\ elapsed \in Nat
            /\ lost \in {"nothing", "clock", "sessions"}
            /\ origin \in {"current", "former", "rewritten"}
  BY TimeoutAssumption DEF TypeOK, Row, Connection, Steps, Limit

LEMMA Ages ==
  ASSUME NEW limit \in Nat \ {0}
  PROVE  /\ \A age \in 0..limit : Older(age, limit) \in 0..limit
         /\ \A age \in Upto(limit) : Older(age, limit) \in Upto(limit)
         /\ 0 \in Upto(limit) /\ Unset \in Upto(limit) /\ 0 \in 0..limit
         /\ \A age \in Upto(limit) : age # Unset => age \in 0..limit
         /\ \A a \in Upto(limit), b \in 0..limit :
              a # Unset /\ a <= b => Older(a, limit) <= Older(b, limit)
         /\ \A a \in Upto(limit) : Older(a, limit) = Unset <=> a = Unset
  BY DEF Older, Upto, Unset

LEMMA Elapses ==
  ASSUME elapsed \in 0..Limit, elapsed' = Older(elapsed, Limit)
  PROVE  /\ elapsed \in Nat /\ elapsed' \in Nat
         /\ elapsed' = elapsed + 1 \/ (elapsed' = elapsed /\ IdleLimit <= elapsed /\ Retention <= elapsed)
         /\ \A a \in Upto(IdleLimit) : a # Unset /\ a <= elapsed => Older(a, IdleLimit) <= elapsed'
         /\ \A a \in Upto(Retention) : a # Unset /\ a <= elapsed => Older(a, Retention) <= elapsed'
  BY TimeoutAssumption DEF Limit, Older, Upto, Unset

LEMMA InitTypeOK == Init => TypeOK
  <1>1. NoLook \in Look
    BY DEF NoLook, Look, Upto
  <1>2. ASSUME Init PROVE row \in Row
    BY <1>2, TimeoutAssumption DEF Init, Row, Upto
  <1>3. ASSUME Init PROVE session \in [Session -> Connection] /\ look \in [Reconciler -> Look]
    BY <1>1, <1>3 DEF Init, Connection
  <1>4. 0 \in 0..Limit
    BY TimeoutAssumption DEF Limit
  <1> QED
    BY <1>2, <1>3, <1>4 DEF Init, TypeOK, Row, Connection

LEMMA NextTypeOK ==
  ASSUME TypeOK, [Next]_vars
  PROVE  TypeOK'
  <1> USE TypedMeans, TimeoutAssumption, Ages
  <1>1. row' \in Row
    <2>1. CASE Tick
      BY <2>1 DEF Tick, Row
    <2>2. ASSUME NEW s \in Session, RecordSessionStart(s) \/ RecordSessionEnd(s)
          PROVE  row' \in Row
      <3>1. 0 \in Upto(IdleLimit) /\ Unset \in Upto(IdleLimit)
        BY DEF Upto
      <3>2. row.active \in 0..MaxActive
        BY DEF Row
      <3>3. row.active < MaxActive => row.active + 1 \in 0..MaxActive
        BY <3>2
      <3>4. row.active # 0 => row.active - 1 \in 0..MaxActive
        BY <3>2
      <3>5. CASE RecordSessionStart(s)
        BY <3>1, <3>3, <3>5 DEF RecordSessionStart, Row
      <3>6. CASE RecordSessionEnd(s)
        BY <3>1, <3>2, <3>4, <3>6 DEF RecordSessionEnd, Row
      <3> QED
        BY <2>2, <3>5, <3>6
    <2>3. CASE \E observed \in {"unknown", "created", "running", "stopped", "missing"} :
                  row' = [row EXCEPT !.observed = observed]
      BY <2>3 DEF Row
    <2>4. CASE RecordRemoved
      BY <2>4 DEF RecordRemoved, Row
    <2>5. CASE RecordStartTimes \/ RecordStopTime
      BY <2>5 DEF RecordStartTimes, RecordStopTime, Row
    <2>6. CASE ResetSessions
      <3>1. 0 \in Upto(IdleLimit) /\ 0 \in 0..MaxActive
        BY DEF Upto
      <3> QED
        BY <2>6, <3>1 DEF ResetSessions, Row
    <2>7. ASSUME NEW r \in Reconciler, ObserveTimes(r)
          PROVE  row' \in Row
      <3>1. look[r].stopped \in Upto(Retention) /\ look[r].removed \in BOOLEAN
        BY DEF Look
      <3> QED
        BY <2>7, <3>1 DEF ObserveTimes, Row
    <2>8. ASSUME NEW r \in Reconciler, Observe(r)
          PROVE  row' \in Row
      <3>1. NormalizeState(look[r].saw) \in {"created", "running", "stopped", "missing"}
        BY DEF Look, NormalizeState
      <3> QED
        BY <2>3, <2>8, <3>1 DEF Observe
    <2>9. CASE RecordMade \/ MakeFailed \/ BootFailed \/ RecordRunning \/ RecordStopped
      BY <2>3, <2>9 DEF RecordMade, MakeFailed, BootFailed, RecordRunning, RecordStopped
    <2>10. CASE row' = row
      BY <2>10
    <2> QED
      BY <2>1, <2>2, <2>4, <2>5, <2>6, <2>7, <2>8, <2>9, <2>10
         DEF Next, vars, Others, TimeoutStep, SessionStep, Operation, Attach, CheckConnection, EndSession,
             BeginStart, MakeContainer, BootContainer, BeginStop, HaltContainer, AbandonRequest,
             ListForTimeouts, BeginTimeout, RemoveExpired, ContainerExits, Restart, OnlySession,
             Reconcile, Inspect, ListRows, AbandonReconcile
  <1>2. session' \in [Session -> Connection]
    <2>1. ASSUME NEW s \in Session, Attach(s) \/ EndSession(s) \/ SessionStep(s)
          PROVE  session' \in [Session -> Connection]
      <3>1. \A phase \in {"closed", "checked", "open", "ending"} :
               SetSession(s, phase) => session' \in [Session -> Connection]
        BY DEF SetSession, Connection
      <3>2. CASE Attach(s)
        BY <3>2 DEF Attach, Connection
      <3> QED
        BY <2>1, <3>1, <3>2
           DEF EndSession, SessionStep, CheckConnection, RecordSessionStart, RecordSessionEnd
    <2>2. CASE HaltContainer \/ ContainerExits \/ Restart
      <3>1. \A s \in Session : [session[s] EXCEPT !.live = FALSE] \in Connection
        <4>1. ASSUME NEW c \in Connection PROVE [c EXCEPT !.live = FALSE] \in Connection
          BY DEF Connection
        <4> QED
          BY <4>1
      <3>2. [step |-> "closed", live |-> FALSE] \in Connection
        BY DEF Connection
      <3> QED
        <4>1. CASE HaltContainer \/ ContainerExits
          BY <3>1, <4>1 DEF HaltContainer, ContainerExits
        <4>2. CASE Restart
          BY <3>2, <4>2 DEF Restart
        <4> QED
          BY <2>2, <4>1, <4>2
    <2>3. CASE session' = session
      BY <2>3
    <2> QED
      BY <2>1, <2>2, <2>3
         DEF Next, vars, Others, TimeoutStep, Operation, Tick, BeginStart, MakeContainer, RecordMade,
             MakeFailed, BootContainer, BootFailed,
             BeginStop, AbandonRequest, ListForTimeouts, BeginTimeout, RemoveExpired,
             RecordRunning, RecordStartTimes, ResetSessions, RecordStopped, RecordStopTime, RecordRemoved,
             Reconcile, Inspect, ListRows, Observe, ObserveTimes, AbandonReconcile, OnlyLook
  <1>3. look' \in [Reconciler -> Look]
    <2>1. NoLook \in Look
      BY DEF NoLook, Look, Upto
    <2>2. ASSUME NEW r \in Reconciler, Reconcile(r) \/ AbandonReconcile(r)
          PROVE  look' \in [Reconciler -> Look]
      <3> DEFINE c == look[r]
      <3>1. c \in Look
        OBVIOUS
      <3>2. \A found \in Look : SetLook(r, found) => look' \in [Reconciler -> Look]
        BY DEF SetLook
      <3>3. CASE Inspect(r)
        <4>1. [NoLook EXCEPT !.step = "listRows", !.saw = container,
                             !.stopped = IF container = "exited" THEN 0 ELSE Unset] \in Look
          BY <2>1 DEF Look
        <4> QED
          BY <3>2, <3>3, <4>1 DEF Inspect
      <3>4. CASE ListRows(r)
        <4>1. row.stopped \in Upto(Retention) /\ row.removed \in BOOLEAN
          BY DEF Row
        <4>2. \A stopped \in Upto(Retention), removed, late \in BOOLEAN :
                 [c EXCEPT !.step = "observe", !.removed = removed, !.stopped = stopped, !.late = late]
                   \in Look
          BY <3>1 DEF Look
        <4>3. c.stopped \in Upto(Retention) /\ c.late \in BOOLEAN
          BY <3>1 DEF Look
        <4>4. PICK found \in Look : SetLook(r, found)
          BY <2>1, <3>4, <4>1, <4>2, <4>3 DEF ListRows
        <4> QED
          BY <3>2, <4>4
      <3>5. CASE Observe(r)
        <4>1. [c EXCEPT !.step = "times", !.saw = "none"] \in Look
          BY <3>1 DEF Look
        <4> QED
          BY <2>1, <3>2, <3>5, <4>1 DEF Observe
      <3>6. CASE ObserveTimes(r) \/ AbandonReconcile(r)
        BY <2>1, <3>2, <3>6 DEF ObserveTimes, AbandonReconcile
      <3> QED
        BY <2>2, <3>3, <3>4, <3>5, <3>6 DEF Reconcile
    <2>3. CASE Tick
      <3>1. \A c \in Look : [c EXCEPT !.stopped = Older(@, Retention)] \in Look
        BY DEF Look
      <3> QED
        BY <2>3, <3>1 DEF Tick
    <2>4. CASE BootContainer
      <3>1. \A c \in Look, late \in BOOLEAN : [c EXCEPT !.late = late] \in Look
        BY DEF Look
      <3> QED
        BY <2>4, <3>1 DEF BootContainer
    <2>5. CASE Restart
      BY <2>1, <2>5 DEF Restart
    <2>6. CASE look' = look
      BY <2>6
    <2> QED
      BY <2>2, <2>3, <2>4, <2>5, <2>6
         DEF Next, vars, Others, TimeoutStep, SessionStep, Operation, Attach, CheckConnection, EndSession,
             RecordSessionStart, RecordSessionEnd, OnlySession, BeginStart, MakeContainer, RecordMade,
             MakeFailed, BootFailed, BeginStop, HaltContainer, AbandonRequest, ListForTimeouts,
             BeginTimeout, RemoveExpired, ContainerExits, RecordRunning, RecordStartTimes,
             ResetSessions, RecordStopped, RecordStopTime, RecordRemoved
  <1>4. elapsed' \in 0..Limit
    <2>1. elapsed \in 0..Limit /\ 0 \in 0..Limit /\ Older(elapsed, Limit) \in 0..Limit
      BY DEF TypeOK, Limit, Older
    <2>2. elapsed' \in {elapsed, 0, Older(elapsed, Limit)}
      BY DEF Next, vars, Others, TimeoutStep, SessionStep, Operation, Attach, CheckConnection, EndSession,
           RecordSessionStart, RecordSessionEnd, OnlySession, Tick,
           BeginStart, MakeContainer, RecordMade, MakeFailed, BootContainer, BootFailed,
           BeginStop, HaltContainer, AbandonRequest, ListForTimeouts,
           BeginTimeout, RemoveExpired, ContainerExits, Restart, RecordRunning, RecordStartTimes,
           ResetSessions, RecordStopped, RecordStopTime, RecordRemoved,
           Reconcile, Inspect, ListRows, Observe, ObserveTimes, AbandonReconcile, OnlyLook
    <2> QED
      BY <2>1, <2>2
  <1>6. /\ container' \in {"none", "created", "running", "exited"}
        /\ origin' \in {"current", "former", "rewritten"}
    BY DEF Next, vars, Others, TimeoutStep, SessionStep, Operation, Attach, CheckConnection, EndSession,
           RecordSessionStart, RecordSessionEnd, OnlySession, Tick,
           BeginStart, MakeContainer, RecordMade, MakeFailed, BootContainer, BootFailed,
           BeginStop, HaltContainer, AbandonRequest, ListForTimeouts,
           BeginTimeout, RemoveExpired, ContainerExits, Restart, RecordRunning, RecordStartTimes,
           ResetSessions, RecordStopped, RecordStopTime, RecordRemoved,
           Reconcile, Inspect, ListRows, Observe, ObserveTimes, AbandonReconcile, OnlyLook
  <1>5. /\ holder' \in {"nobody", "user", "timeout"}
        /\ step' \in Steps
        /\ due' \in {"none", "stop", "delete"}
        /\ lost' \in {"nothing", "clock", "sessions"}
    BY DEF Next, vars, Others, TimeoutStep, SessionStep, Operation, Attach, CheckConnection, EndSession,
           RecordSessionStart, RecordSessionEnd, OnlySession, Tick, Proceed, Cut,
           BeginStart, MakeContainer, RecordMade, MakeFailed, BootContainer, BootFailed,
           BeginStop, HaltContainer, AbandonRequest, ListForTimeouts,
           BeginTimeout, RemoveExpired, ContainerExits, Restart, RecordRunning, RecordStartTimes,
           ResetSessions, RecordStopped, RecordStopTime, RecordRemoved, EvaluateTimeouts, Steps,
           Reconcile, Inspect, ListRows, Observe, ObserveTimes, AbandonReconcile, OnlyLook
  <1> QED
    BY <1>1, <1>2, <1>3, <1>4, <1>5, <1>6 DEF TypeOK, Row, Connection, Steps

-----------------------------------------------------------------------------
(* The lock and the clocks *)

LEMMA InitClocks == Init => Clocks
  BY DEF Init, Clocks, Turns, IdleClock, StopClock, Rests, NoLook

(* A reconciliation moves neither the container nor the lock. *)
LEMMA ReconcileKeeps ==
  ASSUME TypeOK, NEW r \in Reconciler, Reconcile(r) \/ AbandonReconcile(r)
  PROVE  /\ UNCHANGED <<container, session, holder, step, due, elapsed, lost>>
         /\ row'.idle = row.idle /\ row'.active = row.active
  BY TypedMeans
     DEF Reconcile, Inspect, ListRows, Observe, ObserveTimes, AbandonReconcile, OnlyLook, Row

LEMMA NextTurns ==
  ASSUME TypeOK, Turns, [Next]_vars
  PROVE  Turns'
  <1>1. ASSUME NEW r \in Reconciler, Reconcile(r) \/ AbandonReconcile(r)
        PROVE  Turns'
    BY <1>1, ReconcileKeeps DEF Turns
  <1> QED
    BY <1>1, TypedMeans
       DEF Next, vars, Others, TimeoutStep, SessionStep, Operation, Attach, CheckConnection, EndSession,
           RecordSessionStart, RecordSessionEnd, OnlySession, Tick, Proceed, Steps,
           BeginStart, MakeContainer, RecordMade, MakeFailed, BootContainer, BootFailed,
           BeginStop, HaltContainer, AbandonRequest, ListForTimeouts,
           BeginTimeout, RemoveExpired, ContainerExits, Restart, RecordRunning, RecordStartTimes,
           ResetSessions, RecordStopped, RecordStopTime, RecordRemoved, Turns

LEMMA NextIdleClock ==
  ASSUME TypeOK, Turns, IdleClock, [Next]_vars
  PROVE  IdleClock'
  <1> USE TypedMeans
  <1>1. CASE Tick
    <2>1. /\ row.idle \in Upto(IdleLimit) /\ row'.idle = Older(row.idle, IdleLimit)
          /\ UNCHANGED <<container, step, lost>>
      BY <1>1 DEF Tick, Row
    <2>2. \A a \in Upto(IdleLimit) : a # Unset /\ a <= elapsed => Older(a, IdleLimit) <= elapsed'
      BY <1>1, Elapses DEF Tick, TypeOK
    <2> QED
      BY <2>1, <2>2, TimeoutAssumption, Ages DEF IdleClock
  <1>2. ASSUME NEW s \in Session, RecordSessionStart(s) \/ RecordSessionEnd(s)
        PROVE  IdleClock'
    <2>1. /\ row'.idle \in {row.idle, 0, Unset} /\ UNCHANGED <<container, step, lost, elapsed>>
      BY <1>2 DEF RecordSessionStart, RecordSessionEnd, OnlySession, Row
    <2> QED
      BY <2>1, TimeoutAssumption DEF IdleClock
  <1>3. CASE ResetSessions
    BY <1>3 DEF ResetSessions, Row, IdleClock
  <1>4. CASE /\ row'.idle = row.idle /\ (container' # "running" \/ elapsed' = elapsed)
             /\ container' \in {container, "none", "created", "exited"}
             /\ lost' = "nothing" => lost = "nothing"
             /\ step' \in {"booted", "ran", "reset"} \/ step \notin {"booted", "ran", "reset"} \/ lost' # "nothing"
    BY <1>4 DEF IdleClock
  <1>5. CASE BootContainer
    BY <1>5 DEF BootContainer, Proceed, IdleClock
  <1>6. CASE RecordRunning \/ RecordStartTimes \/ HaltContainer \/ RecordStopped \/ RecordStopTime
             \/ RecordRemoved \/ MakeContainer \/ RecordMade \/ MakeFailed
    BY <1>4, <1>6
       DEF RecordRunning, RecordStartTimes, HaltContainer, RecordStopped, RecordStopTime,
           RecordRemoved, MakeContainer, RecordMade, MakeFailed, Proceed, Row
  <1>7. CASE AbandonRequest \/ Restart \/ BootFailed
    BY <1>4, <1>7 DEF AbandonRequest, Restart, BootFailed, Cut, Proceed, Turns, Row
  <1>8. ASSUME NEW s \in Session, Attach(s) \/ EndSession(s) \/ CheckConnection(s)
        PROVE  IdleClock'
    BY <1>8 DEF Attach, EndSession, CheckConnection, OnlySession, IdleClock
  <1>9. CASE BeginStart \/ BeginStop \/ ListForTimeouts \/ BeginTimeout \/ RemoveExpired \/ ContainerExits
    BY <1>4, <1>9
       DEF BeginStart, BeginStop, ListForTimeouts, BeginTimeout, RemoveExpired, ContainerExits, Proceed,
           Turns
  <1>10. ASSUME NEW r \in Reconciler, Reconcile(r) \/ AbandonReconcile(r)
         PROVE  IdleClock'
    BY <1>10, ReconcileKeeps DEF IdleClock
  <1>11. CASE UNCHANGED vars
    BY <1>11 DEF vars, IdleClock
  <1> QED
    BY <1>1, <1>2, <1>3, <1>5, <1>6, <1>7, <1>8, <1>9, <1>10, <1>11
       DEF Next, Others, TimeoutStep, SessionStep, Operation

LEMMA NextStopClock ==
  ASSUME TypeOK, Turns, StopClock, [Next]_vars
  PROVE  StopClock'
  <1> USE TypedMeans
  <1>1. CASE Tick
    <2>1. /\ row.stopped \in Upto(Retention) /\ row'.stopped = Older(row.stopped, Retention)
          /\ UNCHANGED <<container, step, lost, origin>>
      BY <1>1 DEF Tick, Row
    <2>2. \A a \in Upto(Retention) : a # Unset /\ a <= elapsed => Older(a, Retention) <= elapsed'
      BY <1>1, Elapses DEF Tick, TypeOK
    <2>3. Rests(row.stopped) => Rests(row.stopped)'
      BY <2>1, <2>2, TimeoutAssumption, Ages DEF Rests
    <2>4. ASSUME NEW r \in Reconciler
          PROVE  /\ look'[r].step = look[r].step /\ look'[r].late = look[r].late
                 /\ Rests(look[r].stopped) => Rests(look[r].stopped)'
      <3>1. look[r] \in Look /\ look'[r] = [look[r] EXCEPT !.stopped = Older(@, Retention)]
        BY <1>1 DEF Tick
      <3>2. /\ look'[r].stopped = Older(look[r].stopped, Retention)
            /\ look[r].stopped \in Upto(Retention)
        BY <3>1 DEF Look
      <3> QED
        BY <2>1, <2>2, <3>1, <3>2, TimeoutAssumption, Ages DEF Rests, Look
    <2> QED
      BY <2>1, <2>3, <2>4 DEF StopClock
  <1>2. ASSUME row'.stopped = row.stopped, look' = look, origin' = origin, container' = container,
               elapsed' = elapsed,
               \/ step' \in {"booted", "ran"}
               \/ step \notin {"booted", "ran"} /\ (lost # "nothing" => lost' # "nothing") /\ step' # "reset"
               \/ origin # "former"
               \/ lost' # "nothing" /\ step' # "reset"
        PROVE  StopClock'
    BY <1>2 DEF StopClock, Rests
  <1>3. ASSUME NEW s \in Session, Attach(s) \/ EndSession(s) \/ SessionStep(s)
        PROVE  StopClock'
    <2>1. row'.stopped = row.stopped /\ UNCHANGED <<look, container, step, lost, elapsed, origin>>
      BY <1>3
         DEF Attach, EndSession, SessionStep, CheckConnection, RecordSessionStart, RecordSessionEnd,
             OnlySession, Row
    <2> QED
      BY <2>1 DEF StopClock, Rests
  <1>4. ASSUME NEW r \in Reconciler, Reconcile(r) \/ AbandonReconcile(r)
        PROVE  StopClock'
    <2> DEFINE c == look[r]
    <2>1. /\ UNCHANGED <<container, step, lost, elapsed>>
          /\ \A q \in Reconciler \ {r} : look'[q] = look[q]
      BY <1>4, ReconcileKeeps
         DEF Reconcile, Inspect, ListRows, Observe, ObserveTimes, AbandonReconcile, SetLook
    <2>3. ASSUME origin' = origin, row'.stopped = row.stopped,
                 look'[r].step # "none" /\ ~look'[r].late => Rests(look'[r].stopped)
          PROVE  StopClock'
      BY <2>1, <2>3 DEF StopClock, Rests
    <2>4. c \in Look
      OBVIOUS
    <2>5. CASE Inspect(r)
      <3>1. look'[r].stopped = IF container = "exited" THEN 0 ELSE Unset
        BY <1>4, <2>5 DEF Inspect, SetLook, NoLook
      <3>2. Rests(look'[r].stopped)
        BY <3>1 DEF Rests
      <3> QED
        BY <2>3, <2>5, <3>2 DEF Inspect
    <2>6. CASE ListRows(r)
      <3> DEFINE kept == c.saw \in {"created", "exited"} /\ row.stopped # Unset
      <3>1. row' = row /\ origin' = origin /\ c.step = "listRows"
        BY <2>6 DEF ListRows
      <3>2. CASE look'[r] = NoLook
        BY <2>3, <3>1, <3>2 DEF NoLook
      <3>3. ASSUME look'[r] = [c EXCEPT
                     !.step = "observe", !.removed = c.saw # "none" /\ row.removed,
                     !.stopped = IF kept THEN row.stopped ELSE @,
                     !.late = @ \/ (kept /\ origin # "current")]
            PROVE  StopClock'
        <4>1. /\ look'[r].stopped = IF kept THEN row.stopped ELSE c.stopped
              /\ look'[r].late <=> c.late \/ (kept /\ origin # "current")
          BY <2>4, <3>3 DEF Look
        <4>2. ~look'[r].late => Rests(look'[r].stopped)
          BY <3>1, <4>1 DEF StopClock
        <4> QED
          BY <2>3, <3>1, <4>2
      <3> QED
        BY <2>6, <3>2, <3>3 DEF ListRows, SetLook
    <2>7. CASE Observe(r)
      <3>1. row'.stopped = row.stopped /\ origin' = origin /\ c.step = "observe"
        BY <2>7 DEF Observe, Row
      <3>2. CASE look'[r] = NoLook
        BY <2>3, <3>1, <3>2 DEF NoLook
      <3>3. CASE look'[r] = [c EXCEPT !.step = "times", !.saw = "none"]
        <4>1. look'[r].stopped = c.stopped /\ look'[r].late = c.late
          BY <2>4, <3>3 DEF Look
        <4> QED
          BY <2>3, <3>1, <4>1 DEF StopClock
      <3> QED
        BY <2>7, <3>2, <3>3 DEF Observe, SetLook
    <2>8. CASE ObserveTimes(r)
      <3>1. /\ row'.stopped = c.stopped /\ look'[r] = NoLook /\ c.step = "times"
            /\ origin' = IF c.late THEN "rewritten" ELSE "current"
        BY <2>8 DEF ObserveTimes, SetLook, Row
      <3>2. ~c.late => Rests(c.stopped)
        BY <3>1 DEF StopClock
      <3> QED
        BY <2>1, <3>1, <3>2 DEF StopClock, Rests, NoLook
    <2>9. CASE AbandonReconcile(r)
      BY <2>3, <2>9 DEF AbandonReconcile, SetLook, NoLook
    <2> QED
      BY <1>4, <2>5, <2>6, <2>7, <2>8, <2>9 DEF Reconcile
  <1>5. CASE RecordStartTimes
    BY <1>5 DEF RecordStartTimes, Proceed, Row, StopClock, Rests
  <1>6. CASE RecordStopTime
    BY <1>6 DEF RecordStopTime, Proceed, Turns, Row, StopClock, Rests
  <1>7. CASE HaltContainer \/ ContainerExits
    <2>1. /\ row' = row /\ look' = look /\ origin' = origin /\ lost' = lost
          /\ container # "running" => container' = container /\ elapsed' = elapsed
          /\ container = "running" => container' = "exited"
          /\ step' = step \/ (step = "halt" /\ step' # "reset")
      BY <1>7 DEF HaltContainer, ContainerExits, Proceed
    <2> QED
      BY <2>1 DEF StopClock, Rests
  <1>8. CASE BootContainer
    <2>1. ASSUME NEW r \in Reconciler
          PROVE  look'[r].stopped = look[r].stopped /\ (look'[r].late <=> look[r].stopped # Unset)
      <3>1. look[r] \in Look /\ look'[r] = [look[r] EXCEPT !.late = look[r].stopped # Unset]
        BY <1>8 DEF BootContainer
      <3> QED
        BY <3>1 DEF Look
    <2> QED
      BY <1>8, <2>1 DEF BootContainer, Proceed, StopClock, Rests
  <1>9. CASE MakeContainer \/ RemoveExpired
    <2>1. /\ row' = row /\ look' = look /\ origin' = origin /\ lost' = lost
          /\ container' \in {"created", "none"} \/ (container' = container /\ elapsed' = elapsed)
          /\ step \notin {"booted", "ran"} /\ step' # "reset"
      BY <1>9 DEF MakeContainer, RemoveExpired, Proceed
    <2> QED
      BY <2>1 DEF StopClock, Rests
  <1>10. CASE RecordMade \/ MakeFailed \/ RecordRunning \/ RecordStopped \/ RecordRemoved
    BY <1>2, <1>10
       DEF RecordMade, MakeFailed, RecordRunning, RecordStopped, RecordRemoved, Proceed, Row
  <1>11. CASE ResetSessions
    BY <1>11 DEF ResetSessions, Proceed, Row, StopClock, Rests
  <1>12. CASE BootFailed \/ AbandonRequest
    BY <1>2, <1>12 DEF BootFailed, AbandonRequest, Cut, Proceed, Turns, Row
  <1>13. CASE Restart
    BY <1>13 DEF Restart, Cut, Turns, StopClock, Rests, NoLook
  <1>14. CASE BeginStart \/ BeginStop \/ ListForTimeouts \/ BeginTimeout
    BY <1>2, <1>14 DEF BeginStart, BeginStop, ListForTimeouts, BeginTimeout, Turns, StopClock, Rests
  <1>15. CASE UNCHANGED vars
    BY <1>15 DEF vars, StopClock, Rests
  <1> QED
    BY <1>1, <1>3, <1>4, <1>5, <1>6, <1>7, <1>8, <1>9, <1>10, <1>11, <1>12, <1>13, <1>14, <1>15
       DEF Next, Others, TimeoutStep, Operation

-----------------------------------------------------------------------------
(* The count of sessions *)

LEMMA CountedMeans ==
  /\ IsFiniteSet(Counted) /\ Cardinality(Counted) \in Nat
  /\ NoSessionCountedTwice <=> (lost # "sessions" => row.active <= Cardinality(Counted))
  <1>1. IsFiniteSet(Counted)
    BY FS_Subset, TimeoutAssumption DEF Counted
  <1> QED
    BY <1>1, FS_CardinalityType DEF Counted, NoSessionCountedTwice

LEMMA InitCount == Init => NoSessionCountedTwice
  BY CountedMeans DEF Init

LEMMA CountedAlike ==
  ASSUME TypeOK, NoSessionCountedTwice, Counted' = Counted, row'.active = row.active,
         lost # "sessions" \/ lost' = "sessions"
  PROVE  NoSessionCountedTwice'
  BY DEF NoSessionCountedTwice, Counted

LEMMA NextCount ==
  ASSUME TypeOK, NoSessionCountedTwice, [Next]_vars
  PROVE  NoSessionCountedTwice'
  <1> USE TypedMeans
  <1>0. TypeOK'
    BY NextTypeOK
  <1>1. ASSUME NEW s \in Session, RecordSessionStart(s) PROVE NoSessionCountedTwice'
    <2>1. Counted' = Counted \cup {s} /\ s \notin Counted
      BY <1>1 DEF RecordSessionStart, SetSession, Counted, Connection
    <2>2. Cardinality(Counted') = Cardinality(Counted) + 1
      BY <2>1, CountedMeans, FS_AddElement
    <2>3. row'.active = row.active + 1 /\ row.active \in Nat /\ lost' = lost
      BY <1>1 DEF RecordSessionStart, OnlySession, Row
    <2> QED
      BY <2>2, <2>3, CountedMeans DEF NoSessionCountedTwice, Counted
  <1>2. ASSUME NEW s \in Session, RecordSessionEnd(s) PROVE NoSessionCountedTwice'
    <2>1. Counted' = Counted \ {s} /\ s \in Counted
      BY <1>2 DEF RecordSessionEnd, SetSession, Counted, Connection
    <2>2. Cardinality(Counted') = Cardinality(Counted) - 1
      BY <2>1, CountedMeans, FS_RemoveElement
    <2>3. /\ row'.active = IF row.active = 0 THEN 0 ELSE row.active - 1
          /\ row.active \in Nat /\ lost' = lost
      BY <1>2 DEF RecordSessionEnd, OnlySession, Row
    <2>4. Cardinality(Counted) # 0
      BY <2>1, CountedMeans, FS_EmptySet
    <2> QED
      BY <2>2, <2>3, <2>4, CountedMeans DEF NoSessionCountedTwice, Counted
  <1>3. CASE row'.active = 0
    <2>1. IsFiniteSet(Counted')
      BY FS_Subset, TimeoutAssumption DEF Counted
    <2>2. Cardinality(Counted') \in Nat
      BY <2>1, FS_CardinalityType
    <2> QED
      BY <1>3, <2>2 DEF NoSessionCountedTwice, Counted
  <1>4. ASSUME NEW s \in Session, Attach(s) \/ EndSession(s) \/ CheckConnection(s)
        PROVE  NoSessionCountedTwice'
    <2>1. Counted' = Counted
      BY <1>4 DEF Attach, EndSession, CheckConnection, SetSession, Counted, Connection
    <2> QED
      BY <1>4, <2>1, CountedAlike DEF Attach, EndSession, CheckConnection, OnlySession
  <1>5. CASE HaltContainer \/ ContainerExits
    <2>1. \A s \in Session : session'[s].step = session[s].step
      BY <1>5 DEF HaltContainer, ContainerExits, Connection
    <2>2. Counted' = Counted
      BY <2>1 DEF Counted
    <2> QED
      BY <1>5, <2>2, CountedAlike DEF HaltContainer, ContainerExits
  <1>6. CASE Restart
    <2>1. CASE row.active > 0
      BY <1>6, <2>1 DEF Restart, NoSessionCountedTwice
    <2>2. CASE row.active = 0
      BY <1>3, <1>6, <2>2 DEF Restart
    <2> QED
      BY <2>1, <2>2 DEF Row
  <1>7. CASE ResetSessions
    BY <1>3, <1>7 DEF ResetSessions, Row
  <1>8. CASE row'.active = row.active /\ session' = session /\ lost' \in {lost, Cut}
    BY <1>8, CountedAlike DEF Counted, Cut
  <1>9. CASE Tick \/ RecordMade \/ MakeFailed \/ BootFailed \/ RecordRunning \/ RecordStartTimes
             \/ RecordStopped \/ RecordStopTime \/ RecordRemoved
    BY <1>8, <1>9
       DEF Tick, RecordMade, MakeFailed, BootFailed, RecordRunning, RecordStartTimes, RecordStopped,
           RecordStopTime, RecordRemoved, Row
  <1>10. CASE BeginStart \/ MakeContainer \/ BootContainer \/ BeginStop \/ AbandonRequest
              \/ ListForTimeouts \/ BeginTimeout \/ RemoveExpired \/ UNCHANGED vars
    BY <1>8, <1>10
       DEF BeginStart, MakeContainer, BootContainer, BeginStop, AbandonRequest, ListForTimeouts,
           BeginTimeout, RemoveExpired, vars
  <1>11. ASSUME NEW r \in Reconciler, Reconcile(r) \/ AbandonReconcile(r)
         PROVE  NoSessionCountedTwice'
    BY <1>8, <1>11, ReconcileKeeps
  <1> QED
    BY <1>1, <1>2, <1>4, <1>5, <1>6, <1>7, <1>9, <1>10, <1>11
       DEF Next, Others, TimeoutStep, SessionStep, Operation

-----------------------------------------------------------------------------

LEMMA InitInv == Init => TypeOK /\ Clocks /\ NoSessionCountedTwice
  BY InitTypeOK, InitClocks, InitCount

LEMMA NextInv ==
  (TypeOK /\ Clocks /\ NoSessionCountedTwice) /\ [Next]_vars
    => (TypeOK /\ Clocks /\ NoSessionCountedTwice)'
  BY NextTypeOK, NextTurns, NextIdleClock, NextStopClock, NextCount DEF Clocks

(* RecordSessionStart and RecordSessionEnd keep the count by single        *)
(* statements, and every start wipes it: it never exceeds the sessions     *)
(* whose end is still to be recorded, whoever connects and leaves.         *)
THEOREM CountIsNotTooHigh == Spec => []NoSessionCountedTwice
  BY InitInv, NextInv, PTL DEF Spec

(* EvaluateTimeouts calls for a stop only when the run has been up for the *)
(* whole idle limit, whatever limit and however sessions overlap its start.*)
THEOREM StopsAreDue == Spec => []IdlePeriodIsFull
  <1>1. TypeOK /\ Clocks => IdlePeriodIsFull
    BY TypedMeans, TimeoutAssumption
       DEF Clocks, Turns, IdleClock, IdlePeriodIsFull, EvaluateTimeouts, Row, Upto, Unset
  <1> QED
    BY <1>1, InitInv, NextInv, PTL DEF Spec

(* However reconciliations, starts, stops and the timeout pass interleave, *)
(* EvaluateTimeouts calls for a deletion before the container has rested   *)
(* for the whole retention in two cases only: the run has lost a change of *)
(* its clocks, or a reconciliation that a start overtook has written the   *)
(* stop of a former run back.                                              *)
THEOREM DeletionsAreDue == Spec => []RetentionIsFull
  <1>1. TypeOK /\ Clocks => RetentionIsFull
    BY TypedMeans, TimeoutAssumption
       DEF Clocks, Turns, StopClock, Rests, RetentionIsFull, DeletionIsDue, EvaluateTimeouts, Row, Upto,
           Unset
  <1> QED
    BY <1>1, InitInv, NextInv, PTL DEF Spec

-----------------------------------------------------------------------------
(* Finite sets, as each module has them *)

LEMMA SameCardinality ==
  /\ \A S : V!Cardinality(S) = Cardinality(S) /\ L!Cardinality(S) = Cardinality(S)
  /\ \A S : /\ V!IsFiniteSet(S) <=> IsFiniteSet(S)
            /\ L!IsFiniteSet(S) <=> IsFiniteSet(S)
            /\ U!IsFiniteSet(S) <=> IsFiniteSet(S)
  BY Zenon DEF V!Cardinality, L!Cardinality, Cardinality, V!IsFiniteSet, L!IsFiniteSet, U!IsFiniteSet, IsFiniteSet

LEMMA UsageConstants ==
  ASSUME PartsAssumption
  PROVE  /\ None \notin Caller /\ None \notin Fingerprint
         /\ None \notin Fewer /\ None # "same" /\ MaxCache \in Nat /\ IsFiniteSet(Fewer)
  BY SameCardinality DEF PartsAssumption, U!UsageAssumption, V!UsageAssumption

-----------------------------------------------------------------------------
(* Terminals and desktops *)

BridgeState ==
    [at : {"unopened", "opened", "refused", "recorded", "select", "send", "write", "resize",
           "check", "leaving", "terminate", "detach", "record", "done"},
     process : {"none", "running", "gone"}, stream : {"none", "open", "closed"},
     browser : {"none", "open", "away", "closed"},
     up : {"none", "read", "put", "fail", "gone"}, down : {"none", "read", "put", "fail", "gone"},
     input : {"empty", "data", "error"}, output : {"empty", "data", "error"},
     over : BOOLEAN, idle : BOOLEAN, session : BOOLEAN,
     begun : 0..1, ended : 0..1, left : BOOLEAN]

(* A desktop has no shell; a shell that runs past its clean-up was left by *)
(* it; a session is counted from its record to the record of its end.      *)
Sound(b, q) ==
    /\ b \notin Terminal => q.process = "none"
    /\ q.stream = "closed" => q.at \in {"record", "done"}
    /\ q.at \in {"detach", "record", "done"} /\ q.process = "running" => q.left
    /\ q.at \in {"unopened", "opened", "refused"} => q.begun = 0
    /\ q.at \notin {"unopened", "opened", "refused", "detach", "done"} => q.begun = 1
    /\ q.ended = IF q.at = "done" THEN q.begun ELSE 0

Bridges == bridge \in [B!Bridge -> BridgeState] /\ \A b \in B!Bridge : Sound(b, bridge[b])

LEMMA BridgesBegin == B!Init => Bridges
  <1>1. B!Unopened \in BridgeState /\ \A b \in B!Bridge : Sound(b, B!Unopened)
    BY DEF B!Unopened, BridgeState, Sound
  <1> QED
    BY <1>1 DEF B!Init, Bridges

LEMMA BridgeMoved ==
  ASSUME Bridges, NEW b \in B!Bridge, NEW q \in BridgeState, Sound(b, q),
         bridge' = [bridge EXCEPT ![b] = q]
  PROVE  Bridges'
  BY DEF Bridges

LEMMA BridgeLeft ==
  ASSUME Bridges, NEW b \in B!Bridge, B!Leave(b),
         bridge[b].at \in {"recorded", "select", "send", "write", "resize", "check"}
  PROVE  Bridges'
  <1> DEFINE q == [bridge[b] EXCEPT !.at = "leaving", !.over = TRUE]
  <1>0. bridge \in [B!Bridge -> BridgeState] /\ bridge[b] \in BridgeState /\ Sound(b, bridge[b])
    BY DEF Bridges
  <1>1. q \in BridgeState
    BY <1>0 DEF BridgeState
  <1>2. Sound(b, q)
    BY <1>0 DEF BridgeState, Sound
  <1>3. bridge' = [bridge EXCEPT ![b] = q]
    BY <1>0 DEF B!Leave
  <1> QED
    BY <1>1, <1>2, <1>3, BridgeMoved

LEMMA OneBridge ==
  ASSUME PartsAssumption, Bridges, NEW b \in B!Bridge, B!Step(b)
  PROVE  Bridges'
  <1> USE DEF B!At, B!Moves, B!Leave
  <1>0. bridge \in [B!Bridge -> BridgeState] /\ bridge[b] \in BridgeState /\ Sound(b, bridge[b])
    BY DEF Bridges
  <1>1. CASE B!Opening(b)
    <2>1. CASE B!OpenShell(b)
      BY <1>0, <2>1 DEF B!OpenShell, Bridges, Sound, BridgeState
    <2>2. CASE B!OpenInternalService(b)
      <3> DEFINE q == [bridge[b] EXCEPT !.at = "opened", !.stream = "open"]
      <3>1. q \in BridgeState
        BY <1>0 DEF BridgeState
      <3>2. Sound(b, q)
        BY <1>0, <2>2 DEF B!OpenInternalService, BridgeState, Sound
      <3>3. bridge' = [bridge EXCEPT ![b] = q]
        BY <1>0, <2>2 DEF B!OpenInternalService
      <3> QED
        BY <3>1, <3>2, <3>3, BridgeMoved
    <2>3. CASE B!RecordWorkspaceConnection(b)
      BY <1>0, <2>3 DEF B!RecordWorkspaceConnection, Bridges, Sound, BridgeState
    <2>4. CASE B!Accept(b)
      BY <1>0, <2>4 DEF B!Accept, Bridges, Sound, BridgeState
    <2> QED
      BY <1>1, <2>1, <2>2, <2>3, <2>4 DEF B!Opening
  <1>2. CASE B!Reading(b)
    <2>1. CASE B!ReadInput(b)
      BY <1>0, <2>1 DEF B!ReadInput, Bridges, Sound, BridgeState
    <2>2. CASE B!ReadOutput(b)
      BY <1>0, <2>2 DEF B!ReadOutput, Bridges, Sound, BridgeState
    <2>3. CASE B!CopyDesktopStream(b)
      BY <1>0, <2>3 DEF B!CopyDesktopStream, Bridges, Sound, BridgeState
    <2>4. CASE B!PutInput(b)
      BY <1>0, <2>4 DEF B!PutInput, Bridges, Sound, BridgeState
    <2>5. CASE B!PutOutput(b)
      BY <1>0, <2>5 DEF B!PutOutput, Bridges, Sound, BridgeState
    <2>6. CASE B!GiveUpInput(b)
      BY <1>0, <2>6 DEF B!GiveUpInput, Bridges, Sound, BridgeState
    <2>7. CASE B!GiveUpOutput(b)
      BY <1>0, <2>7 DEF B!GiveUpOutput, Bridges, Sound, BridgeState
    <2>8. CASE B!ReadInputFails(b)
      BY <1>0, <2>8 DEF B!ReadInputFails, Bridges, Sound, BridgeState
    <2>9. CASE B!ReadOutputFails(b)
      BY <1>0, <2>9 DEF B!ReadOutputFails, Bridges, Sound, BridgeState
    <2> QED
      BY <1>2, <2>1, <2>2, <2>3, <2>4, <2>5, <2>6, <2>7, <2>8, <2>9 DEF B!Reading, B!ReaderOfInput, B!ReaderOfOutput
  <1>3. CASE B!Looping(b)
    <2>1. CASE B!SelectOutput(b)
      BY <1>0, <2>1 DEF B!SelectOutput, Bridges, Sound, BridgeState
    <2>2. CASE B!Send(b)
      <3> DEFINE q == [bridge[b] EXCEPT !.at = "select", !.idle = FALSE]
      <3>1. q \in BridgeState
        BY <1>0 DEF BridgeState
      <3>2. Sound(b, q)
        BY <1>0, <2>2 DEF B!Send, BridgeState, Sound
      <3>3. bridge' = [bridge EXCEPT ![b] = q]
        BY <1>0, <2>2 DEF B!Send
      <3> QED
        BY <3>1, <3>2, <3>3, BridgeMoved
    <2>3. CASE B!SendFails(b)
      BY <2>3, BridgeLeft DEF B!SendFails
    <2>4. CASE B!SelectInput(b)
      BY <1>0, <2>4 DEF B!SelectInput, Bridges, Sound, BridgeState
    <2>5. CASE B!Write(b)
      <3> DEFINE q == [bridge[b] EXCEPT !.at = "select", !.idle = FALSE]
      <3>1. q \in BridgeState
        BY <1>0 DEF BridgeState
      <3>2. Sound(b, q)
        BY <1>0, <2>5 DEF B!Write, BridgeState, Sound
      <3>3. bridge' = [bridge EXCEPT ![b] = q]
        BY <1>0, <2>5 DEF B!Write
      <3> QED
        BY <3>1, <3>2, <3>3, BridgeMoved
    <2>6. CASE B!WriteFails(b)
      BY <2>6, BridgeLeft DEF B!WriteFails
    <2>7. CASE B!Resize(b)
      BY <1>0, <2>7 DEF B!Resize, Bridges, Sound, BridgeState
    <2>8. CASE B!SelectIdle(b)
      BY <2>8, BridgeLeft DEF B!SelectIdle
    <2>9. CASE B!SelectDone(b)
      BY <2>9, BridgeLeft DEF B!SelectDone
    <2>10. CASE B!SelectCopied(b)
      BY <2>10, BridgeLeft DEF B!SelectCopied
    <2>11. CASE B!SelectTick(b)
      BY <1>0, <2>11 DEF B!SelectTick, Bridges, Sound, BridgeState
    <2>12. CASE B!UserForSession(b)
      BY <1>0, <2>12 DEF B!UserForSession, Bridges, Sound, BridgeState
    <2> QED
      BY <1>3, <2>1, <2>2, <2>3, <2>4, <2>5, <2>6, <2>7, <2>8, <2>9, <2>10, <2>11, <2>12 DEF B!Looping
  <1>4. CASE B!Closing(b)
    <2>1. CASE B!CloseBrowser(b)
      BY <1>0, <2>1, PartsAssumption DEF B!CloseBrowser, Bridges, Sound, BridgeState, B!Bridge
    <2>2. CASE B!TerminateExec(b)
      BY <1>0, <2>2 DEF B!TerminateExec, Bridges, Sound, BridgeState
    <2>3. CASE B!CloseStream(b)
      BY <1>0, <2>3 DEF B!CloseStream, Bridges, Sound, BridgeState
    <2>4. CASE B!RecordDisconnect(b)
      BY <1>0, <2>4 DEF B!RecordDisconnect, Bridges, Sound, BridgeState
    <2> QED
      BY <1>4, <2>1, <2>2, <2>3, <2>4 DEF B!Closing
  <1>5. CASE B!Outside(b)
    <2>1. CASE B!ShellExits(b)
      BY <1>0, <2>1 DEF B!ShellExits, Bridges, Sound, BridgeState
    <2>2. CASE B!BrowserGoesAway(b)
      BY <1>0, <2>2 DEF B!BrowserGoesAway, Bridges, Sound, BridgeState
    <2>3. CASE B!IdleFires(b)
      <3> DEFINE q == [bridge[b] EXCEPT !.idle = TRUE]
      <3>1. q \in BridgeState
        BY <1>0 DEF BridgeState
      <3>2. Sound(b, q)
        BY <1>0, <2>3 DEF B!IdleFires, BridgeState, Sound
      <3>3. bridge' = [bridge EXCEPT ![b] = q]
        BY <1>0, <2>3 DEF B!IdleFires
      <3> QED
        BY <3>1, <3>2, <3>3, BridgeMoved
    <2>4. CASE B!Revoke(b)
      <3> DEFINE q == [bridge[b] EXCEPT !.session = FALSE]
      <3>1. q \in BridgeState
        BY <1>0 DEF BridgeState
      <3>2. Sound(b, q)
        BY <1>0, <2>4 DEF B!Revoke, BridgeState, Sound
      <3>3. bridge' = [bridge EXCEPT ![b] = q]
        BY <1>0, <2>4 DEF B!Revoke
      <3> QED
        BY <3>1, <3>2, <3>3, BridgeMoved
    <2>5. CASE B!LifetimeEnds(b)
      <3> DEFINE q == [bridge[b] EXCEPT !.over = TRUE]
      <3>1. q \in BridgeState
        BY <1>0 DEF BridgeState
      <3>2. Sound(b, q)
        BY <1>0, <2>5 DEF B!LifetimeEnds, BridgeState, Sound
      <3>3. bridge' = [bridge EXCEPT ![b] = q]
        BY <1>0, <2>5 DEF B!LifetimeEnds
      <3> QED
        BY <3>1, <3>2, <3>3, BridgeMoved
    <2>6. CASE B!Reopen(b)
      BY <1>0, <2>6 DEF B!Reopen, Bridges, Sound, BridgeState, B!Unopened
    <2> QED
      BY <1>5, <2>1, <2>2, <2>3, <2>4, <2>5, <2>6 DEF B!Outside
  <1> QED
    BY <1>1, <1>2, <1>3, <1>4, <1>5 DEF B!Step

-----------------------------------------------------------------------------
(* The cache of storage usage: calls that meet *)

(* An entry that is being measured names the call that measures it. *)
UsageSound ==
    /\ U!TypeOK
    /\ \A w \in Workspace : U!Measuring(cache[w]) =>
         /\ call[cache[w].by].at = "measure" /\ call[cache[w].by].ws = w
         /\ call[cache[w].by].print = cache[w].print

LEMMA UsageRecords ==
  ASSUME PartsAssumption, U!TypeOK
  PROVE  /\ None \notin Caller
         /\ \A c \in Caller : call[c].at # "idle" => call[c] \in U!Call
         /\ \A c \in Caller : call[c].at # "wait" => call[c].leader = None
         /\ \A w \in Workspace : U!Measuring(cache[w]) => cache[w] \in U!Entry /\ cache[w].by \in Caller
         /\ \A e \in U!Entry : e # U!NoEntry
  BY UsageConstants DEF U!TypeOK, U!Idle, U!Call, U!Entry, U!NoEntry, U!Measuring

LEMMA UsageBegins ==
  ASSUME PartsAssumption, U!Init
  PROVE  UsageSound
  BY UsageConstants DEF UsageSound, U!Init, U!TypeOK, U!Measuring, U!NoEntry, U!Idle

(* A call that does not measure moves alone. *)
LEMMA UsageCallMoves ==
  ASSUME PartsAssumption, UsageSound, NEW c \in Caller, call[c].at # "measure",
         NEW q \in U!Call \cup {U!Idle}, q.leader # None <=> q.at = "wait",
         call' = [call EXCEPT ![c] = q], UNCHANGED cache
  PROVE  UsageSound'
  <1>1. U!TypeOK'
    BY DEF UsageSound, U!TypeOK
  <1>2. ASSUME NEW w \in Workspace, U!Measuring(cache[w])
        PROVE  cache[w].by \in Caller /\ cache[w].by # c
    BY <1>2, UsageRecords DEF UsageSound
  <1> QED
    BY <1>1, <1>2 DEF UsageSound, U!TypeOK

LEMMA UsageMeasureSound ==
  ASSUME PartsAssumption, UsageSound, NEW c \in Caller, U!Measure(c)
  PROVE  UsageSound'
  <1> DEFINE w == call[c].ws
             new == [by |-> c, print |-> call[c].print, result |-> "ok", age |-> 0]
  <1>0. U!TypeOK /\ call[c].at = "look"
    BY DEF UsageSound, U!Measure
  <1>1. call[c] \in U!Call /\ w \in Workspace /\ new \in U!Entry /\ call[c].leader = None
    BY <1>0, UsageRecords DEF U!Call, U!Entry, U!Outcome
  <1>2. /\ cache' = [v \in Workspace |-> cache'[v]] /\ cache'[w] = new
        /\ \A v \in Workspace : v # w => cache'[v] \in {U!NoEntry, cache[v]}
    BY <1>1 DEF U!Measure
  <1>3. /\ call' = [d \in Caller |-> call'[d]] /\ call'[c] = [call[c] EXCEPT !.at = "measure"]
        /\ \A d \in Caller : d # c /\ d # cache[w].by => call'[d] = call[d]
        /\ \A d \in Caller : d # c /\ d = cache[w].by => call'[d] = [call[d] EXCEPT !.displaced = TRUE]
    BY <1>0 DEF U!Measure
  <1>4. ASSUME NEW d \in Caller, d = cache[w].by
        PROVE  call[d] \in U!Call /\ call[d].at = "measure" /\ call[d].leader = None
    <2>1. U!Measuring(cache[w])
      BY <1>4, UsageRecords, <1>0 DEF U!Measuring
    <2>2. call[d].at = "measure"
      BY <1>1, <1>4, <2>1 DEF UsageSound
    <2> QED
      BY <1>0, <2>2, UsageRecords
  <1>5. ASSUME NEW d \in Caller
        PROVE  /\ call'[d] \in U!Call \cup {U!Idle} /\ (call'[d].leader # None <=> call'[d].at = "wait")
               /\ d # c => /\ call'[d].at = call[d].at /\ call'[d].ws = call[d].ws
                           /\ call'[d].print = call[d].print
    <2>1. CASE d = c
      BY <1>1, <1>3, <2>1 DEF U!Call
    <2>2. CASE d # c /\ d = cache[w].by
      <3>1. \A q \in U!Call : LET s == [q EXCEPT !.displaced = TRUE] IN
               s \in U!Call /\ s.at = q.at /\ s.ws = q.ws /\ s.print = q.print /\ s.leader = q.leader
        BY DEF U!Call
      <3>2. call[d] \in U!Call /\ call[d].at = "measure" /\ call[d].leader = None
        BY <1>4, <2>2
      <3> QED
        BY <1>3, <2>2, <3>1, <3>2
    <2>3. CASE d # c /\ d # cache[w].by
      BY <1>0, <1>3, <2>3 DEF U!TypeOK
    <2> QED
      BY <2>1, <2>2, <2>3
  <1>6. U!TypeOK'
    <2>1. \A v \in Workspace : cache'[v] \in U!Entry \cup {U!NoEntry}
      BY <1>0, <1>1, <1>2 DEF U!TypeOK
    <2> QED
      BY <1>2, <1>3, <1>5, <2>1 DEF U!TypeOK
  <1>7. ASSUME NEW v \in Workspace, U!Measuring(cache'[v])
        PROVE  /\ call'[cache'[v].by].at = "measure" /\ call'[cache'[v].by].ws = v
               /\ call'[cache'[v].by].print = cache'[v].print
    <2>1. CASE v = w
      BY <1>1, <1>2, <1>3, <2>1 DEF U!Call
    <2>2. CASE v # w
      <3>1. cache'[v] = cache[v]
        BY <1>2, <1>7, <2>2 DEF U!Measuring, U!NoEntry
      <3>2. cache[v].by \in Caller /\ cache[v].by # c
        BY <1>0, <1>7, <3>1, UsageRecords DEF UsageSound
      <3> QED
        BY <1>5, <1>7, <3>1, <3>2 DEF UsageSound
    <2> QED
      BY <2>1, <2>2
  <1> QED
    BY <1>6, <1>7 DEF UsageSound, U!Measuring

(* What the end of a measurement does to an entry and to a call. *)
LEMMA UsageFinishMeans ==
  ASSUME PartsAssumption, UsageSound, NEW c \in Caller, NEW result \in U!Outcome,
         U!Finish(c, result)
  PROVE  /\ \A v \in Workspace : cache[v].by # c => cache'[v] = cache[v]
         /\ \A v \in Workspace : cache[v].by = c =>
              /\ cache'[v].by = None
              /\ cache'[v] = U!NoEntry \/ (cache'[v].result = result /\ result # "canceled")
         /\ call'[c] = U!Idle
         /\ \A d \in Caller : d # c /\ call[d].leader # c => call'[d] = call[d]
         /\ \A d \in Caller : d # c /\ call[d].leader = c => call'[d].at = "look"
         /\ U!TypeOK'
  <1>0. U!TypeOK /\ call[c].at = "measure" /\ c # None
    BY UsageRecords DEF UsageSound, U!Finish
  <1>1. \A v \in Workspace : cache[v].by = c => v = call[c].ws /\ cache[v] \in U!Entry
    BY <1>0, UsageRecords DEF UsageSound, U!Measuring
  <1>2. call[c].ws \in Workspace
    BY <1>0, UsageRecords DEF U!Call
  <1>3. /\ cache' = [v \in Workspace |-> cache'[v]]
        /\ \A v \in Workspace :
              IF cache[v].by # c THEN cache'[v] = cache[v]
              ELSE cache'[v] = IF result = "canceled" THEN U!NoEntry
                               ELSE [cache[v] EXCEPT !.by = None, !.result = result]
    BY <1>0, <1>1, <1>2 DEF U!Finish, U!Kept, U!TypeOK
  <1>4. /\ call' = [d \in Caller |-> call'[d]] /\ call'[c] = U!Idle
        /\ \A d \in Caller : d # c =>
              IF call[d].leader # c THEN call'[d] = call[d]
              ELSE call'[d] = [call[d] EXCEPT !.at = "look", !.leader = None]
    BY DEF U!Finish, U!Woken
  <1>5. \A d \in Caller : call[d].leader = c => call[d].at = "wait" /\ call[d] \in U!Call
    BY <1>0, UsageRecords
  <1>6. ASSUME NEW v \in Workspace PROVE cache'[v] \in U!Entry \cup {U!NoEntry}
    <2>1. \A e \in U!Entry : [e EXCEPT !.by = None, !.result = result] \in U!Entry
      BY DEF U!Entry
    <2>2. CASE cache[v].by # c
      BY <1>0, <1>3, <2>2 DEF U!TypeOK
    <2>3. CASE cache[v].by = c
      <3>1. cache'[v] = U!NoEntry \/ cache'[v] = [cache[v] EXCEPT !.by = None, !.result = result]
        BY <1>3, <2>3
      <3> QED
        BY <1>1, <2>1, <2>3, <3>1
    <2> QED
      BY <2>2, <2>3
  <1>7. ASSUME NEW d \in Caller
        PROVE  /\ call'[d] \in U!Call \cup {U!Idle} /\ (call'[d].leader # None <=> call'[d].at = "wait")
               /\ d # c /\ call[d].leader = c => call'[d].at = "look"
    <2>1. \A q \in U!Call : LET s == [q EXCEPT !.at = "look", !.leader = None] IN
             s \in U!Call /\ s.leader = None /\ s.at = "look"
      BY DEF U!Call
    <2>2. U!Idle.leader = None /\ U!Idle.at = "idle"
      BY DEF U!Idle
    <2>3. CASE d = c
      BY <1>4, <2>2, <2>3
    <2>4. CASE d # c /\ call[d].leader = c
      <3>1. call[d] \in U!Call /\ call'[d] = [call[d] EXCEPT !.at = "look", !.leader = None]
        BY <1>4, <1>5, <2>4
      <3>2. call'[d] \in U!Call /\ call'[d].leader = None /\ call'[d].at = "look"
        BY <2>1, <3>1
      <3> QED
        BY <3>2
    <2>5. CASE d # c /\ call[d].leader # c
      BY <1>0, <1>4, <2>5 DEF U!TypeOK
    <2> QED
      BY <2>3, <2>4, <2>5
  <1>8. U!TypeOK'
    BY <1>3, <1>4, <1>6, <1>7 DEF U!TypeOK
  <1> QED
    <2>1. ASSUME NEW v \in Workspace, cache[v].by = c
          PROVE  /\ cache'[v].by = None
                 /\ cache'[v] = U!NoEntry \/ (cache'[v].result = result /\ result # "canceled")
      <3>1. \A e \in U!Entry : /\ [e EXCEPT !.by = None, !.result = result].by = None
                               /\ [e EXCEPT !.by = None, !.result = result].result = result
        BY DEF U!Entry
      <3>2. CASE result = "canceled"
        BY <1>3, <2>1, <3>2 DEF U!NoEntry
      <3>3. CASE result # "canceled"
        <4>1. cache[v] \in U!Entry /\ cache'[v] = [cache[v] EXCEPT !.by = None, !.result = result]
          BY <1>1, <1>3, <2>1, <3>3
        <4> QED
          BY <3>1, <3>3, <4>1
      <3> QED
        BY <3>2, <3>3
    <2> QED
      BY <1>3, <1>4, <1>7, <1>8, <2>1

LEMMA UsageFinishSound ==
  ASSUME PartsAssumption, UsageSound, NEW c \in Caller, NEW result \in U!Outcome,
         U!Finish(c, result)
  PROVE  UsageSound'
  <1>0. U!TypeOK
    BY DEF UsageSound
  <1>9. /\ \A v \in Workspace : cache[v].by # c => cache'[v] = cache[v]
        /\ \A v \in Workspace : cache[v].by = c => cache'[v].by = None
        /\ \A d \in Caller : d # c /\ call[d].leader # c => call'[d] = call[d]
        /\ U!TypeOK'
    BY UsageFinishMeans
  <1>1. ASSUME NEW v \in Workspace, U!Measuring(cache'[v])
        PROVE  /\ call'[cache'[v].by].at = "measure" /\ call'[cache'[v].by].ws = v
               /\ call'[cache'[v].by].print = cache'[v].print
    <2>1. cache[v].by # c /\ cache'[v] = cache[v]
      BY <1>1, <1>9 DEF U!Measuring
    <2>2. cache[v].by \in Caller /\ call[cache[v].by].at = "measure"
      BY <1>0, <1>1, <2>1, UsageRecords DEF UsageSound
    <2>3. call[cache[v].by].leader # c
      BY <1>0, <2>2, UsageRecords
    <2>4. call'[cache[v].by] = call[cache[v].by]
      BY <1>9, <2>1, <2>2, <2>3
    <2> QED
      BY <1>1, <2>1, <2>2, <2>4 DEF UsageSound
  <1> QED
    BY <1>1, <1>9 DEF UsageSound, U!Measuring

LEMMA UsageTimeMeans ==
  ASSUME PartsAssumption, UsageSound, NEW w \in Workspace, U!TimePasses(w)
  PROVE  /\ cache[w] \in U!Entry /\ ~U!Measuring(cache[w]) /\ UNCHANGED call
         /\ \A v \in Workspace : v # w => cache'[v] = cache[v]
         /\ cache'[w] \in U!Entry /\ cache'[w].by = None /\ cache'[w].result = cache[w].result
         /\ U!TypeOK'
  <1>1. cache[w] \in U!Entry /\ ~U!Measuring(cache[w]) /\ cache[w].age < 2
    BY DEF UsageSound, U!TypeOK, U!TimePasses, U!Finished, U!Cached
  <1>2. LET e == [cache[w] EXCEPT !.age = cache[w].age + 1] IN
           e \in U!Entry /\ e.by = None /\ e.result = cache[w].result
    BY <1>1 DEF U!Entry, U!Measuring
  <1>3. cache' = [cache EXCEPT ![w] = [cache[w] EXCEPT !.age = cache[w].age + 1]] /\ UNCHANGED call
    BY DEF U!TimePasses, UsageSound, U!TypeOK
  <1> QED
    BY <1>1, <1>2, <1>3 DEF UsageSound, U!TypeOK

LEMMA UsageAsked ==
  ASSUME PartsAssumption, UsageSound, NEW c \in Caller, NEW w \in Workspace, NEW print \in Fingerprint,
         U!Ask(c, w, print)
  PROVE  \E q \in U!Call : /\ call' = [call EXCEPT ![c] = q] /\ q.at = "look" /\ q.leader = None
                           /\ call[c] = U!Idle /\ UNCHANGED cache
  <1> DEFINE q == [U!Idle EXCEPT !.at = "look", !.ws = w, !.print = print]
  <1>1. q \in U!Call /\ q.at = "look" /\ q.leader = None
    BY DEF U!Idle, U!Call
  <1>2. call[c] = U!Idle /\ UNCHANGED cache
    BY DEF U!Ask
  <1>3. call' = [call EXCEPT ![c] = [call[c] EXCEPT !.at = "look", !.ws = w, !.print = print]]
    <2>1. call = [d \in Caller |-> call[d]]
      BY DEF UsageSound, U!TypeOK
    <2>2. call' = [call EXCEPT ![c].at = "look", ![c].ws = w, ![c].print = print]
      BY DEF U!Ask
    <2> QED
      BY <2>1, <2>2
  <1> QED
    BY <1>1, <1>2, <1>3

LEMMA UsageWaits ==
  ASSUME PartsAssumption, UsageSound, NEW c \in Caller, U!Wait(c)
  PROVE  \E q \in U!Call :
           /\ call' = [call EXCEPT ![c] = q] /\ UNCHANGED cache /\ call[c].at = "look"
           /\ q.at = "wait" /\ q.leader \in Caller \ {c}
           /\ call[q.leader].at = "measure" /\ call[q.leader].ws = q.ws /\ call[q.leader].print = q.print
  <1>0. U!TypeOK /\ call[c].at = "look" /\ UNCHANGED cache
    BY DEF UsageSound, U!Wait
  <1>1. call[c] \in U!Call /\ call[c].ws \in Workspace
    BY <1>0, UsageRecords DEF U!Call
  <1> DEFINE d == cache[call[c].ws].by
             q == [call[c] EXCEPT !.at = "wait", !.leader = d]
  <1>2. /\ d \in Caller /\ call[d].at = "measure" /\ call[d].ws = call[c].ws
        /\ call[d].print = call[c].print
    BY <1>0, <1>1, UsageRecords DEF UsageSound, U!Wait, U!Found
  <1>3. q \in U!Call /\ q.at = "wait" /\ q.leader = d /\ q.ws = call[c].ws /\ q.print = call[c].print
    BY <1>1, <1>2 DEF U!Call
  <1>4. call' = [call EXCEPT ![c] = q]
    BY <1>0 DEF U!Wait, U!TypeOK
  <1> QED
    BY <1>0, <1>2, <1>3, <1>4

LEMMA UsageNext ==
  ASSUME PartsAssumption, UsageSound, [U!Next]_usage
  PROVE  UsageSound'
  <1>0. U!TypeOK
    BY DEF UsageSound
  <1>1. ASSUME NEW c \in Caller, NEW w \in Workspace, NEW print \in Fingerprint, U!Ask(c, w, print)
        PROVE  UsageSound'
    <2>1. call[c].at # "measure"
      BY <1>1 DEF U!Ask, U!Idle
    <2>2. PICK q \in U!Call : /\ call' = [call EXCEPT ![c] = q] /\ q.at = "look" /\ q.leader = None
                              /\ UNCHANGED cache
      BY <1>1, UsageAsked
    <2> QED
      BY <2>1, <2>2, UsageCallMoves
  <1>2. ASSUME NEW c \in Caller, U!Answer(c) \/ U!WaitCanceled(c) PROVE UsageSound'
    <2>1. call[c].at # "measure" /\ call' = [call EXCEPT ![c] = U!Idle] /\ UNCHANGED cache
      BY <1>2 DEF U!Answer, U!WaitCanceled
    <2>2. U!Idle.leader = None /\ U!Idle.at = "idle"
      BY DEF U!Idle
    <2> QED
      BY <2>1, <2>2, UsageCallMoves
  <1>3. ASSUME NEW c \in Caller, U!Wait(c) PROVE UsageSound'
    <2>1. PICK q \in U!Call : /\ call' = [call EXCEPT ![c] = q] /\ UNCHANGED cache
                              /\ call[c].at = "look" /\ q.at = "wait" /\ q.leader \in Caller
      BY <1>3, UsageWaits
    <2>2. q.leader # None
      BY <1>0, <2>1, UsageRecords
    <2> QED
      BY <2>1, <2>2, UsageCallMoves
  <1>4. ASSUME NEW w \in Workspace, U!TimePasses(w) PROVE UsageSound'
    BY <1>4, UsageTimeMeans DEF UsageSound, U!Measuring
  <1>5. CASE UNCHANGED usage
    BY <1>5 DEF usage, UsageSound, U!TypeOK, U!Measuring
  <1> QED
    BY <1>1, <1>2, <1>3, <1>4, <1>5, UsageMeasureSound, UsageFinishSound DEF U!Next

(* What the calls that meet on a workspace are owed. *)
Meets == U!MeasuredOnce /\ U!WaitersAreLed

LEMMA MeetsBegins == PartsAssumption /\ U!Init => Meets
  BY DEF U!Init, U!NoEntry, U!Idle, Meets, U!MeasuredOnce, U!WaitersAreLed

(* A call that does not measure moves alone, and waits for one that does. *)
LEMMA MeetsCallMoves ==
  ASSUME PartsAssumption, UsageSound, Meets, NEW c \in Caller, call[c].at # "measure",
         NEW q \in U!Call \cup {U!Idle}, q.at # "measure",
         call' = [call EXCEPT ![c] = q], UNCHANGED cache,
         q.at = "wait" => /\ q.leader \in Caller \ {c} /\ call[q.leader].at = "measure"
                          /\ call[q.leader].ws = q.ws /\ call[q.leader].print = q.print
  PROVE  Meets'
  <1>0. /\ call'[c] = q /\ \A d \in Caller : d # c => call'[d] = call[d]
        /\ call \in [Caller -> U!Call \cup {U!Idle}]
    BY DEF UsageSound, U!TypeOK
  <1>2. U!MeasuredOnce'
    BY <1>0 DEF Meets, U!MeasuredOnce
  <1>3. ASSUME NEW d \in Caller, call'[d].at = "wait"
        PROVE  /\ call'[d].leader # d /\ call'[call'[d].leader].at = "measure"
               /\ call'[call'[d].leader].ws = call'[d].ws
               /\ call'[call'[d].leader].print = call'[d].print
    <2>1. CASE d = c
      BY <1>0, <1>3, <2>1
    <2>2. CASE d # c
      <3>1. call[d].at = "wait" /\ call'[d] = call[d]
        BY <1>0, <1>3, <2>2
      <3>2. call[d].leader \in Caller
        <4>1. call[d].leader # None /\ call[d] \in U!Call
          BY <3>1, UsageRecords DEF UsageSound, U!TypeOK
        <4> QED
          BY <4>1 DEF U!Call
      <3>3. call[d].leader # c /\ call[d].leader # d
        BY <3>1 DEF Meets, U!WaitersAreLed
      <3> QED
        BY <1>0, <3>1, <3>2, <3>3 DEF Meets, U!WaitersAreLed
    <2> QED
      BY <2>1, <2>2
  <1> QED
    BY <1>2, <1>3 DEF Meets, U!WaitersAreLed

LEMMA MeetsMeasure ==
  ASSUME PartsAssumption, UsageSound, Meets, NEW c \in Caller, U!Measure(c)
  PROVE  Meets'
  <1> DEFINE w == call[c].ws
  <1>0. U!TypeOK /\ call[c].at = "look"
    BY DEF UsageSound, U!Measure
  <1>1. call[c] \in U!Call /\ w \in Workspace /\ call[c].leader = None
    BY <1>0, UsageRecords DEF U!Call
  <1>2. /\ cache'[w].by = c /\ cache'[w].result = "ok"
        /\ \A v \in Workspace : v # w => cache'[v] \in {U!NoEntry, cache[v]}
        /\ \A v \in Workspace : v # w /\ cache[v].by \in Caller => cache'[v] = cache[v]
    <2>1. \A victims \in U!Eviction(w) : \A v \in victims : ~U!Measuring(cache[v])
      BY DEF U!Eviction, U!Finished
    <2>2. PICK victims \in U!Eviction(w) :
             cache' = [v \in Workspace |->
                         IF v = w THEN [by |-> c, print |-> call[c].print, result |-> "ok", age |-> 0]
                         ELSE IF v \in victims THEN U!NoEntry ELSE cache[v]]
      BY DEF U!Measure
    <2>3. cache'[w].by = c /\ cache'[w].result = "ok"
      BY <1>1, <2>2
    <2>4. \A v \in Workspace : v # w => cache'[v] \in {U!NoEntry, cache[v]}
      BY <2>2
    <2>5. ASSUME NEW v \in Workspace, v # w, cache[v].by \in Caller PROVE cache'[v] = cache[v]
      <3>1. v \notin victims
        <4>1. cache[v].by # None
          BY <2>5, UsageRecords, <1>0
        <4> QED
          BY <2>1, <2>2, <4>1 DEF U!Measuring
      <3> QED
        BY <2>2, <2>5, <3>1
    <2> QED
      BY <2>3, <2>4, <2>5
  <1>3. /\ call'[c] = [call[c] EXCEPT !.at = "measure"]
        /\ \A d \in Caller : d # c /\ d # cache[w].by => call'[d] = call[d]
        /\ \A d \in Caller : d # c /\ d = cache[w].by => call'[d] = [call[d] EXCEPT !.displaced = TRUE]
    BY <1>0 DEF U!Measure
  <1>4. \A d \in Caller : d = cache[w].by => call[d].at = "measure" /\ call[d] \in U!Call
    BY <1>0, <1>1, UsageRecords DEF UsageSound, U!Measuring
  <1>5. \A d \in Caller : d # c =>
           /\ call'[d].at = call[d].at /\ call'[d].ws = call[d].ws /\ call'[d].print = call[d].print
           /\ call'[d].leader = call[d].leader
           /\ call[d].displaced \/ d = cache[w].by => call'[d].displaced
    <2>1. ASSUME NEW q \in U!Call
          PROVE  /\ [q EXCEPT !.displaced = TRUE].at = q.at /\ [q EXCEPT !.displaced = TRUE].ws = q.ws
                 /\ [q EXCEPT !.displaced = TRUE].print = q.print
                 /\ [q EXCEPT !.displaced = TRUE].leader = q.leader
                 /\ [q EXCEPT !.displaced = TRUE].displaced = TRUE
      BY DEF U!Call
    <2>2. ASSUME NEW d \in Caller, d # c, d = cache[w].by
          PROVE  /\ call'[d].at = call[d].at /\ call'[d].ws = call[d].ws /\ call'[d].print = call[d].print
                 /\ call'[d].leader = call[d].leader /\ call'[d].displaced = TRUE
      <3>1. call[d] \in U!Call /\ call'[d] = [call[d] EXCEPT !.displaced = TRUE]
        BY <1>3, <1>4, <2>2
      <3> QED
        BY <2>1, <3>1
    <2>3. ASSUME NEW d \in Caller, d # c, d # cache[w].by PROVE call'[d] = call[d]
      BY <1>3, <2>3
    <2> QED
      BY <2>2, <2>3
  <1>6. call'[c].at = "measure" /\ call'[c].ws = w
    BY <1>1, <1>3 DEF U!Call
  <1>8. ASSUME NEW d \in Caller, call'[d].at = "measure"
        PROVE  call'[d].displaced \/ cache'[call'[d].ws].by = d
    <2>1. CASE d = c
      BY <1>2, <1>6, <2>1
    <2>2. CASE d # c
      <3>1. call[d].at = "measure" /\ call[d] \in U!Call /\ call[d].ws \in Workspace
        BY <1>0, <1>5, <1>8, <2>2, UsageRecords DEF U!Call
      <3>2. call[d].displaced \/ cache[call[d].ws].by = d
        BY <3>1 DEF Meets, U!MeasuredOnce
      <3>3. CASE call[d].displaced \/ call[d].ws = w
        <4>1. call[d].displaced \/ d = cache[w].by
          BY <3>2, <3>3
        <4> QED
          BY <1>5, <2>2, <4>1
      <3>4. CASE ~call[d].displaced /\ call[d].ws # w
        <4>1. cache[call[d].ws].by = d /\ cache'[call[d].ws] = cache[call[d].ws]
          BY <1>2, <3>1, <3>2, <3>4
        <4>2. call'[d].ws = call[d].ws
          BY <1>5, <2>2
        <4> QED
          BY <4>1, <4>2
      <3> QED
        BY <3>3, <3>4
    <2> QED
      BY <2>1, <2>2
  <1>9. ASSUME NEW d \in Caller, call'[d].at = "wait"
        PROVE  /\ call'[d].leader # d /\ call'[call'[d].leader].at = "measure"
               /\ call'[call'[d].leader].ws = call'[d].ws
               /\ call'[call'[d].leader].print = call'[d].print
    <2>1. d # c /\ call[d].at = "wait"
      BY <1>5, <1>6, <1>9
    <2>2. call[d].leader \in Caller
      <3>1. call[d].leader # None /\ call[d] \in U!Call
        BY <1>0, <2>1, UsageRecords DEF U!TypeOK
      <3> QED
        BY <3>1 DEF U!Call
    <2>3. /\ call[d].leader # d /\ call[call[d].leader].at = "measure"
          /\ call[call[d].leader].ws = call[d].ws /\ call[call[d].leader].print = call[d].print
      BY <2>1 DEF Meets, U!WaitersAreLed
    <2>4. call[d].leader # c
      BY <1>0, <2>3
    <2> QED
      BY <1>5, <2>1, <2>2, <2>3, <2>4
  <1> QED
    BY <1>8, <1>9 DEF Meets, U!MeasuredOnce, U!WaitersAreLed

LEMMA MeetsFinish ==
  ASSUME PartsAssumption, UsageSound, Meets, NEW c \in Caller,
         NEW result \in U!Outcome, U!Finish(c, result)
  PROVE  Meets'
  <1>0. U!TypeOK /\ call[c].at = "measure"
    BY DEF UsageSound, U!Finish
  <1>1. \A v \in Workspace : cache[v].by # c => cache'[v] = cache[v]
    BY UsageFinishMeans
  <1>2. /\ call'[c] = U!Idle
        /\ \A d \in Caller : d # c /\ call[d].leader # c => call'[d] = call[d]
        /\ \A d \in Caller : d # c /\ call[d].leader = c => call'[d].at = "look"
    BY UsageFinishMeans
  <1>5. \A d \in Caller : call'[d].at \in {"wait", "measure"} => d # c /\ call[d].leader # c /\ call'[d] = call[d]
    <2>1. U!Idle.at = "idle"
      BY DEF U!Idle
    <2> QED
      BY <1>2, <2>1
  <1>7. ASSUME NEW d \in Caller, call'[d].at = "measure"
        PROVE  call'[d].displaced \/ cache'[call'[d].ws].by = d
    <2>1. d # c /\ call'[d] = call[d]
      BY <1>5, <1>7
    <2>2. call[d].ws \in Workspace /\ call[d].at = "measure"
      BY <1>0, <1>7, <2>1, UsageRecords DEF U!Call
    <2> QED
      BY <1>1, <2>1, <2>2 DEF Meets, U!MeasuredOnce
  <1>8. ASSUME NEW d \in Caller, call'[d].at = "wait"
        PROVE  /\ call'[d].leader # d /\ call'[call'[d].leader].at = "measure"
               /\ call'[call'[d].leader].ws = call'[d].ws
               /\ call'[call'[d].leader].print = call'[d].print
    <2>1. d # c /\ call'[d] = call[d] /\ call[d].leader # c /\ call[d].at = "wait"
      BY <1>5, <1>8
    <2>2. call[d].leader \in Caller
      <3>1. call[d].leader # None /\ call[d] \in U!Call
        BY <1>0, <2>1, UsageRecords DEF U!TypeOK
      <3> QED
        BY <3>1 DEF U!Call
    <2>3. /\ call[d].leader # d /\ call[call[d].leader].at = "measure"
          /\ call[call[d].leader].ws = call[d].ws /\ call[call[d].leader].print = call[d].print
      BY <2>1 DEF Meets, U!WaitersAreLed
    <2>4. call'[call[d].leader] = call[call[d].leader]
      <3>1. call[call[d].leader].leader = None /\ c # None
        BY <1>0, <2>2, <2>3, UsageRecords
      <3> QED
        BY <1>2, <2>1, <2>2, <3>1
    <2> QED
      BY <2>1, <2>3, <2>4
  <1> QED
    BY <1>7, <1>8 DEF Meets, U!MeasuredOnce, U!WaitersAreLed

LEMMA NextMeets ==
  ASSUME PartsAssumption, UsageSound, Meets, [U!Next]_usage
  PROVE  Meets'
  <1>1. ASSUME NEW c \in Caller, NEW w \in Workspace, NEW print \in Fingerprint, U!Ask(c, w, print)
        PROVE  Meets'
    <2>1. PICK q \in U!Call : /\ call' = [call EXCEPT ![c] = q] /\ q.at = "look"
                              /\ call[c] = U!Idle /\ UNCHANGED cache
      BY <1>1, UsageAsked
    <2>2. call[c].at # "measure"
      BY <2>1 DEF U!Idle
    <2> QED
      BY <2>1, <2>2, MeetsCallMoves
  <1>2. ASSUME NEW c \in Caller, U!Answer(c) \/ U!WaitCanceled(c) PROVE Meets'
    <2>1. call[c].at # "measure" /\ call' = [call EXCEPT ![c] = U!Idle] /\ UNCHANGED cache
      BY <1>2 DEF U!Answer, U!WaitCanceled
    <2>2. U!Idle.at = "idle"
      BY DEF U!Idle
    <2> QED
      BY <2>1, <2>2, MeetsCallMoves
  <1>3. ASSUME NEW c \in Caller, U!Wait(c) PROVE Meets'
    BY <1>3, UsageWaits, MeetsCallMoves
  <1>4. ASSUME NEW w \in Workspace, U!TimePasses(w) PROVE Meets'
    <2>1. /\ cache[w] \in U!Entry /\ ~U!Measuring(cache[w]) /\ UNCHANGED call
          /\ \A v \in Workspace : v # w => cache'[v] = cache[v]
          /\ cache'[w] \in U!Entry /\ cache'[w].by = None /\ cache'[w].result = cache[w].result
      BY <1>4, UsageTimeMeans
    <2>2. cache[w].by = None /\ cache[w] # U!NoEntry
      BY <2>1, UsageRecords DEF U!Measuring, UsageSound
    <2>4. U!MeasuredOnce'
      BY <2>1, <2>2, UsageRecords DEF Meets, U!MeasuredOnce, UsageSound, U!Call
    <2>5. U!WaitersAreLed'
      BY <2>1 DEF Meets, U!WaitersAreLed
    <2> QED
      BY <2>4, <2>5 DEF Meets
  <1>5. CASE UNCHANGED usage
    BY <1>5 DEF usage, Meets, U!MeasuredOnce, U!WaitersAreLed
  <1> QED
    BY <1>1, <1>2, <1>3, <1>4, <1>5, MeetsMeasure, MeetsFinish DEF U!Next

-----------------------------------------------------------------------------
(* The cache of storage usage: more workspaces than it has room for *)

(* An entry that is being measured names the fullCall that measures it. *)
FullSound ==
    /\ V!TypeOK
    /\ \A w \in Many : V!Measuring(fullCache[w]) =>
         /\ fullCall[fullCache[w].by].at = "measure" /\ fullCall[fullCache[w].by].ws = w
         /\ fullCall[fullCache[w].by].print = fullCache[w].print

LEMMA FullRecords ==
  ASSUME PartsAssumption, V!TypeOK
  PROVE  /\ None \notin Fewer
         /\ \A c \in Fewer : fullCall[c].at # "idle" => fullCall[c] \in V!Call
         /\ \A c \in Fewer : fullCall[c].at # "wait" => fullCall[c].leader = None
         /\ \A w \in Many : V!Measuring(fullCache[w]) => fullCache[w] \in V!Entry /\ fullCache[w].by \in Fewer
         /\ \A e \in V!Entry : e # V!NoEntry
  BY UsageConstants DEF V!TypeOK, V!Idle, V!Call, V!Entry, V!NoEntry, V!Measuring

LEMMA FullBegins ==
  ASSUME PartsAssumption, V!Init
  PROVE  FullSound
  BY UsageConstants DEF FullSound, V!Init, V!TypeOK, V!Measuring, V!NoEntry, V!Idle

(* A fullCall that does not measure moves alone. *)
LEMMA FullCallMoves ==
  ASSUME PartsAssumption, FullSound, NEW c \in Fewer, fullCall[c].at # "measure",
         NEW q \in V!Call \cup {V!Idle}, q.leader # None <=> q.at = "wait",
         fullCall' = [fullCall EXCEPT ![c] = q], UNCHANGED fullCache
  PROVE  FullSound'
  <1>1. V!TypeOK'
    BY DEF FullSound, V!TypeOK
  <1>2. ASSUME NEW w \in Many, V!Measuring(fullCache[w])
        PROVE  fullCache[w].by \in Fewer /\ fullCache[w].by # c
    BY <1>2, FullRecords DEF FullSound
  <1> QED
    BY <1>1, <1>2 DEF FullSound, V!TypeOK

LEMMA FullMeasureSound ==
  ASSUME PartsAssumption, FullSound, NEW c \in Fewer, V!Measure(c)
  PROVE  FullSound'
  <1> DEFINE w == fullCall[c].ws
             new == [by |-> c, print |-> fullCall[c].print, result |-> "ok", age |-> 0]
  <1>0. V!TypeOK /\ fullCall[c].at = "look"
    BY DEF FullSound, V!Measure
  <1>1. fullCall[c] \in V!Call /\ w \in Many /\ new \in V!Entry /\ fullCall[c].leader = None
    BY <1>0, FullRecords DEF V!Call, V!Entry, V!Outcome
  <1>2. /\ fullCache' = [v \in Many |-> fullCache'[v]] /\ fullCache'[w] = new
        /\ \A v \in Many : v # w => fullCache'[v] \in {V!NoEntry, fullCache[v]}
    BY <1>1 DEF V!Measure
  <1>3. /\ fullCall' = [d \in Fewer |-> fullCall'[d]] /\ fullCall'[c] = [fullCall[c] EXCEPT !.at = "measure"]
        /\ \A d \in Fewer : d # c /\ d # fullCache[w].by => fullCall'[d] = fullCall[d]
        /\ \A d \in Fewer : d # c /\ d = fullCache[w].by => fullCall'[d] = [fullCall[d] EXCEPT !.displaced = TRUE]
    BY <1>0 DEF V!Measure
  <1>4. ASSUME NEW d \in Fewer, d = fullCache[w].by
        PROVE  fullCall[d] \in V!Call /\ fullCall[d].at = "measure" /\ fullCall[d].leader = None
    <2>1. V!Measuring(fullCache[w])
      BY <1>4, FullRecords, <1>0 DEF V!Measuring
    <2>2. fullCall[d].at = "measure"
      BY <1>1, <1>4, <2>1 DEF FullSound
    <2> QED
      BY <1>0, <2>2, FullRecords
  <1>5. ASSUME NEW d \in Fewer
        PROVE  /\ fullCall'[d] \in V!Call \cup {V!Idle} /\ (fullCall'[d].leader # None <=> fullCall'[d].at = "wait")
               /\ d # c => /\ fullCall'[d].at = fullCall[d].at /\ fullCall'[d].ws = fullCall[d].ws
                           /\ fullCall'[d].print = fullCall[d].print
    <2>1. CASE d = c
      BY <1>1, <1>3, <2>1 DEF V!Call
    <2>2. CASE d # c /\ d = fullCache[w].by
      <3>1. \A q \in V!Call : LET s == [q EXCEPT !.displaced = TRUE] IN
               s \in V!Call /\ s.at = q.at /\ s.ws = q.ws /\ s.print = q.print /\ s.leader = q.leader
        BY DEF V!Call
      <3>2. fullCall[d] \in V!Call /\ fullCall[d].at = "measure" /\ fullCall[d].leader = None
        BY <1>4, <2>2
      <3> QED
        BY <1>3, <2>2, <3>1, <3>2
    <2>3. CASE d # c /\ d # fullCache[w].by
      BY <1>0, <1>3, <2>3 DEF V!TypeOK
    <2> QED
      BY <2>1, <2>2, <2>3
  <1>6. V!TypeOK'
    <2>1. \A v \in Many : fullCache'[v] \in V!Entry \cup {V!NoEntry}
      BY <1>0, <1>1, <1>2 DEF V!TypeOK
    <2> QED
      BY <1>2, <1>3, <1>5, <2>1 DEF V!TypeOK
  <1>7. ASSUME NEW v \in Many, V!Measuring(fullCache'[v])
        PROVE  /\ fullCall'[fullCache'[v].by].at = "measure" /\ fullCall'[fullCache'[v].by].ws = v
               /\ fullCall'[fullCache'[v].by].print = fullCache'[v].print
    <2>1. CASE v = w
      BY <1>1, <1>2, <1>3, <2>1 DEF V!Call
    <2>2. CASE v # w
      <3>1. fullCache'[v] = fullCache[v]
        BY <1>2, <1>7, <2>2 DEF V!Measuring, V!NoEntry
      <3>2. fullCache[v].by \in Fewer /\ fullCache[v].by # c
        BY <1>0, <1>7, <3>1, FullRecords DEF FullSound
      <3> QED
        BY <1>5, <1>7, <3>1, <3>2 DEF FullSound
    <2> QED
      BY <2>1, <2>2
  <1> QED
    BY <1>6, <1>7 DEF FullSound, V!Measuring

(* What the end of a measurement does to an entry and to a fullCall. *)
LEMMA FullFinishMeans ==
  ASSUME PartsAssumption, FullSound, NEW c \in Fewer, NEW result \in V!Outcome,
         V!Finish(c, result)
  PROVE  /\ \A v \in Many : fullCache[v].by # c => fullCache'[v] = fullCache[v]
         /\ \A v \in Many : fullCache[v].by = c =>
              /\ fullCache'[v].by = None
              /\ fullCache'[v] = V!NoEntry \/ (fullCache'[v].result = result /\ result # "canceled")
         /\ fullCall'[c] = V!Idle
         /\ \A d \in Fewer : d # c /\ fullCall[d].leader # c => fullCall'[d] = fullCall[d]
         /\ \A d \in Fewer : d # c /\ fullCall[d].leader = c => fullCall'[d].at = "look"
         /\ V!TypeOK'
  <1>0. V!TypeOK /\ fullCall[c].at = "measure" /\ c # None
    BY FullRecords DEF FullSound, V!Finish
  <1>1. \A v \in Many : fullCache[v].by = c => v = fullCall[c].ws /\ fullCache[v] \in V!Entry
    BY <1>0, FullRecords DEF FullSound, V!Measuring
  <1>2. fullCall[c].ws \in Many
    BY <1>0, FullRecords DEF V!Call
  <1>3. /\ fullCache' = [v \in Many |-> fullCache'[v]]
        /\ \A v \in Many :
              IF fullCache[v].by # c THEN fullCache'[v] = fullCache[v]
              ELSE fullCache'[v] = IF result = "canceled" THEN V!NoEntry
                               ELSE [fullCache[v] EXCEPT !.by = None, !.result = result]
    BY <1>0, <1>1, <1>2 DEF V!Finish, V!Kept, V!TypeOK
  <1>4. /\ fullCall' = [d \in Fewer |-> fullCall'[d]] /\ fullCall'[c] = V!Idle
        /\ \A d \in Fewer : d # c =>
              IF fullCall[d].leader # c THEN fullCall'[d] = fullCall[d]
              ELSE fullCall'[d] = [fullCall[d] EXCEPT !.at = "look", !.leader = None]
    BY DEF V!Finish, V!Woken
  <1>5. \A d \in Fewer : fullCall[d].leader = c => fullCall[d].at = "wait" /\ fullCall[d] \in V!Call
    BY <1>0, FullRecords
  <1>6. ASSUME NEW v \in Many PROVE fullCache'[v] \in V!Entry \cup {V!NoEntry}
    <2>1. \A e \in V!Entry : [e EXCEPT !.by = None, !.result = result] \in V!Entry
      BY DEF V!Entry
    <2>2. CASE fullCache[v].by # c
      BY <1>0, <1>3, <2>2 DEF V!TypeOK
    <2>3. CASE fullCache[v].by = c
      <3>1. fullCache'[v] = V!NoEntry \/ fullCache'[v] = [fullCache[v] EXCEPT !.by = None, !.result = result]
        BY <1>3, <2>3
      <3> QED
        BY <1>1, <2>1, <2>3, <3>1
    <2> QED
      BY <2>2, <2>3
  <1>7. ASSUME NEW d \in Fewer
        PROVE  /\ fullCall'[d] \in V!Call \cup {V!Idle} /\ (fullCall'[d].leader # None <=> fullCall'[d].at = "wait")
               /\ d # c /\ fullCall[d].leader = c => fullCall'[d].at = "look"
    <2>1. \A q \in V!Call : LET s == [q EXCEPT !.at = "look", !.leader = None] IN
             s \in V!Call /\ s.leader = None /\ s.at = "look"
      BY DEF V!Call
    <2>2. V!Idle.leader = None /\ V!Idle.at = "idle"
      BY DEF V!Idle
    <2>3. CASE d = c
      BY <1>4, <2>2, <2>3
    <2>4. CASE d # c /\ fullCall[d].leader = c
      <3>1. fullCall[d] \in V!Call /\ fullCall'[d] = [fullCall[d] EXCEPT !.at = "look", !.leader = None]
        BY <1>4, <1>5, <2>4
      <3>2. fullCall'[d] \in V!Call /\ fullCall'[d].leader = None /\ fullCall'[d].at = "look"
        BY <2>1, <3>1
      <3> QED
        BY <3>2
    <2>5. CASE d # c /\ fullCall[d].leader # c
      BY <1>0, <1>4, <2>5 DEF V!TypeOK
    <2> QED
      BY <2>3, <2>4, <2>5
  <1>8. V!TypeOK'
    BY <1>3, <1>4, <1>6, <1>7 DEF V!TypeOK
  <1> QED
    <2>1. ASSUME NEW v \in Many, fullCache[v].by = c
          PROVE  /\ fullCache'[v].by = None
                 /\ fullCache'[v] = V!NoEntry \/ (fullCache'[v].result = result /\ result # "canceled")
      <3>1. \A e \in V!Entry : /\ [e EXCEPT !.by = None, !.result = result].by = None
                               /\ [e EXCEPT !.by = None, !.result = result].result = result
        BY DEF V!Entry
      <3>2. CASE result = "canceled"
        BY <1>3, <2>1, <3>2 DEF V!NoEntry
      <3>3. CASE result # "canceled"
        <4>1. fullCache[v] \in V!Entry /\ fullCache'[v] = [fullCache[v] EXCEPT !.by = None, !.result = result]
          BY <1>1, <1>3, <2>1, <3>3
        <4> QED
          BY <3>1, <3>3, <4>1
      <3> QED
        BY <3>2, <3>3
    <2> QED
      BY <1>3, <1>4, <1>7, <1>8, <2>1

LEMMA FullFinishSound ==
  ASSUME PartsAssumption, FullSound, NEW c \in Fewer, NEW result \in V!Outcome,
         V!Finish(c, result)
  PROVE  FullSound'
  <1>0. V!TypeOK
    BY DEF FullSound
  <1>9. /\ \A v \in Many : fullCache[v].by # c => fullCache'[v] = fullCache[v]
        /\ \A v \in Many : fullCache[v].by = c => fullCache'[v].by = None
        /\ \A d \in Fewer : d # c /\ fullCall[d].leader # c => fullCall'[d] = fullCall[d]
        /\ V!TypeOK'
    BY FullFinishMeans
  <1>1. ASSUME NEW v \in Many, V!Measuring(fullCache'[v])
        PROVE  /\ fullCall'[fullCache'[v].by].at = "measure" /\ fullCall'[fullCache'[v].by].ws = v
               /\ fullCall'[fullCache'[v].by].print = fullCache'[v].print
    <2>1. fullCache[v].by # c /\ fullCache'[v] = fullCache[v]
      BY <1>1, <1>9 DEF V!Measuring
    <2>2. fullCache[v].by \in Fewer /\ fullCall[fullCache[v].by].at = "measure"
      BY <1>0, <1>1, <2>1, FullRecords DEF FullSound
    <2>3. fullCall[fullCache[v].by].leader # c
      BY <1>0, <2>2, FullRecords
    <2>4. fullCall'[fullCache[v].by] = fullCall[fullCache[v].by]
      BY <1>9, <2>1, <2>2, <2>3
    <2> QED
      BY <1>1, <2>1, <2>2, <2>4 DEF FullSound
  <1> QED
    BY <1>1, <1>9 DEF FullSound, V!Measuring

LEMMA FullTimeMeans ==
  ASSUME PartsAssumption, FullSound, NEW w \in Many, V!TimePasses(w)
  PROVE  /\ fullCache[w] \in V!Entry /\ ~V!Measuring(fullCache[w]) /\ UNCHANGED fullCall
         /\ \A v \in Many : v # w => fullCache'[v] = fullCache[v]
         /\ fullCache'[w] \in V!Entry /\ fullCache'[w].by = None /\ fullCache'[w].result = fullCache[w].result
         /\ V!TypeOK'
  <1>1. fullCache[w] \in V!Entry /\ ~V!Measuring(fullCache[w]) /\ fullCache[w].age < 2
    BY DEF FullSound, V!TypeOK, V!TimePasses, V!Finished, V!Cached
  <1>2. LET e == [fullCache[w] EXCEPT !.age = fullCache[w].age + 1] IN
           e \in V!Entry /\ e.by = None /\ e.result = fullCache[w].result
    BY <1>1 DEF V!Entry, V!Measuring
  <1>3. fullCache' = [fullCache EXCEPT ![w] = [fullCache[w] EXCEPT !.age = fullCache[w].age + 1]] /\ UNCHANGED fullCall
    BY DEF V!TimePasses, FullSound, V!TypeOK
  <1> QED
    BY <1>1, <1>2, <1>3 DEF FullSound, V!TypeOK

LEMMA FullAsked ==
  ASSUME PartsAssumption, FullSound, NEW c \in Fewer, NEW w \in Many, NEW print \in {"same"},
         V!Ask(c, w, print)
  PROVE  \E q \in V!Call : /\ fullCall' = [fullCall EXCEPT ![c] = q] /\ q.at = "look" /\ q.leader = None
                           /\ fullCall[c] = V!Idle /\ UNCHANGED fullCache
  <1> DEFINE q == [V!Idle EXCEPT !.at = "look", !.ws = w, !.print = print]
  <1>1. q \in V!Call /\ q.at = "look" /\ q.leader = None
    BY DEF V!Idle, V!Call
  <1>2. fullCall[c] = V!Idle /\ UNCHANGED fullCache
    BY DEF V!Ask
  <1>3. fullCall' = [fullCall EXCEPT ![c] = [fullCall[c] EXCEPT !.at = "look", !.ws = w, !.print = print]]
    <2>1. fullCall = [d \in Fewer |-> fullCall[d]]
      BY DEF FullSound, V!TypeOK
    <2>2. fullCall' = [fullCall EXCEPT ![c].at = "look", ![c].ws = w, ![c].print = print]
      BY DEF V!Ask
    <2> QED
      BY <2>1, <2>2
  <1> QED
    BY <1>1, <1>2, <1>3

LEMMA FullWaits ==
  ASSUME PartsAssumption, FullSound, NEW c \in Fewer, V!Wait(c)
  PROVE  \E q \in V!Call :
           /\ fullCall' = [fullCall EXCEPT ![c] = q] /\ UNCHANGED fullCache /\ fullCall[c].at = "look"
           /\ q.at = "wait" /\ q.leader \in Fewer \ {c}
           /\ fullCall[q.leader].at = "measure" /\ fullCall[q.leader].ws = q.ws /\ fullCall[q.leader].print = q.print
  <1>0. V!TypeOK /\ fullCall[c].at = "look" /\ UNCHANGED fullCache
    BY DEF FullSound, V!Wait
  <1>1. fullCall[c] \in V!Call /\ fullCall[c].ws \in Many
    BY <1>0, FullRecords DEF V!Call
  <1> DEFINE d == fullCache[fullCall[c].ws].by
             q == [fullCall[c] EXCEPT !.at = "wait", !.leader = d]
  <1>2. /\ d \in Fewer /\ fullCall[d].at = "measure" /\ fullCall[d].ws = fullCall[c].ws
        /\ fullCall[d].print = fullCall[c].print
    BY <1>0, <1>1, FullRecords DEF FullSound, V!Wait, V!Found
  <1>3. q \in V!Call /\ q.at = "wait" /\ q.leader = d /\ q.ws = fullCall[c].ws /\ q.print = fullCall[c].print
    BY <1>1, <1>2 DEF V!Call
  <1>4. fullCall' = [fullCall EXCEPT ![c] = q]
    BY <1>0 DEF V!Wait, V!TypeOK
  <1> QED
    BY <1>0, <1>2, <1>3, <1>4

LEMMA FullNext ==
  ASSUME PartsAssumption, FullSound, [V!Next]_full
  PROVE  FullSound'
  <1>0. V!TypeOK
    BY DEF FullSound
  <1>1. ASSUME NEW c \in Fewer, NEW w \in Many, NEW print \in {"same"}, V!Ask(c, w, print)
        PROVE  FullSound'
    <2>1. fullCall[c].at # "measure"
      BY <1>1 DEF V!Ask, V!Idle
    <2>2. PICK q \in V!Call : /\ fullCall' = [fullCall EXCEPT ![c] = q] /\ q.at = "look" /\ q.leader = None
                              /\ UNCHANGED fullCache
      BY <1>1, FullAsked
    <2> QED
      BY <2>1, <2>2, FullCallMoves
  <1>2. ASSUME NEW c \in Fewer, V!Answer(c) \/ V!WaitCanceled(c) PROVE FullSound'
    <2>1. fullCall[c].at # "measure" /\ fullCall' = [fullCall EXCEPT ![c] = V!Idle] /\ UNCHANGED fullCache
      BY <1>2 DEF V!Answer, V!WaitCanceled
    <2>2. V!Idle.leader = None /\ V!Idle.at = "idle"
      BY DEF V!Idle
    <2> QED
      BY <2>1, <2>2, FullCallMoves
  <1>3. ASSUME NEW c \in Fewer, V!Wait(c) PROVE FullSound'
    <2>1. PICK q \in V!Call : /\ fullCall' = [fullCall EXCEPT ![c] = q] /\ UNCHANGED fullCache
                              /\ fullCall[c].at = "look" /\ q.at = "wait" /\ q.leader \in Fewer
      BY <1>3, FullWaits
    <2>2. q.leader # None
      BY <1>0, <2>1, FullRecords
    <2> QED
      BY <2>1, <2>2, FullCallMoves
  <1>4. ASSUME NEW w \in Many, V!TimePasses(w) PROVE FullSound'
    BY <1>4, FullTimeMeans DEF FullSound, V!Measuring
  <1>5. CASE UNCHANGED full
    BY <1>5 DEF full, FullSound, V!TypeOK, V!Measuring
  <1> QED
    BY <1>1, <1>2, <1>3, <1>4, <1>5, FullMeasureSound, FullFinishSound DEF V!Next

LEMMA OneMore ==
  ASSUME NEW S, NEW x, IsFiniteSet(S)
  PROVE  IsFiniteSet(S \cup {x}) /\ Cardinality(S \cup {x}) <= Cardinality(S) + 1
  <1>1. Cardinality(S) \in Nat
    BY FS_CardinalityType
  <1>2. IsFiniteSet(S \cup {x})
    BY FS_AddElement
  <1>3. Cardinality(S \cup {x}) = IF x \in S THEN Cardinality(S) ELSE Cardinality(S) + 1
    BY FS_AddElement
  <1> QED
    BY <1>1, <1>2, <1>3

(* The entries of the cache are never more than its limit allows, or than  *)
(* there are calls to measure for.                                         *)
Room == FullSound /\ IsFiniteSet(V!Cached) /\ V!CacheBounded

LEMMA RoomBegins ==
  ASSUME PartsAssumption, V!Init
  PROVE  Room
  <1>1. V!Cached = {}
    BY DEF V!Init, V!Cached
  <1>2. V!CacheBounded
    BY <1>1, FS_EmptySet, SameCardinality, UsageConstants DEF V!CacheBounded
  <1> QED
    BY <1>1, <1>2, FS_EmptySet, FullBegins DEF Room

(* What adds no entry keeps the bound. *)
LEMMA RoomKept ==
  ASSUME PartsAssumption, Room, FullSound', V!Cached' \subseteq V!Cached
  PROVE  Room'
  <1>1. IsFiniteSet(V!Cached') /\ Cardinality(V!Cached') <= Cardinality(V!Cached)
    BY FS_Subset DEF Room
  <1>2. Cardinality(V!Cached) \in Nat /\ Cardinality(V!Cached') \in Nat /\ Cardinality(Fewer) \in Nat
    BY <1>1, FS_CardinalityType, UsageConstants DEF Room
  <1>3. V!CacheBounded'
    BY <1>1, <1>2, SameCardinality, UsageConstants DEF Room, V!CacheBounded
  <1> QED
    BY <1>1, <1>3 DEF Room

(* A measurement begins with an entry more only if there is room for it,   *)
(* or if every entry is being measured, each by a call of its own.         *)
LEMMA RoomMeasure ==
  ASSUME PartsAssumption, Room, NEW c \in Fewer, V!Measure(c), FullSound'
  PROVE  Room'
  <1> DEFINE w == fullCall[c].ws
  <1>0. V!TypeOK /\ fullCall[c].at = "look"
    BY DEF Room, FullSound, V!Measure
  <1>1. w \in Many
    BY <1>0, FullRecords DEF V!Call
  <1>2. PICK victims \in V!Eviction(w) :
           fullCache' = [v \in Many |->
               IF v = w THEN [by |-> c, print |-> fullCall[c].print, result |-> "ok", age |-> 0]
               ELSE IF v \in victims THEN V!NoEntry ELSE fullCache[v]]
    BY DEF V!Measure
  <1>3. /\ fullCache'[w].by = c /\ c # None
        /\ \A v \in Many : v # w => fullCache'[v] = IF v \in victims THEN V!NoEntry ELSE fullCache[v]
    BY <1>1, <1>2, UsageConstants
  <1>4. V!Cached' \subseteq (V!Cached \ victims) \cup {w}
    BY <1>3 DEF V!Cached
  <1>5. /\ IsFiniteSet(V!Cached) /\ Cardinality(V!Cached) \in Nat
        /\ IsFiniteSet(Fewer) /\ Cardinality(Fewer) \in Nat /\ MaxCache \in Nat
    BY FS_CardinalityType, UsageConstants DEF Room
  <1>6. CASE fullCache[w] # V!NoEntry
    <2>1. V!Cached' \subseteq V!Cached
      BY <1>1, <1>4, <1>6 DEF V!Cached
    <2> QED
      BY <2>1, RoomKept
  <1>7. CASE fullCache[w] = V!NoEntry /\ Cardinality(V!Cached) < MaxCache
    <2>1. IsFiniteSet(V!Cached \cup {w}) /\ Cardinality(V!Cached \cup {w}) <= Cardinality(V!Cached) + 1
      BY <1>5, OneMore
    <2>2. V!Cached' \in SUBSET (V!Cached \cup {w})
      BY <1>4
    <2>3. IsFiniteSet(V!Cached') /\ Cardinality(V!Cached') <= Cardinality(V!Cached \cup {w})
      BY <2>1, <2>2, FS_Subset
    <2>4. Cardinality(V!Cached') \in Nat /\ Cardinality(V!Cached \cup {w}) \in Nat
      BY <2>1, <2>3, FS_CardinalityType
    <2>5. Cardinality(V!Cached') <= MaxCache
      BY <1>5, <1>7, <2>1, <2>3, <2>4
    <2> QED
      BY <2>3, <2>5, SameCardinality DEF Room, V!CacheBounded
  <1>8. CASE fullCache[w] = V!NoEntry /\ Cardinality(V!Cached) >= MaxCache /\ V!Finished # {}
    <2>1. PICK victim \in V!Finished : victims = {victim}
      BY <1>2, <1>8, SameCardinality DEF V!Eviction
    <2>2. victim \in V!Cached
      BY DEF V!Finished
    <2> DEFINE left == V!Cached \ {victim}
    <2>3. IsFiniteSet(left) /\ Cardinality(left) = Cardinality(V!Cached) - 1
      BY <1>5, <2>2, FS_RemoveElement
    <2>4. IsFiniteSet(left \cup {w}) /\ Cardinality(left \cup {w}) <= Cardinality(left) + 1
      BY <2>3, OneMore
    <2>5. V!Cached' \in SUBSET (left \cup {w})
      BY <1>4, <2>1
    <2>6. IsFiniteSet(V!Cached') /\ Cardinality(V!Cached') <= Cardinality(left \cup {w})
      BY <2>4, <2>5, FS_Subset
    <2>7. Cardinality(V!Cached') \in Nat /\ Cardinality(left \cup {w}) \in Nat
      BY <2>4, <2>6, FS_CardinalityType
    <2> HIDE DEF left
    <2>8. Cardinality(V!Cached') <= Cardinality(V!Cached)
      BY <1>5, <2>3, <2>4, <2>6, <2>7
    <2>9. V!CacheBounded'
      BY <1>5, <2>7, <2>8, SameCardinality DEF Room, V!CacheBounded
    <2> QED
      BY <2>6, <2>9 DEF Room
  <1>9. CASE V!Finished = {}
    <2>1. ASSUME NEW v \in V!Cached'
          PROVE  /\ fullCache'[v].by \in Fewer /\ fullCall'[fullCache'[v].by].ws = v
      <3>1. v \in Many
        BY DEF V!Cached
      <3>2. fullCache'[v].by # None
        <4>1. CASE v = w
          BY <1>3, <4>1
        <4>2. CASE v # w
          <5>1. fullCache'[v] = fullCache[v] /\ v \in V!Cached
            BY <1>3, <3>1, <4>2 DEF V!Cached
          <5> QED
            BY <1>9, <5>1 DEF V!Finished, V!Measuring
        <4> QED
          BY <4>1, <4>2
      <3>3. fullCall'[fullCache'[v].by].ws = v
        BY <3>1, <3>2 DEF FullSound, V!Measuring
      <3>4. fullCache'[v] \in V!Entry \cup {V!NoEntry}
        BY <3>1 DEF FullSound, V!TypeOK
      <3>5. fullCache'[v].by \in Fewer
        BY <3>2, <3>4 DEF V!Entry, V!NoEntry
      <3> QED
        BY <3>3, <3>5
    <2> DEFINE measurer == [v \in V!Cached' |-> fullCache'[v].by]
    <2>2. measurer \in Injection(V!Cached', Fewer)
      <3>1. measurer \in [V!Cached' -> Fewer]
        BY <2>1
      <3>2. ASSUME NEW v \in V!Cached', NEW u \in V!Cached', measurer[v] = measurer[u] PROVE v = u
        BY <2>1, <3>2
      <3> HIDE DEF measurer
      <3> QED
        BY <3>1, <3>2 DEF Injection, IsInjective
    <2> HIDE DEF measurer
    <2>3. IsFiniteSet(V!Cached') /\ Cardinality(V!Cached') <= Cardinality(Fewer)
      BY <1>5, <2>2, FS_Injection
    <2> QED
      BY <2>3, SameCardinality DEF Room, V!CacheBounded
  <1>10. \/ fullCache[w] # V!NoEntry \/ V!Finished = {}
         \/ fullCache[w] = V!NoEntry /\ Cardinality(V!Cached) < MaxCache
         \/ fullCache[w] = V!NoEntry /\ Cardinality(V!Cached) >= MaxCache /\ V!Finished # {}
    BY <1>5
  <1> QED
    BY <1>6, <1>7, <1>8, <1>9, <1>10

LEMMA NextRoom ==
  ASSUME PartsAssumption, Room, [V!Next]_full
  PROVE  Room'
  <1>0. FullSound /\ FullSound'
    BY FullNext DEF Room
  <1>1. ASSUME NEW c \in Fewer, NEW w \in Many, NEW print \in {"same"}, V!Ask(c, w, print)
        PROVE  Room'
    <2>1. V!Cached' \subseteq V!Cached
      BY <1>1 DEF V!Ask, V!Cached
    <2> QED
      BY <1>0, <2>1, RoomKept
  <1>2. ASSUME NEW c \in Fewer, V!Answer(c) \/ V!WaitCanceled(c) \/ V!Wait(c) PROVE Room'
    <2>1. V!Cached' \subseteq V!Cached
      BY <1>2 DEF V!Answer, V!WaitCanceled, V!Wait, V!Cached
    <2> QED
      BY <1>0, <2>1, RoomKept
  <1>3. ASSUME NEW c \in Fewer, V!Measure(c) PROVE Room'
    BY <1>0, <1>3, RoomMeasure
  <1>4. ASSUME NEW c \in Fewer, NEW result \in V!Outcome, V!Finish(c, result)
        PROVE  Room'
    <2>1. /\ \A v \in Many : fullCache[v].by # c => fullCache'[v] = fullCache[v]
          /\ \A v \in Many : fullCache[v].by = c => fullCache[v] # V!NoEntry
      <3>1. c # None /\ V!NoEntry.by = None
        BY UsageConstants DEF V!NoEntry
      <3> QED
        BY <1>0, <1>4, <3>1, FullFinishMeans
    <2>2. V!Cached' \subseteq V!Cached
      BY <2>1 DEF V!Cached
    <2> QED
      BY <1>0, <2>2, RoomKept
  <1>5. ASSUME NEW w \in Many, V!TimePasses(w) PROVE Room'
    <2>1. w \in V!Cached /\ \A v \in Many : v # w => fullCache'[v] = fullCache[v]
      BY <1>0, <1>5, FullTimeMeans DEF V!TimePasses, V!Finished
    <2>2. V!Cached' \subseteq V!Cached
      BY <2>1 DEF V!Cached
    <2> QED
      BY <1>0, <2>2, RoomKept
  <1>6. CASE UNCHANGED full
    <2>1. V!Cached' \subseteq V!Cached
      BY <1>6 DEF full, V!Cached
    <2> QED
      BY <1>0, <2>1, RoomKept
  <1> QED
    BY <1>1, <1>2, <1>3, <1>4, <1>5, <1>6 DEF V!Next

-----------------------------------------------------------------------------
(* The table of failed logins *)

(* The requests of a source that verify a password. *)
InFlight(s) == {l \in Login : login[l] = s}

Limited ==
    /\ L!TypeOK
    /\ \A s \in Source : entries[s].failures + Cardinality(InFlight(s)) < MaxFailures + Cardinality(Login)
    /\ Cardinality(L!Tracked) <= MaxTracked

LEMMA LimiterConstants ==
  ASSUME PartsAssumption
  PROVE  /\ IsFiniteSet(Login) /\ IsFiniteSet(Source) /\ Cardinality(Login) \in Nat
         /\ None \notin Source /\ {MaxFailures, Window, MaxTracked} \subseteq Nat \ {0}
  BY SameCardinality, FS_CardinalityType DEF PartsAssumption, L!LimiterAssumption

(* A source loses failures with its window, and gains none by it. *)
LEMMA CurrentMeans ==
  ASSUME PartsAssumption, L!TypeOK, NEW s \in Source
  PROVE  /\ L!NoEntry \in [failures : Nat, age : 0..Window]
         /\ L!Current(s) \in [failures : Nat, age : 0..Window]
         /\ L!Current(s).failures <= entries[s].failures
         /\ L!Current(s) # L!NoEntry => s \in L!Tracked
  BY LimiterConstants DEF L!TypeOK, L!Current, L!NoEntry, L!Tracked

LEMMA LimiterTyped ==
  ASSUME PartsAssumption, L!TypeOK, [L!Next]_limiter
  PROVE  L!TypeOK'
  <1>1. ASSUME NEW l \in Login, NEW s \in Source, L!Allow(l, s) PROVE L!TypeOK'
    BY <1>1, CurrentMeans DEF L!Allow, L!TypeOK
  <1>2. ASSUME NEW l \in Login, L!Failure(l) PROVE L!TypeOK'
    <2> DEFINE s == login[l]
    <2>1. s \in Source
      BY <1>2 DEF L!Failure, L!TypeOK
    <2>2. [L!Current(s) EXCEPT !.failures = @ + 1] \in [failures : Nat, age : 0..Window]
      BY <2>1, CurrentMeans
    <2>3. PICK gone \in L!Removed(s) :
            entries' = [t \in Source |->
                          IF t = s THEN [L!Current(s) EXCEPT !.failures = @ + 1]
                          ELSE IF t \in gone THEN L!NoEntry ELSE entries[t]]
      BY <1>2 DEF L!Failure
    <2>4. entries' \in [Source -> [failures : Nat, age : 0..Window]]
      BY <2>1, <2>2, <2>3, CurrentMeans DEF L!TypeOK
    <2> QED
      BY <1>2, <2>4 DEF L!Failure, L!TypeOK
  <1>3. ASSUME NEW l \in Login, L!Success(l) PROVE L!TypeOK'
    BY <1>3, CurrentMeans DEF L!Success, L!TypeOK
  <1>4. CASE L!Tick
    <2>1. \A s \in Source : entries[s].age < Window =>
             [entries[s] EXCEPT !.age = @ + 1] \in [failures : Nat, age : 0..Window]
      BY LimiterConstants DEF L!TypeOK
    <2> QED
      BY <1>4, <2>1 DEF L!Tick, L!TypeOK
  <1>5. CASE UNCHANGED limiter
    BY <1>5 DEF limiter, L!TypeOK
  <1> QED
    BY <1>1, <1>2, <1>3, <1>4, <1>5 DEF L!Next

LEMMA Flying ==
  ASSUME PartsAssumption, L!TypeOK, NEW s \in Source
  PROVE  IsFiniteSet(InFlight(s)) /\ Cardinality(InFlight(s)) \in Nat
         /\ Cardinality(InFlight(s)) <= Cardinality(Login)
  BY LimiterConstants, FS_Subset, FS_CardinalityType DEF InFlight

(* Neither failures nor requests in flight become more. *)
LEMMA NoMore ==
  ASSUME PartsAssumption, Limited, L!TypeOK', NEW s \in Source,
         entries'[s].failures <= entries[s].failures, InFlight(s)' \subseteq InFlight(s)
  PROVE  (entries[s].failures + Cardinality(InFlight(s)) < MaxFailures + Cardinality(Login))'
  <1>1. Cardinality(InFlight(s)') <= Cardinality(InFlight(s)) /\ Cardinality(InFlight(s)') \in Nat
    BY Flying, FS_Subset, FS_CardinalityType DEF Limited
  <1>2. entries[s].failures \in Nat /\ entries'[s].failures \in Nat
    BY DEF L!TypeOK, Limited
  <1>3. entries[s].failures + Cardinality(InFlight(s)) < MaxFailures + Cardinality(Login)
    BY DEF Limited
  <1> QED
    BY <1>1, <1>2, <1>3, Flying, LimiterConstants DEF Limited

LEMMA FailuresLimited ==
  ASSUME PartsAssumption, Limited, L!TypeOK', [L!Next]_limiter, NEW s \in Source
  PROVE  (entries[s].failures + Cardinality(InFlight(s)) < MaxFailures + Cardinality(Login))'
  <1> L!TypeOK
    BY DEF Limited
  <1>1. ASSUME NEW l \in Login, NEW t \in Source, L!Allow(l, t)
        PROVE  (entries[s].failures + Cardinality(InFlight(s)) < MaxFailures + Cardinality(Login))'
    <2>1. entries'[s].failures <= entries[s].failures
      BY <1>1, CurrentMeans DEF L!Allow, L!TypeOK
    <2>2. CASE s = t /\ L!Current(t).failures < MaxFailures
      <3>1. entries'[s].failures < MaxFailures /\ entries'[s].failures \in Nat
        BY <1>1, <2>2, CurrentMeans DEF L!Allow, L!TypeOK
      <3>2. Cardinality(InFlight(s)') <= Cardinality(Login) /\ Cardinality(InFlight(s)') \in Nat
        BY LimiterConstants, FS_Subset, FS_CardinalityType DEF InFlight
      <3> QED
        BY <3>1, <3>2, LimiterConstants
    <2>3. CASE ~(s = t /\ L!Current(t).failures < MaxFailures)
      <3>1. InFlight(s)' \subseteq InFlight(s)
        BY <1>1, <2>3, LimiterConstants DEF L!Allow, InFlight, L!TypeOK
      <3> QED
        BY <2>1, <3>1, NoMore
    <2> QED
      BY <2>2, <2>3
  <1>2. ASSUME NEW l \in Login, L!Failure(l)
        PROVE  (entries[s].failures + Cardinality(InFlight(s)) < MaxFailures + Cardinality(Login))'
    <2>1. login[l] \in Source /\ login' = [login EXCEPT ![l] = None]
      BY <1>2 DEF L!Failure, L!TypeOK
    <2>2. InFlight(s)' = InFlight(s) \ {l}
      BY <2>1, LimiterConstants DEF InFlight, L!TypeOK
    <2>3. CASE s # login[l]
      <3>1. entries'[s].failures <= entries[s].failures
        BY <1>2, <2>3 DEF L!Failure, L!TypeOK, L!NoEntry
      <3> QED
        BY <2>2, <3>1, NoMore
    <2>4. CASE s = login[l]
      <3>1. entries'[s].failures = L!Current(s).failures + 1
        BY <1>2, <2>1, <2>4, CurrentMeans DEF L!Failure
      <3>2. Cardinality(InFlight(s)') = Cardinality(InFlight(s)) - 1
        BY <2>2, <2>4, Flying, FS_RemoveElement DEF InFlight
      <3>3. entries[s].failures + Cardinality(InFlight(s)) < MaxFailures + Cardinality(Login)
        BY DEF Limited
      <3>4. /\ L!Current(s).failures \in Nat /\ entries[s].failures \in Nat
            /\ L!Current(s).failures <= entries[s].failures
        BY CurrentMeans DEF L!TypeOK
      <3> QED
        BY <3>1, <3>2, <3>3, <3>4, Flying, LimiterConstants
    <2> QED
      BY <2>3, <2>4
  <1>3. ASSUME NEW l \in Login, L!Success(l)
        PROVE  (entries[s].failures + Cardinality(InFlight(s)) < MaxFailures + Cardinality(Login))'
    <2>1. InFlight(s)' \subseteq InFlight(s)
      BY <1>3, LimiterConstants DEF L!Success, InFlight, L!TypeOK
    <2>2. entries'[s].failures <= entries[s].failures
      BY <1>3 DEF L!Success, L!TypeOK, L!NoEntry
    <2> QED
      BY <2>1, <2>2, NoMore
  <1>4. CASE L!Tick \/ UNCHANGED limiter
    <2>1. InFlight(s)' \subseteq InFlight(s)
      BY <1>4 DEF L!Tick, limiter, InFlight
    <2>2. entries'[s].failures <= entries[s].failures
      BY <1>4 DEF L!Tick, limiter, L!TypeOK
    <2> QED
      BY <2>1, <2>2, NoMore
  <1> QED
    BY <1>1, <1>2, <1>3, <1>4 DEF L!Next

LEMMA TableLimited ==
  ASSUME PartsAssumption, Limited, [L!Next]_limiter
  PROVE  (Cardinality(L!Tracked) <= MaxTracked)'
  <1> L!TypeOK /\ Cardinality(L!Tracked) <= MaxTracked
    BY DEF Limited
  <1>0. \A S \in SUBSET Source : IsFiniteSet(S) /\ Cardinality(S) \in Nat
    BY LimiterConstants, FS_Subset, FS_CardinalityType
  <1>1. L!Tracked \in SUBSET Source /\ L!Tracked' \in SUBSET Source
    BY DEF L!Tracked
  <1>2. ASSUME L!Tracked' \subseteq L!Tracked PROVE (Cardinality(L!Tracked) <= MaxTracked)'
    BY <1>0, <1>1, <1>2, FS_Subset, LimiterConstants
  <1>3. ASSUME NEW l \in Login, L!Failure(l) PROVE (Cardinality(L!Tracked) <= MaxTracked)'
    <2> DEFINE s == login[l]
               OtherSources == L!Tracked \ {s}
    <2>1. s \in Source
      BY <1>3 DEF L!Failure, L!TypeOK
    <2>2. PICK gone \in L!Removed(s) : L!Tracked' \subseteq (OtherSources \ gone) \cup {s}
      BY <1>3 DEF L!Failure, L!Tracked
    <2>3. CASE L!Current(s) # L!NoEntry
      <3>1. L!Tracked' \subseteq L!Tracked
        BY <2>1, <2>2, <2>3, CurrentMeans
      <3> QED
        BY <1>2, <3>1
    <2>4. CASE L!Current(s) = L!NoEntry
      <3>1. OtherSources \in SUBSET Source /\ Cardinality(OtherSources) <= Cardinality(L!Tracked)
        BY <1>0, <1>1, FS_Subset
      <3>2. ASSUME NEW S \in SUBSET Source, Cardinality(S) < MaxTracked, L!Tracked' \subseteq S \cup {s}
            PROVE  Cardinality(L!Tracked') <= MaxTracked
        <4>1. Cardinality(S \cup {s}) <= Cardinality(S) + 1 /\ S \cup {s} \in SUBSET Source
          <5>1. IsFiniteSet(S) /\ Cardinality(S) \in Nat
            BY <1>0
          <5>2. Cardinality(S \cup {s}) = IF s \in S THEN Cardinality(S) ELSE Cardinality(S) + 1
            BY <5>1, FS_AddElement
          <5> QED
            BY <2>1, <5>1, <5>2
        <4>2. Cardinality(L!Tracked') <= Cardinality(S \cup {s})
          BY <1>0, <3>2, <4>1, FS_Subset
        <4> QED
          BY <1>0, <1>1, <3>2, <4>1, <4>2, LimiterConstants
      <3>3. CASE Cardinality(OtherSources) < MaxTracked
        BY <2>2, <3>1, <3>2, <3>3
      <3>4. CASE Cardinality(OtherSources) >= MaxTracked
        <4>1. PICK old \in OtherSources : gone = {old}
          BY <2>2, <2>4, <3>4, SameCardinality DEF L!Removed
        <4>2. Cardinality(OtherSources \ {old}) = Cardinality(OtherSources) - 1 /\ OtherSources \ {old} \in SUBSET Source
          BY <1>0, <3>1, <4>1, FS_RemoveElement
        <4>3. Cardinality(OtherSources \ {old}) < MaxTracked
          BY <1>0, <1>1, <3>1, <4>2, LimiterConstants
        <4> QED
          BY <2>2, <3>2, <4>1, <4>2, <4>3
      <3> QED
        BY <1>0, <3>1, <3>3, <3>4, LimiterConstants
    <2> QED
      BY <2>3, <2>4
  <1>4. CASE L!Tick \/ UNCHANGED limiter
        \/ \E l \in Login : L!Success(l) \/ \E s \in Source : L!Allow(l, s)
    <2>1. L!Tracked' \subseteq L!Tracked
      <3>1. CASE L!Tick \/ UNCHANGED limiter
        BY <3>1 DEF L!Tick, limiter, L!Tracked
      <3>2. ASSUME NEW l \in Login, L!Success(l) PROVE L!Tracked' \subseteq L!Tracked
        BY <3>2 DEF L!Success, L!Tracked, L!TypeOK
      <3>3. ASSUME NEW l \in Login, NEW s \in Source, L!Allow(l, s) PROVE L!Tracked' \subseteq L!Tracked
        BY <3>3, CurrentMeans DEF L!Allow, L!Tracked, L!TypeOK
      <3> QED
        BY <1>4, <3>1, <3>2, <3>3
    <2> QED
      BY <1>2, <2>1
  <1> QED
    BY <1>3, <1>4 DEF L!Next

LEMMA LimiterBegins ==
  ASSUME PartsAssumption, L!Init
  PROVE  Limited
  <1>1. L!TypeOK
    BY LimiterConstants DEF L!Init, L!TypeOK, L!NoEntry
  <1>2. L!Tracked = {}
    BY DEF L!Init, L!Tracked
  <1>3. \A s \in Source : InFlight(s) = {} /\ entries[s].failures = 0
    BY LimiterConstants DEF L!Init, L!NoEntry, InFlight
  <1> QED
    BY <1>1, <1>2, <1>3, FS_EmptySet, LimiterConstants DEF Limited

LEMMA NextLimited ==
  ASSUME PartsAssumption, Limited, [L!Next]_limiter
  PROVE  Limited'
  <1>1. L!TypeOK'
    BY LimiterTyped DEF Limited
  <1>2. \A s \in Source : (entries[s].failures + Cardinality(InFlight(s)) < MaxFailures + Cardinality(Login))'
    BY <1>1, FailuresLimited
  <1>3. (Cardinality(L!Tracked) <= MaxTracked)'
    BY TableLimited
  <1> QED
    BY <1>1, <1>2, <1>3 DEF Limited

-----------------------------------------------------------------------------
(* The file manager *)

(* What a request of the file manager has with it: an operation that suits *)
(* where it is, and a temporary file only while it uploads, which is whole *)
(* or cut short once it is put in place.                                   *)
FileOp == {"upload", "mkdir", "delete", "rename"}
FileRequest ==
    [at : {"check", "make", "remove", "move", "create", "copy", "place", "clear", "exit"},
     op : FileOp, from : Name, name : Name, local : BOOLEAN, raced : BOOLEAN]

Handled(q, t) ==
    /\ q \in FileRequest \cup {F!Idle} /\ t \in {"none", "part", "cut", "whole"}
    /\ t # "none" => q.at \in {"copy", "place", "clear"}
    /\ q.at = "place" => t \in {"cut", "whole"}
    /\ q.at = "make" => q.op = "mkdir"
    /\ q.at = "remove" => q.op = "delete"
    /\ q.at = "move" => q.op = "rename"
    /\ q.at \in {"create", "copy", "place", "clear"} => q.op = "upload"

(* What it has found free is free until somebody else writes there. *)
Looked(q, shown) ==
    q.at \in {"move", "create", "copy", "place"} /\ ~q.raced /\ ~(q.op = "upload" /\ q.local)
    => shown[q.name] = "none"

Filing ==
    /\ entry \in [Name -> F!Shown \ {"part"}]
    /\ request \in [Request -> FileRequest \cup {F!Idle}]
    /\ temporary \in [Request -> {"none", "part", "cut", "whole"}]
    /\ lock \in Request \cup {None} /\ crashes \in 0..MaxCrash
    /\ \A r \in Request : Handled(request[r], temporary[r]) /\ Looked(request[r], entry)

LEMMA FilingBegins ==
  ASSUME PartsAssumption, F!Init
  PROVE  Filing
  BY DEF PartsAssumption, F!TransferAssumption, F!Init, Filing, Handled, Looked, F!Idle, F!Shown

LEMMA FilingMeans ==
  ASSUME Filing
  PROVE  F!TypeOK /\ F!NoPartShown
  <1>1. \A r \in Request : \/ request[r] = F!Idle
                           \/ /\ request[r] \in FileRequest
                              /\ request[r].at \notin {"copy", "place", "clear"} => temporary[r] = "none"
    BY DEF Filing, Handled
  <1>2. \A q \in FileRequest :
           /\ q.at \in {"check", "make", "remove", "move", "create", "copy", "place", "clear", "exit"}
           /\ q.name \in Name
    BY DEF FileRequest
  <1> QED
    BY <1>1, <1>2 DEF Filing, F!TypeOK, F!NoPartShown, F!Shown

(* A request moves and writes nothing that a name shows. *)
LEMMA FileMoves ==
  ASSUME Filing, NEW r \in Request, NEW q \in FileRequest \cup {F!Idle},
         NEW t \in {"none", "part", "cut", "whole"}, Handled(q, t), Looked(q, entry),
         request' = [request EXCEPT ![r] = q], temporary' = [temporary EXCEPT ![r] = t],
         lock' \in Request \cup {None}, UNCHANGED <<entry, crashes>>
  PROVE  Filing'
  BY DEF Filing

LEMMA RacedRequest ==
  ASSUME NEW q \in FileRequest
  PROVE  /\ [q EXCEPT !.raced = TRUE] \in FileRequest /\ [q EXCEPT !.raced = TRUE].at = q.at
         /\ [q EXCEPT !.raced = TRUE].op = q.op /\ [q EXCEPT !.raced = TRUE].raced
  BY DEF FileRequest

(* What a request writes is known to the others that have looked at it. *)
LEMMA FileEffect ==
  ASSUME Filing, NEW r \in Request, request[r] \in FileRequest, NEW shows, DOMAIN shows \subseteq Name,
         F!Effect(r, shows, "exit"),
         \A n \in DOMAIN shows : shows[n] \in F!Shown \ {"part"},
         \A n \in DOMAIN shows : n # request[r].name => shows[n] = "none",
         temporary' = [temporary EXCEPT ![r] = "none"], UNCHANGED <<lock, crashes>>
  PROVE  Filing'
  <1> DEFINE n == request[r].name
  <1>1. /\ entry' \in [Name -> F!Shown \ {"part"}]
        /\ \A m \in Name : m # n => entry'[m] \in {entry[m], "none"}
    BY DEF Filing, F!Effect
  <1>2. /\ request' = [q \in Request |-> request'[q]]
        /\ request'[r] = [request[r] EXCEPT !.at = "exit"]
        /\ \A q \in Request : q # r =>
              request'[q] = IF request[q] # F!Idle /\ request[q].name = n
                            THEN [request[q] EXCEPT !.raced = TRUE] ELSE request[q]
    BY DEF F!Effect, F!Raced
  <1>3. ASSUME NEW q \in Request
        PROVE  /\ request'[q] \in FileRequest \cup {F!Idle}
               /\ Handled(request'[q], temporary'[q]) /\ Looked(request'[q], entry')
    <2>1. CASE q = r
      <3>1. request'[q] \in FileRequest /\ request'[q].at = "exit" /\ temporary'[q] = "none"
        BY <1>2, <2>1 DEF FileRequest, Filing
      <3> QED
        BY <3>1 DEF Handled, Looked
    <2>2. q # r => temporary'[q] = temporary[q] /\ Handled(request[q], temporary[q])
      BY DEF Filing
    <2>3. CASE q # r /\ request[q] # F!Idle /\ request[q].name = n
      <3>1. request[q] \in FileRequest
        BY <2>3 DEF Filing
      <3>2. /\ request'[q] \in FileRequest /\ request'[q].at = request[q].at
            /\ request'[q].op = request[q].op /\ request'[q].raced
        BY <1>2, <2>3, <3>1, RacedRequest
      <3> QED
        BY <2>2, <2>3, <3>2 DEF Handled, Looked
    <2>4. CASE q # r /\ (request[q] = F!Idle \/ request[q].name # n)
      <3>1. request'[q] = request[q] /\ Looked(request[q], entry) /\ request[q] \in FileRequest \cup {F!Idle}
        BY <1>2, <2>4 DEF Filing
      <3>2. CASE request[q] = F!Idle
        BY <2>2, <2>4, <3>1, <3>2 DEF Looked, F!Idle
      <3>3. CASE request[q] # F!Idle
        <4>1. request[q].name \in Name /\ request[q].name # n
          BY <2>4, <3>1, <3>3 DEF FileRequest
        <4> QED
          BY <1>1, <2>2, <2>4, <3>1, <4>1 DEF Looked
      <3> QED
        BY <3>2, <3>3
    <2> QED
      BY <2>1, <2>3, <2>4
  <1> QED
    BY <1>1, <1>2, <1>3 DEF Filing

LEMMA FileStep ==
  ASSUME Filing, NEW r \in Request, F!Step(r)
  PROVE  Filing'
  <1>0. /\ request[r] \in FileRequest \cup {F!Idle} /\ Handled(request[r], temporary[r])
        /\ Looked(request[r], entry) /\ lock \in Request \cup {None}
        /\ temporary[r] \in {"none", "part", "cut", "whole"}
    BY DEF Filing
  <1>1. request[r] \in FileRequest
    <2>1. request[r].at # "idle"
      BY DEF F!Step, F!Check, F!Make, F!Remove, F!Move, F!Create, F!Copy, F!Place, F!Clear, F!At
    <2> QED
      BY <1>0, <2>1 DEF F!Idle
  <1>2. temporary = [temporary EXCEPT ![r] = temporary[r]]
    BY DEF Filing
  (* A step that writes nothing. *)
  <1>3. ASSUME NEW at \in {"copy", "place", "clear", "exit"}, NEW t \in {"none", "part", "cut", "whole"},
               F!Goes(r, at), temporary' = [temporary EXCEPT ![r] = t], UNCHANGED <<entry, lock, crashes>>,
               at = "exit" => t = "none",
               at # "exit" => request[r].op = "upload"
                              /\ (at = "clear" \/ request[r].at \in {"create", "copy"}),
               at = "place" => t \in {"cut", "whole"}
        PROVE  Filing'
    <2> DEFINE q == [request[r] EXCEPT !.at = at]
    <2>1. /\ q \in FileRequest /\ q.at = at /\ q.op = request[r].op /\ q.name = request[r].name
          /\ q.local = request[r].local /\ q.raced = request[r].raced
      BY <1>1 DEF FileRequest
    <2>2. request' = [request EXCEPT ![r] = q]
      BY <1>3 DEF F!Goes, Filing
    <2> HIDE DEF q
    <2>3. Handled(q, t) /\ Looked(q, entry)
      BY <1>0, <1>3, <2>1 DEF Handled, Looked
    <2> QED
      BY <1>0, <1>3, <2>1, <2>2, <2>3, FileMoves
  <1>4. CASE F!Check(r)
    <2>1. temporary[r] = "none" /\ request[r].at = "check"
      BY <1>0, <1>4 DEF F!Check, F!At, Handled
    <2>2. CASE F!Goes(r, "exit")
      BY <1>2, <1>3, <1>4, <2>1, <2>2 DEF F!Check
    <2>3. CASE F!Accepts(r) /\ request' = [request EXCEPT ![r].at = F!First(request[r].op), ![r].raced = FALSE]
      <3> DEFINE q == [request[r] EXCEPT !.at = F!First(request[r].op), !.raced = FALSE]
      <3>1. F!First(request[r].op) \in {"create", "make", "remove", "move"}
        BY <1>1 DEF FileRequest, FileOp, F!First
      <3>2. /\ q \in FileRequest /\ q.at = F!First(request[r].op) /\ q.op = request[r].op
            /\ q.name = request[r].name /\ q.local = request[r].local
        BY <1>1, <3>1 DEF FileRequest
      <3>3. request' = [request EXCEPT ![r] = q]
        BY <2>3 DEF Filing
      <3> HIDE DEF q
      <3>4. /\ q.op \in FileOp
            /\ q.at = "make" => q.op = "mkdir"
            /\ q.at = "remove" => q.op = "delete"
            /\ q.at = "move" => q.op = "rename"
            /\ q.at \in {"create", "copy", "place", "clear"} => q.op = "upload"
        BY <1>1, <3>2 DEF F!First, FileOp, FileRequest
      <3>5. Looked(q, entry)
        BY <2>3, <3>1, <3>2, <3>4 DEF Looked, F!Accepts
      <3>6. Handled(q, "none")
        BY <3>1, <3>2, <3>4 DEF Handled
      <3>7. lock' \in Request \cup {None} /\ UNCHANGED <<entry, crashes, temporary>>
        BY <1>0, <1>4 DEF F!Check
      <3> QED
        BY <1>2, <2>1, <3>2, <3>3, <3>5, <3>6, <3>7, FileMoves
    <2> QED
      BY <1>4, <2>2, <2>3 DEF F!Check
  <1>5. CASE F!Make(r) \/ F!Remove(r) \/ F!Move(r)
    <2>1. temporary[r] = "none"
      BY <1>0, <1>5 DEF F!Make, F!Remove, F!Move, F!At, Handled
    <2>2. CASE F!Goes(r, "exit") /\ UNCHANGED entry
      BY <1>2, <1>3, <1>5, <2>1, <2>2 DEF F!Make, F!Remove, F!Move
    <2>3. request[r].name \in Name /\ request[r].from \in Name
      BY <1>1 DEF FileRequest
    <2>4. ASSUME NEW shown \in {"dir", "none"},
                 F!Effect(r, [n \in {request[r].name} |-> shown], "exit")
          PROVE  Filing'
      <3> DEFINE shows == [n \in {request[r].name} |-> shown]
      <3>1. /\ DOMAIN shows = {request[r].name}
            /\ \A n \in DOMAIN shows : shows[n] \in F!Shown \ {"part"}
        BY DEF F!Shown
      <3>2. F!Effect(r, shows, "exit") /\ UNCHANGED <<temporary, lock, crashes>>
        BY <1>5, <2>4 DEF F!Make, F!Remove, F!Move
      <3> HIDE DEF shows
      <3> QED
        BY <1>1, <1>2, <2>1, <2>3, <3>1, <3>2, FileEffect
    <2>5. ASSUME F!Move(r),
                 F!Effect(r, [n \in {request[r].from, request[r].name} |->
                               IF n = request[r].name THEN entry[request[r].from] ELSE "none"], "exit")
          PROVE  Filing'
      <3> DEFINE shows == [n \in {request[r].from, request[r].name} |->
                               IF n = request[r].name THEN entry[request[r].from] ELSE "none"]
      <3>1. /\ DOMAIN shows = {request[r].from, request[r].name}
            /\ \A n \in DOMAIN shows : shows[n] \in F!Shown \ {"part"}
            /\ \A n \in DOMAIN shows : n # request[r].name => shows[n] = "none"
        BY <2>3 DEF F!Shown, Filing
      <3>2. F!Effect(r, shows, "exit") /\ UNCHANGED <<temporary, lock, crashes>>
        BY <2>5 DEF F!Move
      <3> HIDE DEF shows
      <3> QED
        BY <1>1, <1>2, <2>1, <2>3, <3>1, <3>2, FileEffect
    <2> QED
      BY <1>5, <2>2, <2>4, <2>5 DEF F!Make, F!Remove, F!Move
  <1>6. CASE F!Create(r)
    <2>1. temporary[r] = "none" /\ request[r].at = "create" /\ request[r].op = "upload"
      BY <1>0, <1>6 DEF F!Create, F!At, Handled
    <2> QED
      BY <1>2, <1>3, <1>6, <2>1 DEF F!Create
  <1>7. CASE F!Copy(r)
    <2>1. request[r].at = "copy" /\ request[r].op = "upload"
      BY <1>0, <1>7 DEF F!Copy, F!At, Handled
    <2> QED
      BY <1>0, <1>2, <1>3, <1>7, <2>1 DEF F!Copy
  <1>8. CASE F!Place(r)
    <2>1. request[r].at = "place" /\ request[r].op = "upload" /\ temporary[r] \in {"cut", "whole"}
      BY <1>0, <1>8 DEF F!Place, F!At, Handled
    <2>2. CASE F!Goes(r, "clear") /\ UNCHANGED <<entry, temporary>>
      BY <1>0, <1>2, <1>3, <1>8, <2>1, <2>2 DEF F!Place
    <2>3. CASE /\ F!Effect(r, [n \in {request[r].name} |-> temporary[r]], "exit")
               /\ temporary' = [temporary EXCEPT ![r] = "none"]
      <3> DEFINE shows == [n \in {request[r].name} |-> temporary[r]]
      <3>1. /\ DOMAIN shows = {request[r].name} /\ request[r].name \in Name
            /\ \A n \in DOMAIN shows : shows[n] \in F!Shown \ {"part"}
        BY <1>1, <2>1 DEF F!Shown, FileRequest
      <3>2. F!Effect(r, shows, "exit") /\ UNCHANGED <<lock, crashes>>
        BY <1>8, <2>3 DEF F!Place
      <3> HIDE DEF shows
      <3> QED
        BY <1>1, <2>3, <3>1, <3>2, FileEffect
    <2> QED
      BY <1>8, <2>2, <2>3 DEF F!Place
  <1>9. CASE F!Clear(r)
    BY <1>3, <1>9 DEF F!Clear
  <1> QED
    BY <1>4, <1>5, <1>6, <1>7, <1>8, <1>9 DEF F!Step

LEMMA FileProgram ==
  ASSUME PartsAssumption, Filing, NEW n \in Name, F!Program(n)
  PROVE  Filing'
  <1>1. /\ entry' \in [Name -> F!Shown \ {"part"}] /\ UNCHANGED <<temporary, lock, crashes>>
        /\ \A m \in Name : m # n => entry'[m] = entry[m]
    BY DEF Filing, F!Program, F!Shown
  <1>2. /\ request' = [q \in Request |-> request'[q]]
        /\ \A q \in Request :
              request'[q] = IF request[q] # F!Idle /\ request[q].name = n
                            THEN [request[q] EXCEPT !.raced = TRUE] ELSE request[q]
    BY DEF F!Program, F!Raced, PartsAssumption, F!TransferAssumption
  <1>3. ASSUME NEW q \in Request
        PROVE  /\ request'[q] \in FileRequest \cup {F!Idle}
               /\ Handled(request'[q], temporary'[q]) /\ Looked(request'[q], entry')
    <2>1. /\ temporary'[q] = temporary[q] /\ Handled(request[q], temporary[q])
          /\ Looked(request[q], entry) /\ request[q] \in FileRequest \cup {F!Idle}
      BY <1>1 DEF Filing
    <2>2. CASE request[q] # F!Idle /\ request[q].name = n
      <3>1. /\ request'[q] \in FileRequest /\ request'[q].at = request[q].at
            /\ request'[q].op = request[q].op /\ request'[q].raced
        BY <1>2, <2>1, <2>2, RacedRequest
      <3> QED
        BY <2>1, <3>1 DEF Handled, Looked
    <2>3. CASE request[q] = F!Idle
      BY <1>2, <2>1, <2>3 DEF Looked, F!Idle
    <2>4. CASE request[q] # F!Idle /\ request[q].name # n
      <3>1. request[q].name \in Name /\ request'[q] = request[q]
        BY <1>2, <2>1, <2>4 DEF FileRequest
      <3> QED
        BY <1>1, <2>1, <2>4, <3>1 DEF Looked
    <2> QED
      BY <2>2, <2>3, <2>4
  <1> QED
    BY <1>1, <1>2, <1>3 DEF Filing

LEMMA NextFiling ==
  ASSUME PartsAssumption, Filing, [F!Next]_files
  PROVE  Filing'
  <1>1. ASSUME NEW r \in Request, NEW op \in FileOp, NEW from \in Name, NEW n \in Name,
               NEW local \in BOOLEAN, F!Begin(r, op, from, n, local)
        PROVE  Filing'
    <2> DEFINE q == [at |-> "check", op |-> op, from |-> from, name |-> n, local |-> local, raced |-> FALSE]
    <2>1. /\ temporary = [temporary EXCEPT ![r] = "none"] /\ request' = [request EXCEPT ![r] = q]
          /\ lock' \in Request \cup {None} /\ UNCHANGED <<entry, temporary, crashes>>
      BY <1>1 DEF F!Begin, Filing, Handled, F!Idle
    <2>2. q \in FileRequest /\ q.at = "check"
      BY DEF FileRequest
    <2> HIDE DEF q
    <2>3. Handled(q, "none") /\ Looked(q, entry)
      BY <2>2 DEF Handled, Looked
    <2> QED
      BY <2>1, <2>2, <2>3, FileMoves
  <1>2. Handled(F!Idle, "none") /\ Looked(F!Idle, entry) /\ Looked(F!Idle, entry')
    BY DEF Handled, Looked, F!Idle
  <1>3. ASSUME NEW r \in Request, F!Exit(r) PROVE Filing'
    <2>1. temporary = [temporary EXCEPT ![r] = "none"]
      BY <1>3 DEF F!Exit, F!At, Filing, Handled
    <2>2. /\ request' = [request EXCEPT ![r] = F!Idle] /\ lock' \in Request \cup {None}
          /\ UNCHANGED <<entry, temporary, crashes>>
      BY <1>3 DEF F!Exit, Filing
    <2> QED
      BY <1>2, <2>1, <2>2, FileMoves
  <1>4. ASSUME NEW r \in Request, F!Kill(r) PROVE Filing'
    <2> DEFINE q == [request[r] EXCEPT !.at = "exit"]
    <2>1. request[r] \in FileRequest
      BY <1>4 DEF F!Kill, Filing
    <2>2. q \in FileRequest /\ q.at = "exit"
      BY <2>1 DEF FileRequest
    <2>3. /\ request' = [request EXCEPT ![r] = q] /\ temporary' = [temporary EXCEPT ![r] = "none"]
          /\ lock' \in Request \cup {None} /\ UNCHANGED <<entry, crashes>>
      BY <1>4 DEF F!Kill, F!Goes, Filing
    <2> HIDE DEF q
    <2>4. Handled(q, "none") /\ Looked(q, entry)
      BY <2>2 DEF Handled, Looked
    <2> QED
      BY <2>2, <2>3, <2>4, FileMoves
  <1>5. CASE F!Crash
    <2>1. /\ \A r \in Request : \/ request'[r] = F!Idle /\ temporary'[r] = "none"
                                \/ request'[r] = request[r] /\ temporary'[r] = temporary[r]
          /\ request' = [r \in Request |-> request'[r]] /\ temporary' = [r \in Request |-> temporary'[r]]
      BY <1>5 DEF F!Crash
    <2>2. lock' = None /\ crashes' \in 0..MaxCrash /\ UNCHANGED entry
      BY <1>5 DEF F!Crash, Filing, PartsAssumption, F!TransferAssumption
    <2>3. \A r \in Request : /\ Handled(request'[r], temporary'[r]) /\ Looked(request'[r], entry')
                             /\ request'[r] \in FileRequest \cup {F!Idle}
                             /\ temporary'[r] \in {"none", "part", "cut", "whole"}
      BY <1>2, <2>1, <2>2 DEF Filing
    <2> QED
      BY <2>1, <2>2, <2>3 DEF Filing
  <1>6. CASE UNCHANGED files
    BY <1>6 DEF files, Filing
  <1> QED
    BY <1>1, <1>3, <1>4, <1>5, <1>6, FileStep, FileProgram DEF F!Next, FileOp

(* What a step takes away was asked for, or written in between. *)
LEMMA StepReplaces ==
  ASSUME Filing, NEW n \in Name, NEW r \in Request, F!Step(r), entry[n] # "none", entry'[n] # entry[n]
  PROVE  \/ request[r].op = "delete" /\ request[r].name = n
         \/ request[r].op = "rename" /\ request[r].from = n
         \/ request[r].op = "upload" /\ request[r].local
         \/ request[r].raced
  <1>0. Handled(request[r], temporary[r]) /\ Looked(request[r], entry)
    BY DEF Filing
  <1>1. entry' # entry
    OBVIOUS
  <1>2. CASE F!Make(r)
    <2>1. entry[request[r].name] = "none" /\ entry'[n] = IF n = request[r].name THEN "dir" ELSE entry[n]
      BY <1>1, <1>2 DEF F!Make, F!Effect
    <2> QED
      BY <2>1
  <1>3. CASE F!Remove(r)
    <2>1. request[r].op = "delete" /\ entry'[n] = IF n = request[r].name THEN "none" ELSE entry[n]
      BY <1>0, <1>1, <1>3 DEF F!Remove, F!Effect, F!At, Handled
    <2> QED
      BY <2>1
  <1>4. CASE F!Move(r)
    <2>1. /\ request[r].op = "rename" /\ request[r].at = "move"
          /\ n \notin {request[r].from, request[r].name} => entry'[n] = entry[n]
      BY <1>0, <1>1, <1>4 DEF F!Move, F!Effect, F!At, Handled
    <2> QED
      BY <1>0, <2>1 DEF Looked
  <1>5. CASE F!Place(r)
    <2>1. /\ request[r].op = "upload" /\ request[r].at = "place"
          /\ n # request[r].name => entry'[n] = entry[n]
      BY <1>0, <1>1, <1>5 DEF F!Place, F!Effect, F!At, Handled
    <2> QED
      BY <1>0, <2>1 DEF Looked
  <1>6. CASE F!Check(r) \/ F!Create(r) \/ F!Copy(r) \/ F!Clear(r)
    BY <1>1, <1>6 DEF F!Check, F!Create, F!Copy, F!Clear
  <1> QED
    BY <1>2, <1>3, <1>4, <1>5, <1>6 DEF F!Step

-----------------------------------------------------------------------------
(* The pulls of images *)

(* The goroutines that pull are of different templates, each has its entry *)
(* in the table, and each entry that says so is pulled.                    *)
Pulled ==
    /\ \A g, h \in Puller :
          I!Pulling(g) /\ I!Pulling(h) /\ puller[g].template = puller[h].template => g = h
    /\ \A g \in Puller : I!Pulling(g) =>
          /\ pulls[puller[g].template].status = "pulling"
          /\ pulls[puller[g].template].image = puller[g].image
    /\ \A t \in Template : pulls[t].status = "pulling" =>
          \E g \in Puller : I!Pulling(g) /\ puller[g].template = t

Pulls == I!TypeOK /\ Pulled

LEMMA PullRecords ==
  ASSUME I!TypeOK
  PROVE  /\ \A g \in Puller : I!Pulling(g) => /\ puller[g].template \in Template
                                              /\ puller[g].image \in Image
                                              /\ puller[g].at \in {"pull", "pulled", "refused", "check"}
                                              /\ puller[g] # I!Idle
         /\ \A g \in Puller : ~I!Pulling(g) => puller[g] = I!Idle
         /\ \A p \in Page : page[p].at # "idle" => page[p].template \in Template /\ page[p].image \in Image
  BY DEF I!TypeOK, I!Pulling, I!Idle

LEMMA PullsBegin ==
  ASSUME PartsAssumption, I!Init
  PROVE  Pulls
  BY DEF PartsAssumption, I!PullAssumption, I!Init, Pulls, I!TypeOK, Pulled, I!Pulling, I!Idle, I!NoPull

LEMMA PullsMean ==
  ASSUME Pulls
  PROVE  I!TypeOK /\ I!PullsMatch
  <1>1. ASSUME NEW t \in Template, pulls[t].status = "pulling"
        PROVE  \E g \in Puller : /\ I!Pulling(g) /\ puller[g].template = t
                                 /\ puller[g].image = pulls[t].image
    <2>1. PICK g \in Puller : I!Pulling(g) /\ puller[g].template = t
      BY <1>1 DEF Pulls, Pulled
    <2>2. puller[g].image = pulls[t].image
      BY <2>1 DEF Pulls, Pulled
    <2> QED
      BY <2>1, <2>2
  <1>2. ASSUME NEW t \in Template, NEW g \in Puller, I!Pulling(g), puller[g].template = t
        PROVE  pulls[t].status = "pulling"
    BY <1>2 DEF Pulls, Pulled
  <1> QED
    BY <1>1, <1>2 DEF Pulls, Pulled, I!PullsMatch

(* A goroutine goes on with what it pulls. *)
LEMMA PullGoes ==
  ASSUME Pulls, NEW g \in Puller, I!Pulling(g), NEW at \in {"pull", "pulled", "refused", "check"},
         puller' = [puller EXCEPT ![g].at = at], UNCHANGED <<image, pulls, page>>,
         pullMutex' \in Puller \cup {None},
         \A h \in Puller : h # g => (pullMutex' = h <=> pullMutex = h),
         pullMutex' = g <=> at = "check"
  PROVE  Pulls'
  <1>0. I!TypeOK
    BY DEF Pulls
  <1>1. /\ puller'[g] \in [at : {"pull", "pulled", "refused", "check"}, template : Template, image : Image]
        /\ puller'[g].at = at /\ puller'[g].template = puller[g].template
        /\ puller'[g].image = puller[g].image
    BY <1>0 DEF I!TypeOK, I!Pulling, I!Idle
  <1>2. /\ \A h \in Puller : h # g => puller'[h] = puller[h]
        /\ puller' = [h \in Puller |-> puller'[h]]
    BY <1>0 DEF I!TypeOK
  <1>3. I!TypeOK'
    BY <1>0, <1>1, <1>2 DEF I!TypeOK
  <1>4. \A h \in Puller : /\ I!Pulling(h)' <=> I!Pulling(h)
                          /\ puller'[h].template = puller[h].template
                          /\ puller'[h].image = puller[h].image
    BY <1>1, <1>2 DEF I!Pulling
  <1>5. Pulled'
    BY <1>4 DEF Pulls, Pulled
  <1> QED
    BY <1>3, <1>5 DEF Pulls

(* What becomes of a pull is written to its own entry. *)
LEMMA PullSettles ==
  ASSUME PartsAssumption, Pulls, NEW g \in Puller, I!Pulling(g), NEW status \in {"available", "failed"},
         I!Settle(g, status), UNCHANGED <<image, page>>, pullMutex' = None,
         pullMutex = g \/ pullMutex = None
  PROVE  Pulls'
  <1> DEFINE t == puller[g].template
  <1>0. I!TypeOK /\ t \in Template /\ None \notin Puller
    BY PullRecords DEF Pulls, PartsAssumption, I!PullAssumption
  <1>1. /\ puller' = [puller EXCEPT ![g] = I!Idle] /\ pulls' = [pulls EXCEPT ![t].status = status]
    BY DEF I!Settle
  <1>2. /\ puller'[g] = I!Idle /\ \A h \in Puller : h # g => puller'[h] = puller[h]
        /\ \A u \in Template : u # t => pulls'[u] = pulls[u]
    BY <1>0, <1>1 DEF I!TypeOK
  <1>3. pulls[t] \in I!Pull
    BY <1>0 DEF Pulls, Pulled, I!TypeOK, I!NoPull
  <1>4. pulls'[t] \in I!Pull /\ pulls'[t].status = status
    BY <1>0, <1>1, <1>3 DEF I!TypeOK, I!Pull
  <1>5. I!TypeOK'
    <2>1. /\ pulls' \in [Template -> I!Pull \cup {I!NoPull}]
          /\ puller' \in [Puller -> [at : {"pull", "pulled", "refused", "check"},
                                     template : Template, image : Image] \cup {I!Idle}]
      BY <1>0, <1>1, <1>4 DEF I!TypeOK
    <2>2. \A h \in Puller : pullMutex' = h <=> puller'[h].at = "check"
      BY <1>0, <1>2 DEF I!TypeOK, I!Idle
    <2> QED
      BY <1>0, <2>1, <2>2 DEF I!TypeOK
  <1>6. \A h \in Puller : /\ I!Pulling(h)' => h # g /\ I!Pulling(h) /\ puller'[h] = puller[h]
                          /\ I!Pulling(h) /\ h # g => I!Pulling(h)' /\ puller'[h] = puller[h]
    BY <1>2 DEF I!Pulling, I!Idle
  <1>7. ASSUME NEW h \in Puller, I!Pulling(h)'
        PROVE  /\ pulls'[puller'[h].template].status = "pulling"
               /\ pulls'[puller'[h].template].image = puller'[h].image
    <2>1. h # g /\ I!Pulling(h) /\ puller'[h] = puller[h] /\ puller[h].template \in Template
      BY <1>0, <1>6, <1>7, PullRecords
    <2>2. puller[h].template # t
      BY <2>1 DEF Pulls, Pulled
    <2> QED
      BY <1>2, <2>1, <2>2 DEF Pulls, Pulled
  <1>8. ASSUME NEW u \in Template, pulls'[u].status = "pulling"
        PROVE  \E h \in Puller : I!Pulling(h)' /\ puller'[h].template = u
    <2>1. u # t /\ pulls[u].status = "pulling"
      BY <1>2, <1>4, <1>8
    <2>2. PICK h \in Puller : I!Pulling(h) /\ puller[h].template = u
      BY <2>1 DEF Pulls, Pulled
    <2> QED
      BY <1>6, <2>1, <2>2
  <1> QED
    BY <1>5, <1>6, <1>7, <1>8 DEF Pulls, Pulled

LEMMA PullStarts ==
  ASSUME PartsAssumption, Pulls, NEW p \in Page, I!StartImagePull(p)
  PROVE  Pulls'
  <1> DEFINE t == page[p].template
             i == page[p].image
  <1>0. I!TypeOK /\ pullMutex = None /\ UNCHANGED <<image, pullMutex>> /\ None \notin Puller
    BY DEF Pulls, I!StartImagePull, PartsAssumption, I!PullAssumption
  <1>1. t \in Template /\ i \in Image
    BY <1>0, PullRecords DEF I!StartImagePull
  <1>2. page' \in [Page -> [at : {"status", "pull"}, template : Template, image : Image] \cup {I!Idle}]
    BY <1>0 DEF I!StartImagePull, I!TypeOK
  <1>3. CASE UNCHANGED <<pulls, puller>>
    BY <1>0, <1>2, <1>3 DEF Pulls, Pulled, I!TypeOK, I!Pulling
  <1>4. ASSUME NEW g \in Puller, puller[g] = I!Idle, pulls[t].status # "pulling",
               puller' = [puller EXCEPT ![g] = [at |-> "pull", template |-> t, image |-> i]],
               pulls' = [pulls EXCEPT ![t] = [image |-> i, status |-> "pulling"]]
        PROVE  Pulls'
    <2>1. /\ puller'[g] = [at |-> "pull", template |-> t, image |-> i]
          /\ \A h \in Puller : h # g => puller'[h] = puller[h]
          /\ pulls'[t] = [image |-> i, status |-> "pulling"]
          /\ \A u \in Template : u # t => pulls'[u] = pulls[u]
      BY <1>0, <1>1, <1>4 DEF I!TypeOK
    <2>2. I!TypeOK'
      <3>1. /\ pulls' \in [Template -> I!Pull \cup {I!NoPull}]
            /\ puller' \in [Puller -> [at : {"pull", "pulled", "refused", "check"},
                                       template : Template, image : Image] \cup {I!Idle}]
        BY <1>0, <1>1, <1>4 DEF I!TypeOK, I!Pull
      <3>2. \A h \in Puller : pullMutex' = h <=> puller'[h].at = "check"
        BY <1>0, <2>1 DEF I!TypeOK
      <3> QED
        BY <1>0, <1>2, <3>1, <3>2 DEF I!TypeOK
    <2>3. /\ I!Pulling(g)' /\ puller'[g].template = t /\ puller'[g].image = i
          /\ \A h \in Puller : h # g => (I!Pulling(h)' <=> I!Pulling(h))
      BY <2>1 DEF I!Pulling
    <2>4. \A h \in Puller : I!Pulling(h) => h # g /\ puller[h].template # t
                                            /\ puller[h].template \in Template
      BY <1>0, <1>4, PullRecords DEF Pulls, Pulled, I!Pulling, I!Idle
    <2>5. \A h, k \in Puller : I!Pulling(h)' /\ I!Pulling(k)'
             /\ puller'[h].template = puller'[k].template => h = k
      BY <2>1, <2>3, <2>4 DEF Pulls, Pulled
    <2>6. ASSUME NEW h \in Puller, I!Pulling(h)'
          PROVE  /\ pulls'[puller'[h].template].status = "pulling"
                 /\ pulls'[puller'[h].template].image = puller'[h].image
      <3>1. CASE h = g
        BY <2>1, <3>1
      <3>2. CASE h # g
        BY <2>1, <2>3, <2>4, <2>6, <3>2 DEF Pulls, Pulled
      <3> QED
        BY <3>1, <3>2
    <2>7. ASSUME NEW u \in Template, pulls'[u].status = "pulling"
          PROVE  \E h \in Puller : I!Pulling(h)' /\ puller'[h].template = u
      <3>1. CASE u = t
        BY <2>3, <3>1
      <3>2. CASE u # t
        <4>1. PICK h \in Puller : I!Pulling(h) /\ puller[h].template = u
          BY <2>1, <2>7, <3>2 DEF Pulls, Pulled
        <4> QED
          BY <2>1, <2>3, <2>4, <4>1
      <3> QED
        BY <3>1, <3>2
    <2> QED
      BY <2>2, <2>5, <2>6, <2>7 DEF Pulls, Pulled
  <1> QED
    BY <1>3, <1>4 DEF I!StartImagePull, I!UnderWay

LEMMA NextPulls ==
  ASSUME PartsAssumption, Pulls, [I!Next]_images
  PROVE  Pulls'
  <1>0. I!TypeOK /\ None \notin Puller
    BY DEF Pulls, PartsAssumption, I!PullAssumption
  <1>1. ASSUME NEW p \in Page, NEW at \in {"status", "pull"}, NEW t \in Template, I!GetTemplate(p, at, t)
        PROVE  Pulls'
    <2>1. [at |-> at, template |-> t, image |-> image[t]]
             \in [at : {"status", "pull"}, template : Template, image : Image]
      BY <1>0 DEF I!TypeOK
    <2>2. page' = [page EXCEPT ![p] = [at |-> at, template |-> t, image |-> image[t]]]
          /\ UNCHANGED <<image, pulls, puller, pullMutex>>
      BY <1>1 DEF I!GetTemplate
    <2>3. page' \in [Page -> [at : {"status", "pull"}, template : Template, image : Image] \cup {I!Idle}]
      BY <1>0, <2>1, <2>2 DEF I!TypeOK
    <2> QED
      BY <1>0, <2>2, <2>3 DEF Pulls, Pulled, I!TypeOK, I!Pulling
  <1>2. ASSUME NEW p \in Page, I!ImagePullSnapshot(p) PROVE Pulls'
    BY <1>0, <1>2 DEF I!ImagePullSnapshot, Pulls, Pulled, I!TypeOK, I!Pulling
  <1>3. ASSUME NEW g \in Puller, NEW outcome \in {"pulled", "refused"}, I!PullImage(g, outcome)
        PROVE  Pulls'
    <2>1. I!Pulling(g) /\ pullMutex # g
      BY <1>0, <1>3 DEF I!PullImage, I!Pulling, I!TypeOK
    <2> QED
      BY <1>0, <1>3, <2>1, PullGoes DEF I!PullImage, I!TypeOK
  <1>4. ASSUME NEW g \in Puller, I!BeginCheck(g) PROVE Pulls'
    <2>1. I!Pulling(g)
      BY <1>4 DEF I!BeginCheck, I!Pulling
    <2> QED
      BY <1>0, <1>4, <2>1, PullGoes DEF I!BeginCheck
  <1>5. ASSUME NEW g \in Puller, I!PullFailed(g) PROVE Pulls'
    <2>1. I!Pulling(g)
      BY <1>5 DEF I!PullFailed, I!Pulling
    <2> QED
      BY <1>5, <2>1, PullSettles DEF I!PullFailed
  <1>6. ASSUME NEW g \in Puller, I!Check(g) PROVE Pulls'
    <2>1. I!Pulling(g) /\ pullMutex = g
      BY <1>0, <1>6 DEF I!Check, I!Pulling, I!TypeOK
    <2> QED
      BY <1>6, <2>1, PullSettles DEF I!Check
  <1>7. ASSUME NEW t \in Template, NEW i \in Image, I!EditTemplate(t, i) PROVE Pulls'
    BY <1>0, <1>7 DEF I!EditTemplate, Pulls, Pulled, I!TypeOK, I!Pulling
  <1>8. CASE I!Restart
    BY <1>0, <1>8 DEF I!Restart, Pulls, Pulled, I!TypeOK, I!Pulling, I!Idle, I!NoPull
  <1>9. CASE UNCHANGED images
    BY <1>9 DEF images, Pulls, Pulled, I!TypeOK, I!Pulling
  <1> QED
    BY <1>1, <1>2, <1>3, <1>4, <1>5, <1>6, <1>7, <1>8, <1>9, PullStarts DEF I!Next, I!Goroutine

-----------------------------------------------------------------------------
(* All parts *)

Parts == Bridges /\ UsageSound /\ Meets /\ Room /\ Limited /\ Filing /\ Pulls

LEMMA BridgesMean ==
  ASSUME Bridges
  PROVE  B!TypeOK /\ BridgesSettle
  <1>1. B!TypeOK
    BY DEF Bridges, BridgeState, B!TypeOK
  <1>2. ASSUME NEW b \in B!Bridge
        PROVE  /\ (B!At(b, "done") \/ bridge[b].stream = "closed") /\ bridge[b].process = "running"
                    => bridge[b].left
               /\ bridge[b].ended <= bridge[b].begun
               /\ B!At(b, "done") => bridge[b].ended = bridge[b].begun
    <2>1. Sound(b, bridge[b]) /\ bridge[b].begun \in 0..1
      BY DEF Bridges, BridgeState
    <2> QED
      BY <2>1 DEF Sound, B!At
  <1> QED
    BY <1>1, <1>2 DEF BridgesSettle, B!ShellsAreStopped, B!SessionsBalance

LEMMA TablesMean ==
  ASSUME PartsAssumption, Room, Limited
  PROVE  TablesBounded
  <1>1. ASSUME NEW s \in Source PROVE entries[s].failures < MaxFailures + L!Cardinality(Login)
    <2>1. /\ Cardinality(InFlight(s)) \in Nat /\ entries[s].failures \in Nat
          /\ entries[s].failures + Cardinality(InFlight(s)) < MaxFailures + Cardinality(Login)
      BY Flying DEF Limited, L!TypeOK
    <2> QED
      BY <2>1, LimiterConstants, SameCardinality
  <1>2. L!Cardinality(L!Tracked) <= MaxTracked
    BY SameCardinality DEF Limited
  <1> QED
    BY <1>1, <1>2 DEF TablesBounded, L!FailuresBounded, L!TrackedBounded, Room

LEMMA PartsBegin ==
  ASSUME PartsAssumption, PartsInit
  PROVE  Parts
  BY BridgesBegin, UsageBegins, MeetsBegins, RoomBegins, LimiterBegins, FilingBegins, PullsBegin
  DEF PartsInit, Parts

(* A step of the process is one of each part, or leaves the part alone. *)
LEMMA PartsStep ==
  ASSUME [PartsNext]_everything
  PROVE  /\ UNCHANGED bridge \/ \E b \in B!Bridge : B!Step(b)
         /\ [U!Next]_usage /\ [V!Next]_full /\ [L!Next]_limiter /\ [F!Next]_files /\ [I!Next]_images
  <1>1. CASE UNCHANGED everything
    BY <1>1 DEF everything
  <1>2. CASE PartsNext
    BY <1>2 DEF PartsNext, BridgeMoves, B!Bridge
  <1> QED
    BY <1>1, <1>2

LEMMA PartsKeep ==
  ASSUME PartsAssumption, Parts, [PartsNext]_everything
  PROVE  Parts'
  <1>1. Bridges'
    <2>1. CASE UNCHANGED bridge
      BY <2>1 DEF Parts, Bridges
    <2>2. ASSUME NEW b \in B!Bridge, B!Step(b) PROVE Bridges'
      BY <2>2, OneBridge DEF Parts
    <2> QED
      BY <2>1, <2>2, PartsStep
  <1>2. UsageSound' /\ Meets'
    BY PartsStep, UsageNext, NextMeets DEF Parts
  <1>3. Room'
    BY PartsStep, NextRoom DEF Parts
  <1>4. Limited'
    BY PartsStep, NextLimited DEF Parts
  <1>5. Filing'
    BY PartsStep, NextFiling DEF Parts
  <1>6. Pulls'
    BY PartsStep, NextPulls DEF Parts
  <1> QED
    BY <1>1, <1>2, <1>3, <1>4, <1>5, <1>6 DEF Parts

LEMMA PartsMean ==
  ASSUME PartsAssumption, Parts
  PROVE  PartsTypeOK /\ BridgesSettle /\ UsageIsShared /\ TablesBounded /\ PullsMatch
  <1>1. B!TypeOK /\ BridgesSettle
    BY BridgesMean DEF Parts
  <1>2. U!TypeOK /\ V!TypeOK /\ L!TypeOK
    BY DEF Parts, UsageSound, Room, FullSound, Limited
  <1>3. F!TypeOK /\ I!TypeOK /\ PullsMatch
    BY FilingMeans, PullsMean DEF Parts, PullsMatch
  <1>4. UsageIsShared /\ TablesBounded
    BY TablesMean DEF Parts, Meets, UsageIsShared
  <1> QED
    BY <1>1, <1>2, <1>3, <1>4 DEF PartsTypeOK

LEMMA PartsAlways == PartsSpec => []Parts
  <1>1. PartsInit => Parts
    BY PartsBegin, PartsAssumption
  <1>2. Parts /\ [PartsNext]_everything => Parts'
    BY PartsKeep, PartsAssumption
  <1> QED
    BY <1>1, <1>2, PTL DEF PartsSpec

(* The six parts keep the types of their modules. *)
THEOREM PartsAreTyped == PartsSpec => []PartsTypeOK
  <1>1. Parts => PartsTypeOK
    BY PartsMean, PartsAssumption
  <1> QED
    BY <1>1, PartsAlways, PTL

(* However a terminal or a desktop is left (the deferred calls of its      *)
(* handler, terminal.Close), no shell runs on unattended, and sessions     *)
(* that were recorded are recorded to end.                                 *)
THEOREM BridgesAlwaysSettle == PartsSpec => []BridgesSettle
  <1>1. Parts => BridgesSettle
    BY PartsMean, PartsAssumption
  <1> QED
    BY <1>1, PartsAlways, PTL

(* Any number of calls that meet in WorkspaceStorageUsage share what is    *)
(* measured, and nobody waits for a measurement that has ended.            *)
THEOREM UsageIsAlwaysShared == PartsSpec => []UsageIsShared
  <1>1. Parts => UsageIsShared
    BY PartsMean, PartsAssumption
  <1> QED
    BY <1>1, PartsAlways, PTL

(* For any limits: the failures of a source (LoginLimiter), the sources    *)
(* that are tracked and the entries of the cache of storage usage.         *)
THEOREM TablesAreBounded == PartsSpec => []TablesBounded
  <1>1. Parts => TablesBounded
    BY PartsMean, PartsAssumption
  <1> QED
    BY <1>1, PartsAlways, PTL

(* For any number of goroutines: one of them pulls for a template          *)
(* (startImagePull), and what it writes in the end is its own entry.       *)
THEOREM PullsAlwaysMatch == PartsSpec => []PullsMatch
  <1>1. Parts => PullsMatch
    BY PartsMean, PartsAssumption
  <1> QED
    BY <1>1, PartsAlways, PTL

(* For any number of operations on any names (files.Service): none shows   *)
(* an upload that is not whole or cut, and what a name shows goes only     *)
(* where that was asked for or somebody else wrote the name in between.    *)
THEOREM FilesAreKept == PartsSpec => FilesKept
  <1> DEFINE Kept == \A n \in Name, r \in Request :
        /\ F!Step(r) /\ entry[n] # "none" /\ entry'[n] # entry[n]
        => \/ request[r].op = "delete" /\ request[r].name = n
           \/ request[r].op = "rename" /\ request[r].from = n
           \/ request[r].op = "upload" /\ request[r].local
           \/ request[r].raced
  <1>1. Parts => F!NoPartShown
    BY FilingMeans DEF Parts
  <1>2. Parts => Kept
    BY StepReplaces DEF Parts
  <1>3. PartsSpec => [][Kept]_(F!vars)
    BY <1>2, PartsAlways, PTL
  <1>4. PartsSpec => F!NothingReplaced
    BY <1>3 DEF F!NothingReplaced
  <1> QED
    BY <1>1, <1>4, PartsAlways, PTL DEF FilesKept

===============================================================================
