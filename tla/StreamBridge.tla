---------------------------- MODULE StreamBridge ----------------------------
(***************************************************************************)
(* The terminals and desktops of running workspaces: one request handler   *)
(* each, between a browser's WebSocket and a stream into the container     *)
(* (workspaceTerminalWebSocket, workspaceDesktopWebSocket), with the two   *)
(* goroutines that read its ends, over OpenTerminal, OpenDesktop and the   *)
(* Podman adapter's exec streams.                                          *)
(*                                                                         *)
(* What is carried is left out: a channel holds something, a failure, or   *)
(* nothing.  So is time: a timer fires when the environment says so, but   *)
(* the hour of a bridge does pass.                                         *)
(***************************************************************************)
EXTENDS Naturals

CONSTANTS
    Terminal, Desktop      \* bridges of either kind, each used over and over

VARIABLE bridge

vars == bridge

Bridge == Terminal \cup Desktop

(* `process` is the shell of an exec; `up` reads the browser, `down` the   *)
(* container; `over` is a done context; `left` tells that the clean-up of  *)
(* a shell failed.                                                         *)
Unopened == [at |-> "unopened", process |-> "none", stream |-> "none", browser |-> "none",
             up |-> "none", down |-> "none", input |-> "empty", output |-> "empty",
             over |-> FALSE, idle |-> FALSE, session |-> TRUE,
             begun |-> 0, ended |-> 0, left |-> FALSE]

TypeOK == bridge \in [Bridge ->
    [at : {"unopened", "opened", "refused", "recorded", "select", "send", "write", "resize",
           "check", "leaving", "terminate", "detach", "record", "done"},
     process : {"none", "running", "gone"}, stream : {"none", "open", "closed"},
     browser : {"none", "open", "away", "closed"},
     up : {"none", "read", "put", "fail", "gone"}, down : {"none", "read", "put", "fail", "gone"},
     input : {"empty", "data", "error"}, output : {"empty", "data", "error"},
     over : BOOLEAN, idle : BOOLEAN, session : BOOLEAN,
     begun : 0..1, ended : 0..1, left : BOOLEAN]]

Init == bridge = [b \in Bridge |-> Unopened]

At(b, place) == bridge[b].at = place
Moves(b, at) == bridge' = [bridge EXCEPT ![b].at = at]

(* The handler returns: its context is cancelled, and what it deferred is  *)
(* still to do.                                                            *)
Leave(b) == bridge' = [bridge EXCEPT ![b].at = "leaving", ![b].over = TRUE]

-----------------------------------------------------------------------------
(* Opening. *)

OpenShell(b) ==
    /\ b \in Terminal /\ At(b, "unopened")
    /\ \/ bridge' = [bridge EXCEPT ![b].at = "opened", ![b].process = "running",
                                   ![b].stream = "open"]
       \/ bridge' = [bridge EXCEPT ![b].at = "refused", ![b].process = "running"]

OpenInternalService(b) ==
    /\ b \in Desktop /\ At(b, "unopened")
    /\ bridge' = [bridge EXCEPT ![b].at = "opened", ![b].stream = "open"]

(* OpenTerminal and OpenDesktop close again what they can not record. *)
RecordWorkspaceConnection(b) ==
    /\ At(b, "opened")
    /\ \/ bridge' = [bridge EXCEPT ![b].at = "recorded", ![b].begun = 1]
       \/ Moves(b, "refused")

(* Accept, and the two goroutines; without a WebSocket the handler leaves. *)
Accept(b) ==
    /\ At(b, "recorded")
    /\ \/ bridge' = [bridge EXCEPT ![b].at = "select", ![b].browser = "open",
                                   ![b].up = "read", ![b].down = "read"]
       \/ Leave(b)

-----------------------------------------------------------------------------
(* The goroutines of a terminal: readTerminalInput, readTerminalOutput.    *)

(* conn.Read ends with the context, or with the WebSocket. *)
ReadInput(b) ==
    /\ b \in Terminal /\ bridge[b].up = "read" /\ bridge[b].browser = "open"
    /\ bridge' = [bridge EXCEPT ![b].up = "put"]

ReadInputFails(b) ==
    /\ b \in Terminal /\ bridge[b].up = "read"
    /\ bridge[b].browser # "open" \/ bridge[b].over
    /\ bridge' = [bridge EXCEPT ![b].up = "fail"]

(* terminal.Read ends with the shell, or with the stream: with no context. *)
ReadOutput(b) ==
    /\ b \in Terminal /\ bridge[b].down = "read"
    /\ bridge[b].stream = "open" /\ bridge[b].process = "running"
    /\ bridge' = [bridge EXCEPT ![b].down = "put"]

ReadOutputFails(b) ==
    /\ b \in Terminal /\ bridge[b].down = "read"
    /\ bridge[b].stream # "open" \/ bridge[b].process # "running"
    /\ bridge' = [bridge EXCEPT ![b].down = "fail"]

PutInput(b) ==
    /\ bridge[b].up \in {"put", "fail"} /\ bridge[b].input = "empty"
    /\ bridge' = [bridge EXCEPT
          ![b].input = IF bridge[b].up = "put" THEN "data" ELSE "error",
          ![b].up = IF bridge[b].up = "put" THEN "read" ELSE "gone"]

PutOutput(b) ==
    /\ bridge[b].down \in {"put", "fail"} /\ bridge[b].output = "empty"
    /\ bridge' = [bridge EXCEPT
          ![b].output = IF bridge[b].down = "put" THEN "data" ELSE "error",
          ![b].down = IF bridge[b].down = "put" THEN "read" ELSE "gone"]

GiveUpInput(b) ==
    /\ bridge[b].up \in {"put", "fail"} /\ bridge[b].over
    /\ bridge' = [bridge EXCEPT ![b].up = "gone"]

GiveUpOutput(b) ==
    /\ bridge[b].down \in {"put", "fail"} /\ bridge[b].over
    /\ bridge' = [bridge EXCEPT ![b].down = "gone"]

(* The goroutines of a desktop: copyDesktopStream, which reads one end and *)
(* writes the other, and is done when either fails.  `done` has room for   *)
(* both.                                                                   *)
CopyDesktopStream(b) ==
    /\ b \in Desktop
    /\ bridge[b].browser # "open" \/ bridge[b].over \/ bridge[b].stream # "open"
    /\ \/ bridge[b].up = "read" /\ bridge' = [bridge EXCEPT ![b].up = "gone"]
       \/ bridge[b].down = "read" /\ bridge' = [bridge EXCEPT ![b].down = "gone"]

-----------------------------------------------------------------------------
(* The loop of the handler. *)

SelectOutput(b) ==
    /\ b \in Terminal /\ At(b, "select") /\ bridge[b].output # "empty"
    /\ IF bridge[b].output = "data"
       THEN bridge' = [bridge EXCEPT ![b].at = "send", ![b].output = "empty"]
       ELSE Leave(b)

(* conn.Write ends when the browser has taken the data, or fails. *)
Send(b) ==
    /\ At(b, "send") /\ bridge[b].browser = "open" /\ ~bridge[b].over
    /\ bridge' = [bridge EXCEPT ![b].at = "select", ![b].idle = FALSE]

(* A slip: the write is bounded by the WebSocket, not by the hour. *)
SendFailsWithBrowser(b) ==
    /\ At(b, "send") /\ bridge[b].browser # "open"
    /\ Leave(b)

SendFails(b) ==
    /\ At(b, "send") /\ (bridge[b].browser # "open" \/ bridge[b].over)
    /\ Leave(b)

SelectInput(b) ==
    /\ b \in Terminal /\ At(b, "select") /\ bridge[b].input # "empty"
    /\ IF bridge[b].input = "data"
       THEN \E at \in {"write", "resize"} :
               bridge' = [bridge EXCEPT ![b].at = at, ![b].input = "empty"]
       ELSE Leave(b)

(* terminal.Write ends when the shell's side has taken the data; no        *)
(* context bounds it.                                                      *)
Write(b) ==
    /\ At(b, "write") /\ bridge[b].stream = "open" /\ bridge[b].process = "running"
    /\ bridge' = [bridge EXCEPT ![b].at = "select", ![b].idle = FALSE]

WriteFails(b) ==
    /\ At(b, "write") /\ bridge[b].process # "running"
    /\ Leave(b)

(* The adapter's client has a timeout; a size that is out of range only    *)
(* counts as activity.                                                     *)
Resize(b) ==
    /\ At(b, "resize")
    /\ bridge' = [bridge EXCEPT ![b].at = "select", ![b].idle = FALSE] \/ Leave(b)

SelectIdle(b) == At(b, "select") /\ bridge[b].idle /\ Leave(b)
SelectDone(b) == At(b, "select") /\ bridge[b].over /\ Leave(b)
SelectCopied(b) ==
    /\ b \in Desktop /\ At(b, "select") /\ "gone" \in {bridge[b].up, bridge[b].down}
    /\ Leave(b)

SelectTick(b) == At(b, "select") /\ Moves(b, "check")

(* The query fails once its context is done. *)
UserForSession(b) ==
    /\ At(b, "check")
    /\ IF bridge[b].session /\ ~bridge[b].over THEN Moves(b, "select") ELSE Leave(b)

-----------------------------------------------------------------------------
(* What a handler defers, in the order in which it runs. *)

(* conn.CloseNow; a terminal's shell goes next, a desktop's connection     *)
(* after its session's end is recorded.                                    *)
CloseBrowser(b) ==
    /\ At(b, "leaving")
    /\ bridge' = [bridge EXCEPT ![b].browser = "closed",
                                ![b].at = IF b \in Terminal THEN "terminate" ELSE "record"]

(* A slip: the stream is closed and the shell left to itself. *)
CloseStreamOnly(b) ==
    /\ b \in Terminal /\ (At(b, "terminate") \/ At(b, "refused"))
    /\ Moves(b, "detach")

(* terminateExec: the shell is gone, or found so, or the clean-up fails or *)
(* does not end in time.                                                   *)
TerminateExec(b) ==
    /\ b \in Terminal /\ (At(b, "terminate") \/ At(b, "refused"))
    /\ \/ bridge' = [bridge EXCEPT ![b].at = "detach", ![b].process = "gone"]
       \/ bridge' = [bridge EXCEPT ![b].at = "detach",
                                   ![b].left = bridge[b].process = "running"]

(* A slip: every terminal that was closed is counted. *)
CloseStreamAlways(b) ==
    \/ /\ At(b, "detach")
       /\ bridge' = [bridge EXCEPT ![b].stream = "closed", ![b].at = "record"]
    \/ /\ b \in Desktop /\ At(b, "refused")
       /\ bridge' = [bridge EXCEPT ![b].stream = "closed", ![b].at = "done"]

(* A slip: Close returns with the failure of the clean-up. *)
CloseStreamOfStopped(b) ==
    /\ At(b, "detach")
    /\ bridge' = [bridge EXCEPT
          ![b].stream = IF bridge[b].left THEN "open" ELSE "closed",
          ![b].at = IF bridge[b].begun = 0 THEN "done" ELSE "record"]

(* A connection that was never recorded ends unrecorded. *)
CloseStream(b) ==
    \/ /\ At(b, "detach")
       /\ bridge' = [bridge EXCEPT ![b].stream = "closed",
                                   ![b].at = IF bridge[b].begun = 0 THEN "done" ELSE "record"]
    \/ /\ b \in Desktop /\ At(b, "refused")
       /\ bridge' = [bridge EXCEPT ![b].stream = "closed", ![b].at = "done"]

(* A slip: the end is recorded in the handler's own context. *)
RecordDisconnectInContext(b) ==
    /\ At(b, "record")
    /\ bridge' = [bridge EXCEPT ![b].at = "done", ![b].stream = "closed",
                                ![b].ended = IF bridge[b].over THEN 0 ELSE 1]

(* A desktop's connection is closed after its end is recorded. *)
RecordDisconnect(b) ==
    /\ At(b, "record")
    /\ bridge' = [bridge EXCEPT ![b].at = "done", ![b].ended = bridge[b].ended + 1,
                                ![b].stream = IF b \in Desktop THEN "closed" ELSE @]

-----------------------------------------------------------------------------
(* The environment. *)

ShellExits(b) ==
    /\ bridge[b].process = "running" /\ bridge' = [bridge EXCEPT ![b].process = "gone"]
BrowserGoesAway(b) ==
    /\ bridge[b].browser = "open" /\ bridge' = [bridge EXCEPT ![b].browser = "away"]
IdleFires(b) ==
    /\ At(b, "select") /\ ~bridge[b].idle /\ bridge' = [bridge EXCEPT ![b].idle = TRUE]
Revoke(b) == bridge[b].session /\ bridge' = [bridge EXCEPT ![b].session = FALSE]
LifetimeEnds(b) ==
    /\ bridge[b].at \in {"select", "send", "write", "resize", "check"} /\ ~bridge[b].over
    /\ bridge' = [bridge EXCEPT ![b].over = TRUE]

Running(b) == "none" # bridge[b].up /\ {bridge[b].up, bridge[b].down} # {"gone"}

(* Another request uses the same name. *)
Reopen(b) ==
    /\ At(b, "done") /\ ~Running(b)
    /\ bridge' = [bridge EXCEPT ![b] = Unopened]

Opening(b) == OpenShell(b) \/ OpenInternalService(b) \/ RecordWorkspaceConnection(b) \/ Accept(b)
ReaderOfInput(b) == ReadInputFails(b) \/ PutInput(b) \/ GiveUpInput(b)
ReaderOfOutput(b) == ReadOutputFails(b) \/ PutOutput(b) \/ GiveUpOutput(b)
Reading(b) == ReadInput(b) \/ ReaderOfInput(b) \/ ReadOutput(b) \/ ReaderOfOutput(b)
                  \/ CopyDesktopStream(b)
Looping(b) ==
    \/ SelectOutput(b) \/ Send(b) \/ SendFails(b)
    \/ SelectInput(b) \/ Write(b) \/ WriteFails(b) \/ Resize(b)
    \/ SelectIdle(b) \/ SelectDone(b) \/ SelectCopied(b) \/ SelectTick(b) \/ UserForSession(b)
Closing(b) == CloseBrowser(b) \/ TerminateExec(b) \/ CloseStream(b) \/ RecordDisconnect(b)
Outside(b) == ShellExits(b) \/ BrowserGoesAway(b) \/ IdleFires(b) \/ Revoke(b)
                  \/ LifetimeEnds(b) \/ Reopen(b)

Step(b) == Opening(b) \/ Reading(b) \/ Looping(b) \/ Closing(b) \/ Outside(b)

Next == \E b \in Bridge : Step(b)

(* Goroutines run, a select that is ready again and again takes each ready *)
(* case in the end (Go chooses at random), the adapter's calls have        *)
(* timeouts, and an hour passes.  Nothing makes a browser or a shell send  *)
(* or take data.                                                           *)
Fairness == \A b \in Bridge :
    /\ WF_vars(RecordWorkspaceConnection(b)) /\ WF_vars(Accept(b))
    /\ WF_vars(ReaderOfInput(b)) /\ WF_vars(ReaderOfOutput(b))
    /\ WF_vars(bridge[b].stream = "closed" /\ CopyDesktopStream(b))
    /\ WF_vars(SendFails(b)) /\ WF_vars(WriteFails(b)) /\ WF_vars(Resize(b))
    /\ SF_vars(SelectDone(b)) /\ SF_vars(SelectTick(b)) /\ WF_vars(UserForSession(b))
    /\ WF_vars(Closing(b)) /\ WF_vars(LifetimeEnds(b))

Spec == Init /\ [][Next]_vars /\ Fairness

-----------------------------------------------------------------------------
(* A transport is closed with its shell still running only after the       *)
(* clean-up of that shell failed (terminal.Close, openShell), and no shell *)
(* goes unattended.                                                        *)
ShellsAreStopped == \A b \in Bridge :
    /\ At(b, "done") \/ bridge[b].stream = "closed"
    /\ bridge[b].process = "running"
    => bridge[b].left

(* A handler that is done has recorded the end of a session exactly when   *)
(* it had recorded its begin, whichever way it left.                       *)
SessionsBalance == \A b \in Bridge :
    /\ bridge[b].ended <= bridge[b].begun
    /\ At(b, "done") => bridge[b].ended = bridge[b].begun

(* No goroutine outlives its handler for good. *)
ReadersEnd == \A b \in Bridge : At(b, "done") ~> ~Running(b)

Over(b) == bridge[b].over \/ ~bridge[b].session
(* A desktop ends after its hour and after its session is revoked, however *)
(* its ends behave; so does a terminal, unless a write to its shell blocks *)
(* for good.                                                               *)
BridgesEnd ==
    /\ \A b \in Desktop : Over(b) /\ ~At(b, "unopened") ~> At(b, "done")
    /\ \A b \in Terminal : \/ <>[]At(b, "write")
                           \/ Over(b) /\ ~At(b, "unopened") ~> At(b, "done")

(* What the architecture says: a terminal has a maximum lifetime. *)
TerminalsEnd == \A b \in Terminal : bridge[b].over ~> At(b, "done")

=============================================================================
