----------------------------- MODULE EmailOutbox -----------------------------
(***************************************************************************)
(* The email outbox: one goroutine (runNotificationLoop) queues lifecycle  *)
(* warnings and delivers what is pending, while starts, stops, sessions    *)
(* and deletions move the deadlines, cancel mail and queue notices.        *)
(*                                                                         *)
(* One workspace.  A body names the deadline, or the deletion, it speaks   *)
(* of: statements are numbered in the order they become true.  Its owner   *)
(* keeps one address.  Time enters as choices: a warning's lead time has   *)
(* come or not, a retry is due or not.  The batch limit of 50 is above the *)
(* number of messages.                                                     *)
(***************************************************************************)
EXTENDS Naturals

CONSTANTS
    Letter,         \* one-shot messages: password reset, invitation, welcome
    MaxAttempts,    \* maxDeliveryAttempts
    MaxStatement,   \* bound: deadlines and deletions there will ever be
    MaxRestart      \* bound: how often the process dies

ASSUME OutboxAssumption ==
    /\ MaxAttempts \in Nat \ {0} /\ MaxStatement \in Nat /\ MaxRestart \in Nat
    /\ Letter \cap {"stop", "delete", "notice"} = {}

VARIABLES
    ws,         \* what EvaluateTimeouts reads of the workspace
    disabled,   \* the owner's account is disabled
    deletion,   \* the deletion under way: RunTimeouts or DeleteWorkspace
    mail,       \* mail[k]: the row with dedupe key k, or of one-shot message k
    pass,       \* where the notification goroutine is
    sends,      \* sends[k][n]: how often statement n of k was sent without an error
    tries,      \* tries[k][n]: how often it was handed to the relay
    restarts    \* how often the process has died

everything == <<ws, disabled, deletion, mail, pass, sends, tries, restarts>>
lifecycle == <<ws, disabled, deletion>>
relay == <<sends, tries, restarts>>

Warning == {"stop", "delete"}
Key == Warning \cup {"notice"} \cup Letter
Statement == 0..MaxStatement

Mail == [status : {"none", "pending", "sent", "canceled"}, body : Statement,
         attempts : 0..(MaxAttempts + MaxRestart), due : BOOLEAN]
NoMail == [status |-> "none", body |-> 0, attempts |-> 0, due |-> FALSE]

Evaluated == [state : {"connected", "idle", "stopped", "removed", "gone"},
              deadline : Statement, removed : BOOLEAN]

Pass == [step : {"idle", "warn", "lookUp", "queue", "list", "next", "cancel", "send",
                 "sent", "failed", "giveUp"},
         seen : Evaluated, todo : SUBSET Key, held : [Key -> Mail], key : Key]
IdlePass == [step |-> "idle", seen |-> [state |-> "gone", deadline |-> 0, removed |-> FALSE],
             todo |-> {}, held |-> [k \in Key |-> NoMail], key |-> "stop"]

OutboxTypeOK ==
    /\ ws \in Evaluated /\ disabled \in BOOLEAN
    /\ deletion \in [step : {"none", "cancel", "record", "lookUp", "notice"},
                     by : {"timeout", "owner", "administrator"}, number : Statement]
    /\ mail \in [Key -> Mail]
    /\ pass \in Pass
    /\ sends \in [Key -> [Statement -> Nat]] /\ tries \in [Key -> [Statement -> Nat]]
    /\ restarts \in 0..MaxRestart

(* The last number given out. *)
Latest == IF deletion.number > ws.deadline THEN deletion.number ELSE ws.deadline

(* A workspace that was made, started or stopped before any mail was due.  *)
OutboxInit ==
    /\ \E state \in {"removed", "idle", "stopped"} :
          ws = [state |-> state, deadline |-> 0, removed |-> FALSE]
    /\ disabled = FALSE
    /\ deletion = [step |-> "none", by |-> "owner", number |-> 0]
    /\ mail = [k \in Key |-> NoMail]
    /\ pass = IdlePass
    /\ sends = [k \in Key |-> [n \in Statement |-> 0]]
    /\ tries = [k \in Key |-> [n \in Statement |-> 0]]
    /\ restarts = 0

-----------------------------------------------------------------------------
(* UpsertEmailMessage *)

(* A slip: a repeated message is always queued again. *)
UpsertAgain(k, body) ==
    mail' = [mail EXCEPT ![k] = [status |-> "pending", body |-> body, attempts |-> 0, due |-> TRUE]]

(* A changed body resets the delivery state, the same body leaves it alone. *)
Upsert(k, body) ==
    mail' = IF mail[k].status = "none" \/ mail[k].body # body
               THEN [mail EXCEPT ![k] =
                       [status |-> "pending", body |-> body, attempts |-> 0, due |-> TRUE]]
               ELSE mail

(* CancelEmailMessagesForWorkspace *)
SweptClean ==
    [k \in Key |-> IF k \notin Letter /\ mail[k].status = "pending"
                      THEN [mail[k] EXCEPT !.status = "canceled"] ELSE mail[k]]

-----------------------------------------------------------------------------
(* What happens to the workspace and its owner *)

(* Every start, disconnection and stop sets a new deadline. *)
Live(state) ==
    /\ deletion.step = "none" /\ Latest < MaxStatement
    /\ ws' = [ws EXCEPT !.state = state, !.deadline = Latest + 1]
    /\ UNCHANGED <<disabled, deletion, mail, pass, relay>>

StartWorkspace == ws.state \in {"removed", "stopped"} /\ Live("idle")
Disconnect == ws.state = "connected" /\ Live("idle")
StopWorkspace == ws.state \in {"idle", "connected"} /\ Live("stopped")

Connect ==
    /\ ws.state = "idle"
    /\ ws' = [ws EXCEPT !.state = "connected"]
    /\ UNCHANGED <<disabled, deletion, mail, pass, relay>>

SetUserDisabled ==
    /\ disabled' = ~disabled
    /\ UNCHANGED <<ws, deletion, mail, pass, relay>>

(* container_deleted_at is set by the first timeout deletion, for good. *)
Phase(w) ==
    CASE w.state = "stopped" /\ ~w.removed -> "delete"
      [] w.state = "idle" -> "stop"
      [] OTHER -> "none"

(* The container is removed; what follows concerns the mail. *)
BeginDeletion(by) ==
    /\ deletion.step = "none" /\ Latest < MaxStatement
    /\ IF by = "timeout" THEN Phase(ws) = "delete" ELSE ws.state \in {"stopped", "removed"}
    /\ deletion' = [step |-> "cancel", by |-> by, number |-> Latest + 1]
    /\ UNCHANGED <<ws, disabled, mail, pass, relay>>

CancelPending ==
    /\ deletion.step = "cancel"
    /\ mail' = SweptClean
    /\ deletion' = [deletion EXCEPT !.step = "record"]
    /\ UNCHANGED <<ws, disabled, pass, relay>>

(* The container, or the workspace, is recorded as deleted.  An owner who  *)
(* deletes a workspace gets no notice.                                     *)
RecordDeletion ==
    /\ deletion.step = "record"
    /\ ws' = IF deletion.by = "timeout" THEN [ws EXCEPT !.state = "removed", !.removed = TRUE]
                                        ELSE [ws EXCEPT !.state = "gone"]
    /\ deletion' = [deletion EXCEPT !.step = IF deletion.by = "owner" THEN "none" ELSE "lookUp"]
    /\ UNCHANGED <<disabled, mail, pass, relay>>

(* enqueueDeletionNotice *)
LookUpForNotice ==
    /\ deletion.step = "lookUp"
    /\ deletion' = [deletion EXCEPT !.step = IF disabled THEN "none" ELSE "notice"]
    /\ UNCHANGED <<ws, disabled, mail, pass, relay>>

(* A slip: the workspace's pending mail is canceled last. *)
QueueNoticeEarly ==
    /\ deletion.step = "notice"
    /\ mail' = [SweptClean EXCEPT !["notice"] =
                  [status |-> "canceled", body |-> deletion.number, attempts |-> 0, due |-> TRUE]]
    /\ deletion' = [deletion EXCEPT !.step = "none"]
    /\ UNCHANGED <<ws, disabled, pass, relay>>

QueueNotice ==
    /\ deletion.step = "notice"
    /\ Upsert("notice", deletion.number)
    /\ deletion' = [deletion EXCEPT !.step = "none"]
    /\ UNCHANGED <<ws, disabled, pass, relay>>

(* EnqueuePasswordReset, EnqueueInvitation, EnqueueWelcome *)
QueueLetter(k) ==
    /\ k \in Letter /\ mail[k].status = "none"
    /\ Upsert(k, 0)
    /\ UNCHANGED <<lifecycle, pass, relay>>

(* The time of the next attempt comes. *)
RetryDue(k) ==
    /\ mail[k].status = "pending" /\ ~mail[k].due
    /\ mail' = [mail EXCEPT ![k].due = TRUE]
    /\ UNCHANGED <<lifecycle, pass, relay>>

Surroundings ==
    \/ StartWorkspace \/ Connect \/ Disconnect \/ StopWorkspace \/ SetUserDisabled
    \/ \E by \in {"timeout", "owner", "administrator"} : BeginDeletion(by)
    \/ CancelPending \/ RecordDeletion \/ LookUpForNotice \/ QueueNotice
    \/ \E k \in Letter : QueueLetter(k)

-----------------------------------------------------------------------------
(* EnqueueTimeoutWarnings *)

Go(step) == pass' = [pass EXCEPT !.step = step]

ListForWarnings ==
    /\ pass.step = "idle"
    /\ pass' = [pass EXCEPT !.step = "warn", !.seen = ws]
    /\ UNCHANGED <<lifecycle, mail, relay>>

(* The deadline may be past, or further away than the lead time. *)
CheckLead ==
    /\ pass.step = "warn"
    /\ Go("list") \/ (Phase(pass.seen) # "none" /\ Go("lookUp"))
    /\ UNCHANGED <<lifecycle, mail, relay>>

LookUpOwner ==
    /\ pass.step = "lookUp"
    /\ Go(IF disabled THEN "list" ELSE "queue")
    /\ UNCHANGED <<lifecycle, mail, relay>>

QueueWarning ==
    /\ pass.step = "queue"
    /\ Upsert(Phase(pass.seen), pass.seen.deadline)
    /\ Go("list")
    /\ UNCHANGED <<lifecycle, relay>>

-----------------------------------------------------------------------------
(* Deliver *)

Pending == {k \in Key : mail[k].status = "pending" /\ mail[k].due}

ListPending ==
    /\ pass.step = "list"
    /\ pass' = IF Pending = {} THEN IdlePass
               ELSE [IdlePass EXCEPT !.step = "next", !.todo = Pending,
                       !.held = [k \in Key |-> IF k \in Pending THEN mail[k] ELSE NoMail]]
    /\ UNCHANGED <<lifecycle, mail, relay>>

(* messageIsCurrent *)
Current(k) == k \in Warning => ws.state # "gone" /\ ~disabled /\ Phase(ws) = k

CheckCurrent(k) ==
    /\ pass.step = "next" /\ k \in pass.todo
    /\ pass' = [pass EXCEPT !.key = k, !.todo = @ \ {k},
                            !.step = IF Current(k) THEN "send" ELSE "cancel"]
    /\ UNCHANGED <<lifecycle, mail, relay>>

(* The message in hand is done with; the pass goes on, or is over. *)
Done ==
    pass' = IF pass.todo = {} THEN IdlePass
            ELSE [pass EXCEPT !.step = "next", !.held[pass.key] = NoMail, !.key = "stop"]

(* A slip: what is not current is passed over. *)
CancelNothing ==
    /\ pass.step \in {"cancel", "giveUp"}
    /\ Done
    /\ UNCHANGED <<lifecycle, mail, relay>>

(* MarkEmailMessageCanceled; a row that is not pending is left alone. *)
Cancel ==
    /\ pass.step \in {"cancel", "giveUp"}
    /\ mail' = IF mail[pass.key].status = "pending"
                  THEN [mail EXCEPT ![pass.key].status = "canceled"] ELSE mail
    /\ Done
    /\ UNCHANGED <<lifecycle, relay>>

Held == pass.held[pass.key]
Plus(count) == [count EXCEPT ![pass.key][Held.body] = @ + 1]

(* Send returns without an error, or with one: the relay has refused, or   *)
(* it has accepted and the end of the dialogue failed, which nobody can    *)
(* tell from a refusal.  It is taken to return (see README).               *)
Accept ==
    /\ pass.step = "send"
    /\ sends' = Plus(sends) /\ tries' = Plus(tries)
    /\ Go("sent")
    /\ UNCHANGED <<lifecycle, mail, restarts>>

Refuse ==
    /\ pass.step = "send"
    /\ tries' = Plus(tries)
    /\ Go("failed")
    /\ UNCHANGED <<lifecycle, mail, sends, restarts>>

(* MarkEmailMessageSent.  A row that was canceled meanwhile ends the pass. *)
MarkSent ==
    /\ pass.step = "sent"
    /\ IF mail[pass.key].status = "pending"
          THEN mail' = [mail EXCEPT ![pass.key].status = "sent"] /\ Done
          ELSE pass' = IdlePass /\ UNCHANGED mail
    /\ UNCHANGED <<lifecycle, relay>>

(* MarkEmailMessageFailed: attempts as it was listed, and one more. *)
MarkFailed ==
    /\ pass.step = "failed"
    /\ IF mail[pass.key].status = "pending"
          THEN /\ mail' = [mail EXCEPT ![pass.key].attempts = Held.attempts + 1,
                                       ![pass.key].due = FALSE]
               /\ IF Held.attempts + 1 >= MaxAttempts THEN Go("giveUp") ELSE Done
          ELSE pass' = IdlePass /\ UNCHANGED mail
    /\ UNCHANGED <<lifecycle, relay>>

Answer == Accept \/ Refuse

Worker ==
    \/ ListForWarnings \/ CheckLead \/ LookUpOwner \/ QueueWarning
    \/ ListPending \/ (\E k \in Key : CheckCurrent(k)) \/ Cancel
    \/ Answer \/ MarkSent \/ MarkFailed

(* The process dies; a deletion it was in is not resumed. *)
Restart ==
    /\ restarts < MaxRestart
    /\ restarts' = restarts + 1
    /\ pass' = IdlePass
    /\ deletion' = [deletion EXCEPT !.step = "none"]
    /\ UNCHANGED <<ws, disabled, mail, sends, tries>>

OutboxNext == Surroundings \/ (\E k \in Key : RetryDue(k)) \/ Worker \/ Restart

OutboxSpec == OutboxInit /\ [][OutboxNext]_everything

(* The loop comes back every minute, a retry becomes due, the relay        *)
(* answers one way or the other.                                           *)
Fairness == WF_everything(Worker) /\ \A k \in Key : WF_everything(RetryDue(k))

FairSpec == OutboxSpec /\ Fairness

-----------------------------------------------------------------------------

(* ADR 0015: "Duplicate delivery is possible around a process crash".      *)
(* What was sent without an error is otherwise not sent again: each crash  *)
(* costs at most one more delivery, and re-enqueueing an identical warning *)
(* does not resend it (ADR 0027).                                          *)
DeliveredOnce ==
    \A k \in Key, n \in Statement : sends[k][n] <= 1 + restarts

(* The retries of one message are bounded by maxDeliveryAttempts, however  *)
(* often it is enqueued, listed and canceled meanwhile; a crash costs at   *)
(* most one more.                                                          *)
AttemptsBounded ==
    \A k \in Key, n \in Statement : tries[k][n] <= MaxAttempts + restarts

(* A warning or letter marked as sent is one the relay has accepted, in    *)
(* the words that stand in the row.                                        *)
SentMeansDelivered ==
    \A k \in Key \ {"notice"} : mail[k].status = "sent" => sends[k][mail[k].body] > 0

(* What the outbox counts is what the relay saw. *)
OutboxIsTrue == DeliveredOnce /\ AttemptsBounded /\ SentMeansDelivered

(* ADR 0027: the notice of a deletion is queued after the cancellation     *)
(* that clears the workspace's pending mail: a deletion that was not       *)
(* interrupted cancels no notice of its own.  A notice that was canceled   *)
(* untried is one of an earlier deletion, or it took the row of an earlier *)
(* notice while Deliver gave that one up (MarkEmailMessageFailed and       *)
(* MarkEmailMessageCanceled go by the row, not by what it says).           *)
NoticeSurvivesSweep ==
    mail["notice"].status = "canceled" /\ mail["notice"].attempts = 0
        => \/ mail["notice"].body < deletion.number
           \/ \E n \in Statement :
                 n < mail["notice"].body /\ tries["notice"][n] >= MaxAttempts

(* Whatever is queued is sent or given up in the end. *)
MailSettles ==
    \A k \in Key : mail[k].status = "pending" ~> mail[k].status # "pending"

(* messageIsCurrent: "so a warning is not delivered after the deadline it  *)
(* describes has moved".                                                   *)
WarningNamesDeadline ==
    [][\A k \in Warning :
          CheckCurrent(k) /\ pass'.step = "send" => pass.held[k].body = ws.deadline]_everything

=============================================================================
