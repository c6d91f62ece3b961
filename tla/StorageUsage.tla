---------------------------- MODULE StorageUsage ----------------------------
(***************************************************************************)
(* The cache of measured storage usage (StorageUsageProvider), which the   *)
(* pages and the admission of a create share: a call answers from a fresh  *)
(* entry, waits for another call that is measuring the same, or measures   *)
(* itself, outside the mutex.                                              *)
(*                                                                         *)
(* A fingerprint is what a call has read from the row of its workspace     *)
(* (container and observed state), which may have changed since: a call    *)
(* starts with any.  How much is used is left out: what a measurement says *)
(* is of the fingerprint it was asked for.                                 *)
(***************************************************************************)
EXTENDS Naturals, FiniteSets

CONSTANTS
    Workspace, Fingerprint, Caller,
    MaxCache,              \* maxStorageUsageCache
    None

UsageAssumption ==
    /\ MaxCache \in Nat /\ IsFiniteSet(Caller)
    /\ None \notin Caller \cup Fingerprint

VARIABLES
    cache,                 \* the entry of each workspace that has one
    call                   \* what each caller is at

vars == <<cache, call>>

(* How a measurement ends: with a size, with a failure of the runtime, or  *)
(* by the end of a context, which the adapter passes on as it is           *)
(* ("canceled") or formats into a failure of the runtime ("hidden").       *)
Outcome == {"ok", "failed", "hidden", "canceled"}

(* `by` is the call that is measuring; `age` is 0 while even a failure is  *)
(* fresh (5 s), 1 while a measurement is (30 s).                           *)
Entry == [by : Caller \cup {None}, print : Fingerprint,
          result : Outcome, age : 0..2]
NoEntry == [by |-> None, print |-> None, result |-> "none", age |-> 0]

(* `leader` is the call whose measurement is waited for; `displaced` tells *)
(* that the entry of a measurement has been replaced.                      *)
Idle == [at |-> "idle", ws |-> None, print |-> None, leader |-> None, displaced |-> FALSE]

Call == [at : {"look", "wait", "measure"}, ws : Workspace, print : Fingerprint,
         leader : Caller \cup {None}, displaced : BOOLEAN]

TypeOK ==
    /\ cache \in [Workspace -> Entry \cup {NoEntry}]
    /\ call \in [Caller -> Call \cup {Idle}]
    /\ \A c \in Caller : call[c].leader # None <=> call[c].at = "wait"

Init ==
    /\ cache = [w \in Workspace |-> NoEntry]
    /\ call = [c \in Caller |-> Idle]

Cached == {w \in Workspace : cache[w] # NoEntry}
Measuring(entry) == entry.by # None
Finished == {w \in Cached : ~Measuring(cache[w])}
Fresh(entry) == IF entry.result = "ok" THEN entry.age < 2 ELSE entry.age < 1

-----------------------------------------------------------------------------
(* WorkspaceStorageUsage, with the row its caller has read before. *)
Ask(c, w, print) ==
    /\ call[c] = Idle
    /\ call' = [call EXCEPT ![c].at = "look", ![c].ws = w, ![c].print = print]
    /\ UNCHANGED cache

Found(c) == cache[call[c].ws].print = call[c].print

(* Fresh: the call returns what the entry says. *)
Answer(c) ==
    LET entry == cache[call[c].ws] IN
    /\ call[c].at = "look"
    /\ Found(c) /\ ~Measuring(entry) /\ Fresh(entry)
    /\ call' = [call EXCEPT ![c] = Idle]
    /\ UNCHANGED cache

Wait(c) ==
    LET entry == cache[call[c].ws] IN
    /\ call[c].at = "look"
    /\ Found(c) /\ Measuring(entry)
    /\ call' = [call EXCEPT ![c].at = "wait", ![c].leader = entry.by]
    /\ UNCHANGED cache

(* The caller's request ends while it waits. *)
WaitCanceled(c) ==
    /\ call[c].at = "wait"
    /\ call' = [call EXCEPT ![c] = Idle]
    /\ UNCHANGED cache

(* A slip: a full cache makes room only for a workspace it has. *)
NoEviction(w) == {{}}

(* The entries to drop for a new one: any one that is finished, if full. *)
Eviction(w) ==
    IF cache[w] = NoEntry /\ Cardinality(Cached) >= MaxCache /\ Finished # {}
    THEN {{victim} : victim \in Finished} ELSE {{}}

(* The entry that is replaced goes on being measured for its own callers. *)
Measure(c) ==
    LET w == call[c].ws
        entry == cache[w] IN
    /\ call[c].at = "look"
    /\ Found(c) => ~Measuring(entry) /\ ~Fresh(entry)
    /\ \E victims \in Eviction(w) :
          cache' = [v \in Workspace |->
                      IF v = w THEN [by |-> c, print |-> call[c].print, result |-> "ok", age |-> 0]
                      ELSE IF v \in victims THEN NoEntry ELSE cache[v]]
    /\ call' = [d \in Caller |->
                  IF d = c THEN [call[c] EXCEPT !.at = "measure"]
                  ELSE IF d = entry.by THEN [call[d] EXCEPT !.displaced = TRUE] ELSE call[d]]

(* A slip: a canceled measurement drops whatever entry its workspace has. *)
KeptByWorkspace(c, result) ==
    [cache EXCEPT ![call[c].ws] =
        IF result = "canceled" THEN NoEntry
        ELSE IF @.by = c THEN [@ EXCEPT !.by = None, !.result = result] ELSE @]

(* What a measurement leaves in the cache: nothing once it is replaced, or *)
(* when it tells that a context ended it.                                  *)
Kept(c, result) ==
    [cache EXCEPT ![call[c].ws] =
        IF @.by # c THEN @
        ELSE IF result = "canceled" THEN NoEntry
        ELSE [@ EXCEPT !.by = None, !.result = result]]

(* A slip: a measurement that was replaced wakes nobody. *)
WokenByEntry(c) == {d \in Caller : cache[call[c].ws].by = c /\ call[d].leader = c}

Woken(c) == {d \in Caller : call[d].leader = c}

(* The call returns what its measurement ended with. *)
Finish(c, result) ==
    /\ call[c].at = "measure"
    /\ cache' = Kept(c, result)
    /\ call' = [d \in Caller |->
                  IF d = c THEN Idle
                  ELSE IF d \in Woken(c) THEN [call[d] EXCEPT !.at = "look", !.leader = None]
                  ELSE call[d]]

-----------------------------------------------------------------------------
TimePasses(w) ==
    /\ w \in Finished /\ cache[w].age < 2
    /\ cache' = [cache EXCEPT ![w].age = @ + 1]
    /\ UNCHANGED call

Next ==
    \/ \E c \in Caller :
        \/ \E w \in Workspace, print \in Fingerprint : Ask(c, w, print)
        \/ Answer(c) \/ Wait(c) \/ WaitCanceled(c) \/ Measure(c)
        \/ \E result \in Outcome : Finish(c, result)
    \/ \E w \in Workspace : TimePasses(w)

Spec == Init /\ [][Next]_vars

-----------------------------------------------------------------------------
(* One client that leaves does not cancel the others: what ended because   *)
(* a context did is no answer for anyone but its own caller.  TLC refutes  *)
(* it: a hidden end stays in the entry, which answers whoever waited.      *)
CancellationIsOwn == \A w \in Workspace :
    cache[w] # NoEntry /\ ~Measuring(cache[w]) => cache[w].result \notin {"canceled", "hidden"}

(* The same is measured twice at a time only after a call for another      *)
(* state of the workspace came between.                                    *)
MeasuredOnce == \A c \in Caller : call[c].at = "measure" =>
    call[c].displaced \/ cache[call[c].ws].by = c

(* Entries that are being measured stay, so that the cache can grow past   *)
(* its limit, and it does not shrink again when they are finished: what    *)
(* bounds it is the limit or the number of calls there can be at a time,   *)
(* whichever is larger.                                                    *)
CacheBounded == Cardinality(Cached) <= MaxCache \/ Cardinality(Cached) <= Cardinality(Caller)

(* Whoever waits does so for a call that is measuring and will wake it,    *)
(* also when another entry has taken the place of the one it found.        *)
WaitersAreLed == \A c \in Caller : call[c].at = "wait" =>
    /\ call[c].leader # c
    /\ call[call[c].leader].at = "measure"
    /\ call[call[c].leader].ws = call[c].ws /\ call[call[c].leader].print = call[c].print

=============================================================================
