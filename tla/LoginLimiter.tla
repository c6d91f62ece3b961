---------------------------- MODULE LoginLimiter ----------------------------
(***************************************************************************)
(* The table of failed logins (LoginLimiter) and the handlers that use it: *)
(* loginPost asks whether a source may try, verifies the password without  *)
(* holding anything, and reports what came of it; registerPost does the    *)
(* same with a table of its own, and passwordResetRequestPost counts every *)
(* request as a failure, under a key of its own.                           *)
(***************************************************************************)
EXTENDS Naturals, FiniteSets

CONSTANTS
    Source,                \* keys of the table
    Resets,                \* those of password reset requests
    Login,                 \* requests in flight, each name used over and over
    MaxFailures, Window,   \* limit, and how many ticks of the clock it counts over
    MaxTracked,            \* maxTrackedLoginSources
    None

LimiterAssumption ==
    /\ Resets \subseteq Source /\ None \notin Source
    /\ {MaxFailures, Window, MaxTracked} \subseteq Nat \ {0}
    /\ IsFiniteSet(Login) /\ IsFiniteSet(Source)

VARIABLES
    entries,               \* failures and age of each source; none without a failure
    login                  \* the source whose password a request verifies

vars == <<entries, login>>

NoEntry == [failures |-> 0, age |-> 0]
Tracked == {s \in Source : entries[s] # NoEntry}

(* currentEntry: an entry whose window has passed is none, and is dropped. *)
Current(s) == IF entries[s].age < Window THEN entries[s] ELSE NoEntry

(* An entry has failures, and a request verifies at most one password. *)
TypeOK ==
    /\ entries \in [Source -> [failures : Nat, age : 0..Window]]
    /\ login \in [Login -> Source \cup {None}]

Init ==
    /\ entries = [s \in Source |-> NoEntry]
    /\ login = [l \in Login |-> None]

(* A slip: one more than the limit. *)
AllowAtLimit(l, s) ==
    /\ login[l] = None
    /\ entries' = [entries EXCEPT ![s] = Current(s)]
    /\ login' = [login EXCEPT ![l] = IF Current(s).failures <= MaxFailures THEN s ELSE None]

(* A slip: a refused attempt starts the window anew. *)
AllowAndRestart(l, s) ==
    /\ login[l] = None
    /\ entries' = [entries EXCEPT ![s] =
          IF Current(s).failures < MaxFailures THEN Current(s) ELSE [@ EXCEPT !.age = 0]]
    /\ login' = [login EXCEPT ![l] = IF Current(s).failures < MaxFailures THEN s ELSE None]

(* Allow, and RetryAfter of a refusal, which looks again and changes no    *)
(* more.                                                                   *)
Allow(l, s) ==
    /\ login[l] = None
    /\ entries' = [entries EXCEPT ![s] = Current(s)]
    /\ login' = [login EXCEPT ![l] = IF Current(s).failures < MaxFailures THEN s ELSE None]

(* A slip: room is made once the table has passed its limit. *)
RemovedLate(s) ==
    IF Current(s) = NoEntry /\ Cardinality(Tracked \ {s}) > MaxTracked
    THEN {{old} : old \in Tracked \ {s}} ELSE {{}}

(* removeOldest, when the table is full of others. *)
Removed(s) ==
    IF Current(s) = NoEntry /\ Cardinality(Tracked \ {s}) >= MaxTracked
    THEN {{old} : old \in {o \in Tracked \ {s} :
                             \A other \in Tracked \ {s} : entries[other].age <= entries[o].age}}
    ELSE {{}}

(* The window of a source starts with its first failure. *)
Failure(l) ==
    LET s == login[l] IN
    /\ s # None
    /\ \E gone \in Removed(s) :
          entries' = [t \in Source |->
                        IF t = s THEN [Current(s) EXCEPT !.failures = @ + 1]
                        ELSE IF t \in gone THEN NoEntry ELSE entries[t]]
    /\ login' = [login EXCEPT ![l] = None]

(* A slip: a success takes one failure back. *)
SuccessForOne(l) ==
    /\ login[l] \notin Resets \cup {None}
    /\ entries' = [entries EXCEPT ![login[l]].failures = @ - 1]
    /\ login' = [login EXCEPT ![l] = None]

Success(l) ==
    /\ login[l] \notin Resets \cup {None}
    /\ entries' = [entries EXCEPT ![login[l]] = NoEntry]
    /\ login' = [login EXCEPT ![l] = None]

Tick ==
    /\ \E s \in Tracked : entries[s].age < Window
    /\ entries' = [s \in Source |->
                     IF s \in Tracked /\ entries[s].age < Window
                     THEN [entries[s] EXCEPT !.age = @ + 1] ELSE entries[s]]
    /\ UNCHANGED login

Next ==
    \/ \E l \in Login : Failure(l) \/ Success(l) \/ \E s \in Source : Allow(l, s)
    \/ Tick

(* Time passes. *)
Fairness == WF_vars(Tick)

Spec == Init /\ [][Next]_vars /\ Fairness

-----------------------------------------------------------------------------
(* Requests that were admitted together may all fail: a source gets past   *)
(* the limit by as many as were in flight, the last one apart, and by no   *)
(* more, however long the requests take.                                   *)
FailuresBounded == \A s \in Source :
    entries[s].failures < MaxFailures + Cardinality(Login)

(* The table never tracks more sources than its limit. *)
TrackedBounded == Cardinality(Tracked) <= MaxTracked

(* A source that is refused is admitted again, whatever it tries and       *)
(* whatever requests of it are still in flight.                            *)
Refused(s) == Current(s).failures >= MaxFailures
RefusalEnds == \A s \in Source : Refused(s) ~> ~Refused(s)

=============================================================================
