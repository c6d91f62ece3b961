------------------------------- MODULE MCIdle -------------------------------
(***************************************************************************)
(* IdleTimeouts in three scenes, which together stay small: two sessions   *)
(* and every failure, without reconciliation; reconciliation and every     *)
(* failure, without sessions; one session and reconciliation, no run       *)
(* losing anything.                                                        *)
(***************************************************************************)
EXTENDS IdleTimeouts

VARIABLE scene

MCInit == Init /\ scene \in {"sessions", "reconciliation", "both"}

SceneAllows ==
    CASE scene = "sessions" -> \A r \in Reconciler : look'[r].step = "none"
      [] scene = "reconciliation" -> \A s \in Session : session'[s].step = "closed"
      [] scene = "both" ->
            /\ lost' = "nothing"
            /\ Cardinality({s \in Session : session'[s].step # "closed"}) <= 1

MCNext == Next /\ SceneAllows /\ UNCHANGED scene

(* Nothing else that fairness asks for is ever barred by the scene. *)
MCSpec ==
    /\ MCInit /\ [][MCNext]_<<vars, scene>>
    /\ OwnFairness
    /\ \A r \in Reconciler : WF_vars(scene # "sessions" /\ Reconcile(r))

=============================================================================
