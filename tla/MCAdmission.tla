---------------------------- MODULE MCAdmission ----------------------------
(***************************************************************************)
(* Admission in two scenes, which together stay small.  "limits": two      *)
(* workspaces that contend for their owner's limits and the host, with one *)
(* container each and every reservation of ports made in full.  "ports":   *)
(* one workspace with two containers one after the other, whose            *)
(* reservations may fail or be left at any point, and no change of the     *)
(* limits.                                                                 *)
(***************************************************************************)
EXTENDS Admission

VARIABLE scene

MCInit == Init /\ scene \in {"limits", "ports"}

Used(w) == Present(w) \/ made[w] > 0 \/ \E p \in Request : task[p].ws = w

SceneAllows ==
    CASE scene = "limits" ->
            /\ \A w \in Workspace : made'[w] <= 1
            /\ \A p \in Request :
                  task[p].at = "reserve" /\ Unreserved(task[p].ws) # {} => task'[p].at = "reserve"
      [] scene = "ports" -> changes' = 0 /\ Cardinality({w \in Workspace : Used(w)'}) <= 1

MCSpec == MCInit /\ [][Next /\ SceneAllows /\ UNCHANGED scene]_<<vars, scene>>

=============================================================================
