--------------------------- MODULE StorageCustody ---------------------------
(***************************************************************************)
(* What COWS promises about the directories of its workspaces (decisions   *)
(* 0022 and 0025), without saying how: in whose hands each piece of data   *)
(* is.  Data in a workspace leaves it only into retention; retained data   *)
(* is claimed by one creation or discarded; a creation that fails may lose *)
(* track of what it claimed, but only a discard destroys it.  What the     *)
(* container of a creation writes before that has ended is tentative: a    *)
(* failure may take it along.                                              *)
(***************************************************************************)
CONSTANT Piece      \* the data of one mount of one workspace

VARIABLE custody

State == {"unwritten", "tentative", "held", "retained", "claimed", "adrift", "discarded"}

TypeOK == custody \in [Piece -> State]

Init == custody = [p \in Piece |-> "unwritten"]

(* Some pieces change hands together, all from and to hands of one kind. *)
Moves(from, to) ==
    \A p \in Piece : custody'[p] # custody[p] => custody[p] \in from /\ custody'[p] \in to

Write == Moves({"unwritten"}, {"held", "tentative"})

Delete == Moves({"held"}, {"retained"})

Claim == Moves({"retained"}, {"claimed"})

(* The creation is over: its workspace has the data, or nobody, or some of *)
(* it is here and some there, when it stopped half-way.                    *)
Settle == Moves({"claimed", "tentative"}, {"held", "adrift"})

Fail == Moves({"tentative"}, {"discarded"})

(* The owner's or an administrator's wish, which a creation may overtake. *)
Discard == Moves({"retained", "claimed", "adrift"}, {"discarded"})

Next ==
    /\ custody' \in [Piece -> State]
    /\ Write \/ Delete \/ Claim \/ Settle \/ Fail \/ Discard

Spec == Init /\ [][Next]_custody
=============================================================================
