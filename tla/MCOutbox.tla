------------------------------ MODULE MCOutbox ------------------------------
(***************************************************************************)
(* The outbox, for TLC: a workspace from its making on, whose owner is     *)
(* also written to; and a workspace that is there already, and may be      *)
(* deleted twice, whose owner gets no letters.                             *)
(***************************************************************************)
EXTENDS EmailOutbox

VARIABLE writes    \* letters are written in this behaviour

MCInit == OutboxInit /\ writes = (ws.state = "removed") /\ ws.state # "idle"

MCNext ==
    \/ Surroundings /\ (writes \/ \A k \in Letter : mail'[k] = mail[k]) /\ UNCHANGED writes
    \/ (\E k \in Key : RetryDue(k)) /\ UNCHANGED writes
    \/ Worker /\ UNCHANGED writes
    \/ Restart /\ UNCHANGED writes

MCSpec == MCInit /\ [][MCNext]_<<everything, writes>> /\ Fairness

=============================================================================
