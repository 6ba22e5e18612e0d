------------------------------- MODULE MCRaft -------------------------------
(***************************************************************************)
(* Raft for TLC.  Nodes are numbers, because peers_ is visited in their    *)
(* order, so there is no symmetry to declare.                              *)
(***************************************************************************)
EXTENDS Raft

CONSTANTS v, w   \* model values for Value

(***************************************************************************)
(* The bounds can leave the cluster with nothing to do: every node waits   *)
(* as a follower, no request is on its way and no election timeout is      *)
(* left.  Only that is excused from the deadlock check.                    *)
(***************************************************************************)
AtBound ==
    /\ \A n \in Server : /\ state[n] = "Follower" /\ wpc[n] = "loop"
                         /\ hpc[n] = "idle" /\ cpc[n] = "idle"
                         /\ elections = MaxElections \/ current_term[n] >= MaxTerm
    /\ orphans = {}
    /\ UNCHANGED vars

MCSpec == Init /\ [][Next \/ AtBound]_vars
=============================================================================
