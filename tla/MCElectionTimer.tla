---------------------------- MODULE MCElectionTimer ----------------------------
(***************************************************************************)
(* ElectionTimer for TLC.                                                  *)
(***************************************************************************)
EXTENDS ElectionTimer

\* MaxTerm leaves a follower whose timeout is over without a step; only then may all stop.
AtBound ==
    /\ \E n \in up : wait[n] = "Follower" /\ left[n] = 0 /\ current_term[n] >= MaxTerm
    /\ UNCHANGED vars

MCSpec == Init /\ [][Next \/ AtBound]_vars
=============================================================================
