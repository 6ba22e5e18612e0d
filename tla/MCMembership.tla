---------------------------- MODULE MCMembership ----------------------------
(* Membership for TLC: the requests are interchangeable. *)
EXTENDS Membership, TLC

Symmetry == Permutations(Client)
=============================================================================
