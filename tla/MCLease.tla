------------------------------- MODULE MCLease -------------------------------
(* Lease for TLC; FairSpec needs no more than values for the constants. *)
EXTENDS Lease
=============================================================================
