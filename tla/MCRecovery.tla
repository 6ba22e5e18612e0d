----------------------------- MODULE MCRecovery -----------------------------
(* Recovery for TLC; FairSpec and Spec need no more than values for the constants. *)
EXTENDS Recovery

CONSTANT v   \* a model value
=============================================================================
