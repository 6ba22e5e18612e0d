------------------------------ MODULE MCKVStore ------------------------------
(* KVStore for TLC; its Spec needs no more than values for the constants. *)
EXTENDS KVStore

CONSTANTS v, w   \* model values for Value
=============================================================================
