------------------------------- MODULE MCWatch -------------------------------
(* Watch for TLC: a key watched alone and with another by their prefix. *)
EXTENDS Watch

CONSTANTS k1, k2

MCKey     == {k1, k2}
MCPattern == {{k1}, {k1, k2}}
=============================================================================
