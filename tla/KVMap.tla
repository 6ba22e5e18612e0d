------------------------------- MODULE KVMap -------------------------------
(***************************************************************************)
(* What the key-value store promises: a map whose every change, a deletion *)
(* of an absent key included, takes the next revision, and which remembers *)
(* for each key the revision that wrote it.  How long histories are kept   *)
(* cannot be seen here: compaction is a stuttering step.                   *)
(***************************************************************************)
EXTENDS Naturals

CONSTANTS Key, Value, NoValue, MaxRevision

VARIABLES
    revision,   \* of the next change
    map         \* value and mod_revision of every key

Absent == [value |-> NoValue, mod_revision |-> 0]

Init == revision = 1 /\ map = [k \in Key |-> Absent]

Put(k, v) ==
    /\ revision <= MaxRevision
    /\ map' = [map EXCEPT ![k] = [value |-> v, mod_revision |-> revision]]
    /\ revision' = revision + 1

Delete(k) ==
    /\ revision <= MaxRevision
    /\ map' = [map EXCEPT ![k] = Absent]
    /\ revision' = revision + 1

Next == \E k \in Key : Delete(k) \/ \E v \in Value : Put(k, v)

Spec == Init /\ [][Next]_<<revision, map>>
=============================================================================
