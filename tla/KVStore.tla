------------------------------ MODULE KVStore ------------------------------
(***************************************************************************)
(* The store a node keeps its data in: KVStore (kvstore.cpp), which writes *)
(* every change twice, to the MVCC index and to the map of the Backend     *)
(* (backend.cpp), and reads from both.  KVStore::mu_ is held by each       *)
(* method, so each is one step.  Files, and what a start reads from them,  *)
(* are no part of this module.                                             *)
(***************************************************************************)
EXTENDS Mvcc

CONSTANT MaxRevision   \* bound: no write after this revision

ASSUME BoundAssumption == MaxRevision \in Nat

VARIABLES
    index,        \* MVCC::index_: the versions of every key
    current_rev,  \* MVCC::current_rev_, the next revision to hand out
    store,        \* Backend::store_
    past,         \* history: the live keys with their values after each revision
    compacted,    \* history: the largest argument of Compact so far
    changes       \* history: writes to a key since its KeyIndex was created

vars == <<index, current_rev, store, past, compacted, changes>>

Init ==
    /\ index = [k \in Key |-> <<>>]
    /\ current_rev = 1
    /\ store = [k \in Key |-> NoValue]
    /\ past = <<>>
    /\ compacted = 0
    /\ changes = [k \in Key |-> 0]

-----------------------------------------------------------------------------
(* Reads *)

\* Get: the value of the latest version comes from the Backend if that has the key.
Get(k, at_rev) ==
    IF at_rev = 0 /\ Found(index[k], 0) # {} /\ store[k] # NoValue THEN store[k]
    ELSE ValueAt(index[k], at_rev)

InRange(start, end, at_rev) ==
    {k \in Key : start <= k /\ k < end /\ Found(index[k], at_rev) # {}}

\* Range: the keys it returns, limit = 0 for no limit, and the value of each.
RangeKeys(start, end, at_rev, limit) ==
    {k \in InRange(start, end, at_rev) :
        limit = 0 \/ Cardinality({j \in InRange(start, end, at_rev) : j < k}) < limit}

RangeValue(k, at_rev) == IF store[k] # NoValue THEN store[k] ELSE ValueAt(index[k], at_rev)

-----------------------------------------------------------------------------
(* Writes *)

\* AllocateRevision, and what the history variables make of the change.
Record(k, value) ==
    /\ current_rev <= MaxRevision
    /\ current_rev' = current_rev + 1
    /\ past' = Append(past, [j \in Key |-> IF j = k THEN value ELSE Get(j, 0)])
    /\ changes' = [changes EXCEPT ![k] = @ + 1]
    /\ UNCHANGED compacted

\* Put and PutWithPrev, which differ in what they return.
Put(k, value) ==
    /\ Record(k, value)
    /\ index' = [index EXCEPT ![k] = AddVersion(@, current_rev, value)]
    /\ store' = [store EXCEPT ![k] = value]

\* Mutant: only the Backend forgets the key.
MutantDeleteHalf(k) ==
    /\ Record(k, NoValue)
    /\ store' = [store EXCEPT ![k] = NoValue]
    /\ UNCHANGED index

\* A deletion is recorded whether or not the key exists.
Delete(k) ==
    /\ Record(k, NoValue)
    /\ index' = [index EXCEPT ![k] = AddVersion(@, current_rev, NoValue)]
    /\ store' = [store EXCEPT ![k] = NoValue]

Compact(rev) ==
    /\ index' = [k \in Key |-> CompactKey(index[k], rev)]
    /\ changes' = [k \in Key |-> IF index'[k] = <<>> THEN 0 ELSE changes[k]]
    /\ compacted' = IF rev > compacted THEN rev ELSE compacted
    /\ UNCHANGED <<current_rev, store, past>>

Next ==
    \/ \E k \in Key : Delete(k) \/ \E v \in Value : Put(k, v)
    \/ \E rev \in 1 .. current_rev : Compact(rev)

Spec == Init /\ [][Next]_vars

-----------------------------------------------------------------------------
TypeOK ==
    /\ index \in [Key -> Seq(MvccVersion)]
    /\ current_rev \in Revision \ {0}
    /\ store \in [Key -> Value \cup {NoValue}]
    /\ past \in Seq([Key -> Value \cup {NoValue}])
    /\ compacted \in Nat
    /\ changes \in [Key -> Nat]

\* The versions of a key ascend, which the reverse search of MVCC::Get relies on, and the
\* Backend has the value of the latest.
Consistent ==
    \A k \in Key :
        /\ \A i \in 1 .. Len(index[k]) : index[k][i].revision < current_rev
        /\ \A i, j \in 1 .. Len(index[k]) :
              i < j => index[k][i].revision < index[k][j].revision
        /\ store[k] = IF index[k] = <<>> THEN NoValue ELSE Newest(index[k]).value

(***************************************************************************)
(* What KVStore promises, seen through Get(key, 0).                        *)
(***************************************************************************)
View(k) ==
    IF Found(index[k], 0) = {} THEN [value |-> NoValue, mod_revision |-> 0]
    ELSE [value |-> Get(k, 0), mod_revision |-> Newest(index[k]).revision]

Map == INSTANCE KVMap WITH revision <- current_rev, map <- [k \in Key |-> View(k)]

\* Index and Backend together behave as one map, and compaction cannot be seen.
ImplementsMap == Map!Spec

(***************************************************************************)
(* Compaction keeps what a query at or after its revision needs: a key     *)
(* that lives now, and lived at that revision, reads as it was, however    *)
(* writes, deletions and compactions of other and later revisions follow.  *)
(***************************************************************************)
HistoryKept ==
    \A k \in Key : \A rev \in 1 .. Len(past) :
        rev >= compacted /\ Get(k, 0) # NoValue /\ past[rev][k] # NoValue
            => Get(k, rev) = past[rev][k]

(***************************************************************************)
(* version counts the changes of a key, deletions included, as long as     *)
(* compaction does not take the key out of the index; Txn compares it.     *)
(***************************************************************************)
ChangesCounted ==
    \A k \in Key : changes[k] = IF index[k] = <<>> THEN 0 ELSE Newest(index[k]).version

\* A query at a revision that is not compacted reads what was there (DESIGN.md: queries
\* of historical versions by revision).
HistoricalRead ==
    \A k \in Key : \A rev \in 1 .. Len(past) :
        rev >= compacted => Get(k, rev) = past[rev][k]

\* Range and Get give a key the same value at the same revision.
RangeReadsRevision ==
    \A k \in Key : \A rev \in 1 .. Len(past) :
        k \in RangeKeys(k, k + 1, rev, 0) => RangeValue(k, rev) = Get(k, rev)
=============================================================================
