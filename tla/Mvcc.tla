-------------------------------- MODULE Mvcc --------------------------------
(***************************************************************************)
(* The version history of the keys: KeyIndex and MVCC (mvcc.cpp), as       *)
(* operators.  An index maps every key to the versions its KeyIndex holds, *)
(* oldest first; the empty sequence stands for a key that index_ lacks,    *)
(* since a KeyIndex never becomes empty.  last_revision is the revision of *)
(* the last version, because both are assigned together.                   *)
(*                                                                         *)
(* The lease of a version is left out: it is carried along and never       *)
(* looked at here.                                                         *)
(***************************************************************************)
EXTENDS Naturals, Sequences, FiniteSets

CONSTANTS
    Key,      \* a set of numbers: keys are ordered
    Value,
    NoValue   \* no such key, or the empty value of a tombstone

ASSUME KeyAssumption   == Key \subseteq Nat
ASSUME ValueAssumption == NoValue \notin Value

Revision == Nat

MvccVersion == [revision : Revision \ {0}, version : Nat \ {0},
                create_revision : Revision \ {0}, value : Value \cup {NoValue}]

\* A tombstone is a version without a value.
IsTombstone(v) == v.value = NoValue

Newest(vs) == vs[Len(vs)]

IsDeleted(vs) == vs = <<>> \/ IsTombstone(Newest(vs))

-----------------------------------------------------------------------------
(* KeyIndex: each gives the versions after the call *)

\* Mutant: the versions still stored are counted, not those there have been.
MutantVersionCounted(vs, rev, value) ==
    Append(vs, [revision        |-> rev,
                version         |-> Len(vs) + 1,
                create_revision |-> IF vs = <<>> THEN rev ELSE vs[1].create_revision,
                value           |-> value])

\* Mutant: the first version of a key is number 0, as a KeyIndex starts out.
MutantVersionFromZero(vs, rev, value) ==
    Append(vs, [revision        |-> rev,
                version         |-> IF vs = <<>> THEN 0 ELSE Newest(vs).version + 1,
                create_revision |-> IF vs = <<>> THEN rev ELSE vs[1].create_revision,
                value           |-> value])

\* Put, and Tombstone when value is NoValue.
AddVersion(vs, rev, value) ==
    Append(vs, [revision        |-> rev,
                version         |-> IF vs = <<>> THEN 1 ELSE Newest(vs).version + 1,
                create_revision |-> IF vs = <<>> THEN rev ELSE vs[1].create_revision,
                value           |-> value])

\* The versions Compact keeps start with the last one at or below rev.
KeepFrom(vs, rev) ==
    LET old == {i \in 1 .. Len(vs) : vs[i].revision <= rev} IN
    IF old = {} THEN 1 ELSE CHOOSE i \in old : \A j \in old : j <= i

\* Mutant: that last version goes too.
MutantCompactAll(vs, rev) == SelectSeq(vs, LAMBDA v : v.revision > rev)

CompactVersions(vs, rev) == SubSeq(vs, KeepFrom(vs, rev), Len(vs))

-----------------------------------------------------------------------------
(* MVCC *)

\* A key whose last change is a deletion at or below rev leaves the index.
CompactKey(vs, rev) ==
    IF vs = <<>> \/ (IsTombstone(Newest(vs)) /\ Newest(vs).revision <= rev) THEN <<>>
    ELSE CompactVersions(vs, rev)

\* The version a query finds: none for a key that is deleted now, whatever at_rev.
\* The reverse search passes over tombstones.
Found(vs, at_rev) ==
    IF IsDeleted(vs) THEN {}
    ELSE IF at_rev = 0 THEN {Newest(vs)}
    ELSE LET seen == {i \in 1 .. Len(vs) : vs[i].revision <= at_rev /\ ~IsTombstone(vs[i])}
         IN  {vs[i] : i \in {i \in seen : \A j \in seen : j <= i}}

ValueAt(vs, at_rev) ==
    IF Found(vs, at_rev) = {} THEN NoValue
    ELSE (CHOOSE v \in Found(vs, at_rev) : TRUE).value
=============================================================================
