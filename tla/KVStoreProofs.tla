--------------------------- MODULE KVStoreProofs ---------------------------
(***************************************************************************)
(* For every set of keys and values and every bound: the store keeps its   *)
(* types, counts the changes of a key, keeps the history that compaction   *)
(* promises to keep, and implements the map of KVMap.                      *)
(***************************************************************************)
EXTENDS KVStore, SequenceTheorems, WellFoundedInduction, TLAPS

\* The place of the version a search for revision rev ends at.
LatestAt(vs, rev, i) ==
    /\ i \in 1 .. Len(vs)
    /\ vs[i].revision <= rev
    /\ \A j \in 1 .. Len(vs) : j > i => vs[j].revision > rev

\* At every revision that is not compacted the index still tells what the store held.
HistoryHeld ==
    /\ Len(past) = current_rev - 1
    /\ \A k \in Key : \A rev \in 1 .. Len(past) : rev >= compacted =>
          /\ \A i \in 1 .. Len(index[k]) :
                LatestAt(index[k], rev, i) => past[rev][k] = index[k][i].value
          /\ (\A i \in 1 .. Len(index[k]) : index[k][i].revision > rev)
                => past[rev][k] = NoValue

IndInv == TypeOK /\ Consistent /\ ChangesCounted /\ HistoryHeld

\* A nonempty set of naturals below a bound has a greatest element.
LEMMA GreatestBelow ==
    ASSUME NEW S \in SUBSET Nat, NEW b \in Nat, S # {}, \A i \in S : i <= b
    PROVE  \E i \in S : \A j \in S : j <= i
<1>. DEFINE bounds == {m \in Nat : \A i \in S : i <= m}
<1>1. PICK m \in bounds : \A u \in bounds : ~(<<u, m>> \in OpToRel(<, Nat))
  BY NatLessThanWellFounded, WFMin
<1>2. ASSUME m \notin S PROVE m - 1 \in bounds
  <2>1. PICK i \in S : TRUE
    OBVIOUS
  <2>2. i <= m /\ i # m /\ i \in Nat /\ m \in Nat
    BY <1>2
  <2>3. m - 1 \in Nat
    BY <2>2
  <2>4. ASSUME NEW j \in S PROVE j <= m - 1
    BY <1>2
  <2>. QED
    BY <2>3, <2>4
<1>3. ASSUME m - 1 \in bounds PROVE FALSE
  <2>1. m - 1 \in Nat /\ m \in Nat /\ ~(m - 1 < m)
    BY <1>1, <1>3 DEF OpToRel
  <2>. QED
    BY <2>1
<1>. QED
  BY <1>1, <1>2, <1>3

-----------------------------------------------------------------------------
(* Sequences of versions *)

\* The revisions of a sequence of versions are numbers.
LEMMA VersionFields ==
    ASSUME NEW vs \in Seq(MvccVersion)
    PROVE  /\ Len(vs) \in Nat
           /\ \A i \in 1 .. Len(vs) : vs[i] \in MvccVersion /\ vs[i].revision \in Nat
<1>1. Len(vs) \in Nat
  BY LenProperties
<1>2. \A i \in 1 .. Len(vs) : vs[i] \in MvccVersion
  BY ElementOfSeq
<1>. QED
  BY <1>1, <1>2 DEF MvccVersion, Revision

\* A sequence of versions that is not empty ends with a version.
LEMMA NewestIsVersion ==
    ASSUME NEW vs \in Seq(MvccVersion), vs # <<>>
    PROVE  /\ Len(vs) \in Nat \ {0}
           /\ \A i \in 1 .. Len(vs) : vs[i] \in MvccVersion
           /\ Newest(vs) \in MvccVersion
<1>1. Len(vs) \in Nat \ {0}
  BY EmptySeq
<1>2. \A i \in 1 .. Len(vs) : vs[i] \in MvccVersion
  BY ElementOfSeq
<1>. QED
  BY <1>1, <1>2 DEF Newest

\* KeyIndex::Put and Tombstone append one version and leave the others as they are.
LEMMA Added ==
    ASSUME NEW vs \in Seq(MvccVersion), NEW rev \in Revision \ {0},
           NEW value \in Value \cup {NoValue}
    PROVE  /\ AddVersion(vs, rev, value) \in Seq(MvccVersion)
           /\ AddVersion(vs, rev, value) # <<>>
           /\ Len(AddVersion(vs, rev, value)) = Len(vs) + 1
           /\ \A i \in 1 .. Len(vs) : AddVersion(vs, rev, value)[i] = vs[i]
           /\ AddVersion(vs, rev, value)[Len(vs) + 1] = Newest(AddVersion(vs, rev, value))
           /\ Newest(AddVersion(vs, rev, value)).revision = rev
           /\ Newest(AddVersion(vs, rev, value)).value = value
           /\ Newest(AddVersion(vs, rev, value)).version
                = IF vs = <<>> THEN 1 ELSE Newest(vs).version + 1
<1>. DEFINE v == [revision        |-> rev,
                  version         |-> IF vs = <<>> THEN 1 ELSE Newest(vs).version + 1,
                  create_revision |-> IF vs = <<>> THEN rev ELSE vs[1].create_revision,
                  value           |-> value]
<1>1. v \in MvccVersion
  <2>1. CASE vs = <<>>
    BY <2>1 DEF MvccVersion, Revision
  <2>2. CASE vs # <<>>
    <3>1. Newest(vs) \in MvccVersion /\ vs[1] \in MvccVersion
      BY <2>2, NewestIsVersion
    <3>. QED
      BY <2>2, <3>1 DEF MvccVersion, Revision
  <2>. QED
    BY <2>1, <2>2
<1>2. AddVersion(vs, rev, value) = Append(vs, v)
  BY DEF AddVersion
<1>. HIDE DEF v
<1>3. /\ Append(vs, v) \in Seq(MvccVersion)
      /\ Append(vs, v) # <<>>
      /\ Len(Append(vs, v)) = Len(vs) + 1
      /\ \A i \in 1 .. Len(vs) : Append(vs, v)[i] = vs[i]
      /\ Append(vs, v)[Len(vs) + 1] = v
  BY <1>1, AppendProperties
<1>4. Newest(Append(vs, v)) = v
  BY <1>3 DEF Newest
<1>. QED
  BY <1>2, <1>3, <1>4 DEF v

(***************************************************************************)
(* The place from which KeyIndex::Compact keeps the versions: everything   *)
(* after it is later than rev, and what is dropped is superseded at rev.   *)
(***************************************************************************)
LEMMA KeepFromPlace ==
    ASSUME NEW vs \in Seq(MvccVersion), vs # <<>>, NEW rev \in Nat
    PROVE  /\ KeepFrom(vs, rev) \in 1 .. Len(vs)
           /\ \A j \in 1 .. Len(vs) : j > KeepFrom(vs, rev) => vs[j].revision > rev
           /\ KeepFrom(vs, rev) > 1 => vs[KeepFrom(vs, rev)].revision <= rev
<1>. DEFINE old == {i \in 1 .. Len(vs) : vs[i].revision <= rev}
<1>1. Len(vs) \in Nat \ {0} /\ \A i \in 1 .. Len(vs) : vs[i].revision \in Nat
  BY NewestIsVersion DEF MvccVersion, Revision
<1>2. CASE old = {}
  BY <1>1, <1>2 DEF KeepFrom
<1>3. CASE old # {}
  <2>1. old \in SUBSET Nat /\ \A i \in old : i <= Len(vs)
    BY <1>1
  <2>2. \E i \in old : \A j \in old : j <= i
    BY <1>1, <1>3, <2>1, GreatestBelow
  <2>3. KeepFrom(vs, rev) = CHOOSE i \in old : \A j \in old : j <= i
    BY <1>3 DEF KeepFrom
  <2>4. KeepFrom(vs, rev) \in old /\ \A j \in old : j <= KeepFrom(vs, rev)
    BY <2>2, <2>3
  <2>. QED
    BY <1>1, <2>4
<1>. QED
  BY <1>2, <1>3

\* Compaction cuts a front off and keeps the newest version.
LEMMA Compacted ==
    ASSUME NEW vs \in Seq(MvccVersion), vs # <<>>, NEW rev \in Nat
    PROVE  /\ CompactVersions(vs, rev) \in Seq(MvccVersion)
           /\ CompactVersions(vs, rev) # <<>>
           /\ Len(CompactVersions(vs, rev)) = Len(vs) - KeepFrom(vs, rev) + 1
           /\ \A i \in 1 .. Len(vs) - KeepFrom(vs, rev) + 1 :
                 CompactVersions(vs, rev)[i] = vs[i + KeepFrom(vs, rev) - 1]
           /\ Newest(CompactVersions(vs, rev)) = Newest(vs)
<1>. DEFINE from == KeepFrom(vs, rev)
<1>1. from \in 1 .. Len(vs) /\ Len(vs) \in Nat \ {0}
  BY KeepFromPlace, NewestIsVersion
<1>2. \A i \in from .. Len(vs) : vs[i] \in MvccVersion
  BY <1>1, NewestIsVersion
<1>. HIDE DEF from
<1>. DEFINE kept == SubSeq(vs, from, Len(vs))
<1>3. /\ kept \in Seq(MvccVersion)
      /\ Len(kept) = Len(vs) - from + 1
      /\ \A i \in 1 .. Len(vs) - from + 1 : kept[i] = vs[from + i - 1]
  BY <1>1, <1>2, SubSeqProperties
<1>. HIDE DEF kept
<1>4. kept # <<>>
  BY <1>1, <1>3
<1>5. Newest(kept) = Newest(vs)
  <2>1. kept[Len(vs) - from + 1] = vs[from + (Len(vs) - from + 1) - 1]
    BY <1>1, <1>3
  <2>2. from + (Len(vs) - from + 1) - 1 = Len(vs)
    BY <1>1
  <2>. QED
    BY <1>3, <2>1, <2>2 DEF Newest
<1>6. \A i \in 1 .. Len(vs) - from + 1 : from + i - 1 = i + from - 1
  BY <1>1
<1>7. CompactVersions(vs, rev) = kept
  BY DEF CompactVersions, from, kept
<1>. QED
  BY <1>3, <1>4, <1>5, <1>6, <1>7 DEF from

\* A query of the latest version goes by the value in the Backend, if the two agree.
LEMMA LatestRead ==
    ASSUME NEW vs, NEW s,
           s = IF vs = <<>> THEN NoValue ELSE Newest(vs).value
    PROVE  /\ Found(vs, 0) = {} <=> s = NoValue
           /\ (IF Found(vs, 0) # {} /\ s # NoValue THEN s ELSE ValueAt(vs, 0)) = s
<1>1. Found(vs, 0) = {} <=> s = NoValue
  BY DEF Found, IsDeleted, IsTombstone
<1>. QED
  BY <1>1 DEF ValueAt

-----------------------------------------------------------------------------
(* The invariant *)

LEMMA IndInvInit == Init => IndInv
<1>. SUFFICES ASSUME Init PROVE IndInv
  OBVIOUS
<1>1. /\ <<>> \in Seq(MvccVersion)
      /\ <<>> \in Seq([Key -> Value \cup {NoValue}])
      /\ Len(<<>>) = 0
  OBVIOUS
<1>2. TypeOK
  BY <1>1 DEF Init, TypeOK, Revision
<1>3. Consistent
  BY <1>1 DEF Init, Consistent
<1>4. ChangesCounted
  BY DEF Init, ChangesCounted
<1>5. HistoryHeld
  BY <1>1 DEF Init, HistoryHeld
<1>. QED
  BY <1>2, <1>3, <1>4, <1>5 DEF IndInv

(***************************************************************************)
(* A change of a key, whether it leaves a value or a tombstone: the new    *)
(* version is later than every other, and the revision it takes is the one *)
(* the history ends with.                                                  *)
(***************************************************************************)
LEMMA Written ==
    ASSUME IndInv, NEW k \in Key, NEW value \in Value \cup {NoValue},
           Record(k, value),
           index' = [index EXCEPT ![k] = AddVersion(@, current_rev, value)],
           store' = [store EXCEPT ![k] = value]
    PROVE  IndInv'
<1>. DEFINE added == AddVersion(index[k], current_rev, value)
<1>1. /\ index \in [Key -> Seq(MvccVersion)]
      /\ current_rev \in Revision \ {0}
      /\ store \in [Key -> Value \cup {NoValue}]
      /\ past \in Seq([Key -> Value \cup {NoValue}])
      /\ compacted \in Nat
      /\ changes \in [Key -> Nat]
  BY DEF IndInv, TypeOK
<1>2. /\ added \in Seq(MvccVersion)
      /\ added # <<>>
      /\ Len(added) = Len(index[k]) + 1
      /\ \A i \in 1 .. Len(index[k]) : added[i] = index[k][i]
      /\ added[Len(index[k]) + 1] = Newest(added)
      /\ Newest(added).revision = current_rev
      /\ Newest(added).value = value
      /\ Newest(added).version = IF index[k] = <<>> THEN 1 ELSE Newest(index[k]).version + 1
  BY <1>1, Added
<1>. HIDE DEF added
<1>3. /\ index' = [index EXCEPT ![k] = added]
      /\ index'[k] = added
      /\ \A j \in Key : j # k => index'[j] = index[j]
      /\ \A j \in Key : store'[j] = IF j = k THEN value ELSE store[j]
  BY <1>1 DEF added
<1>4. \A j \in Key : Get(j, 0) = store[j]
  BY LatestRead DEF IndInv, Consistent, Get
<1>5. past' = Append(past, store')
  <2>1. store' = [j \in Key |-> IF j = k THEN value ELSE Get(j, 0)]
    BY <1>1, <1>3, <1>4
  <2>. QED
    BY <2>1 DEF Record
<1>6. store' \in [Key -> Value \cup {NoValue}]
  BY <1>1
<1>7. /\ past' \in Seq([Key -> Value \cup {NoValue}])
      /\ Len(past') = Len(past) + 1
      /\ \A rev \in 1 .. Len(past) : past'[rev] = past[rev]
      /\ past'[Len(past) + 1] = store'
  BY <1>1, <1>5, <1>6, AppendProperties
<1>8. current_rev' = current_rev + 1 /\ compacted' = compacted
  BY DEF Record
<1>9. \A j \in Key : Len(index[j]) \in Nat
  BY <1>1, LenProperties
<1>10. TypeOK'
  <2>1. index' \in [Key -> Seq(MvccVersion)]
    BY <1>1, <1>2, <1>3
  <2>2. changes' \in [Key -> Nat]
    BY <1>1 DEF Record
  <2>. QED
    BY <1>1, <1>6, <1>7, <1>8, <2>1, <2>2 DEF TypeOK, Revision
<1>11. Consistent'
  <2>. SUFFICES ASSUME NEW j \in Key
                PROVE /\ \A i \in 1 .. Len(index'[j]) : index'[j][i].revision < current_rev'
                      /\ \A i, h \in 1 .. Len(index'[j]) :
                            i < h => index'[j][i].revision < index'[j][h].revision
                      /\ store'[j] = IF index'[j] = <<>> THEN NoValue
                                     ELSE Newest(index'[j]).value
    BY DEF Consistent
  <2>1. /\ \A i \in 1 .. Len(index[j]) : index[j][i].revision < current_rev
        /\ \A i, h \in 1 .. Len(index[j]) :
              i < h => index[j][i].revision < index[j][h].revision
        /\ store[j] = IF index[j] = <<>> THEN NoValue ELSE Newest(index[j]).value
    BY DEF IndInv, Consistent
  <2>2. \A i \in 1 .. Len(index[j]) : index[j][i].revision \in Nat
    BY <1>1, VersionFields
  <2>3. CASE j # k
    <3>1. index'[j] = index[j] /\ store'[j] = store[j]
      BY <1>3, <2>3
    <3>2. \A i \in 1 .. Len(index[j]) : index[j][i].revision < current_rev'
      BY <1>1, <1>8, <2>1, <2>2 DEF Revision
    <3>. QED
      BY <2>1, <3>1, <3>2
  <2>4. CASE j = k
    <3>1. \A i \in 1 .. Len(added) :
             i \in 1 .. Len(index[k]) \/ i = Len(index[k]) + 1
      BY <1>2, <1>9
    <3>2. \A i \in 1 .. Len(added) : added[i].revision < current_rev + 1
      <4>. SUFFICES ASSUME NEW i \in 1 .. Len(added)
                    PROVE  added[i].revision < current_rev + 1
        OBVIOUS
      <4>1. CASE i \in 1 .. Len(index[k])
        BY <1>1, <1>2, <2>1, <2>2, <2>4, <4>1 DEF Revision
      <4>2. CASE i = Len(index[k]) + 1
        BY <1>1, <1>2, <4>2 DEF Revision
      <4>. QED
        BY <3>1, <4>1, <4>2
    <3>3. \A i, h \in 1 .. Len(added) : i < h => added[i].revision < added[h].revision
      <4>. SUFFICES ASSUME NEW i \in 1 .. Len(added), NEW h \in 1 .. Len(added), i < h
                    PROVE  added[i].revision < added[h].revision
        OBVIOUS
      <4>1. i \in 1 .. Len(index[k])
        BY <1>2, <1>9
      <4>2. CASE h \in 1 .. Len(index[k])
        BY <1>2, <2>1, <2>4, <4>1, <4>2
      <4>3. CASE h = Len(index[k]) + 1
        BY <1>2, <2>1, <2>4, <4>1, <4>3
      <4>. QED
        BY <3>1, <4>2, <4>3
    <3>. QED
      BY <1>2, <1>3, <1>8, <2>4, <3>2, <3>3
  <2>. QED
    BY <2>3, <2>4
<1>12. ChangesCounted'
  <2>. SUFFICES ASSUME NEW j \in Key
                PROVE changes'[j] = IF index'[j] = <<>> THEN 0 ELSE Newest(index'[j]).version
    BY DEF ChangesCounted
  <2>1. changes[j] = IF index[j] = <<>> THEN 0 ELSE Newest(index[j]).version
    BY DEF IndInv, ChangesCounted
  <2>2. changes'[j] = IF j = k THEN changes[j] + 1 ELSE changes[j]
    BY <1>1 DEF Record
  <2>. QED
    BY <1>2, <1>3, <2>1, <2>2
<1>13. HistoryHeld'
  <2>1. Len(past') = current_rev' - 1
    BY <1>1, <1>7, <1>8 DEF IndInv, HistoryHeld, Revision
  <2>. SUFFICES ASSUME NEW j \in Key, NEW rev \in 1 .. Len(past'), rev >= compacted
                PROVE /\ \A i \in 1 .. Len(index'[j]) :
                            LatestAt(index'[j], rev, i) => past'[rev][j] = index'[j][i].value
                      /\ (\A i \in 1 .. Len(index'[j]) : index'[j][i].revision > rev)
                            => past'[rev][j] = NoValue
    BY <1>8, <2>1 DEF HistoryHeld
  <2>2. Len(past) \in Nat /\ Len(past) = current_rev - 1
    BY <1>1, LenProperties DEF IndInv, HistoryHeld
  <2>3. CASE rev \in 1 .. Len(past)
    <3>1. /\ \A i \in 1 .. Len(index[j]) :
                LatestAt(index[j], rev, i) => past[rev][j] = index[j][i].value
          /\ (\A i \in 1 .. Len(index[j]) : index[j][i].revision > rev)
                => past[rev][j] = NoValue
      BY <2>3 DEF IndInv, HistoryHeld
    <3>2. past'[rev] = past[rev] /\ rev < current_rev
      BY <1>1, <1>7, <2>2, <2>3 DEF Revision
    <3>3. CASE j # k
      BY <1>3, <3>1, <3>2, <3>3
    <3>4. CASE j = k
      <4>1. ASSUME NEW i \in 1 .. Len(added), LatestAt(added, rev, i)
            PROVE  past[rev][k] = added[i].value
        <5>1. i # Len(index[k]) + 1
          BY <1>1, <1>2, <3>2, <4>1 DEF LatestAt, Revision
        <5>2. i \in 1 .. Len(index[k])
          BY <1>2, <1>9, <5>1
        <5>3. LatestAt(index[k], rev, i)
          <6>1. \A h \in 1 .. Len(index[k]) : h \in 1 .. Len(added)
            BY <1>2, <1>9
          <6>. QED
            BY <1>2, <4>1, <5>2, <6>1 DEF LatestAt
        <5>. QED
          BY <1>2, <3>1, <3>4, <5>2, <5>3
      <4>2. ASSUME \A i \in 1 .. Len(added) : added[i].revision > rev
            PROVE  past[rev][k] = NoValue
        BY <1>2, <1>9, <3>1, <3>4, <4>2
      <4>. QED
        BY <1>3, <3>2, <3>4, <4>1, <4>2
    <3>. QED
      BY <3>3, <3>4
  <2>4. CASE rev = Len(past) + 1
    <3>1. past'[rev] = store' /\ rev = current_rev
      BY <1>1, <1>7, <2>2, <2>4 DEF Revision
    <3>2. store'[j] = IF index'[j] = <<>> THEN NoValue ELSE Newest(index'[j]).value
      BY <1>11 DEF Consistent
    <3>3. \A i \in 1 .. Len(index'[j]) : index'[j][i].revision <= rev /\ index'[j][i].revision \in Nat
      <4>1. \A i \in 1 .. Len(index'[j]) : index'[j][i].revision \in Nat
        BY <1>10, VersionFields DEF TypeOK
      <4>2. \A i \in 1 .. Len(index'[j]) : index'[j][i].revision < current_rev'
        BY <1>11 DEF Consistent
      <4>3. current_rev' = rev + 1 /\ rev \in Nat
        BY <1>1, <1>8, <3>1 DEF Revision
      <4>. QED
        BY <4>1, <4>2, <4>3
    <3>4. index'[j] # <<>> => Len(index'[j]) \in 1 .. Len(index'[j])
      BY <1>10, NewestIsVersion DEF TypeOK
    <3>5. index'[j] = <<>> => Len(index'[j]) = 0
      OBVIOUS
    <3>6. ASSUME NEW i \in 1 .. Len(index'[j]), LatestAt(index'[j], rev, i)
          PROVE  i = Len(index'[j]) /\ index'[j] # <<>>
      <4>1. index'[j] # <<>>
        BY <3>5
      <4>2. Len(index'[j]) \in 1 .. Len(index'[j])
        BY <3>4, <4>1
      <4>3. ~(index'[j][Len(index'[j])].revision > rev)
        <5>1. /\ index'[j][Len(index'[j])].revision <= rev
              /\ index'[j][Len(index'[j])].revision \in Nat
          BY <3>3, <4>2
        <5>2. rev \in Nat
          BY <1>1, <3>1 DEF Revision
        <5>. QED
          BY <5>1, <5>2
      <4>4. ~(Len(index'[j]) > i)
        BY <3>6, <4>2, <4>3 DEF LatestAt
      <4>. QED
        BY <4>1, <4>2, <4>4
    <3>7. (\A i \in 1 .. Len(index'[j]) : index'[j][i].revision > rev) => index'[j] = <<>>
      <4>. SUFFICES ASSUME \A i \in 1 .. Len(index'[j]) : index'[j][i].revision > rev,
                           index'[j] # <<>>
                    PROVE  FALSE
        OBVIOUS
      <4>1. Len(index'[j]) \in 1 .. Len(index'[j])
        BY <3>4
      <4>2. PICK i \in 1 .. Len(index'[j]) : TRUE
        BY <4>1
      <4>3. index'[j][i].revision > rev /\ index'[j][i].revision <= rev
        BY <3>3, <4>2
      <4>. QED
        BY <1>1, <3>1, <3>3, <4>2, <4>3 DEF Revision
    <3>. QED
      BY <3>1, <3>2, <3>6, <3>7 DEF Newest
  <2>. QED
    BY <1>7, <2>2, <2>3, <2>4
<1>. QED
  BY <1>10, <1>11, <1>12, <1>13 DEF IndInv

(***************************************************************************)
(* MVCC::Compact, one key: a search for a revision not below the argument  *)
(* ends at the same version as before, or at nothing where it ended at a   *)
(* tombstone; a key that is dropped was deleted.                           *)
(***************************************************************************)
LEMMA KeyCompacted ==
    ASSUME NEW vs \in Seq(MvccVersion), NEW rev \in Nat, NEW r \in Nat, r >= rev
    PROVE  /\ CompactKey(vs, rev) \in Seq(MvccVersion)
           /\ CompactKey(vs, rev) = <<>> => IsDeleted(vs)
           /\ CompactKey(vs, rev) # <<>> =>
                 vs # <<>> /\ CompactKey(vs, rev) = CompactVersions(vs, rev)
           /\ \A i \in 1 .. Len(CompactKey(vs, rev)) : LatestAt(CompactKey(vs, rev), r, i) =>
                 \E h \in 1 .. Len(vs) :
                    LatestAt(vs, r, h) /\ vs[h].value = CompactKey(vs, rev)[i].value
           /\ (\A i \in 1 .. Len(CompactKey(vs, rev)) : CompactKey(vs, rev)[i].revision > r) =>
                 \/ \A h \in 1 .. Len(vs) : vs[h].revision > r
                 \/ \E h \in 1 .. Len(vs) : LatestAt(vs, r, h) /\ vs[h].value = NoValue
<1>1. CASE vs = <<>>
  <2>1. CompactKey(vs, rev) = <<>> /\ IsDeleted(vs) /\ Len(<<>>) = 0
    BY <1>1 DEF CompactKey, IsDeleted
  <2>. QED
    BY <1>1, <2>1
<1>2. CASE vs # <<>> /\ IsTombstone(Newest(vs)) /\ Newest(vs).revision <= rev
  <2>1. CompactKey(vs, rev) = <<>> /\ IsDeleted(vs) /\ Len(<<>>) = 0
    BY <1>2 DEF CompactKey, IsDeleted
  <2>2. Len(vs) \in 1 .. Len(vs) /\ vs[Len(vs)].revision \in Nat /\ vs[Len(vs)].revision <= rev
    BY <1>2, NewestIsVersion, VersionFields DEF Newest
  <2>3. LatestAt(vs, r, Len(vs)) /\ vs[Len(vs)].value = NoValue
    BY <1>2, <2>2 DEF LatestAt, Newest, IsTombstone
  <2>. QED
    BY <1>2, <2>1, <2>2, <2>3
<1>3. CASE vs # <<>> /\ ~(IsTombstone(Newest(vs)) /\ Newest(vs).revision <= rev)
  <2>. DEFINE kept == CompactVersions(vs, rev)
              from == KeepFrom(vs, rev)
  <2>1. CompactKey(vs, rev) = kept
    BY <1>3 DEF CompactKey
  <2>2. /\ kept \in Seq(MvccVersion)
        /\ kept # <<>>
        /\ Len(kept) = Len(vs) - from + 1
        /\ \A i \in 1 .. Len(vs) - from + 1 : kept[i] = vs[i + from - 1]
    BY <1>3, Compacted
  <2>3. /\ from \in 1 .. Len(vs)
        /\ from > 1 => vs[from].revision <= rev
    BY <1>3, KeepFromPlace
  <2>4. Len(vs) \in Nat /\ \A i \in 1 .. Len(vs) : vs[i].revision \in Nat
    BY VersionFields
  <2>. HIDE DEF kept, from
  <2>5. ASSUME NEW i \in 1 .. Len(kept), LatestAt(kept, r, i)
        PROVE  /\ i + from - 1 \in 1 .. Len(vs)
               /\ LatestAt(vs, r, i + from - 1)
               /\ vs[i + from - 1].value = kept[i].value
    <3>1. i + from - 1 \in 1 .. Len(vs) /\ kept[i] = vs[i + from - 1]
      BY <2>2, <2>3, <2>4
    <3>2. ASSUME NEW j \in 1 .. Len(vs), j > i + from - 1
          PROVE  vs[j].revision > r
      <4>1. j - from + 1 \in 1 .. Len(kept) /\ j - from + 1 > i
        BY <2>2, <2>3, <2>4, <3>2
      <4>2. kept[j - from + 1] = vs[(j - from + 1) + from - 1]
        BY <2>2, <4>1
      <4>3. (j - from + 1) + from - 1 = j
        BY <2>3, <2>4
      <4>. QED
        BY <2>5, <4>1, <4>2, <4>3 DEF LatestAt
    <3>. QED
      BY <2>5, <3>1, <3>2 DEF LatestAt
  <2>6. ASSUME \A i \in 1 .. Len(kept) : kept[i].revision > r
        PROVE  \A h \in 1 .. Len(vs) : vs[h].revision > r
    <3>1. 1 \in 1 .. Len(kept) /\ kept[1] = vs[1 + from - 1] /\ 1 + from - 1 = from
      BY <2>2, <2>3, <2>4
    <3>2. vs[from].revision > r /\ vs[from].revision \in Nat
      BY <2>3, <2>4, <2>6, <3>1
    <3>3. from = 1
      BY <2>3, <3>2
    <3>4. \A h \in 1 .. Len(vs) : h \in 1 .. Len(kept) /\ h + from - 1 = h
      BY <2>2, <2>4, <3>3
    <3>. QED
      BY <2>2, <2>6, <3>3, <3>4
  <2>7. \A i \in 1 .. Len(kept) : LatestAt(kept, r, i) =>
           \E h \in 1 .. Len(vs) : LatestAt(vs, r, h) /\ vs[h].value = kept[i].value
    BY <2>5
  <2>8. kept = CompactVersions(vs, rev)
    BY DEF kept
  <2>. QED
    BY <1>3, <2>1, <2>2, <2>6, <2>7, <2>8
<1>. QED
  BY <1>1, <1>2, <1>3

LEMMA CompactKeeps ==
    ASSUME IndInv, NEW rev \in 1 .. current_rev, Compact(rev)
    PROVE  IndInv'
<1>1. /\ index \in [Key -> Seq(MvccVersion)]
      /\ current_rev \in Revision \ {0}
      /\ store \in [Key -> Value \cup {NoValue}]
      /\ past \in Seq([Key -> Value \cup {NoValue}])
      /\ compacted \in Nat
      /\ changes \in [Key -> Nat]
  BY DEF IndInv, TypeOK
<1>2. /\ \A j \in Key : index'[j] = CompactKey(index[j], rev)
      /\ \A j \in Key : changes'[j] = IF index'[j] = <<>> THEN 0 ELSE changes[j]
      /\ current_rev' = current_rev /\ store' = store /\ past' = past
      /\ compacted' \in Nat /\ compacted' >= rev /\ compacted' >= compacted
      /\ rev \in Nat
  BY <1>1 DEF Compact, Revision
<1>3. ASSUME NEW j \in Key
      PROVE  /\ index'[j] \in Seq(MvccVersion)
             /\ index'[j] = <<>> => IsDeleted(index[j])
             /\ index'[j] # <<>> =>
                   /\ index[j] # <<>>
                   /\ index'[j] = CompactVersions(index[j], rev)
                   /\ Newest(index'[j]) = Newest(index[j])
  <2>1. index[j] \in Seq(MvccVersion)
    BY <1>1
  <2>2. rev >= rev
    BY <1>2
  <2>3. /\ index'[j] \in Seq(MvccVersion)
        /\ index'[j] = <<>> => IsDeleted(index[j])
        /\ index'[j] # <<>> => index[j] # <<>> /\ index'[j] = CompactVersions(index[j], rev)
    BY <1>2, <2>1, <2>2, KeyCompacted
  <2>4. index'[j] # <<>> => Newest(index'[j]) = Newest(index[j])
    <3>. HAVE index'[j] # <<>>
    <3>1. index[j] # <<>> /\ CompactVersions(index[j], rev) = index'[j]
      BY <2>3
    <3>. QED
      BY <1>2, <2>1, <3>1, Compacted
  <2>. QED
    BY <2>3, <2>4
<1>4. TypeOK'
  <2>1. index' \in [Key -> Seq(MvccVersion)]
    BY <1>1, <1>3 DEF Compact
  <2>2. changes' \in [Key -> Nat]
    BY <1>1 DEF Compact
  <2>. QED
    BY <1>1, <1>2, <2>1, <2>2 DEF TypeOK
<1>5. Consistent'
  <2>. SUFFICES ASSUME NEW j \in Key
                PROVE /\ \A i \in 1 .. Len(index'[j]) : index'[j][i].revision < current_rev
                      /\ \A i, h \in 1 .. Len(index'[j]) :
                            i < h => index'[j][i].revision < index'[j][h].revision
                      /\ store[j] = IF index'[j] = <<>> THEN NoValue
                                    ELSE Newest(index'[j]).value
    BY <1>2 DEF Consistent
  <2>1. /\ \A i \in 1 .. Len(index[j]) : index[j][i].revision < current_rev
        /\ \A i, h \in 1 .. Len(index[j]) :
              i < h => index[j][i].revision < index[j][h].revision
        /\ store[j] = IF index[j] = <<>> THEN NoValue ELSE Newest(index[j]).value
    BY DEF IndInv, Consistent
  <2>2. CASE index'[j] = <<>>
    BY <1>3, <2>1, <2>2 DEF IsDeleted, IsTombstone
  <2>3. CASE index'[j] # <<>>
    <3>. DEFINE from == KeepFrom(index[j], rev)
    <3>1. /\ Len(index'[j]) = Len(index[j]) - from + 1
          /\ \A i \in 1 .. Len(index[j]) - from + 1 : index'[j][i] = index[j][i + from - 1]
      <4>1. /\ index[j] \in Seq(MvccVersion) /\ index[j] # <<>>
            /\ index'[j] = CompactVersions(index[j], rev)
        BY <1>1, <1>3, <2>3
      <4>2. rev \in Nat
        BY <1>2
      <4>3. /\ Len(CompactVersions(index[j], rev)) = Len(index[j]) - KeepFrom(index[j], rev) + 1
            /\ \A i \in 1 .. Len(index[j]) - KeepFrom(index[j], rev) + 1 :
                  CompactVersions(index[j], rev)[i] = index[j][i + KeepFrom(index[j], rev) - 1]
        BY <4>1, <4>2, Compacted
      <4>. QED
        BY <4>1, <4>3
    <3>2. from \in 1 .. Len(index[j]) /\ Len(index[j]) \in Nat
      BY <1>1, <1>2, <1>3, <2>3, KeepFromPlace, LenProperties
    <3>. HIDE DEF from
    <3>3. \A i \in 1 .. Len(index'[j]) : i + from - 1 \in 1 .. Len(index[j])
      BY <3>1, <3>2
    <3>4. \A i, h \in 1 .. Len(index'[j]) : i < h => i + from - 1 < h + from - 1
      BY <3>2
    <3>. QED
      BY <1>3, <2>1, <2>3, <3>1, <3>3, <3>4
  <2>. QED
    BY <2>2, <2>3
<1>6. ChangesCounted'
  BY <1>2, <1>3 DEF IndInv, ChangesCounted
<1>7. HistoryHeld'
  <2>1. Len(past') = current_rev' - 1
    BY <1>2 DEF IndInv, HistoryHeld
  <2>. SUFFICES ASSUME NEW j \in Key, NEW r \in 1 .. Len(past), r >= compacted'
                PROVE /\ \A i \in 1 .. Len(index'[j]) :
                            LatestAt(index'[j], r, i) => past[r][j] = index'[j][i].value
                      /\ (\A i \in 1 .. Len(index'[j]) : index'[j][i].revision > r)
                            => past[r][j] = NoValue
    BY <1>2, <2>1 DEF HistoryHeld
  <2>2. r \in Nat /\ r >= rev /\ r >= compacted
    BY <1>1, <1>2
  <2>3. /\ \A i \in 1 .. Len(index[j]) :
              LatestAt(index[j], r, i) => past[r][j] = index[j][i].value
        /\ (\A i \in 1 .. Len(index[j]) : index[j][i].revision > r)
              => past[r][j] = NoValue
    BY <2>2 DEF IndInv, HistoryHeld
  <2>4. /\ \A i \in 1 .. Len(index'[j]) : LatestAt(index'[j], r, i) =>
              \E h \in 1 .. Len(index[j]) :
                 LatestAt(index[j], r, h) /\ index[j][h].value = index'[j][i].value
        /\ (\A i \in 1 .. Len(index'[j]) : index'[j][i].revision > r) =>
              \/ \A h \in 1 .. Len(index[j]) : index[j][h].revision > r
              \/ \E h \in 1 .. Len(index[j]) : LatestAt(index[j], r, h) /\ index[j][h].value = NoValue
    <3>1. index[j] \in Seq(MvccVersion) /\ index'[j] = CompactKey(index[j], rev)
      BY <1>1, <1>2
    <3>2. rev \in Nat /\ r \in Nat /\ r >= rev
      BY <1>2, <2>2
    <3>3. \A i \in 1 .. Len(CompactKey(index[j], rev)) :
             LatestAt(CompactKey(index[j], rev), r, i) =>
                \E h \in 1 .. Len(index[j]) :
                   /\ LatestAt(index[j], r, h)
                   /\ index[j][h].value = CompactKey(index[j], rev)[i].value
      BY <3>1, <3>2, KeyCompacted
    <3>4. (\A i \in 1 .. Len(CompactKey(index[j], rev)) : CompactKey(index[j], rev)[i].revision > r) =>
              \/ \A h \in 1 .. Len(index[j]) : index[j][h].revision > r
              \/ \E h \in 1 .. Len(index[j]) : LatestAt(index[j], r, h) /\ index[j][h].value = NoValue
      BY <3>1, <3>2, KeyCompacted
    <3>. QED
      BY <3>1, <3>3, <3>4
  <2>. QED
    BY <2>3, <2>4
<1>. QED
  BY <1>4, <1>5, <1>6, <1>7 DEF IndInv

-----------------------------------------------------------------------------
(* Theorems *)

(***************************************************************************)
(* Put, Delete and Compact keep the types, the order of the versions, the  *)
(* agreement of index and Backend, the counts and the history.             *)
(***************************************************************************)
THEOREM Inductive == Spec => []IndInv
<1>1. Init => IndInv
  BY IndInvInit
<1>2. IndInv /\ [Next]_vars => IndInv'
  <2>. SUFFICES ASSUME IndInv, [Next]_vars PROVE IndInv'
    OBVIOUS
  <2>1. ASSUME NEW k \in Key, Delete(k) PROVE IndInv'
    BY <2>1, Written DEF Delete
  <2>2. ASSUME NEW k \in Key, NEW v \in Value, Put(k, v) PROVE IndInv'
    BY <2>2, Written DEF Put
  <2>3. ASSUME NEW rev \in 1 .. current_rev, Compact(rev) PROVE IndInv'
    BY <2>3, CompactKeeps
  <2>4. CASE UNCHANGED vars
    BY <2>4 DEF vars, IndInv, TypeOK, Consistent, ChangesCounted, HistoryHeld
  <2>. QED
    BY <2>1, <2>2, <2>3, <2>4 DEF Next
<1>. QED
  BY <1>1, <1>2, PTL DEF Spec

\* Every variable of the store keeps its type: no revision, version or count is below its first.
THEOREM TypeCorrect == Spec => []TypeOK
<1>1. IndInv => TypeOK
  BY DEF IndInv
<1>. QED
  BY <1>1, Inductive, PTL

\* KeyIndex::version counts the changes of a key, deletions included.
THEOREM VersionsCount == Spec => []ChangesCounted
<1>1. IndInv => ChangesCounted
  BY DEF IndInv
<1>. QED
  BY <1>1, Inductive, PTL

\* MVCC::Get finds the version a search ends at, unless that is a tombstone or the key is gone.
LEMMA HistoricalGet ==
    ASSUME NEW vs \in Seq(MvccVersion), NEW rev \in Nat \ {0}, NEW i \in 1 .. Len(vs),
           LatestAt(vs, rev, i), vs[i].value # NoValue, ~IsDeleted(vs)
    PROVE  ValueAt(vs, rev) = vs[i].value
<1>. DEFINE seen == {j \in 1 .. Len(vs) : vs[j].revision <= rev /\ ~IsTombstone(vs[j])}
<1>1. Len(vs) \in Nat /\ \A j \in 1 .. Len(vs) : vs[j].revision \in Nat
  BY VersionFields
<1>2. i \in seen /\ \A j \in seen : j <= i
  BY <1>1 DEF LatestAt, IsTombstone
<1>3. {j \in seen : \A h \in seen : h <= j} = {i}
  BY <1>1, <1>2
<1>4. Found(vs, rev) = {vs[j] : j \in {j \in seen : \A h \in seen : h <= j}}
  BY DEF Found
<1>5. Found(vs, rev) = {vs[i]}
  BY <1>3, <1>4
<1>. QED
  BY <1>5 DEF ValueAt

\* KeyIndex::Compact keeps what queries at or after its revision need.
THEOREM CompactionKeepsHistory == Spec => []HistoryKept
<1>1. IndInv => HistoryKept
  <2>. SUFFICES ASSUME IndInv, NEW k \in Key, NEW rev \in 1 .. Len(past),
                       rev >= compacted, Get(k, 0) # NoValue, past[rev][k] # NoValue
                PROVE  Get(k, rev) = past[rev][k]
    BY DEF HistoryKept
  <2>. DEFINE vs == index[k]
              old == {i \in 1 .. Len(vs) : vs[i].revision <= rev}
  <2>1. vs \in Seq(MvccVersion) /\ rev \in Nat \ {0}
    BY DEF IndInv, TypeOK
  <2>2. Len(vs) \in Nat /\ \A i \in 1 .. Len(vs) : vs[i].revision \in Nat
    BY <2>1, VersionFields
  <2>3. ~IsDeleted(vs)
    BY DEF Get, Found, ValueAt
  <2>4. old # {}
    <3>1. ASSUME old = {}
          PROVE  \A i \in 1 .. Len(vs) : vs[i].revision > rev
      BY <2>1, <2>2, <3>1
    <3>2. (\A i \in 1 .. Len(vs) : vs[i].revision > rev) => past[rev][k] = NoValue
      BY DEF IndInv, HistoryHeld
    <3>. QED
      BY <3>1, <3>2
  <2>5. PICK i \in old : \A j \in old : j <= i
    <3>1. old \in SUBSET Nat /\ \A j \in old : j <= Len(vs)
      BY <2>2
    <3>. QED
      BY <2>2, <2>4, <3>1, GreatestBelow
  <2>6. LatestAt(vs, rev, i)
    BY <2>1, <2>2, <2>5 DEF LatestAt
  <2>7. past[rev][k] = vs[i].value
    BY <2>5, <2>6 DEF IndInv, HistoryHeld
  <2>8. ValueAt(vs, rev) = vs[i].value
    BY <2>1, <2>3, <2>5, <2>6, <2>7, HistoricalGet
  <2>. QED
    BY <2>1, <2>7, <2>8 DEF Get
<1>. QED
  BY <1>1, Inductive, PTL

\* What is seen of a key follows from its versions and its value in the Backend.
LEMMA ViewOfKey ==
    ASSUME NEW vs, NEW s, s = IF vs = <<>> THEN NoValue ELSE Newest(vs).value
    PROVE  (IF Found(vs, 0) = {} THEN [value |-> NoValue, mod_revision |-> 0]
            ELSE [value |-> IF Found(vs, 0) # {} /\ s # NoValue THEN s ELSE ValueAt(vs, 0),
                  mod_revision |-> Newest(vs).revision])
         = (IF s = NoValue THEN [value |-> NoValue, mod_revision |-> 0]
            ELSE [value |-> s, mod_revision |-> Newest(vs).revision])
BY LatestRead

(***************************************************************************)
(* The two structures that KVStore writes, read together, are the map of   *)
(* KVMap: Put and Delete are its operations, and Compact changes nothing   *)
(* that a query of the latest revision shows.                              *)
(***************************************************************************)
THEOREM MapImplemented == Spec => ImplementsMap
<1>. DEFINE seen == [k \in Key |-> View(k)]
<1>1. Init => Map!Init
  <2>. SUFFICES ASSUME Init PROVE Map!Init
    OBVIOUS
  <2>1. \A k \in Key : View(k) = [value |-> NoValue, mod_revision |-> 0]
    BY DEF Init, View, Found, IsDeleted
  <2>. QED
    BY <2>1 DEF Init, Map!Init, Map!Absent
<1>2. IndInv /\ IndInv' /\ [Next]_vars => [Map!Next]_<<current_rev, seen>>
  <2>. SUFFICES ASSUME IndInv, IndInv', [Next]_vars
                PROVE  [Map!Next]_<<current_rev, seen>>
    OBVIOUS
  <2>1. \A k \in Key : View(k) =
           IF store[k] = NoValue THEN [value |-> NoValue, mod_revision |-> 0]
           ELSE [value |-> store[k], mod_revision |-> Newest(index[k]).revision]
    BY ViewOfKey DEF IndInv, Consistent, View, Get
  <2>2. \A k \in Key : View(k)' =
           IF store'[k] = NoValue THEN [value |-> NoValue, mod_revision |-> 0]
           ELSE [value |-> store'[k], mod_revision |-> Newest(index'[k]).revision]
    BY ViewOfKey DEF IndInv, Consistent, View, Get
  <2>3. /\ index \in [Key -> Seq(MvccVersion)]
        /\ store \in [Key -> Value \cup {NoValue}]
        /\ current_rev \in Revision \ {0}
    BY DEF IndInv, TypeOK
  <2>4. ASSUME NEW k \in Key, NEW value \in Value \cup {NoValue},
               index' = [index EXCEPT ![k] = AddVersion(@, current_rev, value)],
               store' = [store EXCEPT ![k] = value]
        PROVE  /\ \A j \in Key : j # k => View(j)' = View(j)
               /\ View(k)' = IF value = NoValue THEN [value |-> NoValue, mod_revision |-> 0]
                             ELSE [value |-> value, mod_revision |-> current_rev]
    <3>1. /\ \A j \in Key : j # k => index'[j] = index[j] /\ store'[j] = store[j]
          /\ index'[k] = AddVersion(index[k], current_rev, value)
          /\ store'[k] = value
      BY <2>3, <2>4
    <3>2. Newest(index'[k]).revision = current_rev
      BY <2>3, <3>1, Added
    <3>. QED
      BY <2>1, <2>2, <3>1, <3>2
  <2>5. ASSUME NEW k \in Key, NEW v \in Value, Put(k, v) PROVE Map!Put(k, v)
    <3>1. v # NoValue
      BY ValueAssumption
    <3>2. /\ \A j \in Key : j # k => View(j)' = View(j)
          /\ View(k)' = [value |-> v, mod_revision |-> current_rev]
      BY <2>4, <2>5, <3>1 DEF Put
    <3>. QED
      BY <2>5, <3>2 DEF Put, Record, Map!Put
  <2>6. ASSUME NEW k \in Key, Delete(k) PROVE Map!Delete(k)
    <3>1. /\ \A j \in Key : j # k => View(j)' = View(j)
          /\ View(k)' = [value |-> NoValue, mod_revision |-> 0]
      BY <2>4, <2>6 DEF Delete
    <3>. QED
      BY <2>6, <3>1 DEF Delete, Record, Map!Delete, Map!Absent
  <2>7. ASSUME NEW rev \in 1 .. current_rev, Compact(rev)
        PROVE  UNCHANGED <<current_rev, seen>>
    <3>1. store' = store /\ current_rev' = current_rev /\ rev \in Nat
      BY <2>3, <2>7 DEF Compact, Revision
    <3>2. ASSUME NEW k \in Key PROVE View(k)' = View(k)
      <4>1. index'[k] = CompactKey(index[k], rev) /\ index[k] \in Seq(MvccVersion)
        BY <2>3, <2>7 DEF Compact
      <4>2. CASE store[k] = NoValue
        BY <2>1, <2>2, <3>1, <4>2
      <4>3. CASE store[k] # NoValue
        <5>1. store[k] = IF index'[k] = <<>> THEN NoValue ELSE Newest(index'[k]).value
          BY <3>1 DEF IndInv, Consistent
        <5>2. index'[k] # <<>> /\ rev >= rev
          BY <3>1, <4>3, <5>1
        <5>3. index[k] # <<>> /\ index'[k] = CompactVersions(index[k], rev)
          BY <3>1, <4>1, <5>2, KeyCompacted
        <5>4. Newest(index'[k]) = Newest(index[k])
          BY <3>1, <4>1, <5>3, Compacted
        <5>. QED
          BY <2>1, <2>2, <3>1, <4>3, <5>4
      <4>. QED
        BY <4>2, <4>3
    <3>. QED
      BY <3>1, <3>2
  <2>8. CASE UNCHANGED vars
    BY <2>1, <2>2, <2>8 DEF vars
  <2>. QED
    BY <2>5, <2>6, <2>7, <2>8 DEF Next, Map!Next
<1>. QED
  BY <1>1, <1>2, Inductive, PTL DEF Spec, ImplementsMap, Map!Spec
=============================================================================
