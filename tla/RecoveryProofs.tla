--------------------------- MODULE RecoveryProofs ---------------------------
(***************************************************************************)
(* Why the files of a node hold what it promised: proofs about the WAL,    *)
(* the snapshots and the threads that write them, for every set of keys,   *)
(* every number of proposals and every snapshot threshold.                 *)
(***************************************************************************)
EXTENDS Recovery, SequenceTheorems, FiniteSetTheorems, WellFoundedInduction, TLAPS

-----------------------------------------------------------------------------
(* The inductive invariant: every life *)

Few(data) == IsFiniteSet(Live(data))

\* A store holds finitely many keys, so that they can be numbered when it is read again.
FiniteStores == Few(kv.store) /\ Few(file) /\ \A s \in snapshots : Few(s.data)

\* The labels of the snapshots are bounded: one of them is the newest.
LabelsBounded == \E b \in Nat : \A s \in snapshots : s.last_index <= b

\* A snapshot is taken of something.
SnapshotLabelled == snap_pc # "sleep" => snap_at > 0

\* A loop over the batch stands at an entry of it; the next loop starts at the first.
InBatch == IF pc \in {"ready", "applied"} THEN pos <= Len(batch) ELSE pos = 1

AnyLife ==
    /\ TypeOK /\ starts \in Nat
    /\ FiniteStores /\ LabelsBounded /\ SnapshotLabelled /\ InBatch /\ IndexBacked

-----------------------------------------------------------------------------
(* The inductive invariant: the first life *)

InHandler == pc \in {"ready", "applied", "written", "saved"}

\* What the node is before it starts for the first time.
NeverStarted ==
    /\ ~up /\ kv = EmptyKV /\ pc = "wait" /\ pos = 1
    /\ snap_pc = "sleep" /\ snap_at = 0 /\ snapshot_index = 0
    /\ last_index = 0 /\ wal_seq = 0 /\ wal = [s \in {0} |-> <<>>]
    /\ snapshots = {} /\ file = Empty
    /\ promised = [k \in Key |-> {NoValue}]

\* Writes come one after the other: at most the last entry of the log is on its way.
OneAtATime ==
    /\ log.first = 1 /\ \A i \in 1 .. Len(log.entries) : log.entries[i].index = i
    /\ last_applied <= commit_index /\ commit_index <= Len(log.entries)
    /\ Len(log.entries) <= last_applied + 1
    /\ pc = "wait" => commit_index = last_applied
    /\ InHandler => /\ Len(batch) = 1 /\ batch[1] = log.entries[Len(log.entries)] /\ pos = 1
                    /\ last_applied = Len(log.entries) /\ log.entries # <<>>

\* Where the store and the WAL stand: the entries of the log written so far.
WrittenUpTo == IF pc \in {"ready", "applied"} THEN last_applied - 1 ELSE last_applied

\* The next record is never passed over.
NextAccepted == last_index <= WrittenUpTo

\* Labels ascend, none is ahead of the log, and what was just saved is the store.
LabelsAscend ==
    /\ snap_pc # "sleep" => snap_at > snapshot_index /\ snap_at <= Len(log.entries)
    /\ snap_pc = "saved" => /\ ServerMuFree
                            /\ \E s \in snapshots : s.last_index = snap_at
    /\ \A s \in snapshots : \/ s.last_index <= snapshot_index
                            \/ /\ snap_pc = "saved"
                               /\ s.last_index = snap_at /\ s.data = kv.store

\* The files give what the store holds, but for an entry that was applied and not written.
FilesFollow ==
    /\ pc = "applied" => kv.store[batch[1].value.key] = batch[1].value.value
    /\ \A k \in Key : Rebuilt[k] = kv.store[k] \/ (pc = "applied" /\ batch[1].value.key = k)

\* What every moment of the first life has in common, as long as the process runs.
FirstLifeRuns ==
    /\ \A k \in Key : kv.store[k] \in promised[k]
    /\ OneAtATime /\ NextAccepted /\ LabelsAscend /\ FilesFollow

FirstLife ==
    /\ starts = 0 => NeverStarted
    /\ starts <= 1 /\ ~overlapped =>
          /\ \A k \in Key : Rebuilt[k] \in promised[k]
          /\ up => FirstLifeRuns

IndInv == AnyLife /\ FirstLife

-----------------------------------------------------------------------------
(* Natural numbers and recursive functions *)

\* A nonempty set of naturals has a least element.
LEMMA LeastOf ==
    ASSUME NEW S \in SUBSET Nat, S # {}
    PROVE  \E i \in S : \A j \in S : i <= j
<1>1. PICK i \in S : \A j \in S : ~(<<j, i>> \in OpToRel(<, Nat))
  BY NatLessThanWellFounded, WFMin
<1>2. ASSUME NEW j \in S PROVE i <= j
  <2>1. ~(j < i) /\ i \in Nat /\ j \in Nat
    BY <1>1 DEF OpToRel
  <2>. QED
    BY <2>1
<1>. QED
  BY <1>2

\* A nonempty set of naturals below a bound has a greatest element.
LEMMA GreatestBelow ==
    ASSUME NEW S \in SUBSET Nat, NEW b \in Nat, S # {}, \A i \in S : i <= b
    PROVE  \E i \in S : \A j \in S : j <= i
<1>. DEFINE bounds == {m \in Nat : \A i \in S : i <= m}
<1>1. PICK m \in bounds : \A u \in bounds : m <= u
  <2>. HIDE DEF bounds
  <2>1. bounds \in SUBSET Nat /\ bounds # {}
    BY DEF bounds
  <2>. QED
    BY <2>1, LeastOf
<1>2. ASSUME m \notin S PROVE FALSE
  <2>1. PICK i \in S : TRUE
    OBVIOUS
  <2>2. i <= m /\ i # m /\ i \in Nat /\ m \in Nat
    BY <1>2
  <2>3. m - 1 \in Nat /\ \A j \in S : j <= m - 1
    BY <1>2, <2>2
  <2>. QED
    BY <1>1, <2>2, <2>3
<1>. QED
  BY <1>1, <1>2

\* Repeating steps that stay in S, from a start in S, makes a function into S.
LEMMA RecursionExists ==
    ASSUME NEW S, NEW base \in S, NEW n \in Nat, NEW step \in [1 .. n -> [S -> S]]
    PROVE  \E f \in [0 .. n -> S] :
              f[0] = base /\ \A i \in 1 .. n : f[i] = step[i][f[i - 1]]
<1>. DEFINE Upto(m, f) == f[0] = base /\ \A i \in 1 .. m : f[i] = step[i][f[i - 1]]
            done == {m \in 0 .. n : \E f \in [0 .. m -> S] : Upto(m, f)}
<1>1. 0 \in done
  <2>1. [i \in 0 .. 0 |-> base] \in [0 .. 0 -> S] /\ Upto(0, [i \in 0 .. 0 |-> base])
    OBVIOUS
  <2>2. 0 \in 0 .. n
    OBVIOUS
  <2>. QED
    BY <2>1, <2>2
<1>2. PICK m \in done : \A j \in done : j <= m
  <2>1. done \in SUBSET Nat /\ \A i \in done : i <= n
    OBVIOUS
  <2>. HIDE DEF done
  <2>. QED
    BY <1>1, <2>1, GreatestBelow
<1>3. PICK f \in [0 .. m -> S] : Upto(m, f)
  BY <1>2
<1>4. ASSUME m # n PROVE FALSE
  <2>. DEFINE g == [i \in 0 .. m + 1 |-> IF i = m + 1 THEN step[m + 1][f[m]] ELSE f[i]]
  <2>1. m \in Nat /\ m + 1 \in 1 .. n /\ m + 1 \in 0 .. n /\ m \in 0 .. m
    BY <1>2, <1>4
  <2>2. f[m] \in S /\ step[m + 1][f[m]] \in S
    BY <1>3, <2>1
  <2>3. g \in [0 .. m + 1 -> S]
    BY <2>1, <2>2
  <2>4. g[0] = base
    BY <1>3, <2>1
  <2>5. ASSUME NEW i \in 1 .. m + 1 PROVE g[i] = step[i][g[i - 1]]
    <3>1. CASE i = m + 1
      <4>1. i - 1 = m /\ i \in 0 .. m + 1 /\ m \in 0 .. m + 1 /\ m # m + 1
        BY <2>1, <3>1
      <4>2. g[i] = step[m + 1][f[m]] /\ g[m] = f[m]
        BY <3>1, <4>1
      <4>. QED
        BY <3>1, <4>1, <4>2
    <3>2. CASE i # m + 1
      <4>1. i \in 1 .. m /\ i \in 0 .. m + 1 /\ i - 1 \in 0 .. m + 1 /\ i - 1 # m + 1
        BY <2>1, <3>2
      <4>2. g[i] = f[i] /\ g[i - 1] = f[i - 1]
        BY <3>2, <4>1
      <4>. QED
        BY <1>3, <4>1, <4>2
    <3>. QED
      BY <3>1, <3>2
  <2>. HIDE DEF g
  <2>6. m + 1 \in done
    BY <2>1, <2>3, <2>4, <2>5
  <2>. QED
    BY <1>2, <2>1, <2>6
<1>. QED
  BY <1>3, <1>4

-----------------------------------------------------------------------------
(* The store and the replay *)

\* A version more of a key.
LEMMA AddVersionType ==
    ASSUME NEW vs \in Seq(MvccVersion), NEW rev \in Nat \ {0}, NEW value \in Value \cup {NoValue}
    PROVE  /\ AddVersion(vs, rev, value) \in Seq(MvccVersion)
           /\ IsDeleted(AddVersion(vs, rev, value)) <=> value = NoValue
<1>. DEFINE v == [revision        |-> rev,
                  version         |-> IF vs = <<>> THEN 1 ELSE Newest(vs).version + 1,
                  create_revision |-> IF vs = <<>> THEN rev ELSE vs[1].create_revision,
                  value           |-> value]
<1>1. v \in MvccVersion
  <2>1. CASE vs = <<>>
    BY <2>1 DEF MvccVersion, Revision
  <2>2. CASE vs # <<>>
    <3>1. 1 \in 1 .. Len(vs) /\ Len(vs) \in 1 .. Len(vs)
      BY <2>2, EmptySeq
    <3>2. vs[1] \in MvccVersion /\ vs[Len(vs)] \in MvccVersion
      BY <3>1, ElementOfSeq
    <3>. QED
      BY <2>2, <3>2 DEF MvccVersion, Revision, Newest
  <2>. QED
    BY <2>1, <2>2
<1>2. AddVersion(vs, rev, value) = Append(vs, v)
  BY DEF AddVersion
<1>3. v.value = value
  OBVIOUS
<1>. HIDE DEF v
<1>4. /\ Append(vs, v) \in Seq(MvccVersion) /\ Append(vs, v) # <<>>
      /\ Append(vs, v)[Len(Append(vs, v))] = v
  BY <1>1
<1>. QED
  BY <1>2, <1>3, <1>4 DEF IsDeleted, IsTombstone, Newest

\* A key that is not deleted has a value in the Backend.
Backed(s) == \A k \in Key : ~IsDeleted(s.index[k]) => s.store[k] # NoValue

\* An applied entry changes its key alone, and index and Backend together.
LEMMA ApplyResult ==
    ASSUME NEW s \in KVState, NEW e \in RaftEntry
    PROVE  /\ Apply(s, e) \in KVState
           /\ Apply(s, e).store = [s.store EXCEPT ![e.value.key] = e.value.value]
           /\ Backed(s) => Backed(Apply(s, e))
<1>1. e.value.key \in Key /\ e.value.value \in Value \cup {NoValue}
  BY DEF RaftEntry, Command
<1>2. /\ s.index \in [Key -> Seq(MvccVersion)] /\ s.current_rev \in Nat \ {0}
      /\ s.store \in Data
  BY DEF KVState, Revision
<1>. DEFINE vs == AddVersion(s.index[e.value.key], s.current_rev, e.value.value)
<1>3. vs \in Seq(MvccVersion) /\ (IsDeleted(vs) <=> e.value.value = NoValue)
  <2>1. s.index[e.value.key] \in Seq(MvccVersion)
    BY <1>1, <1>2
  <2>. QED
    BY <1>1, <1>2, <2>1, AddVersionType
<1>4. Apply(s, e) = [index       |-> [s.index EXCEPT ![e.value.key] = vs],
                     current_rev |-> s.current_rev + 1,
                     store       |-> [s.store EXCEPT ![e.value.key] = e.value.value]]
  BY DEF Apply
<1>. HIDE DEF vs
<1>5. Apply(s, e) \in KVState
  BY <1>1, <1>2, <1>3, <1>4 DEF KVState, Revision, Data
<1>6. Backed(s) => Backed(Apply(s, e))
  BY <1>1, <1>2, <1>3, <1>4 DEF Backed, Data
<1>. QED
  BY <1>4, <1>5, <1>6

\* A replayed entry does the same.
LEMMA RestoreEntryResult ==
    ASSUME NEW s \in KVState, NEW e \in RaftEntry
    PROVE  /\ RestoreEntry(s, e) \in KVState
           /\ RestoreEntry(s, e).store = [s.store EXCEPT ![e.value.key] = e.value.value]
           /\ Backed(s) => Backed(RestoreEntry(s, e))
<1>1. e.value.key \in Key /\ e.value.value \in Value \cup {NoValue} /\ e.index \in Nat \ {0}
  BY DEF RaftEntry, Command, Index
<1>2. /\ s.index \in [Key -> Seq(MvccVersion)] /\ s.current_rev \in Revision \ {0}
      /\ s.store \in Data
  BY DEF KVState
<1>. DEFINE vs == AddVersion(s.index[e.value.key], e.index, e.value.value)
<1>3. vs \in Seq(MvccVersion) /\ (IsDeleted(vs) <=> e.value.value = NoValue)
  <2>1. s.index[e.value.key] \in Seq(MvccVersion)
    BY <1>1, <1>2
  <2>. QED
    BY <1>1, <2>1, AddVersionType
<1>4. RestoreEntry(s, e) = [index       |-> [s.index EXCEPT ![e.value.key] = vs],
                            current_rev |-> s.current_rev,
                            store       |-> [s.store EXCEPT ![e.value.key] = e.value.value]]
  BY DEF RestoreEntry
<1>. HIDE DEF vs
<1>5. RestoreEntry(s, e) \in KVState
  BY <1>1, <1>2, <1>3, <1>4 DEF KVState, Data
<1>6. Backed(s) => Backed(RestoreEntry(s, e))
  BY <1>1, <1>2, <1>3, <1>4 DEF Backed, Data
<1>. QED
  BY <1>4, <1>5, <1>6

LEMMA StoresExist ==
    ASSUME NEW s \in KVState, NEW n \in Nat, NEW step \in [1 .. n -> [KVState -> KVState]]
    PROVE  \E g \in [0 .. n -> KVState] :
              g[0] = s /\ \A i \in 1 .. n : g[i] = step[i][g[i - 1]]
BY RecursionExists

\* The records of a sequence that name a key: the last of them decides what a replay leaves.
Names(es, k, n) == n \in 1 .. Len(es) /\ es[n].value.key = k

IsLast(es, k, n) == Names(es, k, n) /\ \A m \in 1 .. Len(es) : Names(es, k, m) => m <= n

LEMMA LastExists ==
    ASSUME NEW es \in Seq(RaftEntry), NEW k, NEW m, Names(es, k, m)
    PROVE  \E n \in 1 .. Len(es) : IsLast(es, k, n)
<1>. DEFINE S == {n \in 1 .. Len(es) : Names(es, k, n)}
<1>1. S \in SUBSET Nat /\ Len(es) \in Nat /\ S # {} /\ \A n \in S : n <= Len(es)
  BY DEF Names
<1>2. PICK n \in S : \A j \in S : j <= n
  <2>. HIDE DEF S
  <2>. QED
    BY <1>1, GreatestBelow
<1>. QED
  BY <1>2 DEF IsLast, Names

\* A replay of any length leaves a store, in which every key has the value of the last record
\* that names it, or the one it had.
LEMMA RestoreResult ==
    ASSUME NEW s \in KVState, NEW es \in Seq(RaftEntry)
    PROVE  /\ RestoreFromEntries(s, es) \in KVState
           /\ Backed(s) => Backed(RestoreFromEntries(s, es))
           /\ \A k \in Key :
                 (\A n \in 1 .. Len(es) : ~Names(es, k, n))
                    => RestoreFromEntries(s, es).store[k] = s.store[k]
           /\ \A k \in Key : \A n \in 1 .. Len(es) : IsLast(es, k, n)
                    => RestoreFromEntries(s, es).store[k] = es[n].value.value
<1>. DEFINE step == [i \in 1 .. Len(es) |-> [x \in KVState |-> RestoreEntry(x, es[i])]]
            Restored(f) == f = [n \in 0 .. Len(es) |->
                                  IF n = 0 THEN s ELSE RestoreEntry(f[n - 1], es[n])]
<1>1. Len(es) \in Nat /\ \A i \in 1 .. Len(es) : es[i] \in RaftEntry
  BY ElementOfSeq
<1>2. step \in [1 .. Len(es) -> [KVState -> KVState]]
  BY <1>1, RestoreEntryResult
<1>3. PICK g \in [0 .. Len(es) -> KVState] :
         g[0] = s /\ \A i \in 1 .. Len(es) : g[i] = step[i][g[i - 1]]
  <2>. HIDE DEF step
  <2>. QED
    BY <1>1, <1>2, StoresExist
<1>4. \A i \in 1 .. Len(es) : g[i - 1] \in KVState /\ g[i] = RestoreEntry(g[i - 1], es[i])
  BY <1>1, <1>3
<1>5. Restored(g)
  BY <1>1, <1>3, <1>4
<1>6. PICK f : Restored(f) /\ RestoreFromEntries(s, es) = f[Len(es)]
  <2>1. Restored(CHOOSE f : Restored(f))
    BY <1>5
  <2>2. RestoreFromEntries(s, es) = (CHOOSE f : Restored(f))[Len(es)]
    BY DEF RestoreFromEntries
  <2>. QED
    BY <2>1, <2>2
<1>7. f[0] = s /\ \A i \in 1 .. Len(es) : f[i] = RestoreEntry(f[i - 1], es[i])
  <2>1. ASSUME NEW i \in 0 .. Len(es)
        PROVE  f[i] = IF i = 0 THEN s ELSE RestoreEntry(f[i - 1], es[i])
    BY <1>6
  <2>. QED
    BY <1>1, <2>1
<1>. DEFINE Good(m) ==
        /\ f[m] \in KVState
        /\ Backed(s) => Backed(f[m])
        /\ \A k \in Key : (\A n \in 1 .. m : ~Names(es, k, n)) => f[m].store[k] = s.store[k]
        /\ \A k \in Key : \A n \in 1 .. m :
              Names(es, k, n) /\ (\A j \in 1 .. m : Names(es, k, j) => j <= n)
                 => f[m].store[k] = es[n].value.value
            bad == {m \in 0 .. Len(es) : ~Good(m)}
<1>8. bad = {}
  <2>1. SUFFICES ASSUME bad # {} PROVE FALSE
    OBVIOUS
  <2>2. PICK m \in bad : \A j \in bad : m <= j
    <3>1. bad \in SUBSET Nat
      BY <1>1
    <3>. HIDE DEF bad
    <3>. QED
      BY <2>1, <3>1, LeastOf
  <2>3. m # 0
    <3>. SUFFICES Good(0)
      BY <2>2
    <3>. QED
      BY <1>7
  <2>4. m \in 1 .. Len(es) /\ m - 1 \in 0 .. Len(es) /\ m \in Nat /\ m - 1 \in Nat
    BY <1>1, <2>2, <2>3
  <2>5. Good(m - 1)
    BY <2>2, <2>4
  <2>6. /\ f[m] \in KVState
        /\ f[m].store = [f[m - 1].store EXCEPT ![es[m].value.key] = es[m].value.value]
        /\ Backed(f[m - 1]) => Backed(f[m])
    <3>. DEFINE x == f[m - 1]
                e == es[m]
    <3>1. x \in KVState /\ e \in RaftEntry
      BY <1>1, <2>4, <2>5
    <3>2. f[m] = RestoreEntry(x, e)
      BY <1>7, <2>4
    <3>. HIDE DEF x, e
    <3>3. /\ RestoreEntry(x, e) \in KVState
          /\ RestoreEntry(x, e).store = [x.store EXCEPT ![e.value.key] = e.value.value]
          /\ Backed(x) => Backed(RestoreEntry(x, e))
      BY <3>1, RestoreEntryResult
    <3>. QED
      BY <3>2, <3>3 DEF x, e
  <2>7. f[m - 1].store \in Data /\ es[m].value.key \in Key
    BY <1>1, <2>4, <2>5 DEF KVState, RaftEntry, Command
  <2>8. \A k \in Key : f[m].store[k] = IF k = es[m].value.key THEN es[m].value.value
                                       ELSE f[m - 1].store[k]
    BY <2>6, <2>7 DEF Data
  <2>9. ASSUME NEW k \in Key, \A n \in 1 .. m : ~Names(es, k, n)
        PROVE  f[m].store[k] = s.store[k]
    <3>1. k # es[m].value.key
      BY <2>4, <2>9 DEF Names
    <3>2. \A n \in 1 .. m - 1 : ~Names(es, k, n)
      BY <2>4, <2>9
    <3>. QED
      BY <2>5, <2>8, <3>1, <3>2
  <2>10. ASSUME NEW k \in Key, NEW n \in 1 .. m, Names(es, k, n),
                \A j \in 1 .. m : Names(es, k, j) => j <= n
         PROVE  f[m].store[k] = es[n].value.value
    <3>1. CASE n = m
      BY <2>8, <2>10, <3>1 DEF Names
    <3>2. CASE n # m
      <4>1. n \in 1 .. m - 1 /\ \A j \in 1 .. m - 1 : j \in 1 .. m
        BY <2>4, <3>2
      <4>2. k # es[m].value.key
        BY <2>4, <2>10, <4>1 DEF Names
      <4>3. f[m - 1].store[k] = es[n].value.value
        BY <2>5, <2>10, <4>1
      <4>. QED
        BY <2>8, <4>2, <4>3
    <3>. QED
      BY <3>1, <3>2
  <2>11. Good(m)
    <3>. HIDE DEF Names
    <3>. QED
      BY <2>5, <2>6, <2>9, <2>10
  <2>. QED
    BY <2>2, <2>11
<1>9. Good(Len(es))
  <2>. HIDE DEF Good
  <2>. QED
    BY <1>1, <1>8
<1>. QED
  BY <1>6, <1>9 DEF IsLast

\* No records.
LEMMA RestoreNothing ==
    ASSUME NEW s \in KVState
    PROVE  /\ RestoreFromEntries(s, <<>>) \in KVState
           /\ Backed(s) => Backed(RestoreFromEntries(s, <<>>))
           /\ RestoreFromEntries(s, <<>>).store = s.store
<1>. DEFINE r == RestoreFromEntries(s, <<>>)
<1>1. <<>> \in Seq(RaftEntry) /\ \A k \in Key : \A n \in 1 .. Len(<<>>) : ~Names(<<>>, k, n)
  BY EmptySeq
<1>2. r \in KVState /\ (Backed(s) => Backed(r)) /\ \A k \in Key : r.store[k] = s.store[k]
  BY <1>1, RestoreResult
<1>. HIDE DEF r
<1>3. r.store = s.store
  BY <1>2 DEF KVState, Data
<1>. QED
  BY <1>2, <1>3 DEF r

\* One record more.
LEMMA RestoreOneMore ==
    ASSUME NEW s \in KVState, NEW es \in Seq(RaftEntry), NEW e \in RaftEntry, NEW k \in Key,
           NEW more \in Seq(RaftEntry), Len(more) = Len(es) + 1, more[Len(more)] = e,
           \A n \in 1 .. Len(es) : more[n] = es[n]
    PROVE  RestoreFromEntries(s, more).store[k]
              = IF k = e.value.key THEN e.value.value ELSE RestoreFromEntries(s, es).store[k]
<1>1. Len(es) \in Nat
  OBVIOUS
<1>2. \A n \in 1 .. Len(es) : n \in 1 .. Len(more) /\ (Names(more, k, n) <=> Names(es, k, n))
  BY <1>1 DEF Names
<1>3. CASE k = e.value.key
  <2>1. IsLast(more, k, Len(more)) /\ Len(more) \in 1 .. Len(more)
    BY <1>1, <1>3 DEF IsLast, Names
  <2>. QED
    BY <1>1, <1>3, <2>1, RestoreResult
<1>4. CASE k # e.value.key /\ \E n \in 1 .. Len(es) : Names(es, k, n)
  <2>1. PICK n \in 1 .. Len(es) : IsLast(es, k, n)
    BY <1>4, LastExists
  <2>2. IsLast(more, k, n)
    BY <1>1, <1>2, <1>4, <2>1 DEF IsLast, Names
  <2>3. RestoreFromEntries(s, more).store[k] = es[n].value.value
    BY <1>1, <1>2, <2>2, RestoreResult
  <2>4. RestoreFromEntries(s, es).store[k] = es[n].value.value
    BY <2>1, RestoreResult
  <2>. QED
    BY <1>4, <2>3, <2>4
<1>5. CASE k # e.value.key /\ \A n \in 1 .. Len(es) : ~Names(es, k, n)
  <2>1. \A n \in 1 .. Len(more) : ~Names(more, k, n)
    BY <1>1, <1>2, <1>5 DEF Names
  <2>2. RestoreFromEntries(s, more).store[k] = s.store[k]
    BY <1>1, <2>1, RestoreResult
  <2>3. RestoreFromEntries(s, es).store[k] = s.store[k]
    BY <1>5, RestoreResult
  <2>. QED
    BY <1>5, <2>2, <2>3
<1>. QED
  BY <1>3, <1>4, <1>5

-----------------------------------------------------------------------------
(* What a start reads *)

LEMMA FewAfterChange ==
    ASSUME NEW data \in Data, Few(data), NEW k \in Key, NEW value
    PROVE  Few([data EXCEPT ![k] = value])
<1>1. IsFiniteSet(Live(data) \cup {k})
  BY FS_AddElement DEF Few
<1>2. Live([data EXCEPT ![k] = value]) \in SUBSET (Live(data) \cup {k})
  BY DEF Live, Data
<1>. QED
  BY <1>1, <1>2, FS_Subset DEF Few

LEMMA EmptyIsData == Empty \in Data /\ Few(Empty)
<1>1. Live(Empty) = {}
  BY DEF Live, Empty
<1>. QED
  BY <1>1, FS_EmptySet DEF Few, Data, Empty

\* Every key of a snapshot is one version old and has its value in the Backend.
LEMMA DeserializeResult ==
    ASSUME NEW data \in Data, Few(data)
    PROVE  /\ Deserialize(data) \in KVState
           /\ Deserialize(data).store = data
           /\ Backed(Deserialize(data))
<1>. DEFINE rank(k) == Cardinality({j \in Live(data) : j <= k})
            index == [k \in Key |-> IF k \in Live(data) THEN AddVersion(<<>>, rank(k), data[k])
                                    ELSE <<>>]
<1>1. Cardinality(Live(data)) \in Nat
  BY FS_CardinalityType DEF Few
<1>2. ASSUME NEW k \in Live(data) PROVE rank(k) \in Nat \ {0}
  <2>. DEFINE upto == {j \in Live(data) : j <= k}
  <2>1. upto \in SUBSET Live(data)
    OBVIOUS
  <2>2. k \in upto
    BY KeyAssumption DEF Live
  <2>. HIDE DEF upto
  <2>3. IsFiniteSet(upto)
    BY <2>1, FS_Subset DEF Few
  <2>4. Cardinality(upto) \in Nat /\ Cardinality(upto) # 0
    BY <2>2, <2>3, FS_CardinalityType, FS_EmptySet
  <2>. QED
    BY <2>4 DEF upto
<1>3. \A k \in Key : index[k] \in Seq(MvccVersion)
                     /\ (~IsDeleted(index[k]) => data[k] # NoValue)
  <2>. SUFFICES ASSUME NEW k \in Key
                PROVE  index[k] \in Seq(MvccVersion) /\ (~IsDeleted(index[k]) => data[k] # NoValue)
    OBVIOUS
  <2>. HIDE DEF rank
  <2>1. CASE k \in Live(data)
    <3>1. index[k] = AddVersion(<<>>, rank(k), data[k])
      BY <2>1
    <3>2. data[k] \in Value \cup {NoValue} /\ data[k] # NoValue
      BY <2>1 DEF Live, Data
    <3>3. AddVersion(<<>>, rank(k), data[k]) \in Seq(MvccVersion)
      BY <1>2, <2>1, <3>2, AddVersionType, EmptySeq
    <3>. QED
      BY <3>1, <3>2, <3>3
  <2>2. CASE k \notin Live(data)
    <3>1. index[k] = <<>>
      BY <2>2
    <3>. QED
      BY <3>1, EmptySeq DEF IsDeleted
  <2>. QED
    BY <2>1, <2>2
<1>4. Deserialize(data) = [index |-> index, current_rev |-> Cardinality(Live(data)) + 1,
                           store |-> data]
  BY DEF Deserialize
<1>5. index \in [Key -> Seq(MvccVersion)]
  BY <1>3
<1>. HIDE DEF index
<1>. QED
  BY <1>1, <1>3, <1>4, <1>5 DEF KVState, Revision, Backed

\* The file of the Backend adds values and takes none.
LEMMA LoadFromDiskResult ==
    ASSUME NEW s \in KVState, file \in Data, Few(file), Few(s.store)
    PROVE  /\ LoadFromDisk(s) \in KVState
           /\ Few(LoadFromDisk(s).store)
           /\ Backed(s) => Backed(LoadFromDisk(s))
           /\ file = Empty => LoadFromDisk(s).store = s.store
<1>. DEFINE store == [k \in Key |-> IF file[k] # NoValue THEN file[k] ELSE s.store[k]]
<1>1. /\ s.index \in [Key -> Seq(MvccVersion)] /\ s.current_rev \in Revision \ {0}
      /\ s.store \in Data /\ s = [index |-> s.index, current_rev |-> s.current_rev,
                                  store |-> s.store]
  BY DEF KVState
<1>2. LoadFromDisk(s) = [index |-> s.index, current_rev |-> s.current_rev, store |-> store]
  <2>1. LoadFromDisk(s) = [s EXCEPT !.store = store]
    BY DEF LoadFromDisk
  <2>. HIDE DEF store
  <2>. QED
    BY <2>1 DEF KVState
<1>3. store \in Data
  BY <1>1 DEF Data
<1>4. Live(store) \in SUBSET (Live(file) \cup Live(s.store))
  BY DEF Live
<1>5. IsFiniteSet(Live(store))
  BY <1>4, FS_Union, FS_Subset DEF Few
<1>6. Backed(s) => \A k \in Key : ~IsDeleted(s.index[k]) => store[k] # NoValue
  BY DEF Backed
<1>7. file = Empty => store = s.store
  BY <1>1 DEF Data, Empty
<1>. HIDE DEF store
<1>. QED
  BY <1>1, <1>2, <1>3, <1>5, <1>6, <1>7 DEF KVState, Few, Backed

\* No record passes the test of its checksum.
LEMMA NothingRead == ReadAllEntries = <<>> /\ \A idx : Kept(idx) = <<>>
<1>1. 33 \in Written /\ 33 \notin Verified
  BY DEF Written, Verified, EntrySize
<1>. QED
  BY <1>1 DEF ReadAllEntries, Kept

-----------------------------------------------------------------------------
(* The log *)

\* Reading the log gives an index; what the handler is called with are entries of it.
LEMMA LastIndexType ==
    ASSUME NEW l \in Log
    PROVE  /\ l.first \in Nat \ {0} /\ l.entries \in Seq(RaftEntry) /\ Len(l.entries) \in Nat
           /\ LastIndex(l) \in Nat /\ LastIndexUnsafe(l) \in Nat
<1>1. l.first \in Nat \ {0} /\ l.entries \in Seq(RaftEntry) /\ Len(l.entries) \in Nat
  BY DEF Log, Index
<1>2. CASE l.entries = <<>>
  BY <1>1, <1>2 DEF LastIndex, LastIndexUnsafe, kNoIndex
<1>3. CASE l.entries # <<>>
  <2>1. l.entries[Len(l.entries)] \in RaftEntry
    BY <1>1, <1>3, EmptySeq, ElementOfSeq
  <2>. QED
    BY <1>1, <1>3, <2>1 DEF LastIndex, LastIndexUnsafe, RaftEntry, Index
<1>. QED
  BY <1>2, <1>3, <1>1

LEMMA AppendEntryType ==
    ASSUME NEW l \in Log, NEW e \in RaftEntry
    PROVE  /\ AppendEntry(l, e) \in Log
           /\ AppendEntry(l, e) = [first |-> l.first, entries |-> Append(l.entries, e)]
<1>1. Append(l.entries, e) \in Seq(RaftEntry)
  BY LastIndexType
<1>2. AppendEntry(l, e) = [l EXCEPT !.entries = Append(l.entries, e)]
  BY DEF AppendEntry
<1>. QED
  BY <1>1, <1>2 DEF Log

LEMMA SliceType ==
    ASSUME NEW l \in Log, NEW start \in Nat, NEW end \in Nat
    PROVE  Slice(l, start, end) \in Seq(RaftEntry)
<1>. DEFINE from == AtLeastFirst(l, start)
            to   == LesserOf(end, LastIndexUnsafe(l) + 1)
            last == LesserOf(Offset(l, to) - 1, Len(l.entries))
<1>1. from \in Nat /\ from >= l.first /\ to \in Nat
  BY LastIndexType DEF AtLeastFirst, LesserOf
<1>2. /\ Offset(l, from) \in Int /\ Offset(l, from) >= 1
      /\ last \in Int /\ last <= Len(l.entries)
  BY <1>1, LastIndexType DEF Offset, LesserOf
<1>3. \A i \in Offset(l, from) .. last : l.entries[i] \in RaftEntry
  BY <1>2, LastIndexType, ElementOfSeq
<1>4. SubSeq(l.entries, Offset(l, from), last) \in Seq(RaftEntry)
  BY <1>2, <1>3, SubSeqProperties
<1>. QED
  BY <1>4, EmptySeq DEF Slice

-----------------------------------------------------------------------------
(* The snapshots *)

SnapshotFile == [last_index : Index \ {0}, last_term : Term, data : Data]

Bounded(S) == \E b \in Nat : \A s \in S : s.last_index <= b

LatestOf(S) == IF S = {} THEN NoSnapshot ELSE CHOOSE s \in S : Newer(s, S) = {}

\* Of some snapshots one is the newest, and that is the one a start would load.
LEMMA NewestResult ==
    ASSUME NEW S \in SUBSET SnapshotFile, Bounded(S), S # {}
    PROVE  LatestOf(S) \in S /\ \A t \in S : t.last_index <= LatestOf(S).last_index
<1>. DEFINE labels == {t.last_index : t \in S}
<1>1. \A t \in S : t.last_index \in Nat
  BY DEF SnapshotFile, Index
<1>2. PICK i \in labels : \A j \in labels : j <= i
  <2>1. PICK b \in Nat : \A t \in S : t.last_index <= b
    BY DEF Bounded
  <2>2. labels \in SUBSET Nat /\ labels # {} /\ \A j \in labels : j <= b
    BY <1>1, <2>1
  <2>. HIDE DEF labels
  <2>. QED
    BY <2>2, GreatestBelow
<1>3. PICK s \in S : s.last_index = i
  BY <1>2
<1>4. Newer(s, S) = {}
  BY <1>1, <1>2, <1>3 DEF Newer
<1>5. LatestOf(S) \in S /\ Newer(LatestOf(S), S) = {}
  BY <1>3, <1>4 DEF LatestOf
<1>6. ASSUME NEW t \in S PROVE t.last_index <= LatestOf(S).last_index
  <2>1. t \notin Newer(LatestOf(S), S)
    BY <1>5
  <2>. QED
    BY <1>1, <1>5, <2>1 DEF Newer
<1>. QED
  BY <1>5, <1>6

\* What there is to load always reads as a snapshot, the absent one included.
LEMMA LatestType ==
    ASSUME NEW S \in SUBSET SnapshotFile, Bounded(S), \A s \in S : Few(s.data)
    PROVE  /\ LatestOf(S).last_index \in Nat /\ LatestOf(S).last_term \in Nat
           /\ LatestOf(S).data \in Data /\ Few(LatestOf(S).data)
<1>1. CASE S = {}
  BY <1>1, EmptyIsData DEF LatestOf, NoSnapshot, kNoTerm
<1>2. CASE S # {}
  <2>1. LatestOf(S) \in S
    BY <1>2, NewestResult
  <2>. QED
    BY <2>1 DEF SnapshotFile, Index, Term
<1>. QED
  BY <1>1, <1>2

Made(idx, term, data) == [last_index |-> idx, last_term |-> term, data |-> data]

Saved(S, idx, term, data) ==
    CleanupOldSnapshots({s \in S : s.last_index # idx} \cup {Made(idx, term, data)})

\* Saving a snapshot never loses the newest, whatever is cleaned up.
LEMMA SavedResult ==
    ASSUME NEW S \in SUBSET SnapshotFile, Bounded(S),
           NEW idx \in Nat \ {0}, NEW term \in Nat, NEW data \in Data
    PROVE  /\ Saved(S, idx, term, data) \in SUBSET SnapshotFile
           /\ Bounded(Saved(S, idx, term, data))
           /\ \A t \in Saved(S, idx, term, data) :
                 t = Made(idx, term, data) \/ (t \in S /\ t.last_index # idx)
           /\ LatestOf(S).last_index <= LatestOf(Saved(S, idx, term, data)).last_index
           /\ (\A t \in S : t.last_index < idx)
                 => Made(idx, term, data) \in Saved(S, idx, term, data)
<1>. DEFINE U == {s \in S : s.last_index # idx} \cup {Made(idx, term, data)}
            T == Saved(S, idx, term, data)
<1>1. /\ Made(idx, term, data) \in SnapshotFile /\ Made(idx, term, data).last_index = idx
      /\ U \in SUBSET SnapshotFile /\ \A t \in U : t.last_index \in Nat
      /\ \A t \in S : t.last_index \in Nat
  BY DEF Made, SnapshotFile, Index, Term
<1>2. Bounded(U)
  <2>1. PICK b \in Nat : \A t \in S : t.last_index <= b
    BY DEF Bounded
  <2>2. CASE idx <= b
    BY <1>1, <2>1, <2>2 DEF Bounded
  <2>3. CASE b < idx
    <3>1. \A t \in U : t.last_index <= idx
      BY <1>1, <2>1, <2>3
    <3>. QED
      BY <3>1 DEF Bounded
  <2>. QED
    BY <2>1, <2>2, <2>3
<1>3. T = {s \in U : Cardinality(Newer(s, U)) < MaxSnapshots}
  BY DEF Saved, CleanupOldSnapshots
<1>4. \A t \in U : t = Made(idx, term, data) \/ (t \in S /\ t.last_index # idx)
  OBVIOUS
<1>5. \A t \in S : \E u \in U : t.last_index = u.last_index
  BY <1>1
<1>6. Made(idx, term, data) \in U
  OBVIOUS
<1>. HIDE DEF U, T
<1>7. ASSUME NEW t \in U, \A u \in U : u.last_index <= t.last_index PROVE t \in T
  <2>1. Newer(t, U) = {}
    BY <1>1, <1>7 DEF Newer
  <2>. QED
    BY <1>3, <2>1, FS_EmptySet, RecoveryAssumption
<1>8. LatestOf(U) \in T /\ \A t \in U : t.last_index <= LatestOf(U).last_index
  BY <1>1, <1>2, <1>6, <1>7, NewestResult
<1>9. T \in SUBSET SnapshotFile /\ Bounded(T)
  BY <1>1, <1>2, <1>3 DEF Bounded
<1>10. LatestOf(T) \in U /\ LatestOf(U).last_index <= LatestOf(T).last_index
  BY <1>3, <1>8, <1>9, NewestResult
<1>11. LatestOf(S).last_index <= LatestOf(T).last_index
  <2>1. CASE S = {}
    BY <1>1, <1>10, <2>1 DEF LatestOf, NoSnapshot
  <2>2. CASE S # {}
    <3>1. LatestOf(S) \in S
      BY <2>2, NewestResult
    <3>2. PICK u \in U : LatestOf(S).last_index = u.last_index
      BY <1>5, <3>1
    <3>3. u.last_index <= LatestOf(U).last_index /\ LatestOf(U) \in U
      BY <1>3, <1>8, <3>2
    <3>. QED
      BY <1>1, <1>10, <3>2, <3>3
  <2>. QED
    BY <2>1, <2>2
<1>12. ASSUME \A t \in S : t.last_index < idx PROVE Made(idx, term, data) \in T
  <2>1. \A u \in U : u.last_index <= Made(idx, term, data).last_index
    BY <1>1, <1>4, <1>12
  <2>. QED
    BY <1>6, <1>7, <2>1
<1>. QED
  BY <1>3, <1>4, <1>9, <1>11, <1>12 DEF T

-----------------------------------------------------------------------------
(* Every life: one lemma per action *)

LEMMA AnyLifeInit == Init => AnyLife
<1>. SUFFICES ASSUME Init PROVE AnyLife
  OBVIOUS
<1>1. TypeOK
  <2>1. log \in Log /\ batch \in Seq(RaftEntry) /\ wal[0] \in Seq(RaftEntry)
    BY EmptySeq DEF Init, Log, EmptyLog, Index
  <2>2. kv \in KVState
    BY EmptySeq, EmptyIsData DEF Init, EmptyKV, KVState, Revision
  <2>3. wal_seq \in DOMAIN wal /\ \A s \in DOMAIN wal : /\ s \in {wal_seq - 1, wal_seq} \cap Nat
                                                      /\ wal[s] \in Seq(RaftEntry)
    BY <2>1 DEF Init
  <2>. QED
    BY <2>1, <2>2, <2>3, EmptyIsData
       DEF Init, TypeOK, kNoTerm, Term, Index
<1>2. FiniteStores
  BY EmptyIsData DEF Init, FiniteStores, EmptyKV
<1>3. LabelsBounded
  BY DEF Init, LabelsBounded
<1>4. IndexBacked
  BY DEF Init, IndexBacked, EmptyKV, IsDeleted
<1>. QED
  BY <1>1, <1>2, <1>3, <1>4 DEF Init, AnyLife, SnapshotLabelled, InBatch

\* What a start loads has the type of what it replaces, and its index is backed.
LEMMA StartLoads ==
    ASSUME AnyLife, Start
    PROVE  /\ kv' \in KVState /\ Few(kv'.store) /\ Backed(kv') /\ last_index' = 0
           /\ log' \in Log /\ current_term' \in Nat /\ commit_index' \in Nat /\ last_applied' \in Nat
           /\ file = Empty => kv'.store = LatestSnapshot.data
<1>. DEFINE loaded == RestoreFromEntries(Deserialize(LatestSnapshot.data), ReadAllEntries)
<1>1. /\ LatestSnapshot.last_index \in Nat /\ LatestSnapshot.last_term \in Nat
      /\ LatestSnapshot.data \in Data /\ Few(LatestSnapshot.data)
  <2>1. /\ snapshots \in SUBSET SnapshotFile /\ Bounded(snapshots)
        /\ \A s \in snapshots : Few(s.data)
    BY DEF AnyLife, TypeOK, SnapshotFile, LabelsBounded, Bounded, FiniteStores
  <2>2. LatestSnapshot = LatestOf(snapshots)
    BY DEF LatestSnapshot, LatestOf
  <2>. QED
    BY <2>1, <2>2, LatestType
<1>2. /\ Deserialize(LatestSnapshot.data) \in KVState
      /\ Deserialize(LatestSnapshot.data).store = LatestSnapshot.data
      /\ Backed(Deserialize(LatestSnapshot.data))
  BY <1>1, DeserializeResult
<1>3. loaded \in KVState /\ Backed(loaded) /\ loaded.store = LatestSnapshot.data
  <2>1. loaded = RestoreFromEntries(Deserialize(LatestSnapshot.data), <<>>)
    BY NothingRead
  <2>. HIDE DEF loaded
  <2>. QED
    BY <1>2, <2>1, RestoreNothing
<1>4. kv' = LoadFromDisk(loaded) /\ last_index' = LargestIndex(<<>>)
  BY NothingRead DEF Start
<1>. HIDE DEF loaded
<1>5. file \in Data /\ Few(file) /\ Few(loaded.store)
  BY <1>1, <1>3 DEF AnyLife, TypeOK, FiniteStores
<1>6. /\ kv' \in KVState /\ Few(kv'.store) /\ Backed(kv')
      /\ file = Empty => kv'.store = LatestSnapshot.data
  BY <1>3, <1>4, <1>5, LoadFromDiskResult
<1>7. /\ log' \in Log /\ current_term' \in Nat /\ commit_index' \in Nat
      /\ last_applied' \in Nat
  BY <1>1, EmptySeq DEF Start, Restore, Log, Index
<1>. QED
  BY <1>4, <1>6, <1>7 DEF LargestIndex, kNoIndex

LEMMA AnyLifeStart == ASSUME AnyLife, Start PROVE AnyLife'
<1>1. TypeOK'
  <2>1. UNCHANGED <<pc, batch, pos, snap_pc, snap_at, snapshot_index, wal_seq, wal, snapshots,
                    hardstate, file, promised, overlapped>> /\ up' = TRUE
    BY DEF Start, loopVars, snapVars, fileVars
  <2>2. last_index' \in Nat
    BY StartLoads
  <2>. QED
    BY <2>1, <2>2, StartLoads DEF AnyLife, TypeOK
<1>2. FiniteStores' /\ LabelsBounded' /\ SnapshotLabelled' /\ InBatch' /\ starts' \in Nat
  BY StartLoads
     DEF AnyLife, FiniteStores, LabelsBounded, SnapshotLabelled, InBatch, Start, loopVars, snapVars,
         fileVars
<1>3. IndexBacked'
  BY StartLoads DEF IndexBacked, Backed
<1>. QED
  BY <1>1, <1>2, <1>3 DEF AnyLife

\* A node that is down has nothing in memory; what it leaves in its files has its type.
LEMMA AnyLifeForget ==
    ASSUME AnyLife, Forget, file' = file \/ file' = kv.store
    PROVE  AnyLife'
<1>1. kv' \in KVState /\ log' \in Log /\ Few(kv'.store) /\ batch' \in Seq(RaftEntry)
  BY EmptySeq, EmptyIsData
     DEF Forget, EmptyKV, KVState, Revision, EmptyLog, Log, Index
<1>2. file' \in Data /\ Few(file')
  BY DEF AnyLife, TypeOK, FiniteStores, KVState
<1>3. TypeOK'
  <2>1. /\ UNCHANGED <<wal_seq, wal, snapshots, hardstate, promised, overlapped>>
        /\ pc' = "wait" /\ pos' = 1 /\ snap_pc' = "sleep"
        /\ current_term' = 0 /\ commit_index' = 0 /\ last_applied' = 0
        /\ snap_at' = 0 /\ snapshot_index' = 0 /\ last_index' = 0
    BY DEF Forget, ghosts, kNoTerm
  <2>2. up' \in BOOLEAN
    BY Zenon DEF Forget
  <2>. QED
    BY <1>1, <1>2, <2>1, <2>2 DEF AnyLife, TypeOK
<1>4. FiniteStores' /\ LabelsBounded' /\ SnapshotLabelled' /\ InBatch' /\ starts' \in Nat
  BY <1>1, <1>2
     DEF AnyLife, FiniteStores, LabelsBounded, SnapshotLabelled, InBatch, Forget, ghosts
<1>5. IndexBacked'
  BY DEF IndexBacked, Forget, EmptyKV, IsDeleted
<1>. QED
  BY <1>3, <1>4, <1>5 DEF AnyLife

LEMMA AnyLifePropose == ASSUME AnyLife, NEW c \in Command, Propose(c) PROVE AnyLife'
<1>1. log' \in Log
  <2>. DEFINE e == [term |-> current_term, index |-> LastIndex(log) + 1, value |-> c]
  <2>1. log \in Log /\ e \in RaftEntry
    BY LastIndexType DEF AnyLife, TypeOK, Term, Index, RaftEntry
  <2>2. log' = AppendEntry(log, e)
    BY DEF Propose
  <2>. HIDE DEF e
  <2>. QED
    BY <2>1, <2>2, AppendEntryType
<1>2. overlapped' \in BOOLEAN
  BY DEF Propose, AnyLife, TypeOK
<1>3. TypeOK'
  BY <1>1, <1>2 DEF AnyLife, TypeOK, Propose, loopVars, snapVars, walVars, fileVars
<1>4. FiniteStores' /\ LabelsBounded' /\ SnapshotLabelled' /\ InBatch' /\ IndexBacked' /\ starts' \in Nat
  BY DEF AnyLife, FiniteStores, LabelsBounded, SnapshotLabelled, InBatch, IndexBacked, Propose,
         loopVars, snapVars, walVars, fileVars
<1>. QED
  BY <1>3, <1>4 DEF AnyLife

LEMMA AnyLifeAdvanceCommit == ASSUME AnyLife, AdvanceCommitIndex PROVE AnyLife'
<1>1. commit_index' \in Nat
  BY LastIndexType DEF AdvanceCommitIndex, Committed, AnyLife, TypeOK
<1>2. TypeOK'
  BY <1>1 DEF AnyLife, TypeOK, AdvanceCommitIndex, loopVars, snapVars, walVars, fileVars, ghosts
<1>3. FiniteStores' /\ LabelsBounded' /\ SnapshotLabelled' /\ InBatch' /\ IndexBacked' /\ starts' \in Nat
  BY DEF AnyLife, FiniteStores, LabelsBounded, SnapshotLabelled, InBatch, IndexBacked,
         AdvanceCommitIndex, loopVars, snapVars, walVars, fileVars, ghosts
<1>. QED
  BY <1>2, <1>3 DEF AnyLife

LEMMA AnyLifeApplyCommitted == ASSUME AnyLife, ApplyCommittedEntries PROVE AnyLife'
<1>1. batch' \in Seq(RaftEntry) /\ last_applied' \in Nat
  BY SliceType DEF ApplyCommittedEntries, AnyLife, TypeOK
<1>2. pc' = "ready" => pos' = pos /\ batch' # <<>>
  BY DEF ApplyCommittedEntries
<1>3. TypeOK'
  BY <1>1 DEF AnyLife, TypeOK, ApplyCommittedEntries, snapVars, walVars, fileVars, ghosts
<1>4. FiniteStores' /\ LabelsBounded' /\ SnapshotLabelled' /\ IndexBacked' /\ starts' \in Nat
  BY DEF AnyLife, FiniteStores, LabelsBounded, SnapshotLabelled, IndexBacked,
         ApplyCommittedEntries, snapVars, walVars, fileVars, ghosts
<1>5. InBatch'
  <2>1. pc' # "applied"
    BY DEF ApplyCommittedEntries
  <2>2. pos' = 1 /\ (batch' # <<>> => 1 <= Len(batch'))
    BY <1>1, EmptySeq DEF ApplyCommittedEntries, AnyLife, InBatch
  <2>. QED
    BY <1>2, <2>1, <2>2 DEF InBatch
<1>. QED
  BY <1>3, <1>4, <1>5 DEF AnyLife

\* The entry a loop is at is one of the batch.
LEMMA EntryAtHand ==
    ASSUME AnyLife, pc \in {"ready", "applied"}
    PROVE  /\ pos \in 1 .. Len(batch) /\ batch \in Seq(RaftEntry) /\ Len(batch) \in Nat
           /\ batch[pos] \in RaftEntry
           /\ batch[pos].value.key \in Key /\ batch[pos].value.value \in Value \cup {NoValue}
           /\ batch[pos].index \in Nat \ {0}
<1>1. batch \in Seq(RaftEntry) /\ pos \in Nat \ {0} /\ pos <= Len(batch)
  BY DEF AnyLife, TypeOK, InBatch
<1>2. pos \in 1 .. Len(batch) /\ Len(batch) \in Nat
  BY <1>1
<1>3. batch[pos] \in RaftEntry
  BY <1>1, <1>2, ElementOfSeq
<1>. QED
  BY <1>1, <1>2, <1>3 DEF RaftEntry, Command, Index

LEMMA AnyLifeProcess == ASSUME AnyLife, ProcessRaftEntry PROVE AnyLife'
<1>1. pos \in 1 .. Len(batch) /\ Len(batch) \in Nat /\ batch[pos] \in RaftEntry
      /\ batch[pos].value.key \in Key /\ batch[pos].value.value \in Value \cup {NoValue}
  BY EntryAtHand DEF ProcessRaftEntry
<1>2. kv' = Apply(kv, batch[pos]) /\ kv \in KVState /\ kv.store \in Data /\ Few(kv.store)
  BY DEF ProcessRaftEntry, AnyLife, TypeOK, KVState, FiniteStores
<1>3. kv' \in KVState /\ Few(kv'.store) /\ Backed(kv')
  <2>1. /\ kv' \in KVState /\ (Backed(kv) => Backed(kv'))
        /\ kv'.store = [kv.store EXCEPT ![batch[pos].value.key] = batch[pos].value.value]
    BY <1>1, <1>2, ApplyResult
  <2>2. Backed(kv)
    BY DEF AnyLife, IndexBacked, Backed
  <2>3. Few(kv'.store)
    <3>1. Few([kv.store EXCEPT ![batch[pos].value.key] = batch[pos].value.value])
      BY <1>1, <1>2, FewAfterChange
    <3>. QED
      BY <2>1, <3>1
  <2>. QED
    BY <2>1, <2>2, <2>3
<1>4. promised' \in [Key -> SUBSET (Value \cup {NoValue})]
  BY <1>1 DEF ProcessRaftEntry, AnyLife, TypeOK
<1>5. \/ pos < Len(batch) /\ pos' = pos + 1 /\ pc' = "ready"
      \/ pos' = 1 /\ pc' = "applied"
  BY DEF ProcessRaftEntry, Advance
<1>6. /\ UNCHANGED <<up, log, current_term, commit_index, last_applied, batch, snap_pc, snap_at,
                     snapshot_index, wal_seq, last_index, wal, snapshots, hardstate, file,
                     starts, overlapped>>
  BY DEF ProcessRaftEntry, raftVars, snapVars, walVars, fileVars
<1>7. TypeOK'
  BY <1>1, <1>3, <1>4, <1>5, <1>6 DEF AnyLife, TypeOK
<1>8. FiniteStores' /\ LabelsBounded' /\ SnapshotLabelled' /\ starts' \in Nat
  BY <1>3, <1>6 DEF AnyLife, FiniteStores, LabelsBounded, SnapshotLabelled
<1>9. InBatch' /\ IndexBacked'
  BY <1>1, <1>3, <1>5, <1>6 DEF InBatch, IndexBacked, Backed
<1>. QED
  BY <1>7, <1>8, <1>9 DEF AnyLife

LEMMA AnyLifeAppend == ASSUME AnyLife, AppendToWal PROVE AnyLife'
<1>1. pos \in 1 .. Len(batch) /\ Len(batch) \in Nat /\ batch[pos] \in RaftEntry
      /\ batch[pos].index \in Nat
  BY EntryAtHand DEF AppendToWal
<1>2. wal_seq' = wal_seq /\ DOMAIN wal' = DOMAIN wal /\ last_index' \in Nat
      /\ \A s \in DOMAIN wal : wal'[s] \in Seq(RaftEntry)
  <2>1. CASE UNCHANGED <<wal, last_index>>
    BY <2>1 DEF AppendToWal, AppendRecord, AnyLife, TypeOK
  <2>2. CASE /\ wal' = [wal EXCEPT ![wal_seq] = Append(@, batch[pos])]
             /\ last_index' = batch[pos].index
    <3>1. wal_seq \in DOMAIN wal /\ \A s \in DOMAIN wal : wal[s] \in Seq(RaftEntry)
      BY DEF AnyLife, TypeOK
    <3>2. Append(wal[wal_seq], batch[pos]) \in Seq(RaftEntry)
      BY <1>1, <3>1
    <3>. QED
      BY <1>1, <2>2, <3>1, <3>2 DEF AppendToWal, AppendRecord
  <2>. QED
    BY <2>1, <2>2 DEF AppendToWal, AppendRecord
<1>3. \/ pos < Len(batch) /\ pos' = pos + 1 /\ pc' = "applied"
      \/ pos' = 1 /\ pc' = "written"
  BY DEF AppendToWal, Advance
<1>4. /\ UNCHANGED <<up, log, current_term, commit_index, last_applied, batch, kv, snap_pc,
                     snap_at, snapshot_index, snapshots, hardstate, file, promised, starts,
                     overlapped>>
  BY DEF AppendToWal, raftVars, snapVars, fileVars, ghosts
<1>5. TypeOK'
  BY <1>1, <1>2, <1>3, <1>4 DEF AnyLife, TypeOK
<1>6. FiniteStores' /\ LabelsBounded' /\ SnapshotLabelled' /\ starts' \in Nat
  BY <1>4 DEF AnyLife, FiniteStores, LabelsBounded, SnapshotLabelled
<1>7. InBatch' /\ IndexBacked'
  BY <1>1, <1>3, <1>4 DEF InBatch, AnyLife, IndexBacked
<1>. QED
  BY <1>5, <1>6, <1>7 DEF AnyLife

LEMMA AnyLifeSaveHardState == ASSUME AnyLife, SaveHardState PROVE AnyLife'
<1>1. hardstate' \in [current_term : Term, commit_index : Index]
  BY LastIndexType DEF SaveHardState, AnyLife, TypeOK, Term, Index
<1>2. TypeOK'
  BY <1>1 DEF AnyLife, TypeOK, SaveHardState, raftVars, loopVars, snapVars, walVars, ghosts
<1>3. FiniteStores' /\ LabelsBounded' /\ SnapshotLabelled' /\ InBatch' /\ IndexBacked'
      /\ starts' \in Nat
  BY DEF AnyLife, FiniteStores, LabelsBounded, SnapshotLabelled, InBatch, IndexBacked,
         SaveHardState, raftVars, loopVars, snapVars, walVars, ghosts
<1>. QED
  BY <1>2, <1>3 DEF AnyLife

LEMMA AnyLifeNotify == ASSUME AnyLife, NotifyCommits PROVE AnyLife'
<1>1. promised' \in [Key -> SUBSET (Value \cup {NoValue})]
  BY DEF NotifyCommits, AnyLife, TypeOK, KVState, Data
<1>2. TypeOK'
  BY <1>1, EmptySeq DEF AnyLife, TypeOK, NotifyCommits, raftVars, snapVars, walVars, fileVars
<1>3. FiniteStores' /\ LabelsBounded' /\ SnapshotLabelled' /\ InBatch' /\ IndexBacked'
      /\ starts' \in Nat
  BY DEF AnyLife, FiniteStores, LabelsBounded, SnapshotLabelled, InBatch, IndexBacked,
         NotifyCommits, raftVars, snapVars, walVars, fileVars
<1>. QED
  BY <1>2, <1>3 DEF AnyLife

LEMMA AnyLifeDecide == ASSUME AnyLife, DecideSnapshot PROVE AnyLife'
<1>1. snap_at' \in Nat /\ snap_at' > 0 /\ snapshot_index \in Nat
  BY LastIndexType DEF DecideSnapshot, ShouldSnapshot, AnyLife, TypeOK
<1>2. TypeOK'
  BY <1>1 DEF AnyLife, TypeOK, DecideSnapshot, raftVars, loopVars, walVars, fileVars, ghosts
<1>3. FiniteStores' /\ LabelsBounded' /\ SnapshotLabelled' /\ InBatch' /\ IndexBacked'
      /\ starts' \in Nat
  BY <1>1 DEF AnyLife, FiniteStores, LabelsBounded, SnapshotLabelled, InBatch, IndexBacked,
         DecideSnapshot, raftVars, loopVars, walVars, fileVars, ghosts
<1>. QED
  BY <1>2, <1>3 DEF AnyLife

\* The snapshots after a save, in terms of those before.
LEMMA SaveSnapshotResult ==
    ASSUME AnyLife, SaveSnapshot
    PROVE  /\ snapshots \in SUBSET SnapshotFile /\ Bounded(snapshots)
           /\ snapshots' = Saved(snapshots, snap_at, current_term, kv.store)
           /\ snap_at \in Nat \ {0} /\ current_term \in Nat /\ kv.store \in Data
<1>1. snapshots' = Saved(snapshots, snap_at, current_term, kv.store)
  BY DEF SaveSnapshot, CreateSnapshot, Saved, Made
<1>2. snap_at \in Nat \ {0} /\ current_term \in Nat /\ kv.store \in Data
  BY DEF SaveSnapshot, AnyLife, TypeOK, KVState, SnapshotLabelled
<1>3. snapshots \in SUBSET SnapshotFile /\ Bounded(snapshots)
  BY DEF AnyLife, TypeOK, SnapshotFile, LabelsBounded, Bounded
<1>. QED
  BY <1>1, <1>2, <1>3

LEMMA AnyLifeSaveSnapshot == ASSUME AnyLife, SaveSnapshot PROVE AnyLife'
<1>1. /\ snapshots' \in SUBSET SnapshotFile /\ Bounded(snapshots')
      /\ \A t \in snapshots' : t = Made(snap_at, current_term, kv.store) \/ t \in snapshots
  BY SaveSnapshotResult, SavedResult
<1>2. /\ UNCHANGED <<up, log, current_term, commit_index, last_applied, pc, batch, pos, kv,
                     snap_at, snapshot_index, wal_seq, last_index, wal, hardstate, file,
                     promised, starts, overlapped>>
      /\ snap_pc' = "saved" /\ snap_pc # "sleep"
  BY DEF SaveSnapshot, raftVars, loopVars, walVars, ghosts
<1>3. TypeOK'
  BY <1>1, <1>2 DEF AnyLife, TypeOK, SnapshotFile
<1>4. FiniteStores'
  BY <1>1, <1>2 DEF AnyLife, FiniteStores, Made
<1>5. LabelsBounded' /\ SnapshotLabelled' /\ InBatch' /\ IndexBacked' /\ starts' \in Nat
  BY <1>1, <1>2 DEF AnyLife, LabelsBounded, Bounded, SnapshotLabelled, InBatch, IndexBacked
<1>. QED
  BY <1>3, <1>4, <1>5 DEF AnyLife

\* The files after a truncation, in terms of those before.
LEMMA TruncateResult ==
    ASSUME AnyLife, TruncateWal
    PROVE  /\ snap_at \in Nat \ {0} /\ last_index' = snap_at - 1
           /\ wal_seq \in Nat /\ wal_seq' = wal_seq + 1 /\ wal_seq \in DOMAIN wal
           /\ wal' = [s \in {wal_seq, wal_seq + 1} |-> IF s = wal_seq THEN wal[s] ELSE <<>>]
           /\ wal[wal_seq] \in Seq(RaftEntry)
BY NothingRead DEF AnyLife, TypeOK, SnapshotLabelled, TruncateWal, TruncateFrom, NewFile

LEMMA AnyLifeTruncate == ASSUME AnyLife, TruncateWal PROVE AnyLife'
<1>1. /\ UNCHANGED <<up, log, current_term, commit_index, last_applied, pc, batch, pos, kv,
                     snapshots, hardstate, file, promised, starts, overlapped>>
      /\ snapshot_index' = snap_at /\ snap_at' = 0 /\ snap_pc' = "sleep"
  BY DEF TruncateWal, raftVars, loopVars, fileVars, ghosts
<1>2. last_index' \in Nat /\ wal_seq' \in Nat /\ wal_seq' \in DOMAIN wal'
  BY TruncateResult
<1>3. \A s \in DOMAIN wal' : s \in {wal_seq' - 1, wal_seq'} \cap Nat /\ wal'[s] \in Seq(RaftEntry)
  <2>1. DOMAIN wal' = {wal_seq, wal_seq + 1} /\ wal_seq \in Nat /\ wal_seq' = wal_seq + 1
    BY TruncateResult
  <2>2. wal'[wal_seq] = wal[wal_seq] /\ wal'[wal_seq + 1] = <<>>
    BY TruncateResult
  <2>3. wal[wal_seq] \in Seq(RaftEntry) /\ <<>> \in Seq(RaftEntry)
    BY TruncateResult, EmptySeq
  <2>4. ASSUME NEW s \in {wal_seq, wal_seq + 1}
        PROVE  s \in {wal_seq' - 1, wal_seq'} \cap Nat /\ wal'[s] \in Seq(RaftEntry)
    <3>1. s \in {wal_seq' - 1, wal_seq'} \cap Nat
      BY <2>1
    <3>2. wal'[s] \in Seq(RaftEntry)
      BY <2>2, <2>3
    <3>. QED
      BY <3>1, <3>2
  <2>. QED
    BY <2>1, <2>4
<1>4. TypeOK'
  BY <1>1, <1>2, <1>3 DEF AnyLife, TypeOK
<1>5. FiniteStores' /\ LabelsBounded' /\ SnapshotLabelled' /\ InBatch' /\ IndexBacked'
      /\ starts' \in Nat
  BY <1>1 DEF AnyLife, FiniteStores, LabelsBounded, SnapshotLabelled, InBatch, IndexBacked
<1>. QED
  BY <1>4, <1>5 DEF AnyLife

LEMMA AnyLifeStutter == ASSUME AnyLife, UNCHANGED vars PROVE AnyLife'
<1>1. UNCHANGED <<up, log, current_term, commit_index, last_applied, pc, batch, pos, kv, snap_pc,
                  snap_at, snapshot_index, wal_seq, last_index, wal, snapshots, hardstate, file,
                  promised, starts, overlapped>>
  BY DEF vars, raftVars, loopVars, snapVars, walVars, fileVars, ghosts
<1>. QED
  BY <1>1 DEF AnyLife, TypeOK, FiniteStores, LabelsBounded, SnapshotLabelled, InBatch, IndexBacked

\* Every step of every life keeps it.
LEMMA AnyLifeNext == AnyLife /\ [Next]_vars => AnyLife'
<1>. SUFFICES ASSUME AnyLife, [Next]_vars PROVE AnyLife'
  OBVIOUS
<1>1. CASE Start
  BY <1>1, AnyLifeStart
<1>2. CASE Crash
  BY <1>2, AnyLifeForget DEF Crash
<1>3. CASE Stop
  BY <1>3, AnyLifeForget DEF Stop, FlushToDisk
<1>4. CASE Worker
  BY <1>4, AnyLifeAdvanceCommit, AnyLifeApplyCommitted, AnyLifeProcess, AnyLifeAppend,
     AnyLifeSaveHardState, AnyLifeNotify DEF Worker
<1>5. CASE Snapshotter
  BY <1>5, AnyLifeDecide, AnyLifeSaveSnapshot, AnyLifeTruncate DEF Snapshotter
<1>6. CASE \E c \in Command : Propose(c)
  BY <1>6, AnyLifePropose
<1>7. CASE UNCHANGED vars
  BY <1>7, AnyLifeStutter
<1>. QED
  BY <1>1, <1>2, <1>3, <1>4, <1>5, <1>6, <1>7 DEF Next

-----------------------------------------------------------------------------
(* The first life: one lemma per action *)

\* The files are what they were.
LEMMA RebuiltStays == ASSUME UNCHANGED <<wal_seq, wal, snapshots>> PROVE Rebuilt' = Rebuilt
BY DEF Rebuilt, LatestSnapshot, Records, File, Newer

\* The snapshot that a start would load, and the records it would come to.
LEMMA FilesType ==
    ASSUME AnyLife
    PROVE  /\ LatestSnapshot = LatestOf(snapshots)
           /\ LatestSnapshot.data \in Data /\ Few(LatestSnapshot.data)
           /\ Deserialize(LatestSnapshot.data) \in KVState
           /\ Deserialize(LatestSnapshot.data).store = LatestSnapshot.data
           /\ File(wal_seq - 1) \in Seq(RaftEntry) /\ File(wal_seq) = wal[wal_seq]
           /\ wal[wal_seq] \in Seq(RaftEntry) /\ Records \in Seq(RaftEntry)
<1>1. LatestSnapshot = LatestOf(snapshots)
  BY DEF LatestSnapshot, LatestOf
<1>2. LatestSnapshot.data \in Data /\ Few(LatestSnapshot.data)
  <2>1. /\ snapshots \in SUBSET SnapshotFile /\ Bounded(snapshots)
        /\ \A s \in snapshots : Few(s.data)
    BY DEF AnyLife, TypeOK, SnapshotFile, LabelsBounded, Bounded, FiniteStores
  <2>. QED
    BY <1>1, <2>1, LatestType
<1>3. /\ Deserialize(LatestSnapshot.data) \in KVState
      /\ Deserialize(LatestSnapshot.data).store = LatestSnapshot.data
  BY <1>2, DeserializeResult
<1>4. File(wal_seq - 1) \in Seq(RaftEntry) /\ File(wal_seq) = wal[wal_seq]
      /\ wal[wal_seq] \in Seq(RaftEntry)
  BY EmptySeq DEF File, AnyLife, TypeOK
<1>5. Records \in Seq(RaftEntry)
  BY <1>4 DEF Records
<1>. QED
  BY <1>1, <1>2, <1>3, <1>4, <1>5

\* While writes come one after the other the log has no hole and starts at 1.
LEMMA LogLength ==
    ASSUME AnyLife, OneAtATime
    PROVE  /\ Len(log.entries) \in Nat /\ log.entries \in Seq(RaftEntry) /\ log.first = 1
           /\ LastIndex(log) = Len(log.entries) /\ LastIndexUnsafe(log) = Len(log.entries)
           /\ last_applied \in Nat /\ commit_index \in Nat
<1>1. log \in Log /\ last_applied \in Nat /\ commit_index \in Nat
  BY DEF AnyLife, TypeOK
<1>2. Len(log.entries) \in Nat /\ log.entries \in Seq(RaftEntry) /\ log.first = 1
  BY <1>1, LastIndexType DEF OneAtATime
<1>3. CASE log.entries = <<>>
  <2>1. Len(log.entries) = 0
    BY <1>3, EmptySeq
  <2>. QED
    BY <1>1, <1>2, <1>3, <2>1 DEF LastIndex, LastIndexUnsafe, kNoIndex
<1>4. CASE log.entries # <<>>
  <2>1. Len(log.entries) \in 1 .. Len(log.entries)
    BY <1>2, <1>4, EmptySeq
  <2>2. log.entries[Len(log.entries)].index = Len(log.entries)
    BY <2>1 DEF OneAtATime
  <2>. QED
    BY <1>1, <1>2, <1>4, <2>2 DEF LastIndex, LastIndexUnsafe
<1>. QED
  BY <1>3, <1>4

\* A replay over a store that has the values of the last records already gives the store.
LEMMA RestoreKeeps ==
    ASSUME NEW s \in KVState, NEW es \in Seq(RaftEntry), NEW k \in Key,
           \A n \in 1 .. Len(es) : IsLast(es, k, n) => s.store[k] = es[n].value.value
    PROVE  RestoreFromEntries(s, es).store[k] = s.store[k]
<1>1. CASE \E n \in 1 .. Len(es) : Names(es, k, n)
  <2>1. PICK n \in 1 .. Len(es) : IsLast(es, k, n)
    BY <1>1, LastExists
  <2>. QED
    BY <2>1, RestoreResult
<1>2. CASE \A n \in 1 .. Len(es) : ~Names(es, k, n)
  BY <1>2, RestoreResult
<1>. QED
  BY <1>1, <1>2

\* The first start finds nothing.
LEMMA FirstStart ==
    ASSUME AnyLife, NeverStarted, Start
    PROVE  FirstLifeRuns' /\ \A k \in Key : Rebuilt'[k] \in promised'[k]
<1>1. LatestSnapshot = NoSnapshot
  BY DEF NeverStarted, LatestSnapshot
<1>2. /\ UNCHANGED <<pc, pos, snap_pc, snap_at, snapshot_index, wal_seq, wal, snapshots,
                     promised>>
      /\ log' = [first |-> 1, entries |-> <<>>] /\ commit_index' = 0 /\ last_applied' = 0
  BY <1>1 DEF Start, loopVars, snapVars, fileVars, NoSnapshot, Restore
<1>3. kv'.store = Empty /\ last_index' = 0
  BY <1>1, StartLoads DEF NeverStarted, NoSnapshot
<1>4. Records = <<>>
  <2>1. File(wal_seq) = <<>> /\ File(wal_seq - 1) = <<>>
    BY DEF NeverStarted, File
  <2>. QED
    BY <2>1 DEF Records
<1>5. Rebuilt = Empty
  <2>1. Deserialize(LatestSnapshot.data) \in KVState
        /\ Deserialize(LatestSnapshot.data).store = Empty
    BY <1>1, FilesType DEF NoSnapshot
  <2>. QED
    BY <1>4, <2>1, RestoreNothing DEF Rebuilt
<1>6. Rebuilt' = Empty
  BY <1>2, <1>5, RebuiltStays
<1>7. \A k \in Key : Empty[k] = NoValue /\ NoValue \in promised'[k]
  BY <1>2 DEF Empty, NeverStarted
<1>8. OneAtATime'
  BY <1>2, EmptySeq DEF NeverStarted, OneAtATime, InHandler
<1>9. NextAccepted' /\ LabelsAscend' /\ FilesFollow'
  BY <1>2, <1>3, <1>6
     DEF NeverStarted, NextAccepted, WrittenUpTo, LabelsAscend, FilesFollow
<1>. QED
  BY <1>3, <1>6, <1>7, <1>8, <1>9 DEF FirstLifeRuns

\* Between the steps of the handler the files give what the store holds.
LEMMA FilesGiveStore ==
    ASSUME FirstLifeRuns, pc # "applied", NEW k \in Key
    PROVE  Rebuilt[k] = kv.store[k] /\ kv.store[k] \in promised[k]
BY DEF FirstLifeRuns, FilesFollow

\* A write that comes when the one before it is applied.
LEMMA FirstPropose ==
    ASSUME AnyLife, FirstLifeRuns, NEW c \in Command, Propose(c), ~overlapped'
    PROVE  FirstLifeRuns' /\ Rebuilt' = Rebuilt
<1>. DEFINE n == Len(log.entries)
            e == [term |-> current_term, index |-> LastIndex(log) + 1, value |-> c]
<1>1. /\ n \in Nat /\ log.entries \in Seq(RaftEntry) /\ log.first = 1 /\ LastIndex(log) = n
      /\ last_applied \in Nat /\ commit_index \in Nat
  BY LogLength DEF FirstLifeRuns
<1>2. /\ UNCHANGED <<commit_index, last_applied, pc, batch, pos, kv, snap_pc, snap_at,
                     snapshot_index, wal_seq, last_index, wal, snapshots, promised>>
      /\ pc \in {"wait", "advanced"}
  BY DEF Propose, loopVars, snapVars, walVars, fileVars
<1>3. n = last_applied /\ n = commit_index
  <2>1. ~(Unapplied > 0)
    BY Zenon DEF Propose
  <2>. QED
    BY <1>1, <2>1 DEF Unapplied, Applied, FirstLifeRuns, OneAtATime
<1>4. log' = [first |-> 1, entries |-> Append(log.entries, e)]
  <2>1. log \in Log /\ e \in RaftEntry
    BY LastIndexType DEF AnyLife, TypeOK, Term, Index, RaftEntry
  <2>2. log' = AppendEntry(log, e)
    BY DEF Propose
  <2>. HIDE DEF e
  <2>. QED
    BY <1>1, <2>1, <2>2, AppendEntryType
<1>5. /\ log'.first = 1 /\ Len(log'.entries) = n + 1
      /\ \A i \in 1 .. n + 1 : log'.entries[i].index = i
  <2>1. e.index = n + 1 /\ \A i \in 1 .. n : log.entries[i].index = i
    BY <1>1 DEF FirstLifeRuns, OneAtATime
  <2>. HIDE DEF e
  <2>. QED
    BY <1>1, <1>4, <2>1
<1>6. OneAtATime'
  BY <1>1, <1>2, <1>3, <1>5 DEF OneAtATime, InHandler, FirstLifeRuns
<1>7. Rebuilt' = Rebuilt
  BY <1>2, RebuiltStays
<1>8. NextAccepted' /\ FilesFollow' /\ \A k \in Key : kv'.store[k] \in promised'[k]
  BY <1>2, <1>7 DEF FirstLifeRuns, NextAccepted, WrittenUpTo, FilesFollow
<1>9. LabelsAscend'
  <2>1. snap_pc # "sleep" => snap_at \in Nat /\ snap_at <= n
    BY DEF FirstLifeRuns, LabelsAscend, AnyLife, TypeOK
  <2>2. snap_pc # "sleep" => snap_at <= n + 1
    BY <1>1, <2>1
  <2>. QED
    BY <1>2, <1>5, <2>2 DEF FirstLifeRuns, LabelsAscend, ServerMuFree
<1>. QED
  BY <1>6, <1>7, <1>8, <1>9 DEF FirstLifeRuns

LEMMA FirstAdvanceCommit ==
    ASSUME AnyLife, FirstLifeRuns, AdvanceCommitIndex
    PROVE  FirstLifeRuns' /\ Rebuilt' = Rebuilt
<1>1. /\ Len(log.entries) \in Nat /\ LastIndex(log) = Len(log.entries)
      /\ last_applied \in Nat /\ commit_index \in Nat
  BY LogLength DEF FirstLifeRuns
<1>2. /\ UNCHANGED <<log, last_applied, batch, pos, kv, snap_pc, snap_at, snapshot_index, wal_seq,
                     last_index, wal, snapshots, promised>>
      /\ pc = "wait" /\ pc' = "advanced"
  BY DEF AdvanceCommitIndex, loopVars, snapVars, walVars, fileVars, ghosts
<1>3. commit_index' = commit_index \/ commit_index' = Len(log.entries)
  BY <1>1 DEF AdvanceCommitIndex, Committed
<1>4. OneAtATime'
  BY <1>1, <1>2, <1>3 DEF FirstLifeRuns, OneAtATime, InHandler
<1>5. Rebuilt' = Rebuilt
  BY <1>2, RebuiltStays
<1>6. NextAccepted' /\ LabelsAscend' /\ FilesFollow' /\ \A k \in Key : kv'.store[k] \in promised'[k]
  BY <1>2, <1>5
     DEF FirstLifeRuns, NextAccepted, WrittenUpTo, LabelsAscend, ServerMuFree, FilesFollow
<1>. QED
  BY <1>4, <1>5, <1>6 DEF FirstLifeRuns

\* The handler is called with the last entry of the log or not at all.
LEMMA FirstApplyCommitted ==
    ASSUME AnyLife, FirstLifeRuns, ApplyCommittedEntries
    PROVE  FirstLifeRuns' /\ Rebuilt' = Rebuilt
<1>. DEFINE n == Len(log.entries)
<1>1. /\ n \in Nat /\ log.entries \in Seq(RaftEntry) /\ log.first = 1 /\ LastIndexUnsafe(log) = n
      /\ last_applied \in Nat /\ commit_index \in Nat
  BY LogLength DEF FirstLifeRuns
<1>2. /\ UNCHANGED <<log, commit_index, pos, kv, snap_pc, snap_at, snapshot_index, wal_seq,
                     last_index, wal, snapshots, promised>>
      /\ pc = "advanced" /\ last_applied' = commit_index
      /\ batch' = Slice(log, last_applied + 1, commit_index + 1)
      /\ pc' = IF batch' = <<>> THEN "wait" ELSE "ready"
  BY DEF ApplyCommittedEntries, snapVars, walVars, fileVars, ghosts
<1>3. /\ last_applied <= commit_index /\ commit_index <= n /\ n <= last_applied + 1
      /\ \A i \in 1 .. n : log.entries[i].index = i
  BY DEF FirstLifeRuns, OneAtATime
<1>4. pos = 1
  BY <1>2 DEF AnyLife, InBatch
<1>5. CASE commit_index = last_applied
  <2>1. batch' = <<>>
    BY <1>1, <1>2, <1>5 DEF Slice, AtLeastFirst, LesserOf
  <2>2. OneAtATime'
    BY <1>1, <1>2, <1>3, <1>5, <2>1 DEF OneAtATime, InHandler
  <2>3. NextAccepted' /\ LabelsAscend'
    BY <1>2, <1>5, <2>1 DEF FirstLifeRuns, NextAccepted, WrittenUpTo, LabelsAscend, ServerMuFree
  <2>. QED
    BY <1>2, <2>1, <2>2, <2>3, RebuiltStays DEF FirstLifeRuns, FilesFollow
<1>6. CASE commit_index # last_applied
  <2>1. commit_index = n /\ n = last_applied + 1 /\ n \in 1 .. n
    BY <1>1, <1>3, <1>6
  <2>2. batch' = SubSeq(log.entries, n, n)
    <3>1. AtLeastFirst(log, n) = n
      BY <1>1, <2>1 DEF AtLeastFirst
    <3>2. LesserOf(n + 1, LastIndexUnsafe(log) + 1) = n + 1
      BY <1>1 DEF LesserOf
    <3>3. Offset(log, n) = n /\ LesserOf(Offset(log, n + 1) - 1, Len(log.entries)) = n
      BY <1>1 DEF Offset, LesserOf
    <3>4. Slice(log, n, n + 1) = SubSeq(log.entries, n, n)
      <4>1. ~(n >= n + 1)
        BY <1>1
      <4>. QED
        BY <3>1, <3>2, <3>3, <4>1 DEF Slice
    <3>5. batch' = Slice(log, n, n + 1)
      BY <1>1, <1>2, <2>1
    <3>. QED
      BY <3>4, <3>5
  <2>3. Len(batch') = 1 /\ batch'[1] = log.entries[n]
    <3>1. \A i \in n .. n : log.entries[i] \in RaftEntry
      BY <1>1, <2>1, ElementOfSeq
    <3>2. /\ Len(SubSeq(log.entries, n, n)) = n - n + 1
          /\ SubSeq(log.entries, n, n)[1] = log.entries[n + 1 - 1]
      BY <1>1, <2>1, <3>1, SubSeqProperties
    <3>. QED
      BY <1>1, <2>2, <3>2
  <2>4. batch' # <<>> /\ pc' = "ready" /\ log.entries # <<>>
    BY <1>1, <1>2, <2>1, <2>3, EmptySeq
  <2>5. OneAtATime'
    BY <1>1, <1>2, <1>3, <1>4, <2>1, <2>3, <2>4 DEF OneAtATime, InHandler
  <2>6. NextAccepted' /\ LabelsAscend'
    BY <1>1, <1>2, <1>4, <2>1, <2>4
       DEF FirstLifeRuns, NextAccepted, WrittenUpTo, LabelsAscend, ServerMuFree
  <2>. QED
    BY <1>2, <2>4, <2>5, <2>6, RebuiltStays DEF FirstLifeRuns, FilesFollow
<1>. QED
  BY <1>5, <1>6

\* The handler has one entry at hand, the last of the log.
LEMMA OneInBatch ==
    ASSUME AnyLife, FirstLifeRuns, InHandler
    PROVE  /\ pos = 1 /\ Len(batch) = 1 /\ \A n \in DOMAIN batch : n = 1
           /\ batch[1].index = last_applied /\ last_applied \in Nat \ {0}
           /\ last_applied = Len(log.entries) /\ commit_index = last_applied
<1>1. Len(log.entries) \in Nat /\ log.entries \in Seq(RaftEntry) /\ last_applied \in Nat
      /\ commit_index \in Nat
  BY LogLength DEF FirstLifeRuns
<1>2. /\ Len(batch) = 1 /\ batch[1] = log.entries[Len(log.entries)] /\ pos = 1
      /\ last_applied = Len(log.entries) /\ log.entries # <<>> /\ last_applied <= commit_index
      /\ commit_index <= Len(log.entries)
  BY DEF FirstLifeRuns, OneAtATime
<1>3. Len(log.entries) \in 1 .. Len(log.entries)
  BY <1>1, <1>2, EmptySeq
<1>4. log.entries[Len(log.entries)].index = Len(log.entries)
  BY <1>3 DEF FirstLifeRuns, OneAtATime
<1>5. \A n \in DOMAIN batch : n = 1
  <2>1. DOMAIN batch = 1 .. Len(batch)
    BY DEF AnyLife, TypeOK
  <2>. QED
    BY <1>2, <2>1
<1>. QED
  BY <1>1, <1>2, <1>3, <1>4, <1>5

LEMMA FirstProcess ==
    ASSUME AnyLife, FirstLifeRuns, ProcessRaftEntry
    PROVE  FirstLifeRuns' /\ \A k \in Key : Rebuilt[k] \in promised[k] => Rebuilt'[k] \in promised'[k]
<1>. DEFINE e == batch[1].value
<1>1. pos = 1 /\ Len(batch) = 1 /\ pc = "ready" /\ snap_pc # "saved"
  BY OneInBatch DEF ProcessRaftEntry, InHandler
<1>2. /\ UNCHANGED <<log, commit_index, last_applied, batch, snap_pc, snap_at, snapshot_index,
                     wal_seq, last_index, wal, snapshots>>
      /\ pos' = 1 /\ pc' = "applied"
  BY <1>1 DEF ProcessRaftEntry, Advance, raftVars, snapVars, walVars, fileVars
<1>3. e.key \in Key /\ e.value \in Value \cup {NoValue} /\ kv \in KVState /\ kv.store \in Data
      /\ batch[1] \in RaftEntry
  BY <1>1, EntryAtHand DEF AnyLife, TypeOK, KVState
<1>4. kv'.store = [kv.store EXCEPT ![e.key] = e.value]
  BY <1>1, <1>3, ApplyResult DEF ProcessRaftEntry
<1>5. promised' = [promised EXCEPT ![e.key] = @ \cup {e.value}]
  BY <1>1 DEF ProcessRaftEntry
<1>. HIDE DEF e
<1>6. \A k \in Key : /\ kv'.store[k] = IF k = e.key THEN e.value ELSE kv.store[k]
                     /\ promised'[k] = IF k = e.key THEN promised[k] \cup {e.value} ELSE promised[k]
  BY <1>3, <1>4, <1>5 DEF AnyLife, TypeOK, Data
<1>7. Rebuilt' = Rebuilt
  BY <1>2, RebuiltStays
<1>8. OneAtATime' /\ NextAccepted' /\ LabelsAscend'
  BY <1>1, <1>2
     DEF FirstLifeRuns, OneAtATime, InHandler, NextAccepted, WrittenUpTo, LabelsAscend
<1>9. FilesFollow'
  <2>1. \A k \in Key : Rebuilt[k] = kv.store[k]
    BY <1>1, FilesGiveStore
  <2>2. kv'.store[e.key] = e.value /\ \A k \in Key : k = e.key \/ Rebuilt'[k] = kv'.store[k]
    BY <1>3, <1>6, <1>7, <2>1
  <2>3. batch'[1].value = e
    BY <1>2 DEF e
  <2>. QED
    BY <1>2, <2>2, <2>3 DEF FilesFollow
<1>10. \A k \in Key : kv'.store[k] \in promised'[k]
  BY <1>6 DEF FirstLifeRuns
<1>11. \A k \in Key : Rebuilt[k] \in promised[k] => Rebuilt'[k] \in promised'[k]
  BY <1>6, <1>7
<1>. QED
  BY <1>8, <1>9, <1>10, <1>11 DEF FirstLifeRuns

\* The entry is written, and the replay ends with it.
LEMMA FirstAppend ==
    ASSUME AnyLife, FirstLifeRuns, AppendToWal
    PROVE  FirstLifeRuns' /\ \A k \in Key : Rebuilt'[k] \in promised'[k]
<1>. DEFINE e == batch[1]
<1>1. /\ pos = 1 /\ Len(batch) = 1 /\ pc = "applied" /\ e.index = last_applied
      /\ last_applied \in Nat \ {0}
  BY OneInBatch DEF AppendToWal, InHandler
<1>2. e \in RaftEntry /\ e.value.key \in Key
  BY <1>1, EntryAtHand
<1>3. /\ UNCHANGED <<log, commit_index, last_applied, batch, kv, snap_pc, snap_at, snapshot_index,
                     wal_seq, snapshots, promised>>
      /\ pos' = 1 /\ pc' = "written" /\ AppendRecord(e)
  BY <1>1 DEF AppendToWal, Advance, AppendRecord, raftVars, snapVars, fileVars, ghosts
<1>4. e.value.value = kv.store[e.value.key]
      /\ \A k \in Key : k = e.value.key \/ Rebuilt[k] = kv.store[k]
  BY <1>1 DEF FirstLifeRuns, FilesFollow
<1>. HIDE DEF e
<1>5. last_index \in Nat /\ last_index <= last_applied - 1
  BY <1>1 DEF FirstLifeRuns, NextAccepted, WrittenUpTo, AnyLife, TypeOK
<1>6. /\ wal' = [wal EXCEPT ![wal_seq] = Append(@, e)]
      /\ last_index' = last_applied
  BY <1>1, <1>3, <1>5 DEF AppendRecord
<1>7. /\ Records \in Seq(RaftEntry) /\ Records' \in Seq(RaftEntry)
      /\ Len(Records') = Len(Records) + 1 /\ Records'[Len(Records')] = e
      /\ \A n \in 1 .. Len(Records) : Records'[n] = Records[n]
  <2>. DEFINE old == File(wal_seq - 1)
              cur == wal[wal_seq]
  <2>1. /\ old \in Seq(RaftEntry) /\ cur \in Seq(RaftEntry) /\ Records = old \o cur
        /\ Records \in Seq(RaftEntry)
    BY FilesType DEF Records
  <2>2. wal_seq \in Nat /\ wal_seq \in DOMAIN wal
    BY DEF AnyLife, TypeOK
  <2>3. DOMAIN wal' = DOMAIN wal /\ wal'[wal_seq] = Append(cur, e)
        /\ \A s \in DOMAIN wal : s # wal_seq => wal'[s] = wal[s]
    BY <1>6, <2>2
  <2>4. File(wal_seq - 1)' = old /\ File(wal_seq)' = Append(cur, e)
    BY <1>3, <2>2, <2>3 DEF File
  <2>5. Records' = old \o Append(cur, e)
    BY <2>4 DEF Records
  <2>. HIDE DEF old, cur
  <2>. QED
    BY <1>2, <2>1, <2>5
<1>8. ASSUME NEW k \in Key PROVE Rebuilt'[k] = kv.store[k]
  <2>. DEFINE s == Deserialize(LatestSnapshot.data)
  <2>1. s \in KVState
    BY FilesType
  <2>2. LatestSnapshot' = LatestSnapshot
    BY <1>3 DEF LatestSnapshot, Newer
  <2>3. Rebuilt' = RestoreFromEntries(s, Records').store
        /\ Rebuilt = RestoreFromEntries(s, Records).store
    BY <2>2 DEF Rebuilt
  <2>. HIDE DEF s
  <2>4. RestoreFromEntries(s, Records').store[k]
           = IF k = e.value.key THEN e.value.value ELSE RestoreFromEntries(s, Records).store[k]
    BY <1>2, <1>7, <2>1, RestoreOneMore
  <2>. QED
    BY <1>4, <2>3, <2>4
<1>9. OneAtATime' /\ NextAccepted'
  BY <1>1, <1>3, <1>6 DEF FirstLifeRuns, OneAtATime, InHandler, NextAccepted, WrittenUpTo
<1>10. LabelsAscend'
  BY <1>1, <1>3 DEF FirstLifeRuns, LabelsAscend, ServerMuFree
<1>11. FilesFollow' /\ \A k \in Key : kv'.store[k] \in promised'[k] /\ Rebuilt'[k] \in promised'[k]
  BY <1>3, <1>8 DEF FirstLifeRuns, FilesFollow
<1>. QED
  BY <1>9, <1>10, <1>11 DEF FirstLifeRuns

LEMMA FirstSaveHardState ==
    ASSUME AnyLife, FirstLifeRuns, SaveHardState
    PROVE  FirstLifeRuns' /\ Rebuilt' = Rebuilt
<1>1. /\ UNCHANGED <<log, commit_index, last_applied, batch, pos, kv, snap_pc, snap_at,
                     snapshot_index, wal_seq, last_index, wal, snapshots, promised>>
      /\ pc = "written" /\ pc' = "saved"
  BY DEF SaveHardState, raftVars, loopVars, snapVars, walVars, ghosts
<1>2. Rebuilt' = Rebuilt
  BY <1>1, RebuiltStays
<1>. QED
  BY <1>1, <1>2
     DEF FirstLifeRuns, OneAtATime, InHandler, NextAccepted, WrittenUpTo, LabelsAscend,
         ServerMuFree, FilesFollow

\* What is acknowledged is in the files.
LEMMA FirstNotify ==
    ASSUME AnyLife, FirstLifeRuns, NotifyCommits
    PROVE  FirstLifeRuns' /\ \A k \in Key : Rebuilt'[k] \in promised'[k]
<1>1. /\ UNCHANGED <<log, commit_index, last_applied, pos, kv, snap_pc, snap_at, snapshot_index,
                     wal_seq, last_index, wal, snapshots>>
      /\ pc = "saved" /\ pc' = "wait"
      /\ \A k \in Key : promised'[k] = promised[k] \/ promised'[k] = {kv.store[k]}
  BY DEF NotifyCommits, raftVars, snapVars, walVars, fileVars
<1>2. commit_index = last_applied
  BY <1>1, OneInBatch DEF InHandler
<1>3. Rebuilt' = Rebuilt
  BY <1>1, RebuiltStays
<1>4. \A k \in Key : kv'.store[k] \in promised'[k] /\ Rebuilt'[k] \in promised'[k]
                     /\ Rebuilt'[k] = kv'.store[k]
  BY <1>1, <1>3, FilesGiveStore
<1>5. OneAtATime'
  BY <1>1, <1>2 DEF FirstLifeRuns, OneAtATime, InHandler
<1>6. NextAccepted' /\ LabelsAscend' /\ FilesFollow'
  BY <1>1, <1>4
     DEF FirstLifeRuns, NextAccepted, WrittenUpTo, LabelsAscend, ServerMuFree, FilesFollow
<1>. QED
  BY <1>4, <1>5, <1>6 DEF FirstLifeRuns

LEMMA FirstDecide ==
    ASSUME AnyLife, FirstLifeRuns, DecideSnapshot
    PROVE  FirstLifeRuns' /\ Rebuilt' = Rebuilt
<1>1. Len(log.entries) \in Nat /\ LastIndex(log) = Len(log.entries)
  BY LogLength DEF FirstLifeRuns
<1>2. /\ UNCHANGED <<log, commit_index, last_applied, pc, batch, pos, kv, snapshot_index, wal_seq,
                     last_index, wal, snapshots, promised>>
      /\ snap_pc = "sleep" /\ snap_pc' = "decided"
      /\ snap_at' = Len(log.entries) /\ snap_at' > snapshot_index
  BY <1>1
     DEF DecideSnapshot, ShouldSnapshot, raftVars, loopVars, walVars, fileVars, ghosts
<1>3. Rebuilt' = Rebuilt
  BY <1>2, RebuiltStays
<1>4. LabelsAscend'
  BY <1>1, <1>2 DEF FirstLifeRuns, LabelsAscend
<1>. QED
  BY <1>2, <1>3, <1>4
     DEF FirstLifeRuns, OneAtATime, InHandler, NextAccepted, WrittenUpTo, FilesFollow

\* The newest snapshot is the store, and the records, played over it, change nothing.
LEMMA RebuiltFromStore ==
    ASSUME AnyLife', LatestSnapshot'.data = kv'.store, NEW k \in Key,
           \A n \in 1 .. Len(Records') : IsLast(Records', k, n)
              => kv'.store[k] = Records'[n].value.value
    PROVE  Rebuilt'[k] = kv'.store[k]
<1>. DEFINE s == Deserialize(LatestSnapshot'.data)
<1>1. s \in KVState /\ s.store = kv'.store /\ Records' \in Seq(RaftEntry)
  <2>1. /\ LatestSnapshot'.data \in Data /\ Few(LatestSnapshot'.data)
    BY DEF AnyLife, TypeOK, KVState, FiniteStores
  <2>2. /\ File(wal_seq - 1)' \in Seq(RaftEntry) /\ File(wal_seq)' \in Seq(RaftEntry)
    BY EmptySeq DEF File, AnyLife, TypeOK
  <2>3. Records' \in Seq(RaftEntry)
    BY <2>2 DEF Records
  <2>. QED
    BY <2>1, <2>3, DeserializeResult
<1>2. Rebuilt' = RestoreFromEntries(s, Records').store
  BY DEF Rebuilt
<1>. HIDE DEF s
<1>. QED
  BY <1>1, <1>2, RestoreKeeps

\* The last record of a key has the value that the files give it.
LEMMA LastRecordDecides ==
    ASSUME AnyLife, NEW k \in Key, NEW n \in 1 .. Len(Records), IsLast(Records, k, n)
    PROVE  Rebuilt[k] = Records[n].value.value
BY FilesType, RestoreResult DEF Rebuilt

LEMMA FirstSaveSnapshot ==
    ASSUME AnyLife, FirstLifeRuns, SaveSnapshot
    PROVE  FirstLifeRuns' /\ \A k \in Key : Rebuilt'[k] \in promised'[k]
<1>. DEFINE made == Made(snap_at, current_term, kv.store)
<1>1. /\ UNCHANGED <<log, commit_index, last_applied, pc, batch, pos, kv, snap_at, snapshot_index,
                     wal_seq, last_index, wal, promised>>
      /\ snap_pc = "decided" /\ snap_pc' = "saved" /\ ServerMuFree
  BY DEF SaveSnapshot, raftVars, loopVars, walVars, ghosts
<1>2. /\ snap_at \in Nat \ {0} /\ snapshot_index \in Nat /\ snap_at > snapshot_index
      /\ snap_at <= Len(log.entries) /\ \A s \in snapshots : s.last_index <= snapshot_index
      /\ \A s \in snapshots : s.last_index \in Nat
  BY <1>1, SaveSnapshotResult
     DEF FirstLifeRuns, LabelsAscend, AnyLife, TypeOK, Index
<1>3. /\ snapshots' \in SUBSET SnapshotFile /\ Bounded(snapshots') /\ made \in snapshots'
      /\ \A t \in snapshots' : t = made \/ t \in snapshots
  <2>1. \A t \in snapshots : t.last_index < snap_at
    BY <1>2
  <2>. QED
    BY <2>1, SaveSnapshotResult, SavedResult
<1>4. made.last_index = snap_at /\ made.data = kv.store
  BY DEF Made
<1>. HIDE DEF made
<1>5. LatestSnapshot'.data = kv.store
  <2>1. LatestSnapshot' = LatestOf(snapshots')
    BY DEF LatestSnapshot, LatestOf, Newer
  <2>2. LatestOf(snapshots') \in snapshots' /\ snap_at <= LatestOf(snapshots').last_index
    BY <1>3, <1>4, NewestResult
  <2>3. LatestOf(snapshots') \notin snapshots
    BY <1>2, <2>2
  <2>. QED
    BY <1>3, <1>4, <2>1, <2>2, <2>3
<1>6. Records' = Records
  BY <1>1 DEF Records, File
<1>7. ASSUME NEW k \in Key PROVE Rebuilt'[k] = kv.store[k] /\ kv.store[k] \in promised[k]
  <2>1. Rebuilt[k] = kv.store[k] /\ kv.store[k] \in promised[k]
    BY <1>1, FilesGiveStore DEF ServerMuFree
  <2>2. ASSUME NEW n \in 1 .. Len(Records'), IsLast(Records', k, n)
        PROVE  kv'.store[k] = Records'[n].value.value
    BY <1>1, <1>6, <2>1, <2>2, LastRecordDecides
  <2>3. AnyLife'
    BY AnyLifeSaveSnapshot
  <2>. QED
    BY <1>1, <1>5, <2>1, <2>2, <2>3, RebuiltFromStore
<1>8. OneAtATime' /\ NextAccepted'
  BY <1>1 DEF FirstLifeRuns, OneAtATime, InHandler, NextAccepted, WrittenUpTo
<1>9. LabelsAscend'
  BY <1>1, <1>2, <1>3, <1>4 DEF LabelsAscend, ServerMuFree
<1>10. FilesFollow' /\ \A k \in Key : kv'.store[k] \in promised'[k] /\ Rebuilt'[k] \in promised'[k]
  BY <1>1, <1>7 DEF FilesFollow, ServerMuFree
<1>. QED
  BY <1>8, <1>9, <1>10 DEF FirstLifeRuns

\* What the file that goes held is in the snapshot, and the next record is not passed over.
LEMMA FirstTruncate ==
    ASSUME AnyLife, FirstLifeRuns, TruncateWal
    PROVE  FirstLifeRuns' /\ \A k \in Key : Rebuilt'[k] \in promised'[k]
<1>1. /\ UNCHANGED <<log, commit_index, last_applied, pc, batch, pos, kv, snapshots, promised>>
      /\ snap_pc = "saved" /\ snap_pc' = "sleep" /\ snapshot_index' = snap_at
  BY DEF TruncateWal, raftVars, loopVars, fileVars, ghosts
<1>2. /\ ServerMuFree /\ snap_at \in Nat \ {0} /\ snapshot_index \in Nat
      /\ snap_at > snapshot_index /\ snap_at <= Len(log.entries)
      /\ \E s \in snapshots : s.last_index = snap_at
      /\ \A s \in snapshots : s.last_index <= snapshot_index
                              \/ (s.last_index = snap_at /\ s.data = kv.store)
      /\ \A s \in snapshots : s.last_index \in Nat
  BY <1>1, TruncateResult DEF FirstLifeRuns, LabelsAscend, AnyLife, TypeOK, Index
<1>3. LatestSnapshot'.data = kv'.store
  <2>1. LatestSnapshot' = LatestOf(snapshots)
    BY <1>1 DEF LatestSnapshot, LatestOf, Newer
  <2>2. snapshots \in SUBSET SnapshotFile /\ Bounded(snapshots) /\ snapshots # {}
    BY <1>2 DEF AnyLife, TypeOK, SnapshotFile, LabelsBounded, Bounded
  <2>3. LatestOf(snapshots) \in snapshots /\ snap_at <= LatestOf(snapshots).last_index
    BY <1>2, <2>2, NewestResult
  <2>4. LatestOf(snapshots).data = kv.store
    BY <1>2, <2>3
  <2>. QED
    BY <1>1, <2>1, <2>4
<1>. DEFINE old == File(wal_seq - 1)
            cur == wal[wal_seq]
<1>4. /\ old \in Seq(RaftEntry) /\ cur \in Seq(RaftEntry) /\ Records = old \o cur
      /\ Records' = cur
  <2>1. old \in Seq(RaftEntry) /\ cur \in Seq(RaftEntry) /\ Records = old \o cur
    BY FilesType DEF Records
  <2>2. /\ wal_seq \in Nat /\ wal_seq' = wal_seq + 1
        /\ DOMAIN wal' = {wal_seq, wal_seq + 1} /\ wal'[wal_seq] = cur /\ wal'[wal_seq + 1] = <<>>
    BY TruncateResult
  <2>. HIDE DEF old, cur
  <2>3. File(wal_seq - 1)' = cur /\ File(wal_seq)' = <<>>
    BY <2>2 DEF File
  <2>4. Records' = cur \o <<>>
    BY <2>3 DEF Records
  <2>. QED
    BY <2>1, <2>4
<1>. HIDE DEF old, cur
<1>5. ASSUME NEW k \in Key PROVE Rebuilt'[k] = kv.store[k] /\ kv.store[k] \in promised[k]
  <2>1. Rebuilt[k] = kv.store[k] /\ kv.store[k] \in promised[k]
    BY <1>2, FilesGiveStore DEF ServerMuFree
  <2>2. ASSUME NEW n \in 1 .. Len(cur), IsLast(cur, k, n)
        PROVE  kv.store[k] = cur[n].value.value
    <3>1. /\ Len(old) \in Nat /\ Len(cur) \in Nat /\ Len(Records) = Len(old) + Len(cur)
          /\ \A i \in 1 .. Len(cur) : Records[Len(old) + i] = cur[i]
      BY <1>4
    <3>2. Len(old) + n \in 1 .. Len(Records) /\ Records[Len(old) + n] = cur[n]
      BY <3>1
    <3>3. ASSUME NEW m \in 1 .. Len(Records), Names(Records, k, m) PROVE m <= Len(old) + n
      <4>1. CASE m <= Len(old)
        BY <3>1, <4>1
      <4>2. CASE m > Len(old)
        <5>1. m - Len(old) \in 1 .. Len(cur) /\ m = Len(old) + (m - Len(old))
          BY <3>1, <4>2
        <5>2. Names(cur, k, m - Len(old))
          BY <3>1, <3>3, <5>1 DEF Names
        <5>. QED
          BY <2>2, <3>1, <5>1, <5>2 DEF IsLast
      <4>. QED
        BY <3>1, <4>1, <4>2
    <3>4. IsLast(Records, k, Len(old) + n)
      BY <2>2, <3>2, <3>3 DEF IsLast, Names
    <3>. QED
      BY <2>1, <3>2, <3>4, LastRecordDecides
  <2>3. AnyLife'
    BY AnyLifeTruncate
  <2>. QED
    BY <1>1, <1>3, <1>4, <2>1, <2>2, <2>3, RebuiltFromStore
<1>6. OneAtATime'
  BY <1>1 DEF FirstLifeRuns, OneAtATime, InHandler
<1>7. NextAccepted'
  <2>1. last_index' = snap_at - 1
    BY TruncateResult
  <2>2. /\ Len(log.entries) \in Nat /\ last_applied \in Nat
        /\ Len(log.entries) <= last_applied + 1
        /\ pc = "ready" => last_applied = Len(log.entries)
    BY LogLength DEF FirstLifeRuns, OneAtATime, InHandler
  <2>3. snap_at - 1 <= WrittenUpTo
    BY <1>2, <2>2 DEF ServerMuFree, WrittenUpTo
  <2>4. WrittenUpTo' = WrittenUpTo
    BY <1>1 DEF WrittenUpTo
  <2>. QED
    BY <2>1, <2>3, <2>4 DEF NextAccepted
<1>8. LabelsAscend'
  BY <1>1, <1>2 DEF LabelsAscend
<1>9. FilesFollow' /\ \A k \in Key : kv'.store[k] \in promised'[k] /\ Rebuilt'[k] \in promised'[k]
  BY <1>1, <1>2, <1>5 DEF FilesFollow, ServerMuFree
<1>. QED
  BY <1>6, <1>7, <1>8, <1>9 DEF FirstLifeRuns

\* A crash or a stop leaves the files as they are.
LEMMA FirstForget == ASSUME Forget PROVE Rebuilt' = Rebuilt /\ ~up' /\ UNCHANGED <<promised, starts>>
<1>1. UNCHANGED <<wal_seq, wal, snapshots, promised, starts>> /\ ~up'
  BY DEF Forget, ghosts
<1>. QED
  BY <1>1, RebuiltStays

\* While the first life goes on, every step keeps what holds of it.
LEMMA FirstLifeStep ==
    ASSUME AnyLife, FirstLifeRuns, ~overlapped', up,
           Worker \/ Snapshotter \/ \E c \in Command : Propose(c),
           \A k \in Key : Rebuilt[k] \in promised[k]
    PROVE  FirstLifeRuns' /\ \A k \in Key : Rebuilt'[k] \in promised'[k]
<1>1. CASE \E c \in Command : Propose(c)
  <2>1. promised' = promised
    BY <1>1 DEF Propose
  <2>. QED
    BY <1>1, <2>1, FirstPropose
<1>2. CASE AdvanceCommitIndex
  <2>1. promised' = promised
    BY <1>2 DEF AdvanceCommitIndex, ghosts
  <2>. QED
    BY <1>2, <2>1, FirstAdvanceCommit
<1>3. CASE ApplyCommittedEntries
  <2>1. promised' = promised
    BY <1>3 DEF ApplyCommittedEntries, ghosts
  <2>. QED
    BY <1>3, <2>1, FirstApplyCommitted
<1>4. CASE ProcessRaftEntry
  BY <1>4, FirstProcess
<1>5. CASE AppendToWal
  BY <1>5, FirstAppend
<1>6. CASE SaveHardState
  <2>1. promised' = promised
    BY <1>6 DEF SaveHardState, ghosts
  <2>. QED
    BY <1>6, <2>1, FirstSaveHardState
<1>7. CASE NotifyCommits
  BY <1>7, FirstNotify
<1>8. CASE DecideSnapshot
  <2>1. promised' = promised
    BY <1>8 DEF DecideSnapshot, ghosts
  <2>. QED
    BY <1>8, <2>1, FirstDecide
<1>9. CASE SaveSnapshot
  BY <1>9, FirstSaveSnapshot
<1>10. CASE TruncateWal
  BY <1>10, FirstTruncate
<1>. QED
  BY <1>1, <1>2, <1>3, <1>4, <1>5, <1>6, <1>7, <1>8, <1>9, <1>10 DEF Worker, Snapshotter

\* The steps of a running node: it does not start, and the order of writes, once broken, stays so.
LEMMA RunningStep ==
    ASSUME AnyLife, Worker \/ Snapshotter \/ \E c \in Command : Propose(c)
    PROVE  up /\ up' /\ starts' = starts /\ (~overlapped' => ~overlapped)
<1>1. CASE \E c \in Command : Propose(c)
  <2>1. PICK c \in Command : Propose(c)
    BY <1>1
  <2>2. up /\ up' = up /\ starts' = starts /\ overlapped' = (overlapped \/ Unapplied > 0)
    BY <2>1, Zenon DEF Propose
  <2>. QED
    BY <2>2, Zenon
<1>2. CASE Worker \/ Snapshotter
  <2>1. up
    BY <1>2
       DEF Worker, AdvanceCommitIndex, ApplyCommittedEntries, ProcessRaftEntry, AppendToWal,
           SaveHardState, NotifyCommits, Snapshotter, DecideSnapshot, SaveSnapshot, TruncateWal
  <2>2. UNCHANGED <<up, starts, overlapped>>
    BY <1>2
       DEF Worker, AdvanceCommitIndex, ApplyCommittedEntries, ProcessRaftEntry, AppendToWal,
           SaveHardState, NotifyCommits, Snapshotter, DecideSnapshot, SaveSnapshot, TruncateWal,
           ghosts
  <2>3. up' = up /\ starts' = starts /\ overlapped' = overlapped
    BY <2>2
  <2>. QED
    BY <2>1, <2>3, Zenon
<1>. QED
  BY <1>1, <1>2

LEMMA FirstLifeNext == AnyLife /\ FirstLife /\ [Next]_vars => FirstLife'
<1>. SUFFICES ASSUME AnyLife, FirstLife, [Next]_vars PROVE FirstLife'
  OBVIOUS
<1>1. CASE Start
  <2>1. starts' = starts + 1 /\ starts \in Nat /\ overlapped' = overlapped /\ up'
    BY <1>1 DEF Start, AnyLife
  <2>2. CASE starts = 0
    BY <1>1, <2>1, <2>2, FirstStart DEF FirstLife
  <2>3. CASE starts # 0
    BY <2>1, <2>3 DEF FirstLife
  <2>. QED
    BY <2>2, <2>3
<1>2. CASE Crash \/ Stop
  <2>1. up /\ Forget
    BY <1>2 DEF Crash, Stop
  <2>2. Rebuilt' = Rebuilt /\ ~up' /\ UNCHANGED <<promised, starts, overlapped>>
    BY <2>1, FirstForget DEF Forget, ghosts
  <2>. QED
    BY <2>1, <2>2 DEF FirstLife, NeverStarted
<1>3. CASE Worker \/ Snapshotter \/ \E c \in Command : Propose(c)
  <2>1. up /\ up' /\ starts' = starts /\ (~overlapped' => ~overlapped)
    BY <1>3, RunningStep
  <2>2. starts # 0
    BY <2>1 DEF FirstLife, NeverStarted
  <2>3. ASSUME starts' <= 1, ~overlapped'
        PROVE  FirstLifeRuns' /\ \A k \in Key : Rebuilt'[k] \in promised'[k]
    <3>1. FirstLifeRuns /\ \A k \in Key : Rebuilt[k] \in promised[k]
      BY <2>1, <2>3 DEF FirstLife
    <3>. QED
      BY <1>3, <2>1, <2>3, <3>1, FirstLifeStep
  <2>. QED
    BY <2>1, <2>2, <2>3 DEF FirstLife
<1>4. CASE UNCHANGED vars
  <2>1. UNCHANGED <<up, log, current_term, commit_index, last_applied, pc, batch, pos, kv, snap_pc,
                    snap_at, snapshot_index, wal_seq, last_index, wal, snapshots, file,
                    promised, starts, overlapped>>
    BY <1>4 DEF vars, raftVars, loopVars, snapVars, walVars, fileVars, ghosts
  <2>2. Rebuilt' = Rebuilt
    BY <2>1, RebuiltStays
  <2>3. NeverStarted' <=> NeverStarted
    BY <2>1 DEF NeverStarted
  <2>4. FirstLifeRuns' <=> FirstLifeRuns
    BY <2>1, <2>2
       DEF FirstLifeRuns, OneAtATime, InHandler, NextAccepted, WrittenUpTo, LabelsAscend,
           ServerMuFree, FilesFollow
  <2>. QED
    BY <2>1, <2>2, <2>3, <2>4 DEF FirstLife
<1>. QED
  BY <1>1, <1>2, <1>3, <1>4 DEF Next

LEMMA FirstLifeInit == Init => FirstLife
<1>. SUFFICES ASSUME Init PROVE FirstLife
  OBVIOUS
<1>1. NeverStarted
  BY DEF Init, NeverStarted
<1>2. Rebuilt = Empty
  <2>1. LatestSnapshot = NoSnapshot
    BY <1>1 DEF NeverStarted, LatestSnapshot
  <2>2. File(wal_seq) = <<>> /\ File(wal_seq - 1) = <<>>
    BY <1>1 DEF NeverStarted, File
  <2>3. Records = <<>>
    BY <2>2 DEF Records
  <2>4. Deserialize(Empty) \in KVState /\ Deserialize(Empty).store = Empty
    BY EmptyIsData, DeserializeResult
  <2>. QED
    BY <2>1, <2>3, <2>4, RestoreNothing DEF Rebuilt, NoSnapshot
<1>. QED
  BY <1>1, <1>2 DEF FirstLife, NeverStarted, Empty

-----------------------------------------------------------------------------
(* The theorems *)

\* The inductive invariant holds from the first state on, through every start, crash, stop,
\* append and snapshot.
THEOREM Inductive == Spec => []IndInv
<1>1. Init => IndInv
  BY AnyLifeInit, FirstLifeInit DEF IndInv
<1>2. IndInv /\ [Next]_vars => IndInv'
  BY AnyLifeNext, FirstLifeNext DEF IndInv
<1>. QED
  BY <1>1, <1>2, PTL DEF Spec

\* Every thread reads what the others left as what it takes it for: the members of
\* EtcdServer, RaftNode, WAL and SnapshotManager have their types, and the WAL is in no more
\* than two files, the one written and the one TruncateFrom kept.
THEOREM TypeCorrect == Spec => []TypeOK
<1>1. IndInv => TypeOK
  BY DEF IndInv, AnyLife
<1>. QED
  BY <1>1, Inductive, PTL

\* PutWithPrev, Delete, RestoreFromEntries, Deserialize and LoadFromDisk change the index of
\* MVCC and the Backend together: a key that is found in the one has its value in the other,
\* whatever is replayed and whatever file is loaded on top.
THEOREM IndexAlwaysBacked == Spec => []IndexBacked
<1>1. IndInv => IndexBacked
  BY DEF IndInv, AnyLife
<1>. QED
  BY <1>1, Inductive, PTL

\* In the first life of a node whose writes come one after the other, the newest snapshot and
\* the records of the WAL give every key what was promised for it, at every moment at which
\* the process may end: CreateSnapshot, CleanupOldSnapshots and TruncateFrom lose nothing that
\* AppendEntries wrote before NotifyCommits.
THEOREM FilesAlwaysSuffice == Spec => []FilesSuffice
<1>1. IndInv => FilesSuffice
  BY Zenon DEF IndInv, FirstLife, FilesSuffice
<1>. QED
  BY <1>1, Inductive, PTL

\* No step of any life makes the newest snapshot an older one, though a save may replace it
\* and CleanupOldSnapshots deletes files.
THEOREM NewestNeverLost == Spec => NewestSnapshotStays
<1>1. IndInv /\ [Next]_vars => [LatestSnapshot'.last_index >= LatestSnapshot.last_index]_vars
  <2>. SUFFICES ASSUME AnyLife, [Next]_vars
                PROVE  LatestSnapshot'.last_index >= LatestSnapshot.last_index
    BY DEF IndInv
  <2>1. LatestSnapshot = LatestOf(snapshots) /\ LatestSnapshot' = LatestOf(snapshots')
    BY DEF LatestSnapshot, LatestOf, Newer
  <2>2. snapshots \in SUBSET SnapshotFile /\ Bounded(snapshots) /\ \A s \in snapshots : Few(s.data)
    BY DEF AnyLife, TypeOK, SnapshotFile, LabelsBounded, Bounded, FiniteStores
  <2>3. LatestSnapshot.last_index \in Nat
    BY <2>1, <2>2, LatestType
  <2>4. CASE SaveSnapshot
    <3>1. LatestOf(snapshots).last_index <= LatestOf(snapshots').last_index
      BY <2>4, SaveSnapshotResult, SavedResult
    <3>2. /\ snapshots' \in SUBSET SnapshotFile /\ Bounded(snapshots')
          /\ \A s \in snapshots' : Few(s.data)
      <4>1. AnyLife'
        BY AnyLifeNext
      <4>. QED
        BY <4>1 DEF AnyLife, TypeOK, SnapshotFile, LabelsBounded, Bounded, FiniteStores
    <3>3. LatestSnapshot'.last_index \in Nat
      BY <2>1, <3>2, LatestType
    <3>. QED
      BY <2>1, <2>3, <3>1, <3>3
  <2>5. CASE ~SaveSnapshot
    <3>1. snapshots' = snapshots
      BY <2>5
         DEF Next, Start, Crash, Stop, Forget, Worker, AdvanceCommitIndex, ApplyCommittedEntries,
             ProcessRaftEntry, AppendToWal, SaveHardState, NotifyCommits, Snapshotter,
             DecideSnapshot, TruncateWal, Propose, vars, fileVars
    <3>. QED
      BY <2>1, <2>3, <3>1
  <2>. QED
    BY <2>4, <2>5
<1>. QED
  BY <1>1, Inductive, PTL DEF Spec, NewestSnapshotStays
=============================================================================
