------------------------------ MODULE Recovery ------------------------------
(***************************************************************************)
(* What a node writes to its files and what a start makes of them:         *)
(* EtcdServer::Start, Stop, RaftReadyHandler and SnapshotLoop              *)
(* (etcd_server.cpp) over WAL (wal.cpp), SnapshotManager (snapshot.cpp),   *)
(* KVStore and the file of the Backend.  The cluster has one node, so that *)
(* nothing but its own files can bring lost data back.                     *)
(*                                                                         *)
(* Three threads share the node: the worker of RaftNode, which advances    *)
(* the commit index and runs the ready handler; the snapshot thread; and   *)
(* the clients, which propose.  RaftNode::mu_ is held from                 *)
(* ApplyCommittedEntries to the end of the handler and keeps proposals     *)
(* out, server_mu_ keeps handler and snapshot apart.  A crash may fall     *)
(* between any two steps, between the records of one append too; what was  *)
(* written before it stays, a record that it interrupts is not seen.       *)
(***************************************************************************)
EXTENDS Mvcc

CONSTANTS
    MaxSnapshots,        \* ClusterConfig::max_snapshots
    SnapshotThreshold,   \* threshold of ShouldSnapshot
    MaxProposals,        \* bound: proposals over all lives of the node
    MaxUnapplied,        \* bound: proposals that wait for the worker at a time
    MaxStarts            \* bound: lives of the node

ASSUME RecoveryAssumption ==
    /\ MaxSnapshots \in Nat \ {0} /\ SnapshotThreshold \in Nat \ {0}
    /\ MaxProposals \in Nat /\ MaxUnapplied \in Nat /\ MaxStarts \in Nat

(* What a Raft entry carries: a put, or a deletion when value is NoValue. *)
Command == [key : Key, value : Value \cup {NoValue}]
Data    == [Key -> Value \cup {NoValue}]

INSTANCE RaftLog WITH Value <- Command

VARIABLES
    up,            \* the process runs
    (* RaftNode *)
    log, current_term, commit_index, last_applied,
    pc,            \* of the worker: where in its loop and in RaftReadyHandler
    batch,         \* the entries RaftReadyHandler was called with
    pos,           \* of the loop over the batch: the entry it comes to next
    (* KVStore: index_ and current_rev_ of MVCC, store_ of Backend *)
    kv,
    (* the snapshot thread: SnapshotLoop, its last_applied, snapshot_index_ *)
    snap_pc, snap_at, snapshot_index,
    (* WAL: wal_seq_ and last_index_ *)
    wal_seq, last_index,
    (* files: WAL by sequence number, snapshots, hard state, Backend *)
    wal, snapshots, hardstate, file,
    (* bounds *)
    proposals, starts,
    (* history: the values each key may have for its clients, that of the *)
    (* last acknowledged write or of one applied since; whether a write   *)
    (* was ever proposed before the one before it was applied             *)
    promised, overlapped

raftVars == <<log, current_term, commit_index, last_applied>>
snapVars == <<snap_pc, snap_at, snapshot_index>>
walVars  == <<wal_seq, last_index, wal>>
fileVars == <<snapshots, hardstate, file>>
ghosts   == <<proposals, starts, promised, overlapped>>
loopVars == <<batch, pos>>
vars == <<up, raftVars, pc, loopVars, kv, snapVars, walVars, fileVars, ghosts>>

-----------------------------------------------------------------------------
(* KVStore, a record [index, current_rev, store] *)

KVState == [index : [Key -> Seq(MvccVersion)], current_rev : Revision \ {0}, store : Data]

Empty   == [k \in Key |-> NoValue]
EmptyKV == [index |-> [k \in Key |-> <<>>], current_rev |-> 1, store |-> Empty]

\* PutWithPrev and Delete at the next revision.
Apply(s, e) ==
    [index       |-> [s.index EXCEPT ![e.value.key] =
                        AddVersion(@, s.current_rev, e.value.value)],
     current_rev |-> s.current_rev + 1,
     store       |-> [s.store EXCEPT ![e.value.key] = e.value.value]]

\* A replayed entry takes its index for its revision, and current_rev_ stays.
RestoreEntry(s, e) ==
    [index       |-> [s.index EXCEPT ![e.value.key] = AddVersion(@, e.index, e.value.value)],
     current_rev |-> s.current_rev,
     store       |-> [s.store EXCEPT ![e.value.key] = e.value.value]]

RestoreFromEntries(s, es) ==
    LET restored[n \in 0 .. Len(es)] ==
            IF n = 0 THEN s ELSE RestoreEntry(restored[n - 1], es[n])
    IN  restored[Len(es)]

Live(data) == {k \in Key : data[k] # NoValue}

\* Mutant: the MVCC index alone is rebuilt.
MutantDeserializeIndex(data) ==
    [index |-> [k \in Key |->
         IF k \in Live(data)
         THEN AddVersion(<<>>, Cardinality({j \in Live(data) : j <= k}), data[k]) ELSE <<>>],
     current_rev |-> Cardinality(Live(data)) + 1,
     store |-> Empty]

\* Serialize keeps keys and values only; Deserialize, into an empty store, gives every
\* key the next revision.
Deserialize(data) ==
    [index |-> [k \in Key |->
         IF k \in Live(data)
         THEN AddVersion(<<>>, Cardinality({j \in Live(data) : j <= k}), data[k]) ELSE <<>>],
     current_rev |-> Cardinality(Live(data)) + 1,
     store |-> data]

\* LoadFromDisk adds what the file has to what the store has.
LoadFromDisk(s) ==
    [s EXCEPT !.store = [k \in Key |-> IF file[k] # NoValue THEN file[k] ELSE @[k]]]

Read(k) ==
    IF Found(kv.index[k], 0) = {} THEN NoValue
    ELSE IF kv.store[k] # NoValue THEN kv.store[k] ELSE ValueAt(kv.index[k], 0)

-----------------------------------------------------------------------------
(* WAL *)

EntrySize == 34   \* bytes of an entry from its type to its lease, key and value empty

\* The bytes the checksum is computed over, when a record is written and when it is read;
\* checksums of different bytes are taken to differ.
Written  == 1 .. EntrySize - 1
Verified == 0 .. EntrySize - 4 - 1

File(seq) == IF seq \in DOMAIN wal THEN wal[seq] ELSE <<>>

\* The files in the order of their numbers; TruncateFrom leaves no more than two.
Records == File(wal_seq - 1) \o File(wal_seq)

\* The records from idx on that can be read.  One whose checksum does not match reads as
\* index 0 and is dropped; what the checksum covers is the same for all.
Kept(idx) ==
    IF Verified = Written THEN SelectSeq(Records, LAMBDA e : e.index >= idx) ELSE <<>>

ReadAllEntries == Kept(1)

LargestIndex(es) ==
    IF es = <<>> THEN kNoIndex
    ELSE CHOOSE i \in {es[n].index : n \in DOMAIN es} : \A n \in DOMAIN es : es[n].index <= i

\* One entry of AppendEntries; an index that does not ascend is passed over.
AppendRecord(e) ==
    /\ IF e.index <= last_index /\ last_index > 0
       THEN UNCHANGED <<wal, last_index>>
       ELSE /\ wal' = [wal EXCEPT ![wal_seq] = Append(@, e)]
            /\ last_index' = e.index
    /\ UNCHANGED wal_seq

NewFile(idx) ==
    /\ wal_seq' = wal_seq + 1
    /\ wal' = [s \in {wal_seq, wal_seq + 1} |-> IF s = wal_seq THEN wal[s] ELSE Kept(idx)]

\* Mutant: the entry the snapshot is labelled with counts as written.
MutantTruncateTooFar(idx) ==
    /\ NewFile(idx)
    /\ last_index' = IF Kept(idx) = <<>> THEN idx ELSE Kept(idx)[Len(Kept(idx))].index

\* Mutant: off by one the other way.
MutantTruncateTooLittle(idx) ==
    /\ NewFile(idx)
    /\ last_index' = IF Kept(idx) = <<>> THEN idx - 2 ELSE Kept(idx)[Len(Kept(idx))].index

\* The file written until now stays, the ones before it go, and what could be read from
\* idx on opens the new one.
TruncateFrom(idx) ==
    /\ NewFile(idx)
    /\ last_index' = IF Kept(idx) = <<>> THEN idx - 1 ELSE Kept(idx)[Len(Kept(idx))].index

-----------------------------------------------------------------------------
(* SnapshotManager *)

NoSnapshot == [last_index |-> 0, last_term |-> kNoTerm, data |-> Empty]

Newer(s, among) == {t \in among : t.last_index > s.last_index}

\* Mutant: the list is sorted the wrong way round.
MutantCleanupNewest(among) ==
    {s \in among : Cardinality({t \in among : t.last_index < s.last_index}) < MaxSnapshots}

CleanupOldSnapshots(among) == {s \in among : Cardinality(Newer(s, among)) < MaxSnapshots}

CreateSnapshot(idx, term, data) ==
    snapshots' = CleanupOldSnapshots(
        {s \in snapshots : s.last_index # idx}
            \cup {[last_index |-> idx, last_term |-> term, data |-> data]})

LatestSnapshot ==
    IF snapshots = {} THEN NoSnapshot
    ELSE CHOOSE s \in snapshots : Newer(s, snapshots) = {}

ShouldSnapshot(applied) == applied > snapshot_index /\ applied - snapshot_index >= SnapshotThreshold

-----------------------------------------------------------------------------
Init ==
    /\ up = FALSE
    /\ log = EmptyLog /\ current_term = kNoTerm /\ commit_index = 0 /\ last_applied = 0
    /\ pc = "wait" /\ batch = <<>> /\ pos = 1
    /\ kv = EmptyKV
    /\ snap_pc = "sleep" /\ snap_at = 0 /\ snapshot_index = 0
    /\ wal_seq = 0 /\ last_index = 0
    /\ wal = [s \in {0} |-> <<>>]
    /\ snapshots = {} /\ hardstate = [current_term |-> kNoTerm, commit_index |-> 0]
    /\ file = Empty
    /\ proposals = 0 /\ starts = 0
    /\ promised = [k \in Key |-> {NoValue}]
    /\ overlapped = FALSE

(***************************************************************************)
(* Start.  The hard state is read and not used.  The store is rebuilt from *)
(* the snapshot and the WAL before the Backend loads its file, on top.  A  *)
(* lone node then elects itself in the next term; until then it refuses    *)
(* proposals, so the election is part of the step.                         *)
(***************************************************************************)
Start ==
    /\ ~up /\ starts < MaxStarts
    /\ up' = TRUE
    /\ starts' = starts + 1
    /\ log' = Restore(LatestSnapshot.last_index)
    /\ commit_index' = LatestSnapshot.last_index
    /\ last_applied' = LatestSnapshot.last_index
    /\ current_term' = LatestSnapshot.last_term + 1
    /\ kv' = LoadFromDisk(RestoreFromEntries(Deserialize(LatestSnapshot.data), ReadAllEntries))
    /\ last_index' = LargestIndex(ReadAllEntries)
    /\ UNCHANGED <<pc, loopVars, snapVars, wal_seq, wal, fileVars, proposals, promised,
                   overlapped>>

\* What is in memory is gone.  wal_seq_ needs no reset: Open finds it among the files.
Forget ==
    /\ up' = FALSE
    /\ log' = EmptyLog /\ current_term' = kNoTerm /\ commit_index' = 0 /\ last_applied' = 0
    /\ pc' = "wait" /\ batch' = <<>> /\ pos' = 1
    /\ kv' = EmptyKV
    /\ snap_pc' = "sleep" /\ snap_at' = 0 /\ snapshot_index' = 0
    /\ last_index' = 0
    /\ UNCHANGED <<wal_seq, wal, snapshots, hardstate, ghosts>>

Crash == up /\ Forget /\ UNCHANGED file

FlushToDisk == file' = kv.store

\* Stop waits for the worker to end its round and for the snapshot thread, then closes
\* the Backend, which writes its file.
Stop == up /\ pc = "wait" /\ snap_pc = "sleep" /\ Forget /\ FlushToDisk

-----------------------------------------------------------------------------
(* Clients and worker: mu_ is free while the worker waits or has just advanced. *)

Applied   == last_applied + 1 - log.first
Unapplied == Len(log.entries) - Applied

Propose(c) ==
    /\ up /\ pc \in {"wait", "advanced"}
    /\ proposals < MaxProposals /\ Unapplied < MaxUnapplied
    /\ log' = AppendEntry(log, [term |-> current_term, index |-> LastIndex(log) + 1, value |-> c])
    /\ proposals' = proposals + 1
    /\ overlapped' = (overlapped \/ Unapplied > 0)
    /\ UNCHANGED <<up, current_term, commit_index, last_applied, pc, loopVars, kv, snapVars,
                   walVars, fileVars, starts, promised>>

\* Mutant: the last entry waits for one more.
MutantCommitLater ==
    IF LastIndex(log) > commit_index + 1 /\ TermAt(log, LastIndex(log)) = current_term
    THEN LastIndex(log) ELSE commit_index

\* A lone node's majority is itself.
Committed ==
    IF LastIndex(log) > commit_index /\ TermAt(log, LastIndex(log)) = current_term
    THEN LastIndex(log) ELSE commit_index

AdvanceCommitIndex ==
    /\ up /\ pc = "wait"
    /\ commit_index' = Committed
    /\ pc' = "advanced"
    /\ UNCHANGED <<up, log, current_term, last_applied, loopVars, kv, snapVars, walVars,
                   fileVars, ghosts>>

\* mu_ is taken and kept until the handler, called if there are entries, returns.
ApplyCommittedEntries ==
    /\ up /\ pc = "advanced"
    /\ batch' = Slice(log, last_applied + 1, commit_index + 1)
    /\ last_applied' = commit_index
    /\ pc' = IF batch' = <<>> THEN "wait" ELSE "ready"
    /\ UNCHANGED <<up, log, current_term, commit_index, pos, kv, snapVars, walVars, fileVars, ghosts>>

\* On to the next entry of the batch, or, after the last one, to the next step.
Advance(done) ==
    IF pos < Len(batch) THEN pos' = pos + 1 /\ UNCHANGED pc
    ELSE pos' = 1 /\ pc' = done

\* One entry of ProcessRaftEntries, the first once server_mu_ is free.
ProcessRaftEntry ==
    /\ up /\ pc = "ready" /\ snap_pc # "saved"
    /\ kv' = Apply(kv, batch[pos])
    /\ promised' = [promised EXCEPT ![batch[pos].value.key] = @ \cup {batch[pos].value.value}]
    /\ Advance("applied")
    /\ UNCHANGED <<up, raftVars, batch, snapVars, walVars, fileVars, proposals, starts,
                   overlapped>>

AppendToWal ==
    /\ up /\ pc = "applied"
    /\ AppendRecord(batch[pos])
    /\ Advance("written")
    /\ UNCHANGED <<up, raftVars, batch, kv, snapVars, fileVars, ghosts>>

SaveHardState ==
    /\ up /\ pc = "written"
    /\ hardstate' = [current_term |-> current_term, commit_index |-> LastIndex(log)]
    /\ pc' = "saved"
    /\ UNCHANGED <<up, raftVars, loopVars, kv, snapVars, walVars, snapshots, file, ghosts>>

\* Clients that wait for one of the entries are told.
NotifyCommits ==
    /\ up /\ pc = "saved"
    /\ promised' = [k \in Key |->
                     IF \E n \in DOMAIN batch : batch[n].value.key = k THEN {kv.store[k]}
                     ELSE promised[k]]
    /\ batch' = <<>>
    /\ pc' = "wait"
    /\ UNCHANGED <<up, raftVars, pos, kv, snapVars, walVars, fileVars, proposals, starts,
                   overlapped>>

Worker ==
    \/ AdvanceCommitIndex \/ ApplyCommittedEntries \/ ProcessRaftEntry
    \/ AppendToWal \/ SaveHardState \/ NotifyCommits

-----------------------------------------------------------------------------
(* SnapshotLoop *)

\* The index is read without a lock.
DecideSnapshot ==
    /\ up /\ snap_pc = "sleep"
    /\ ShouldSnapshot(LastIndex(log))
    /\ snap_at' = LastIndex(log)
    /\ snap_pc' = "decided"
    /\ UNCHANGED <<up, raftVars, pc, loopVars, kv, snapshot_index, walVars, fileVars, ghosts>>

\* The handler holds server_mu_ from its first step to its last.
ServerMuFree == pc \in {"wait", "advanced"} \/ (pc = "ready" /\ pos = 1)

SaveSnapshot ==
    /\ up /\ snap_pc = "decided" /\ ServerMuFree
    /\ CreateSnapshot(snap_at, current_term, kv.store)
    /\ snap_pc' = "saved"
    /\ UNCHANGED <<up, raftVars, pc, loopVars, kv, snap_at, snapshot_index, walVars,
                   hardstate, file, ghosts>>

TruncateWal ==
    /\ up /\ snap_pc = "saved"
    /\ TruncateFrom(snap_at)
    /\ snapshot_index' = snap_at
    /\ snap_at' = 0
    /\ snap_pc' = "sleep"
    /\ UNCHANGED <<up, raftVars, pc, loopVars, kv, fileVars, ghosts>>

Snapshotter == DecideSnapshot \/ SaveSnapshot \/ TruncateWal

Next == Start \/ Crash \/ Stop \/ Worker \/ Snapshotter \/ \E c \in Command : Propose(c)

Spec == Init /\ [][Next]_vars

\* The threads run as long as the process does.
FairSpec == Spec /\ WF_vars(Worker) /\ WF_vars(Snapshotter)

-----------------------------------------------------------------------------
TypeOK ==
    /\ up \in BOOLEAN
    /\ log \in Log /\ {current_term, commit_index, last_applied} \subseteq Nat
    /\ pc \in {"wait", "advanced", "ready", "applied", "written", "saved"}
    /\ batch \in Seq(RaftEntry) /\ pos \in Nat \ {0}
    /\ kv \in KVState /\ file \in Data
    /\ snap_pc \in {"sleep", "decided", "saved"} /\ {snap_at, snapshot_index} \subseteq Nat
    /\ wal_seq \in Nat /\ last_index \in Nat
    /\ wal_seq \in DOMAIN wal /\ \A s \in DOMAIN wal : /\ s \in {wal_seq - 1, wal_seq} \cap Nat
                                                    /\ wal[s] \in Seq(RaftEntry)
    /\ snapshots \subseteq [last_index : Index \ {0}, last_term : Term, data : Data]
    /\ hardstate \in [current_term : Term, commit_index : Index]
    /\ promised \in [Key -> SUBSET (Value \cup {NoValue})] /\ overlapped \in BOOLEAN

(***************************************************************************)
(* In the first life of a node whose writes come one after the other the   *)
(* files suffice: the newest snapshot with all records of the WAL played   *)
(* over it, whatever their checksums, gives every key the value of its     *)
(* last acknowledged write or of one applied since, wherever a crash or a  *)
(* snapshot falls.  A truncation that races the write in progress, or an   *)
(* acknowledgement before the write, breaks it.                            *)
(***************************************************************************)
Rebuilt == RestoreFromEntries(Deserialize(LatestSnapshot.data), Records).store

FilesSuffice == starts <= 1 /\ ~overlapped => \A k \in Key : Rebuilt[k] \in promised[k]

\* What a running node serves is what it promised; above all after a restart (CHANGELOG.md:
\* the WAL is replayed and the state recovered at start).
PromisesKept == up => \A k \in Key : Read(k) \in promised[k]

\* A key of the index has its value in the Backend, through every restart: nothing is
\* served that the next snapshot, taken from the Backend, would lack.
IndexBacked == \A k \in Key : ~IsDeleted(kv.index[k]) => kv.store[k] # NoValue

\* The Backend of a running node holds no key that a client cannot see (DESIGN.md: the
\* Backend is the persistent store, from which reads take their values).
BackedIndexed == \A k \in Key : kv.store[k] # NoValue => ~IsDeleted(kv.index[k])

\* The newest snapshot is never lost, whatever is cleaned up.
NewestSnapshotStays == [][LatestSnapshot'.last_index >= LatestSnapshot.last_index]_vars

\* A snapshot that was just saved is there (it may replace the WAL before it).
SavedSnapshotStays ==
    snap_pc = "saved" => \E s \in snapshots : s.last_index = snap_at /\ s.data = kv.store

\* A snapshot holds what was applied up to its label (DESIGN.md: index and term of the last
\* entry applied).
LabelApplied == snap_pc = "saved" => \/ snap_at < last_applied
                                     \/ snap_at = last_applied /\ pc # "ready"

\* While the node runs, an accepted proposal is applied, if the life began without a
\* snapshot: LastIndex of the empty log that a snapshot leaves is 0.
ProposalsApplied ==
    \A n \in 1 .. MaxProposals :
        (up /\ log.first = 1 /\ Len(log.entries) >= n) ~> (~up \/ Applied >= n)
=============================================================================
