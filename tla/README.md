# my-etcd in TLA+

A TLA+ model of my-etcd, a distributed key-value store in C++17: Raft over
synchronous RPCs, a multi-version store with a file behind it, a write-ahead
log and snapshots, leases and watches. TLC checks the model on small instances;
TLAPS proves part of it for every value of the constants. `PROJECT.json` maps
every definition to the lines it models and lists runs, mutants, hazards and
theorems. Paths below are relative to the repository.

## 1. The system

| Component | State | Operations | Modelled in |
|---|---|---|---|
| `RaftNode` (`src/raft/raft.cpp`) | term, vote, role, leader, commit and applied index, `next_index_`, `match_index_`, peers | `Run` (worker thread), `HandleRequestVote`, `HandleAppendEntries`, `Propose`, batches, membership changes | `Raft`, `Consensus`, `ElectionTimer`, `Membership` |
| `RaftLog` (`src/raft/raft_log.h`) | entries and the index of the first | `Append`, `TruncateTo`, `TermAt`, `EntriesFrom`, `Slice`, conflict search, `Restore` | `RaftLog` |
| `TcpTransport` (`src/raft/tcp_transport.cpp`) | connections; `handler_mu_` | one request and one answer per connection, with a deadline | `Raft` (RPC part) |
| `MVCC`, `KeyIndex` (`src/storage/mvcc.cpp`) | versions of each key, next revision | put, tombstone, get, range, compact | `Mvcc`, `KVStore` |
| `KVStore`, `Backend` (`src/storage/`) | latest values, their file | `Put`, `PutWithPrev`, `Delete`, `Get`, `Range`, `Compact`, `Serialize`, `Deserialize`, `RestoreFromEntries`, `Open`, `Close` | `KVStore`, `Recovery` |
| `WAL` (`src/wal/wal.cpp`) | segment files, sequence number, last index, hard state | append, read all, truncate, save and load the hard state | `Recovery` |
| `SnapshotManager` (`src/snapshot/snapshot.cpp`) | snapshot files | create, load latest, clean up | `Recovery` |
| `LeaseManager` (`src/lease/lease.cpp`) | leases with expiry and keys | grant, revoke, renew, attach, detach, expiry thread | `Lease` |
| `WatchManager`, `Watcher` (`src/watch/watcher.cpp`) | watchers, a queue of events each | watch, cancel, notify, wait | `Watch` |
| `EtcdServer` (`src/server/etcd_server.cpp`) | `pending_commits_`, snapshot index | start, stop, apply, snapshot loop; `Put`, `Delete`, `Txn`, `MemberAdd`, `MemberRemove`, lease and watch requests | `Requests`, `Membership`, `Recovery`, `Lease`, `Watch` |
| HTTP front end (`src/main.cpp`, `src/server/http_handler.cpp`) | none of its own | sockets, HTTP, JSON | no |

How they meet. `RaftNode::ready_handler_` calls `EtcdServer::RaftReadyHandler`
in whichever thread applies entries, under `RaftNode::mu_`: the entries go into
the store, the leases, the watchers, then the WAL, then the waiting requests.
The order of the locks is `mu_`, `server_mu_`, then those of store, leases,
watchers and `commit_mu_`. The snapshot thread takes `server_mu_` and looks at
the Raft log without it. The expiry thread proposes deletions. Each HTTP
connection and each Raft connection has a thread.

What is hard here:

- `RaftNode` has three kinds of threads on the same data, of which much is
  atomic but checked and used in separate steps, and the handler changes the
  log without `mu_`.
- A caller gives up an RPC that its peer goes on serving: requests arrive late
  and after newer ones.
- A crash falls between apply, append, hard state and acknowledgement; a
  snapshot and the truncation of the WAL run beside them.
- The same fact is stored twice: versions and values, keys of a lease and the
  lease of a key, log and WAL.
- A request learns of its commit through an index in a set that other requests
  and other leaders' entries also reach; it may be answered by a timeout, by the
  end of the server or by an entry that is not its own.
- The applying thread changes `peers_` while the worker's broadcast walks it.
- Timers, notifications and queues at their limit.

What makes each component correct: RaftNode, one leader a term, logs and state
machines that agree, each entry applied once, entries that reach everyone,
members that are the replay of what was applied, a leader's maps for each of them;
store, index and Backend that read as one map, history that compaction keeps;
files, every acknowledged write in snapshot plus WAL wherever a crash falls;
leases, a key that goes with its lease and not before; watches, every due event
once and in order, no lost wake-up; requests, an answer that means the request's
own entry, transactions in order, a wake-up for every wait.

## 2. The modules

`RaftLog.tla` (the log as a record with pure operators), `Raft.tla`,
`Consensus.tla` (what Raft promises to the server: one order, of which each node
is given a growing prefix), `ElectionTimer.tla`, `Membership.tla` (on `RaftLog` too),
`Requests.tla`, `Mvcc.tla` (the versions of one key), `KVMap.tla` (what the
store promises: one map with revisions), `KVStore.tla`, `Recovery.tla`,
`Lease.tla`, `Watch.tla`; an `MC...` module for each that TLC runs;
`RaftProofs`, `ElectionTimerProofs`, `MembershipProofs`, `KVStoreProofs`,
`RecoveryProofs`, `RequestsProofs`, `LeaseProofs` and `WatchProofs` with the
proofs. `Recovery` is built from `Mvcc` and an instance of
`RaftLog` whose values are commands. A definition named `Mutant...` is a
plausible bug that the property beside it must catch; it is used nowhere.

### Raft

Each node has a worker (`wpc`), a handler (`hpc`) and one client thread (`cpc`).
`TcpTransport::handler_mu_` admits one handler at a time, so one per node is
exact. A critical section of `mu_` is one step, except that of `Propose`, into
which the handler can step; `MuFree` keeps other holders of `mu_` out of it.

| Code | Actions |
|---|---|
| `Run`, `BecomeCandidate` | `BecomeCandidate`, `EnterElection` |
| `StartElection` | `StartElection`, `SendRequestVote`, `VoteReply`, `EndElection` |
| `BroadcastHeartbeat` | `BroadcastHeartbeat`, `ReadPrev`, `SendAppendEntries`, `AppendReply`, `EndBroadcast` |
| commit and apply | `AdvanceCommitIndex`, `ApplyCommittedEntries` |
| `HandleRequestVote` | `RequestVoteStepDown`, `RequestVoteDecide` |
| `HandleAppendEntries` | `AppendEntriesStepDown` ... `AppendEntriesApply` |
| `Propose` | `ProposeEnter`, `ProposeLock`, `ProposeAppend` |
| `SendAndReceive`, `HandleClient` | `Take`, `Refuse`, `RpcTimeout`, `TakeOrphan` |
| process restart | `Restart` (nothing of Raft survives: `EtcdServer::Start` gives the saved hard state to nobody) |

A request whose caller gave up stays in `orphans` and is handled at any later
time or never; that is loss, delay and reordering. The transport does not
duplicate. `orphans` is a set, so two late requests that agree in everything, sender
and receiver included, are handled once; two heartbeats of one leader can be that.

Steps taken together, because nothing another thread does between them can be
told apart by the properties: the three reads that open `StartElection` (term,
last index, last term: `raft.cpp:137` to 139); `prev_log_term` is read with `next_index_`, the
entries with the term of the request; the comparison of terms that opens a
handler with the arrival; `resp.term > current` with the step down it leads to;
all of `AdvanceCommitIndex` and all of `ApplyCommittedEntries`; the final apply
with the answer; `leader_id_` with the check of `prev`. The log has no
snapshot here, so `first` stays 1; `Slice` past the end is clipped. Membership
is fixed (`Membership` has its changes).

### Consensus

`order`, the entries decided, and `delivered`, what each node's ready handler was
given. A step gives one node more: a longer prefix of `order`, or entries nobody
had, which are decided by that. `Raft` implements it (`ImplementsConsensus`) with
the history variable `applied` for `delivered` and for `order` the longest of
what the nodes were given, `Decided`. `Requests` is built on this promise:
`order` grows, and each server applies a prefix of it.

### Requests

Servers with their stores, the applying thread of each (`apc`) and one thread
for each request (`pc`). Raft is reduced to what the server sees: `BecomeLeader`
(only a server with all decided entries), `BecomeFollower` (later, so a deposed
leader goes on accepting), `HandleAppendEntries` (overwrites), `AdvanceCommitIndex`.

| Code | Actions |
|---|---|
| `ApplyCommittedEntries`, `RaftReadyHandler` | `ApplyCommittedEntries`, `ProcessRaftEntry` for each entry, `MarkCommits` (`pending_commits_` under `commit_mu_`), `NotifyAll` |
| `Put`, `Delete` | `Put`/`Delete` (leader check), `PutAppend` (`Propose` under `mu_`), `WaitCheck`, `WaitTimeout` |
| `Txn` | `Txn`, `TxnCompare` for each comparison, `TxnExecute` and `TxnAppend` for each operation |
| `Stop` | `Stop` |

The check of leadership and the append are two steps, as in the code; each
comparison reads the store for itself. The five seconds of `wait_for` may end at
any moment the thread sleeps. Values name the request that wrote them, and
comparisons are of values (versions and revisions work alike). `at`, `epoch`,
`order` and `active` are history variables.

### Membership

One `RaftNode` that changes its `peers_`, with its worker, its handler and the
requests of clients. The other nodes are the environment: votes and answers are
arbitrary, and another leader may depose this one at any time and send entries
for any index, with any leader commit (whatever the test of `prev` would have
admitted). Of `next_index_` and `match_index_` their keys are kept, of an entry
its index and its change, or that it is a `Put`. Addresses of peers are left out.

| Code | Actions |
|---|---|
| `Run`, `StartElection` | `BecomeCandidate`, `StartElection`, `SendRequestVote`, `BecomeFollower`, `BecomeLeader`, `LoseElection`; `visit` is where the iterator over `peers_` stands |
| `BroadcastHeartbeat` | `BroadcastHeartbeat`, `SendAppendEntries`, `AppendReply`, `EndBroadcast` |
| `AdvanceCommitIndex` | `AdvanceCommitIndex` (compared), `RaiseCommitIndex` (assigned) |
| `ApplyCommittedEntries` | `Lock` (`commit_index_` is read), `TakeEntries` (`Slice`), `ApplyConfChange` for each entry, `Unlock` (`last_applied_` is assigned); in the worker as `WorkerLock`, `WorkerTake`, `WorkerUnlock`, in the handler as `HandlerLock` and so on |
| `HandleAppendEntries` | `StepDown`, `Truncate`, `StoreEntries`, `CompareCommit`, `LimitCommit`, `AssignCommit` |
| `MemberAdd`, `MemberRemove`, `Put` | `MemberAdd`, `MemberRemove`, `PutKey`, `Refuse`, `ProposeCheck`, `ProposeLock`, `ProposeAppend` |

`TruncateTo` and the assignment of `commit_index_` look at nothing and take no
`mu_`, so the model lets them do what the code lets them: remove and replace
entries that are committed, taken or applied, lower the commit index below
`last_applied_`, and do so while the worker holds `mu_`, between the two halves of
`Propose`, between the read of `commit_index_` and `Slice`, or between the
comparison of `AdvanceCommitIndex` and its assignment. `mu` is held over those
steps only; `target` is the local variable that its holder keeps meanwhile
(`committed`, `new_commit`, the index of its entry), `request` what the handler
keeps. `passed` is a history variable: what the log held at each index when
`ApplyCommittedEntries` took it, `NoEntry` where it held nothing.

Steps taken together: the reads of `peers_` that open `StartElection` (`empty`,
`size`, `begin`); a response's later term with the step down; in
`AdvanceCommitIndex` the reads of log and `commit_index_` that choose; an entry's
`ApplyConfChange`. The handler's first comparison is the environment's choice.

### ElectionTimer

`Raft` lets an election timeout fall at any moment. Here time is discrete and
the three `wait_for` calls of `Run` are modelled with their predicates and
notifications: a follower's wait ends on its own deadline only. A round of
votes or heartbeats takes less than a tick; the network is reliable and logs
are equal, so only timers decide; a crashed peer refuses the connection.

### Mvcc, KVMap, KVStore

`Mvcc` has the operators on the versions of one key, `KVStore` the store made
of `index`, `current_rev` and the Backend's `store`. Every method of `KVStore`
holds its `mu_`: one action each. `KVMap` is the specification: one map, and a
revision that each change raises. The refinement mapping is what
`Get(key, 0)` returns. `past`, `compacted`, `changes` are history variables.
Lease ids of versions are left out.

### Recovery

One node and its files, so that no other node can bring data back: the worker
through the steps of `RaftReadyHandler` (`ProcessRaftEntry` and `AppendToWal`,
each one entry of `batch` at a time and `pos` the place of the loop, then
`SaveHardState`, `NotifyCommits`), the snapshot thread in three steps
(`DecideSnapshot`, `SaveSnapshot`, `TruncateWal`), clients, `Start`, `Stop`
with the flush of the Backend, `Crash` between any two, so between two records
of one append too. A record, and every other file, is seen whole or not at all.
`ServerMuFree` says when the handler does not hold `server_mu_`. Replay is a
recursive function of the records; `Records` joins the two files that a
truncation leaves. A record's checksum is represented by the span of bytes it covers:
it is valid if writer and reader cover the same. `Start` contains the election
of the single node; the clean-up of snapshots is part of the creation, as in
the code.

### Lease

The lease map (one action per method, since `LeaseManager::mu_` covers each),
callbacks outside the lock one step each, the two halves of `LeaseRenew`, the
worker that applies a put and then attaches, detaches and then deletes. Each
connection has its thread, so any number of revocations and renewals are in progress
beside each other: a lease is erased once, which makes its id that of the thread
whose `keys_to_notify` are in `revoked`; a second `LeaseRenew` of a lease that is
being renewed is one that begins after the first ends, since a `Renew` too late
does nothing. What is
proposed is committed sooner or later. Entries of another leader come with ids
of its own leases (`Replicate`).

### Watch

The applying thread makes an event, collects the matching watchers, pushes to
one at a time and notifies after each push; `Cancel` erases, marks and
notifies; a request registers, looks its watcher up, waits, drains up to
`MaxBatch` events and answers, and leaves its watcher registered. `pc` is
"asleep" exactly while the thread waits in `event_cv`, so a lost notification
would show.

## 3. The runs

Every property of a passing run has a mutant in `PROJECT.json` that violates it
under the same configuration.

| Run | Question | Properties |
|---|---|---|
| `RaftTerms` | terms, votes, RPCs, next index, logs and apply in every interleaving of the threads of two nodes, with two elections and two proposals | `TypeOK`, `CandidateVotedForSelf`, `NextIndexPositive`, `AppliedOnce`, `LogTermsSorted`, `TermMonotonic`, `VoteStable` |
| `RaftOneTerm` | three nodes, two candidates of the one term, two different proposals: one leader, equal logs, and the protocol implements `Consensus` | `ElectionSafety`, `LogsAgree`, `ImplementsConsensus` (refinement) |
| `RaftReplication` | do answers match requests and entries arrive, past a lost or late request and a restart | `RpcMatched`, `LeaderReplicates` (liveness) |
| `Requests` | two servers, two requests, two leaderships, one server that stops: what an answer says | `TypeOK`, `AppliedBeforeAnswer`, `AnswerIsOwn`, `StoresReplayOrder`, `DecidedInOrder`, `PutAnswered` (liveness) |
| `Members` | one node that changes its members, elections, broadcasts and other leaders that replace what it has in between | `TypeOK`, `PeersTracked`, `PeersReplayPassed` |
| `TimerWaits` | three nodes, one may crash: how long a node follows, how soon it stands | `TypeOK`, `FollowerBounded`, `StandsAfterTimeout` |
| `Store` | two keys, two values, five revisions, compactions of every revision | `TypeOK`, `HistoryKept`, `ChangesCounted`, `ImplementsMap` (refinement) |
| `RecoveryLives` | two lives, three proposals, snapshots at every index, crash or stop anywhere | `TypeOK`, `FilesSuffice`, `IndexBacked`, `NewestSnapshotStays`, `ProposalsApplied` (liveness) |
| `Leases` | two leases, two keys, two entries, one change of leadership | `TypeOK`, `OwnedKeysAttached`, `NeverTooLong`, `DeadKeysGo` (liveness) |
| `Watches` | two watchers of a key and a prefix, three events, cancellation anywhere | `TypeOK`, `DueDelivered`, `EventEndsWait` (liveness) |
| `RecoveryReplay` | violated: an acknowledged write is gone after a restart | `PromisesKept` |
| `WatchDeletes` | violated: no watcher sees a deletion | `DeletionsDelivered` |

`FilesSuffice`, `ProposalsApplied`, `AnswerIsOwn` and `PutAnswered` are
conditional, and `ElectionSafety`, `LogsAgree` and `ImplementsConsensus` are
checked within one term: that is what the code keeps. Section 5 says what happens
outside. `Requests` is therefore relative to `Consensus`: what goes wrong there
goes wrong although Raft keeps its promise.

### Bounds

- Two nodes are a cluster in which every message has one sender and one
  receiver, and suffice for what happens between the threads of a node and an
  RPC; votes that compete for a third node need three (`RaftOneTerm`). Two
  elections give a deposed leader, its successor and a term that moves on
  during an election; two proposals, entries of two terms and a conflict. An RPC
  that times out gives a late request; it is in `RaftReplication`, since two
  elections, two proposals and a timeout together exceed what a run can finish.
- `MaxEntriesPerMsg` is 1 (128 in the code) so that a follower that lags needs
  several rounds.
- `Store`: five revisions allow put, deletion, put again and two compactions,
  and the shortest histories that tell the versions apart need three.
- `RecoveryLives`: two proposals in flight and one more are the shortest race
  of snapshot and write; `SnapshotThreshold` and `MaxSnapshots` are 1 (larger
  in the code) so that every index is snapshot and every creation cleans up.
- `Leases`: two times to live of which the longer outlives a renewal of the
  shorter; with two entries a key passes from one lease to another, or two keys
  share a round of expiry.
- `Requests`: two servers are a leader and its successor; the second election
  brings lost entries, a taken index and a deposed leader that still accepts. One
  request may be a `Put`, `Delete` or transaction, the other a `Put` or `Delete`;
  the transaction compares once and has two operations. Servers are
  interchangeable and before the first election requests only fail, so the run
  begins with `s1` as leader. One server may stop.
- `Members`: the node itself and one peer, which may be removed and added again:
  a change is about the own ID, a peer or a node that is none. Log, indices and
  `leader_commit` up to `MaxIndex` 2, a batch of one entry, a client with one
  request at a time, which it repeats when refused: the shortest logs in which one
  entry is applied and replaced while another is taken.
- `Watches`: the queue holds two and an answer two, so that three events
  overflow the one and split over the other (1024 and 64 in the code). The
  start revision is 0: `main.cpp:459` passes nothing else.

The deadlock check is on where the system cannot stop (`MCRaft` and
`MCElectionTimer` excuse only a cluster whose bounds are used up, `AtBound`), off where the
bounds or an idle client end everything; each such configuration says so.

### Fairness

Weak fairness of a thread as a whole: the operating system runs it, and the
mutexes it needs are released by steps of other threads that are themselves
fair. `Raft`: worker, handler and a client inside `Propose`; nothing makes a
client propose. That an RPC does not fail for ever is the bound `MaxTimeouts`.
`Recovery`: worker and snapshot thread; no crash is ever forced. `Lease`:
expiry thread, callbacks, worker, and the clock; leadership is not fair, so
`DeadKeysGo` assumes it from some moment on. `Watch`: the applying thread, the
cancelling ones and the requests, but not the 30-second time-out, so a request
that ends has been woken. `Requests`: commit and replication, the applying
threads and the requests, but neither elections nor the five-second timeout, so
`PutAnswered` says that commit, application and notification reach the wait.
No run uses strong fairness.

## 4. The proofs

All by `tlapm` with SMT, Zenon and LS4; nothing is left unproved. Assumptions
are the named `ASSUME`s of the modules (node ids are positive numbers and
finite, batches are not empty, bounds are numbers, the configured peers do not
contain the node).

`RaftProofs` (first the operators on logs, then the types, then the rest), for
any number of nodes and any bounds:

- `TypeCorrect`: `TypeOK`. The interesting part is that
  `prev_log_index = next_index_ - 1` stays a natural number.
- `RpcsMatched`, `NextIndexNeverZero`, `CandidateKeepsVote`, `EntryAppliedOnce`:
  invariants of `RaftTerms` and `RaftReplication`.
- `TermNeverDecreases`, `VoteNeverChanges`: the action properties of `RaftTerms`.

They rest on one inductive invariant, `IndInv`: types, `RpcMatched` (the answer
a worker reads is of the kind it asked for), `NextIndexPositive` (or the
subtraction would wrap), `CandidateVotedForSelf` (or a candidate could change
its vote), and two parts found by failed proofs: `PeerServed`, the peer the
worker is serving is one of its peers, and `BatchHeld`, the handler's request
in the later steps of `HandleAppendEntries` is the one it checked. None of the
parts is inductive alone: types need `NextIndexPositive`, which needs the type
of the answer, which needs `RpcMatched`.

`KVStoreProofs`, for any keys, values and number of revisions: `TypeCorrect`,
`VersionsCount` (`ChangesCounted`), `CompactionKeepsHistory` (`HistoryKept`) and
`MapImplemented` (`ImplementsMap`, the refinement). The inductive invariant adds
to the types `Consistent` (versions ascend below the next revision, the Backend
has the latest value), which the reverse search of `MVCC::Get` needs, and
`HistoryHeld`, which says for every revision from the compacted one on which
version a search finds, tombstones included: `HistoryKept` speaks of living keys
only and is not inductive, since a deletion followed by a put makes a key live
again.

The second half of `RaftProofs`, for any number of nodes, proposals, timeouts
and late requests, as long as `OneTerm` holds: nobody has crashed and nobody is past
term 1. `OneLeader` (`ElectionSafety`), `OneLog` (`LogsAgree`), `OneTermSorted`
(`LogTermsSorted`), `OneOrder` (`AppliedAgree`) and `OneTermImplements`, the
refinement `ImplementsConsensus`, step by step. The condition is the code's own
limit, not the proof's: a second term lets a stale candidate lead
(`RaftStaleElection`), a deposed leader's request truncate (`RaftLateAppend`)
and a restart vote twice (`RaftForgottenVote`), see section 5. In it everything
but a crash may happen: any number of candidates, of which each counts its own
votes beside its handler, leaders that append while their batches are copied,
requests handled after they were given up. The argument: nothing in term 1 is
taken back (`Lasting`), so a node that was elected stays elected, whether its
worker knows it yet or no longer leads; two elected nodes have a voter in common
and are the same; every request in flight, orphans included, is a copy of a
stretch of the elected node's log (`SoundRequest`), which only grows; so every
log and everything applied is a beginning of that log (`Follows`). The invariant
of the first half alone does not suffice: `Counting` bounds the votes of a
candidate by the supporters its loop over `peers_` has passed, `Applying` keeps
the commit index within the log of the node that is about to apply.

The same module proves of `Consensus` `AgreementHolds`: of what two nodes were
given one is the beginning of the other. It is what the refinement is good for.
`Agreement` is stated over the instance `Promise`, and its invariant is that
every node was given a beginning of `order`.

`ElectionTimerProofs`, for any cluster, timeouts and crashes: `TypeCorrect`,
`NoLastingFollower` (`FollowerBounded`) and `StandsNotTooSoon`
(`StandsAfterTimeout`). The invariant `FollowerWaits` bounds the sum of what a
follower has waited and what is left of the wait it is in: one timeout at most
while it is still in a wait it began as candidate or leader, which stepping down
does not end, and from one to two timeouts in its own.

`MembershipProofs`, for any set of nodes, configuration, log and commit indices of
other leaders: `TypeCorrect`, `LeaderTracksPeers` (`PeersTracked`),
`MembersFollowPassed` (`PeersReplayPassed`), and `RemovalNeverRefused`: the quorum
test of `ApplyConfChange` (`raft.cpp:436`) is true of every number of peers.
Nothing relates `commit_index_`, `last_applied_` and the length of the log, since
the code keeps no such relation. The inductive invariant adds `HolderMatches` (the
holder of `mu_` is where its program says, so that worker and handler do not apply
at the same time), `PlacesMatch`, and `TakenPending`: while a thread applies, its
batch is what `passed` says from `last_applied` on, followed by indices that had no
entry up to the commit index that was read; outside, everything passed is applied.
Without it the replay is not inductive, since `ApplyConfChange` takes its change
from the batch, and `last_applied_` jumps to `committed` however much `Slice` gave.
`TakenEntries` says what `Slice` takes; three lemmas say what one more change, or
none, does to the last change about an ID.

`RequestsProofs`, for any servers, requests, keys, transactions and number of
elections: `TypeCorrect`, `AnswersAfterApplication` (`AppliedBeforeAnswer`),
`AnswersOwnEntry` (`AnswerIsOwn`), `StoresAgree` (`StoresReplayOrder`) and
`TransactionsInOrder` (`DecidedInOrder`). The properties speak of `order`, the
requests of logs, so the inductive invariant carries each over: `LeaderHolds`
(the leader has what is decided), `EntryKept` (while leadership lasts the leader
keeps an entry where it was appended), `Delivering` (what is marked was applied,
what is being applied was decided), `OpsInOrder` (in every log the operations of
a request ascend and lie before those still to come) and `Answered`.

`LeaseProofs`, for any leases, keys and times to live: `TypeCorrect`,
`OwnedKeysGoAlong` (`OwnedKeysAttached`) and `LeaseNeverTooLong`
(`NeverTooLong`). `OwnedKeysAttached` excuses keys whose put was applied before
its lease was there (`stray`); that such a put is noticed before an id can be
given to a new lease is `EarlyPutsStray`, and that the worker attaches the key it
has just put is `EntryInHand`. Without both a lease granted late would owe a key
it never heard of.

`WatchProofs`, for any keys, patterns, clients and sizes: `TypeCorrect`,
`AllDelivered` (`DueDelivered`) and `NoLostWakeup`, the safety half of
`EventEndsWait`: while a request sleeps with an event in its queue, the applying
thread has its notification still to make, and none sleeps after the
notification of a cancellation. The parts of the invariant: `EntriesNumbered`
(the revision of a put is its place in `history`, so what is notified later is
greater), `SpansHeld` (an event on its way is in the stretch its watcher was
registered for, the latest there), `UnusedEmpty`, `RequestsKnown` and
`Accounted`, which is `DueDelivered` with the two sequences apart
(`DeliveredJoined` joins them). One lemma each says what the account makes of an
event that is notified (`LatestComes`), taken (`FrontTaken`) or dropped
(`FrontLeaves`).

`RecoveryProofs`, for any keys, values, number of lives and proposals, snapshot
threshold and number of snapshots kept: `TypeCorrect`, `IndexAlwaysBacked`
(`IndexBacked`), `FilesAlwaysSuffice` (`FilesSuffice`) and `NewestNeverLost`
(`NewestSnapshotStays`). The inductive invariant has two parts.

- `AnyLife` holds through every start, crash and stop: types, `IndexBacked`,
  `InBatch` (a loop stands at an entry of its batch, or its `batch[pos]` has no
  type), `LabelsBounded` (without a bound on the labels there need be no newest
  snapshot) and `FiniteStores` (`Deserialize` numbers the keys it reads, which
  takes finitely many). It is enough for `NewestNeverLost`: `SavedResult` says
  that a clean-up after a save keeps a snapshot with the greatest label.
- `FirstLife` is about a node that has started once and whose writes never
  overlapped, the hypothesis of `FilesSuffice`. `FilesSuffice` bounds what the
  files give by what was promised, which no step keeps alone: `FilesFollow` says
  that they give exactly what the store holds, but for an entry applied and not
  yet written. An append keeps it only if its record is not passed over:
  `NextAccepted`, which a truncation, since it sets `last_index_` to the label
  less one, keeps because no label is ahead of the log (`LabelsAscend`) and the
  log is at most one entry ahead of the store (`OneAtATime`). A truncation keeps
  it because the newest snapshot is then the store itself; that the records it
  leaves, played over that snapshot, change nothing is `RestoreKeeps`. Both
  hypotheses are needed: section 5 has what happens when writes overlap and
  after a second start.

What a replay of any length computes is not proved by induction but from its
least counterexample: if some beginning of the records did not leave every key
the value of the last record that names it, take the shortest; one record less
does, and one `RestoreEntry` more keeps it (`RestoreResult`). That the recursive
function exists at all is `RecursionExists`, by the same argument.

Only model-checked: liveness and everything that rests on fairness
(`LeaderReplicates`, `PutAnswered`, `ProposalsApplied`, `DeadKeysGo`,
`EventEndsWait`), since it is out of this prover's reach; and of `Raft` the logs
over several terms, which the code does not keep in general (`LogTermsSorted`
holds within the two terms of `RaftTerms`).

## 5. Where code and documentation differ

Two runs show a violation, with the quotation in `PROJECT.json`:

- `RecoveryReplay` (`wal.cpp:308`): the checksum is written over other bytes
  (222) than it is verified over. Replay rejects every record.
- `WatchDeletes` (`watcher.cpp:80`): the event of a deletion has revision 0 and
  never passes the comparison with `start_rev`.

Further configurations, not part of the runs, make TLC refute a property that
states what documentation or comments say:

| Configuration | Property | What the code does |
|---|---|---|
| `RaftStaleElection` | `ElectionSafety` | after the votes are counted nobody looks at state and term again (`raft.cpp:173`): a candidate that its handler stepped down to a later term meanwhile makes itself leader of that term; DESIGN.md:85 |
| `RaftSelfCounted` | `CommitBackedByMajority` | the leader is in `match_indices` twice (`raft.cpp:267`, `332`): with two nodes an index is committed that only the leader stores |
| `RaftDivergence` | `AppliedAgree` | as a consequence two state machines differ; DESIGN.md:65 promises consistency |
| `RaftLostBatch` | `BatchStored` | a client's append between `TruncateTo` and `Append` (`raft.cpp:595`) makes the handler drop a batch and report success; the comment at 592 says atomic |
| `RaftLateAppend` | `MatchStored` | truncation at the first new index, conflict or not (595): a late copy removes acknowledged entries |
| `RaftForgottenVote` | `ElectionSafety` | the hard state is loaded and used for nothing (`etcd_server.cpp:37`), the vote is never saved: a restarted node votes twice; DESIGN.md:248 |
| `RaftSplitVote` | `SplitVoteResolved` | a candidate repeats its vote in the same term (`raft.cpp:56`); DESIGN.md:85 |
| `TimerHeartbeat` | `HeartbeatResetsTimer` | a heartbeat does not end the follower's wait (`raft.cpp:48`); the comment at 557 says it resets the timer |
| `StoreDeletedHistory` | `HistoricalRead` | no history for a key deleted now, and the search passes over tombstones (`mvcc.cpp:119`, `128`); DESIGN.md:136 |
| `StoreRange` | `RangeReadsRevision` | `Range` at a revision returns the latest values (`kvstore.cpp:95`) |
| `RecoveryHidden` | `BackedIndexed` | keys of the Backend's file are not in the index after a start (`etcd_server.cpp:60`) |
| `RecoveryLabel` | `LabelApplied` | a snapshot is labelled with the last index of the log, not the last applied (`etcd_server.cpp:214`); DESIGN.md:119 |
| `RequestsUndecided` | `SuccessMeansDecided` | `Put` answers success after a timeout, when the server stops and when another leader's entry took the index (`etcd_server.cpp:260`); CODE_REVIEW.md:82 says it waits for the commit |
| `RequestsTxn` | `TakenWhenFree` | the comparisons read the local store, the operations are decided later and one by one; `Txn` asks for no leader and ignores what `Propose` returns (`etcd_server.cpp:353`, `420`) |
| `RequestsSharedIndex` | `EveryPutAnswered` | two requests wait at one index of a server that lost and regained leadership; the first erases the mark of both (`etcd_server.cpp:266`) |
| `MembersRefuted` (each property by itself) | `PeersReplayLog` | what is applied is truncated and replaced (`raft.cpp:595` looks at no commit index, and a leader that counts itself twice, 267 and 332, commits alone): `peers_` is no longer what the log says, and two nodes with one log have different members; DESIGN.md:65 promises consistency |
| | `NothingPassedOver` | `last_applied_` becomes `committed` (`raft.cpp:306`) though a truncation shortened the log before `Slice` (292): what comes to these indices later is applied by nobody |
| | `IteratorValid` | the handler erases the peer the worker's loop stands at (`raft.cpp:157`, `184`, `448`) |
| | `MembersCounted` | the late answer of a removed peer makes its match index again, and it counts for the majority (`raft.cpp:218`, `265`) |
| | `NotOwnPeer` | an added node finds the change that added it in the log and becomes its own peer (`raft.cpp:416`) |
| | `IdsDistinct` | two requests for a member before the first is applied get one ID (`etcd_server.cpp:599`) |
| `RecoveryCleanup` | `SavedSnapshotStays` | after a start from a snapshot indices begin again, and the clean-up removes the snapshot just made (`snapshot.cpp:138`) |

Without `~overlapped`, `FilesSuffice` fails: `TruncateFrom` (`wal.cpp:493`)
moves `last_index_` past entries that are in the log and not yet in the WAL,
which then skips them (326) though they are acknowledged. Without
`log.first = 1`, `ProposalsApplied` fails: after a start from a snapshot the
empty log begins at index 1 again, below the commit index (`raft.cpp:617`).
`OnlyOwnKeys` and `NoOrphans` of `Lease` fail under `FairSpec` with the
constants of `Leases`: a key put again without its lease, or with another, is
still deleted when the first one ends, and a put that is applied after the end
of its lease leaves a key that nobody deletes. `LeaseRenew` reports success
when the lease expired between its two calls.

## 6. Not modelled

- Changes of membership in a cluster of several modelled nodes: `Membership` has
  one node and an environment, so that quorums of old and new members overlap is
  not examined. `RaftNode::AddNode`, `RemoveNode` and `ProposeBatch` have no
  caller in `src`; `FlushBatch` therefore finds no batch.
- Snapshots inside `Raft`: no snapshot is ever sent to a peer.
- `Put` and `Delete` of a lease are in `Lease`, not in `Requests`; of a
  transaction the `Range` operations, which read the local store, and comparisons
  of versions and revisions.
- What a torn read of `peers_` would do (`IteratorValid` shows that it can
  happen): undefined behaviour of the library's containers, after which the model
  goes on with the next larger ID.
- Failing and torn file writes; file formats, byte order, HTTP, JSON and
  configuration parsing: input and output without state of their own.
- Methods without a caller in `src`: `WAL::SaveSnapshot`, `LoadSnapshot` and
  `Sync`, `Backend::Range` and `Sync`, `WatchManager::Cleanup`,
  `GetCommittedEntries`, `SetSnapshotHandler`'s callback.
  `KVStore::Compact` has none either, but is the store's interface and is
  modelled.

## 7. The plan

Done: `Raft` with `RaftLog` and `Consensus`, `ElectionTimer`, `Membership`, the
store and its specification, `Requests`, `Recovery`, `Lease`, `Watch`, and the
proofs of `Raft`, `Consensus`, `ElectionTimer`, `Membership`, `KVStore`,
`Recovery`, `Requests`, `Lease` and `Watch`.

Left: a version of `Recovery` with file operations that fail, and snapshots inside
`Raft`, once the code sends them.
