----------------------------- MODULE Membership -----------------------------
(***************************************************************************)
(* Membership changes: peers_ and the maps next_index_ and match_index_ of *)
(* one RaftNode (raft.cpp), EtcdServer::MemberAdd and MemberRemove.        *)
(*                                                                         *)
(* The worker goes through peers_ without mu_, the thread that applies a   *)
(* committed change writes it under mu_, and that is the worker or the RPC *)
(* handler, which writes the log and the commit index without mu_.  The    *)
(* other nodes are the environment: any entries at any place, any leader   *)
(* commit, any answer.  Of next_index_ and match_index_ it is kept which   *)
(* keys they have, and of the term that a later one ends leadership.       *)
(***************************************************************************)
EXTENDS Naturals, Sequences, FiniteSets

CONSTANTS
    NodeId,
    Self,           \* node_id_
    Config,         \* peer_addresses, without this node
    Client,         \* requests: to add a member, to remove one, to put a key
    None,
    MaxIndex,       \* bound: the indices of the log and its length
    MaxEntriesPerMsg

kNoNodeId == 0

ConfChange == [type : {"AddNode", "RemoveNode"}, node_id : NodeId]

\* An entry of another kind, which changes no membership.
Put == [type |-> "Put", node_id |-> kNoNodeId]

Change == ConfChange \cup {Put}

Thread == {"worker", "handler"}

ASSUME MembershipAssumption ==
    /\ NodeId \subseteq Nat \ {kNoNodeId} /\ Self \in NodeId
    /\ Config \subseteq NodeId \ {Self} /\ IsFiniteSet(Config)
    /\ None \notin NodeId /\ None \notin Thread /\ None \notin Client
    /\ Thread \cap Client = {}
    /\ MaxIndex \in Nat /\ MaxEntriesPerMsg \in Nat \ {0}

INSTANCE RaftLog WITH Value <- Change

Entry == [index : Index, value : Change]

VARIABLES
    (* RaftNode *)
    state, peers,
    tracked,        \* the keys of next_index_
    counted,        \* the keys of match_index_
    log, commit_index, last_applied,
    mu,             \* who holds mu_ over several steps, or None
    target,         \* of that thread: committed, new_commit or the index of its entry
    batch,          \* the entries of ApplyCommittedEntries still to be applied
    (* threads *)
    wpc,            \* the worker, in Run
    visit,          \* where the iterator of its loop over peers_ stands
    hpc,            \* the handler, in HandleAppendEntries
    request,        \* what it still needs: first_new_idx, then leader_commit
    cpc, change,    \* of each request: where it is and what it still has to propose
    granted,        \* the ID in the answer to MemberAdd
    (* history *)
    passed          \* what the log held at each index when its entry was taken to be applied

logVars == <<log, commit_index, last_applied>>
lockVars == <<mu, target, batch, passed>>
nodeVars == <<state, peers, tracked, counted, logVars, lockVars>>
workerVars == <<wpc, visit>>
handlerVars == <<hpc, request>>
clientVars == <<cpc, change, granted>>
vars == <<nodeVars, workerVars, handlerVars, clientVars>>

Init ==
    /\ state = "Follower"
    /\ peers = Config /\ tracked = {} /\ counted = {}
    /\ log = EmptyLog /\ commit_index = 0 /\ last_applied = 0
    /\ mu = None /\ target = 0 /\ batch = <<>> /\ passed = <<>>
    /\ wpc = "loop" /\ visit = kNoNodeId /\ hpc = "idle" /\ request = 0
    /\ cpc = [c \in Client |-> "new"] /\ change = [c \in Client |-> None]
    /\ granted = [c \in Client |-> None]

\* What follows in the order of a std::set, or kNoNodeId at its end.
After(id) ==
    LET later == {p \in peers : p > id} IN
    IF later = {} THEN kNoNodeId ELSE CHOOSE p \in later : \A q \in later : p <= q

-----------------------------------------------------------------------------
(* ApplyCommittedEntries, in the worker or in the handler *)

\* What stands at an index, as a slice of the log sees it.
NoEntry == [type |-> "none", node_id |-> kNoNodeId]

Held(i) ==
    IF i <= Len(log.entries) /\ i <= LastIndex(log) THEN log.entries[i].value ELSE NoEntry

\* The commit index is read, then the log: the handler may shorten it in between.
Lock(t) ==
    /\ mu = None
    /\ mu' = t
    /\ target' = commit_index
    /\ UNCHANGED <<state, peers, tracked, counted, logVars, batch, passed>>

\* Mutant: the first entry is left out.
MutantUnappliedSkips == Slice(log, last_applied + 2, target + 1)

\* Mutant: the range begins with the last entry applied.
MutantUnappliedAgain ==
    IF target > last_applied THEN Slice(log, last_applied, target + 1) ELSE <<>>

Unapplied == Slice(log, last_applied + 1, target + 1)

TakeEntries(t) ==
    /\ mu = t
    /\ batch' = Unapplied
    /\ passed' = passed \o [k \in 1 .. target - last_applied |-> Held(last_applied + k)]
    /\ UNCHANGED <<state, peers, tracked, counted, logVars, mu, target>>

\* What is left of the cluster after a removal, this node not counted, is less than a majority.
LosesQuorum(remaining) == remaining + 1 < (remaining + 1) \div 2 + 1

\* Mutant: the maps are forgotten.
MutantAddUntracked(id) ==
    /\ peers' = peers \cup {id}
    /\ UNCHANGED <<tracked, counted>>

\* A node that is a peer already is not added, whatever its address.
AddNode(id) ==
    IF id \in peers THEN UNCHANGED <<peers, tracked, counted>>
    ELSE /\ peers' = peers \cup {id}
         /\ tracked' = IF state = "Leader" THEN tracked \cup {id} ELSE tracked
         /\ counted' = IF state = "Leader" THEN counted \cup {id} ELSE counted

RemoveNode(id) ==
    IF id = Self \/ (id \in peers /\ LosesQuorum(Cardinality(peers) - 1))
    THEN UNCHANGED <<peers, tracked, counted>>
    ELSE /\ peers' = peers \ {id}
         /\ tracked' = tracked \ {id}
         /\ counted' = counted \ {id}

\* last_applied_ is assigned after the last entry; until then nobody can read it.
ApplyConfChange ==
    /\ mu \in Thread /\ batch # <<>>
    /\ LET cc == Head(batch).value IN
       \/ cc.type = "AddNode" /\ AddNode(cc.node_id)
       \/ cc.type = "RemoveNode" /\ RemoveNode(cc.node_id)
       \/ cc.type = "Put" /\ UNCHANGED <<peers, tracked, counted>>
    /\ batch' = Tail(batch)
    /\ last_applied' = last_applied + 1
    /\ UNCHANGED <<state, log, commit_index, mu, target, passed, workerVars, handlerVars,
                   clientVars>>

\* To committed, though the log may have ended before; nothing if committed <= applied.
Unlock(t) ==
    /\ mu = t /\ batch = <<>>
    /\ last_applied' = IF target > last_applied THEN target ELSE last_applied
    /\ mu' = None /\ target' = 0
    /\ UNCHANGED <<state, peers, tracked, counted, log, commit_index, batch, passed>>

-----------------------------------------------------------------------------
(* The worker: RaftNode::Run *)

mapVars == <<tracked, counted>>
restVars == <<peers, logVars, lockVars, handlerVars, clientVars>>

\* The wait of a follower is over.
BecomeCandidate ==
    /\ wpc = "loop" /\ state = "Follower" /\ mu = None
    /\ state' = "Candidate"
    /\ UNCHANGED <<mapVars, restVars, workerVars>>

\* StartElection and BroadcastHeartbeat begin their loops; without peers there is no vote.
StartElection ==
    /\ wpc = "loop" /\ state = "Candidate"
    /\ wpc' = IF peers = {} THEN "elected" ELSE "vote"
    /\ visit' = After(kNoNodeId)
    /\ UNCHANGED <<state, mapVars, restVars>>

BroadcastHeartbeat ==
    /\ wpc = "loop" /\ state = "Leader"
    /\ wpc' = "heartbeat" /\ visit' = After(kNoNodeId)
    /\ UNCHANGED <<state, mapVars, restVars>>

\* The iterator moves on.  Where it goes from an element that was erased is undefined.
Advance ==
    \/ visit \in peers /\ visit' = After(visit)
    \/ visit \notin peers /\ visit' \in NodeId \cup {kNoNodeId}

\* A vote, granted or not.
SendRequestVote ==
    /\ wpc = "vote" /\ visit # kNoNodeId
    /\ Advance
    /\ UNCHANGED <<wpc, state, mapVars, restVars>>

\* An answer with a later term, in either loop.
BecomeFollower ==
    /\ \/ wpc = "vote" /\ visit # kNoNodeId
       \/ wpc = "reply"
    /\ mu = None
    /\ state' = "Follower"
    /\ wpc' = IF wpc = "vote" THEN "loop" ELSE "heartbeat"
    /\ visit' = kNoNodeId
    /\ UNCHANGED <<mapVars, restVars>>

BecomeLeaderLocked == tracked' = peers /\ counted' = peers

\* The votes are counted, or there was nobody to ask.
BecomeLeader ==
    /\ wpc \in {"vote", "elected"} /\ visit = kNoNodeId /\ mu = None
    /\ state' = "Leader"
    /\ BecomeLeaderLocked
    /\ wpc' = "loop"
    /\ UNCHANGED <<visit, restVars>>

LoseElection ==
    /\ wpc = "vote" /\ visit = kNoNodeId
    /\ wpc' = "loop"
    /\ UNCHANGED <<state, mapVars, visit, restVars>>

\* operator[] of next_index_ creates the key it does not find.
SendAppendEntries ==
    /\ wpc = "heartbeat" /\ visit # kNoNodeId /\ mu = None
    /\ tracked' = tracked \cup {visit}
    /\ wpc' = "reply"
    /\ UNCHANGED <<state, counted, visit, restVars>>

\* Success with entries, success of a heartbeat, failure.
AppendReply ==
    /\ wpc = "reply" /\ mu = None
    /\ \/ tracked' = tracked \cup {visit} /\ counted' = counted \cup {visit}
       \/ counted' = counted \cup {visit} /\ UNCHANGED tracked
       \/ tracked' = tracked \cup {visit} /\ UNCHANGED counted
    /\ Advance
    /\ wpc' = "heartbeat"
    /\ UNCHANGED <<state, restVars>>

EndBroadcast ==
    /\ wpc = "heartbeat" /\ visit = kNoNodeId
    /\ wpc' = IF state = "Leader" THEN "advance" ELSE "apply"
    /\ UNCHANGED <<state, mapVars, visit, restVars>>

\* AdvanceCommitIndex, past its check of state_: whatever match_index_ says that is in the log
\* and above the commit index.  It is assigned later, when the handler may have changed both.
AdvanceCommitIndex ==
    /\ wpc = "advance" /\ mu = None
    /\ \/ /\ \E i \in 1 .. Len(log.entries) : i > commit_index /\ target' = i
          /\ mu' = "worker" /\ wpc' = "commit"
       \/ wpc' = "apply" /\ UNCHANGED <<mu, target>>
    /\ UNCHANGED <<state, peers, mapVars, logVars, batch, passed, visit, handlerVars,
                   clientVars>>

RaiseCommitIndex ==
    /\ wpc = "commit"
    /\ commit_index' = target
    /\ mu' = None /\ target' = 0
    /\ wpc' = "apply"
    /\ UNCHANGED <<state, peers, mapVars, log, last_applied, batch, passed, visit,
                   handlerVars, clientVars>>

WorkerLock ==
    /\ wpc = "apply"
    /\ Lock("worker")
    /\ wpc' = "take"
    /\ UNCHANGED <<visit, handlerVars, clientVars>>

WorkerTake ==
    /\ wpc = "take"
    /\ TakeEntries("worker")
    /\ wpc' = "applying"
    /\ UNCHANGED <<visit, handlerVars, clientVars>>

WorkerUnlock ==
    /\ wpc = "applying"
    /\ Unlock("worker")
    /\ wpc' = "loop"
    /\ UNCHANGED <<visit, handlerVars, clientVars>>

-----------------------------------------------------------------------------
(* The handler: HandleAppendEntries of a request from another leader, after its first check *)

nonHandlerVars == <<state, peers, mapVars, last_applied, lockVars, workerVars, clientVars>>

StepDown ==
    /\ hpc = "idle" /\ mu = None
    /\ state' = "Follower"
    /\ hpc' = "store"
    /\ UNCHANGED <<peers, mapVars, logVars, lockVars, request, workerVars, clientVars>>

\* Down to the first new index, committed or not, applied or not.
Truncate ==
    /\ hpc = "store"
    /\ \E first \in 1 .. MaxIndex :
          log' = TruncateTo(log, first - 1) /\ request' = first
    /\ hpc' = "append"
    /\ UNCHANGED <<nonHandlerVars, commit_index>>

Batches(first) ==
    {es \in UNION {[1 .. n -> [index : 1 .. MaxIndex, value : Change]] :
                      n \in 1 .. MaxEntriesPerMsg} : es[1].index = first}

\* A client's entry that came in between makes the log drop the batch.
StoreEntries ==
    /\ hpc = "append"
    /\ \E es \in Batches(request) : log' = AppendBatch(log, es)
    /\ request' = 0
    /\ hpc' = "compare"
    /\ UNCHANGED <<nonHandlerVars, commit_index>>

\* At once if there are no entries.  A request that is refused goes to "idle" as well.
CompareCommit ==
    /\ hpc \in {"store", "compare"}
    /\ \/ \E leader_commit \in 1 .. MaxIndex :
             leader_commit > commit_index /\ request' = leader_commit
          /\ hpc' = "limit"
       \/ hpc' = "idle" /\ UNCHANGED request
    /\ UNCHANGED <<nonHandlerVars, log, commit_index>>

LimitCommit ==
    /\ hpc = "limit"
    /\ request' = LesserOf(request, LastIndex(log))
    /\ hpc' = "assign"
    /\ UNCHANGED <<nonHandlerVars, log, commit_index>>

\* It may fall, below what is applied too.
AssignCommit ==
    /\ hpc = "assign"
    /\ commit_index' = request
    /\ request' = 0
    /\ hpc' = "apply"
    /\ UNCHANGED <<nonHandlerVars, log>>

HandlerLock ==
    /\ hpc = "apply"
    /\ Lock("handler")
    /\ hpc' = "take"
    /\ UNCHANGED <<workerVars, request, clientVars>>

HandlerTake ==
    /\ hpc = "take"
    /\ TakeEntries("handler")
    /\ hpc' = "applying"
    /\ UNCHANGED <<workerVars, request, clientVars>>

HandlerUnlock ==
    /\ hpc = "applying"
    /\ Unlock("handler")
    /\ hpc' = "idle"
    /\ UNCHANGED <<workerVars, request, clientVars>>

-----------------------------------------------------------------------------
(* The thread of a client's request *)

\* The least ID that is neither in peers_ nor the own.
NewId(id) ==
    /\ id \notin peers \cup {Self}
    /\ \A i \in NodeId : i < id => i \in peers \cup {Self}

MemberAdd(c) ==
    /\ cpc[c] = "new" /\ state = "Leader"
    /\ \E id \in NodeId :
          /\ NewId(id)
          /\ change' = [change EXCEPT ![c] = [type |-> "AddNode", node_id |-> id]]
    /\ cpc' = [cpc EXCEPT ![c] = "propose"]
    /\ UNCHANGED <<nodeVars, workerVars, handlerVars, granted>>

MemberRemove(c) ==
    /\ cpc[c] = "new" /\ state = "Leader"
    /\ \E id \in peers \ {Self} :
          change' = [change EXCEPT ![c] = [type |-> "RemoveNode", node_id |-> id]]
    /\ cpc' = [cpc EXCEPT ![c] = "propose"]
    /\ UNCHANGED <<nodeVars, workerVars, handlerVars, granted>>

\* An entry that changes no membership, by any operation that proposes one.
PutKey(c) ==
    /\ cpc[c] = "new" /\ state = "Leader"
    /\ change' = [change EXCEPT ![c] = Put]
    /\ cpc' = [cpc EXCEPT ![c] = "propose"]
    /\ UNCHANGED <<nodeVars, workerVars, handlerVars, granted>>

\* The proposal is refused and the client may ask again.  What MemberAdd, MemberRemove or another
\* operation refuses by itself changes nothing and is left out.
Refuse(c) ==
    /\ cpc[c] = "propose" /\ state # "Leader"
    /\ cpc' = [cpc EXCEPT ![c] = "new"] /\ change' = [change EXCEPT ![c] = None]
    /\ UNCHANGED <<nodeVars, workerVars, handlerVars, granted>>

ProposeCheck(c) ==
    /\ cpc[c] = "propose" /\ state = "Leader"
    /\ cpc' = [cpc EXCEPT ![c] = "lock"]
    /\ UNCHANGED <<nodeVars, workerVars, handlerVars, change, granted>>

\* mu_ is taken and the entry gets its index.
ProposeLock(c) ==
    /\ cpc[c] = "lock" /\ mu = None
    /\ LastIndex(log) < MaxIndex
    /\ mu' = c /\ target' = LastIndex(log) + 1
    /\ cpc' = [cpc EXCEPT ![c] = "append"]
    /\ UNCHANGED <<state, peers, tracked, counted, logVars, batch, passed, workerVars,
                   handlerVars, change, granted>>

\* It goes to the end of the log, wherever that now is; match_index_ of the node itself is set.
ProposeAppend(c) ==
    /\ cpc[c] = "append"
    /\ log' = AppendEntry(log, [index |-> target, value |-> change[c]])
    /\ counted' = counted \cup {Self}
    /\ mu' = None /\ target' = 0
    /\ granted' = [granted EXCEPT ![c] =
          IF change[c].type = "AddNode" THEN change[c].node_id ELSE None]
    /\ cpc' = [cpc EXCEPT ![c] = "done"] /\ change' = [change EXCEPT ![c] = None]
    /\ UNCHANGED <<state, peers, tracked, commit_index, last_applied, batch, passed,
                   workerVars, handlerVars>>

-----------------------------------------------------------------------------
Worker ==
    \/ BecomeCandidate \/ StartElection \/ BroadcastHeartbeat \/ SendRequestVote
    \/ BecomeFollower \/ BecomeLeader \/ LoseElection \/ SendAppendEntries \/ AppendReply
    \/ EndBroadcast \/ AdvanceCommitIndex \/ RaiseCommitIndex \/ WorkerLock \/ WorkerTake
    \/ WorkerUnlock

Handler ==
    \/ StepDown \/ Truncate \/ StoreEntries \/ CompareCommit \/ LimitCommit \/ AssignCommit
    \/ HandlerLock \/ HandlerTake \/ HandlerUnlock

Next == \/ Worker \/ Handler \/ ApplyConfChange
        \/ \E c \in Client : \/ MemberAdd(c) \/ MemberRemove(c) \/ PutKey(c) \/ Refuse(c)
                             \/ ProposeCheck(c) \/ ProposeLock(c) \/ ProposeAppend(c)

Spec == Init /\ [][Next]_vars

-----------------------------------------------------------------------------
\* In particular no more is applied than was taken under the commit index of that moment.
TypeOK ==
    /\ state \in {"Follower", "Candidate", "Leader"}
    /\ {peers, tracked, counted} \subseteq SUBSET NodeId
    /\ log \in [first : {1}, entries : Seq(Entry)]
    /\ passed \in Seq(Change \cup {NoEntry})
    /\ commit_index \in Nat /\ last_applied \in 0 .. Len(passed)
    /\ mu \in Thread \cup Client \cup {None} /\ target \in Nat /\ batch \in Seq(Entry)
    /\ wpc \in {"loop", "vote", "elected", "heartbeat", "reply", "advance", "commit", "apply",
                "take", "applying"}
    /\ visit \in NodeId \cup {kNoNodeId}
    /\ hpc \in {"idle", "store", "append", "compare", "limit", "assign", "apply", "take",
                "applying"}
    /\ request \in Nat
    /\ cpc \in [Client -> {"new", "propose", "lock", "append", "done"}]
    /\ change \in [Client -> Change \cup {None}]
    /\ granted \in [Client -> NodeId \cup {None}]

\* A leader has next_index_ and match_index_ of every peer, whoever applied the change that
\* made it one, and whether before, during or after the election: no prev_log_index of a
\* leader wraps, and each peer counts for the majority that peers_ makes necessary.
PeersTracked == state = "Leader" => peers \subseteq tracked /\ peers \subseteq counted

\* The places of the first k changes of l that are about id.
About(l, id, k) == {i \in 1 .. k : l[i].node_id = id}

Latest(places) == CHOOSE i \in places : \A j \in places : j <= i

\* The type of the last of them, or else what the configuration says.
LastChange(l, id, k) ==
    IF About(l, id, k) = {} THEN IF id \in Config THEN "AddNode" ELSE "RemoveNode"
    ELSE l[Latest(About(l, id, k))].type

\* peers_ is the replay of what the log held at each index when ApplyCommittedEntries came to it:
\* every index once, in order, in the worker or in the handler, although the handler shortens the
\* log and lowers the commit index without mu_, below what is applied and while the worker applies.
PeersReplayPassed ==
    \A id \in NodeId \ {Self} : id \in peers <=> LastChange(passed, id, last_applied) = "AddNode"

\* Nodes that have applied as many entries of one log have the same members, each but itself.
\* The code does not keep it: TruncateTo asks for no commit index, and what is applied is replaced.
PeersReplayLog ==
    \A id \in NodeId \ {Self} :
       id \in peers <=>
          LastChange([i \in 1 .. last_applied |-> Held(i)], id, last_applied) = "AddNode"

\* Nothing is passed over.  The code does not keep it: entries that a truncation removed before
\* they were taken count as applied, and whatever comes to their places is applied by nobody.
NothingPassedOver == \A i \in 1 .. Len(passed) : passed[i] # NoEntry

\* Each element that the worker's loop stands at is in peers_.  The code does not keep it:
\* the handler erases without waiting for the loop.
IteratorValid == visit # kNoNodeId => visit \in peers

\* Only members count for the commit index of a leader.  The code does not keep it: an answer
\* that comes after the removal of the peer makes the key again.
MembersCounted == state = "Leader" => counted \subseteq peers \cup {Self}

\* A node does not count itself as a peer.  The code does not keep it: AddNode of the own ID,
\* which every added node finds in the log.
NotOwnPeer == Self \notin peers

\* Two members that were added have two IDs.  The code does not keep it: an ID is free until
\* the change that takes it is applied.
IdsDistinct ==
    \A c, d \in Client : c # d /\ granted[c] # None => granted[c] # granted[d]
=============================================================================
