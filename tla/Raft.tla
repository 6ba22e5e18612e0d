-------------------------------- MODULE Raft --------------------------------
(***************************************************************************)
(* The consensus core: class RaftNode (raft.cpp) over the synchronous RPCs *)
(* of TcpTransport, for a fixed membership.                                *)
(*                                                                         *)
(* A node runs three kinds of threads at once, and each has a program      *)
(* counter here:                                                           *)
(*   - the worker (RaftNode::Run): elections when the node is not leader,  *)
(*     the heartbeat / commit / apply loop when it is; it blocks in one    *)
(*     RPC at a time;                                                      *)
(*   - the RPC handler: every connection has its own thread but            *)
(*     TcpTransport::handler_mu_ lets one of them into RaftNode at a time, *)
(*     so one handler per node is exact;                                   *)
(*   - a client thread in Propose.                                         *)
(* They share the atomics, and mu_ for what the code guards with it.  Of   *)
(* the critical sections of mu_ only Propose's spans more than one step    *)
(* (the handler changes the log without mu_ meanwhile); MuFree says that   *)
(* no client is inside it.                                                 *)
(***************************************************************************)
EXTENDS RaftLog, FiniteSets

CONSTANTS
    Server,            \* NodeIds of the cluster: the node itself and its peers_
    MaxEntriesPerMsg,  \* max_entries_per_msg of BroadcastHeartbeat (128)
    \* Bounds of the model, each a guard of the action it limits.
    MaxTerm,           \* no election timeout once a node is in this term
    MaxElections,      \* election timeouts, in the whole cluster
    MaxProposals,      \* calls of Propose that find their node leader, in the whole cluster
    MaxTimeouts,       \* RPCs given up by their caller, in the whole cluster
    MaxRestarts        \* crashes followed by a restart, in the whole cluster

kNoNodeId == 0

ASSUME ServerAssumption == Server \subseteq Nat \ {kNoNodeId} /\ IsFiniteSet(Server)
ASSUME BatchAssumption  == MaxEntriesPerMsg \in Nat \ {0}
ASSUME BoundAssumption  == {MaxTerm, MaxElections, MaxProposals, MaxTimeouts, MaxRestarts} \subseteq Nat

VARIABLES
    \* members of RaftNode, by node
    current_term, voted_for, state, leader_id,
    log, commit_index, last_applied,
    next_index,        \* total functions of the peer; 0 stands for an absent
    match_index,       \* key, and match_index[n][n] is set by Propose
    applied,           \* entries handed to ready_handler_ so far, in order
    \* the worker thread
    wpc,               \* where it is
    ballot,            \* term and last entry read by StartElection
    votes,             \* votes counted so far
    peer,              \* peer being served by the loop over peers_
    leader_commit,     \* current_commit read by BroadcastHeartbeat
    prev,              \* prev_log_index and prev_log_term of that peer
    \* the worker's RPC: idle, sent, taken by the peer's handler, or done
    rpc_state, rpc_req, rpc_resp,
    orphans,           \* requests still on their way though nobody waits for them
    \* the handler thread
    hpc, hreq,
    hlive,             \* the caller still waits for the answer
    \* a client thread in Propose
    cpc, centry,
    \* counters of the bounds
    elections, proposals, timeouts, restarts

logVars     == <<log, commit_index, last_applied, applied>>
termVars    == <<current_term, voted_for, state>>
leaderVars  == <<next_index, match_index>>
workerVars  == <<wpc, ballot, votes, peer, leader_commit, prev>>
rpcVars     == <<rpc_state, rpc_req, rpc_resp>>
handlerVars == <<hpc, hreq, hlive>>
clientVars  == <<cpc, centry>>
boundVars   == <<elections, proposals, timeouts, restarts>>
vars == <<logVars, termVars, leader_id, leaderVars, workerVars, rpcVars, orphans,
          handlerVars, clientVars, boundVars>>

-----------------------------------------------------------------------------
Peers(n) == Server \ {n}
\* Mutant: half of the cluster is taken for a majority.
MutantMajority == Cardinality(Server) \div 2

Majority == Cardinality(Server) \div 2 + 1

NodeState == {"Follower", "Candidate", "Leader"}

VoteRequest   == [kind : {"RequestVote"}, from : Server, to : Server, term : Term,
                  last_log_index : Index, last_log_term : Term]
AppendRequest == [kind : {"AppendEntries"}, from : Server, to : Server, term : Term,
                  prev_log_index : Index, prev_log_term : Term,
                  entries : Seq(RaftEntry), leader_commit : Index]
Request       == VoteRequest \cup AppendRequest

VoteResponse   == [term : Term, vote_granted : BOOLEAN]
AppendResponse == [term : Term, success : BOOLEAN, last_log_index : Index,
                   conflict_index : Index, conflict_term : Term]

None == [kind |-> "none"]

\* The answer TcpTransport makes up when the RPC fails in any way.
NoVote   == [term |-> 0, vote_granted |-> FALSE]
NoAppend == [term |-> 0, success |-> FALSE, last_log_index |-> 0,
             conflict_index |-> 0, conflict_term |-> 0]

FailedResponse(req) == IF req.kind = "RequestVote" THEN NoVote ELSE NoAppend

NoBallot == [term |-> 0, last_log_index |-> 0, last_log_term |-> 0]
NoPrev   == [index |-> 0, term |-> 0]
NoEntry  == [term |-> 0, index |-> 0]

MuFree(n) == cpc[n] # "append"

InitNode(v) == [n \in Server |-> v]

Init ==
    /\ current_term = InitNode(0)
    /\ voted_for = InitNode(kNoNodeId)
    /\ state = InitNode("Follower")
    /\ leader_id = InitNode(kNoNodeId)
    /\ log = InitNode(EmptyLog)
    /\ commit_index = InitNode(0)
    /\ last_applied = InitNode(0)
    /\ next_index = InitNode(InitNode(0))
    /\ match_index = InitNode(InitNode(0))
    /\ applied = InitNode(<<>>)
    /\ wpc = InitNode("loop")
    /\ ballot = InitNode(NoBallot)
    /\ votes = InitNode(0)
    /\ peer = InitNode(kNoNodeId)
    /\ leader_commit = InitNode(0)
    /\ prev = InitNode(NoPrev)
    /\ rpc_state = InitNode("idle")
    /\ rpc_req = InitNode(None)
    /\ rpc_resp = InitNode(None)
    /\ orphans = {}
    /\ hpc = InitNode("idle")
    /\ hreq = InitNode(None)
    /\ hlive = InitNode(FALSE)
    /\ cpc = InitNode("idle")
    /\ centry = InitNode(NoEntry)
    /\ elections = 0
    /\ proposals = 0
    /\ timeouts = 0
    /\ restarts = 0

-----------------------------------------------------------------------------
(* State changes shared by the threads; the caller holds mu_ *)

\* Mutant: the caller's comparison, made without mu_, is trusted.
MutantTermTrusted(n, term) ==
    /\ current_term' = [current_term EXCEPT ![n] = term]
    /\ voted_for' = [voted_for EXCEPT ![n] = IF term = current_term[n] THEN @ ELSE kNoNodeId]
    /\ state' = [state EXCEPT ![n] = "Follower"]

\* Mutant: >= for >, a message of the current term clears the vote.
MutantVoteCleared(n, term) ==
    /\ IF term >= current_term[n]
       THEN /\ current_term' = [current_term EXCEPT ![n] = term]
            /\ voted_for' = [voted_for EXCEPT ![n] = kNoNodeId]
       ELSE UNCHANGED <<current_term, voted_for>>
    /\ state' = [state EXCEPT ![n] = "Follower"]

BecomeFollowerLocked(n, term) ==
    /\ IF term > current_term[n]
       THEN /\ current_term' = [current_term EXCEPT ![n] = term]
            /\ voted_for' = [voted_for EXCEPT ![n] = kNoNodeId]
       ELSE UNCHANGED <<current_term, voted_for>>
    /\ state' = [state EXCEPT ![n] = "Follower"]

\* Mutant: next_index_ starts at the last entry instead of one past it.
MutantNextAtLast(n) ==
    /\ state' = [state EXCEPT ![n] = "Leader"]
    /\ leader_id' = [leader_id EXCEPT ![n] = n]
    /\ next_index' = [next_index EXCEPT ![n] =
            [p \in Server |-> IF p = n THEN 0 ELSE LastIndex(log[n])]]
    /\ match_index' = [match_index EXCEPT ![n] = InitNode(0)]

BecomeLeaderLocked(n) ==
    /\ state' = [state EXCEPT ![n] = "Leader"]
    /\ leader_id' = [leader_id EXCEPT ![n] = n]
    /\ next_index' = [next_index EXCEPT ![n] =
            [p \in Server |-> IF p = n THEN 0 ELSE LastIndex(log[n]) + 1]]
    /\ match_index' = [match_index EXCEPT ![n] = InitNode(0)]

\* Mutant: last_applied_ is left behind.
MutantApplyForgets(n) ==
    IF commit_index[n] > last_applied[n]
    THEN /\ applied' = [applied EXCEPT ![n] =
                @ \o Slice(log[n], last_applied[n] + 1, commit_index[n] + 1)]
         /\ UNCHANGED last_applied
    ELSE UNCHANGED <<applied, last_applied>>

\* Mutant: the range starts at the entry applied last.
MutantApplyOverlaps(n) ==
    IF commit_index[n] > last_applied[n]
    THEN /\ applied' = [applied EXCEPT ![n] =
                @ \o Slice(log[n], last_applied[n], commit_index[n] + 1)]
         /\ last_applied' = [last_applied EXCEPT ![n] = commit_index[n]]
    ELSE UNCHANGED <<applied, last_applied>>

\* Hand the newly committed range to the state machine; mu_ is held throughout.
ApplyCommitted(n) ==
    IF commit_index[n] > last_applied[n]
    THEN /\ applied' = [applied EXCEPT ![n] =
                @ \o Slice(log[n], last_applied[n] + 1, commit_index[n] + 1)]
         /\ last_applied' = [last_applied EXCEPT ![n] = commit_index[n]]
    ELSE UNCHANGED <<applied, last_applied>>

WorkerAt(n, pc) == wpc' = [wpc EXCEPT ![n] = pc]

\* The next element of the std::set peers_ after the one just served.
NextPeer(n, p) ==
    /\ p \in Peers(n)
    /\ p > peer[n]
    /\ \A q \in Peers(n) : q > peer[n] => q >= p

AllPeersServed(n) == \A p \in Peers(n) : p <= peer[n]

Send(n, req) ==
    /\ rpc_state' = [rpc_state EXCEPT ![n] = "sent"]
    /\ rpc_req' = [rpc_req EXCEPT ![n] = req]
    /\ UNCHANGED rpc_resp

\* The locals of StartElection and BroadcastHeartbeat go out of scope.
EndLoop(n) ==
    /\ ballot' = [ballot EXCEPT ![n] = NoBallot]
    /\ votes' = [votes EXCEPT ![n] = 0]
    /\ peer' = [peer EXCEPT ![n] = kNoNodeId]

EndRpc(n) ==
    /\ rpc_state' = [rpc_state EXCEPT ![n] = "idle"]
    /\ rpc_req' = [rpc_req EXCEPT ![n] = None]
    /\ rpc_resp' = [rpc_resp EXCEPT ![n] = None]

-----------------------------------------------------------------------------
(* The worker thread: Run *)

\* Follower branch: the wait ends on time whatever arrived meanwhile.
BecomeCandidate(n) ==
    /\ wpc[n] = "loop" /\ state[n] = "Follower" /\ MuFree(n)
    /\ current_term[n] < MaxTerm /\ elections < MaxElections
    /\ elections' = elections + 1
    /\ state' = [state EXCEPT ![n] = "Candidate"]
    /\ current_term' = [current_term EXCEPT ![n] = @ + 1]
    /\ voted_for' = [voted_for EXCEPT ![n] = n]
    /\ leader_id' = [leader_id EXCEPT ![n] = kNoNodeId]
    /\ UNCHANGED <<logVars, leaderVars, workerVars, rpcVars, orphans, handlerVars,
                   clientVars, proposals, timeouts, restarts>>

\* Candidate branch: entered once more, in the same term, after every lost vote.
EnterElection(n) ==
    /\ wpc[n] = "loop" /\ state[n] = "Candidate"
    /\ WorkerAt(n, "ballot")
    /\ UNCHANGED <<logVars, termVars, leader_id, leaderVars, ballot, votes, peer,
                   leader_commit, prev, rpcVars, orphans, handlerVars, clientVars, boundVars>>

\* The term and the last entry are read without mu_, and without looking at state_ again.
StartElection(n) ==
    /\ wpc[n] = "ballot"
    /\ ballot' = [ballot EXCEPT ![n] = [term |-> current_term[n],
                                        last_log_index |-> LastIndex(log[n]),
                                        last_log_term |-> LastTerm(log[n])]]
    /\ votes' = [votes EXCEPT ![n] = 1]
    /\ peer' = [peer EXCEPT ![n] = kNoNodeId]
    /\ WorkerAt(n, "poll")
    /\ UNCHANGED <<logVars, termVars, leader_id, leaderVars, leader_commit, prev, rpcVars,
                   orphans, handlerVars, clientVars, boundVars>>

SendRequestVote(n) ==
    /\ wpc[n] = "poll"
    /\ \E p \in Server :
          /\ NextPeer(n, p)
          /\ peer' = [peer EXCEPT ![n] = p]
          /\ Send(n, [kind |-> "RequestVote", from |-> n, to |-> p,
                      term |-> ballot[n].term,
                      last_log_index |-> ballot[n].last_log_index,
                      last_log_term |-> ballot[n].last_log_term])
    /\ WorkerAt(n, "vote")
    /\ UNCHANGED <<logVars, termVars, leader_id, leaderVars, ballot, votes, leader_commit,
                   prev, orphans, handlerVars, clientVars, boundVars>>

VoteReply(n) ==
    /\ wpc[n] = "vote" /\ rpc_state[n] = "done"
    /\ LET resp == rpc_resp[n] IN
       \/ /\ resp.term > current_term[n] /\ MuFree(n)
          /\ BecomeFollowerLocked(n, resp.term)
          /\ EndLoop(n)
          /\ WorkerAt(n, "loop")
       \/ /\ resp.term <= current_term[n]
          /\ votes' = [votes EXCEPT ![n] = IF resp.vote_granted THEN @ + 1 ELSE @]
          /\ WorkerAt(n, "poll")
          /\ UNCHANGED <<termVars, ballot, peer>>
    /\ EndRpc(n)
    /\ UNCHANGED <<logVars, leader_id, leaderVars, leader_commit, prev, orphans,
                   handlerVars, clientVars, boundVars>>

\* Enough votes make a leader whatever state_ and current_term_ have become.
EndElection(n) ==
    /\ wpc[n] = "poll" /\ AllPeersServed(n)
    /\ \/ /\ votes[n] >= Majority /\ MuFree(n)
          /\ BecomeLeaderLocked(n)
       \/ /\ votes[n] < Majority
          /\ UNCHANGED <<state, leader_id, leaderVars>>
    /\ EndLoop(n)
    /\ WorkerAt(n, "loop")
    /\ UNCHANGED <<current_term, voted_for, logVars, leader_commit, prev, rpcVars,
                   orphans, handlerVars, clientVars, boundVars>>

\* Leader branch.
BroadcastHeartbeat(n) ==
    /\ wpc[n] = "loop" /\ state[n] = "Leader"
    /\ leader_commit' = [leader_commit EXCEPT ![n] = commit_index[n]]
    /\ peer' = [peer EXCEPT ![n] = kNoNodeId]
    /\ WorkerAt(n, "bcast")
    /\ UNCHANGED <<logVars, termVars, leader_id, leaderVars, ballot, votes, prev, rpcVars,
                   orphans, handlerVars, clientVars, boundVars>>

ReadPrev(n) ==
    /\ wpc[n] = "bcast" /\ MuFree(n)
    /\ \E p \in Server :
          /\ NextPeer(n, p)
          /\ peer' = [peer EXCEPT ![n] = p]
          /\ LET i == next_index[n][p] - 1 IN
             prev' = [prev EXCEPT ![n] = [index |-> i, term |-> TermAt(log[n], i)]]
    /\ WorkerAt(n, "prev")
    /\ UNCHANGED <<logVars, termVars, leader_id, leaderVars, ballot, votes, leader_commit,
                   rpcVars, orphans, handlerVars, clientVars, boundVars>>

\* The entries and the term are read now, state_ is not.
SendAppendEntries(n) ==
    /\ wpc[n] = "prev"
    /\ LET es == EntriesFrom(log[n], prev[n].index + 1) IN
       Send(n, [kind |-> "AppendEntries", from |-> n, to |-> peer[n],
                term |-> current_term[n],
                prev_log_index |-> prev[n].index, prev_log_term |-> prev[n].term,
                entries |-> SubSeq(es, 1, LesserOf(MaxEntriesPerMsg, Len(es))),
                leader_commit |-> leader_commit[n]])
    /\ prev' = [prev EXCEPT ![n] = NoPrev]
    /\ WorkerAt(n, "append")
    /\ UNCHANGED <<logVars, termVars, leader_id, leaderVars, ballot, votes, peer,
                   leader_commit, orphans, handlerVars, clientVars, boundVars>>

StepBack(i) == IF i > 1 THEN i - 1 ELSE i

\* Mutant: the follower's hints are ignored.
MutantNeverBackedOff(n, cur, resp) == cur

\* next_index_ of a peer after it refused the entries, cur being its value before.
BackedOff(n, cur, resp) ==
    LET hint  == resp.conflict_index
        found == FindConflictTermIndex(log[n], resp.conflict_term, hint)
    IN  IF resp.conflict_term > 0 /\ found > 0 /\ found < cur THEN found
        ELSE IF hint > 0 /\ hint < cur THEN hint
        ELSE StepBack(cur)

AppendReply(n) ==
    /\ wpc[n] = "append" /\ rpc_state[n] = "done" /\ MuFree(n)
    /\ LET resp == rpc_resp[n]
           sent == rpc_req[n].entries
           p    == peer[n]
       IN
       \/ /\ resp.term > current_term[n]
          /\ BecomeFollowerLocked(n, resp.term)
          /\ peer' = [peer EXCEPT ![n] = kNoNodeId]
          /\ WorkerAt(n, "apply")   \* not leader any more: AdvanceCommitIndex returns
          /\ UNCHANGED leaderVars
       \/ /\ resp.term <= current_term[n] /\ resp.success /\ sent # <<>>
          /\ match_index' = [match_index EXCEPT ![n][p] = sent[Len(sent)].index]
          /\ next_index' = [next_index EXCEPT ![n][p] = sent[Len(sent)].index + 1]
          /\ WorkerAt(n, "bcast")
          /\ UNCHANGED <<termVars, peer>>
       \/ /\ resp.term <= current_term[n] /\ resp.success /\ sent = <<>>
          /\ match_index' = [match_index EXCEPT ![n][p] =
                IF resp.last_log_index > @ THEN resp.last_log_index ELSE @]
          /\ WorkerAt(n, "bcast")
          /\ UNCHANGED <<termVars, next_index, peer>>
       \/ /\ resp.term <= current_term[n] /\ ~resp.success
          /\ next_index' = [next_index EXCEPT ![n][p] = BackedOff(n, @, resp)]
          /\ WorkerAt(n, "bcast")
          /\ UNCHANGED <<termVars, match_index, peer>>
    /\ EndRpc(n)
    /\ UNCHANGED <<logVars, leader_id, ballot, votes, leader_commit, prev, orphans,
                   handlerVars, clientVars, boundVars>>

\* AdvanceCommitIndex looks at state_ before it takes mu_, and not again.
EndBroadcast(n) ==
    /\ wpc[n] = "bcast" /\ AllPeersServed(n)
    /\ EndLoop(n)
    /\ WorkerAt(n, IF state[n] = "Leader" THEN "advance" ELSE "apply")
    /\ UNCHANGED <<logVars, termVars, leader_id, leaderVars, leader_commit, prev,
                   rpcVars, orphans, handlerVars, clientVars, boundVars>>

(***************************************************************************)
(* The list that AdvanceCommitIndex sorts: LastIndex, and every value of   *)
(* match_index_ -- its own entry, set by Propose, among them.  A 0 for an  *)
(* absent key only lengthens the tail of the sorted list.                  *)
(***************************************************************************)
MatchIndices(n) == {LastIndex(log[n])} \cup {match_index[n][p] : p \in Server}

AckCount(n, i) == (IF LastIndex(log[n]) >= i THEN 1 ELSE 0)
                    + Cardinality({p \in Server : match_index[n][p] >= i})

\* match_indices[majority - 1] once sorted from the greatest down.
IsMajorityMatch(n, i) ==
    /\ i \in MatchIndices(n)
    /\ AckCount(n, i) >= Majority
    /\ \A j \in MatchIndices(n) : AckCount(n, j) >= Majority => j <= i

AdvanceCommitIndex(n) ==
    /\ wpc[n] = "advance" /\ MuFree(n)
    /\ \E new_commit \in MatchIndices(n) :
          /\ IsMajorityMatch(n, new_commit)
          /\ commit_index' = [commit_index EXCEPT ![n] =
                IF new_commit > @ /\ TermAt(log[n], new_commit) = current_term[n]
                THEN new_commit ELSE @]
    /\ WorkerAt(n, "apply")
    /\ UNCHANGED <<log, last_applied, applied, termVars, leader_id, leaderVars, ballot, votes,
                   peer, leader_commit, prev, rpcVars, orphans, handlerVars, clientVars,
                   boundVars>>

ApplyCommittedEntries(n) ==
    /\ wpc[n] = "apply" /\ MuFree(n)
    /\ ApplyCommitted(n)
    /\ leader_commit' = [leader_commit EXCEPT ![n] = 0]
    /\ WorkerAt(n, "loop")
    /\ UNCHANGED <<log, commit_index, termVars, leader_id, leaderVars, ballot, votes, peer,
                   prev, rpcVars, orphans, handlerVars, clientVars, boundVars>>

-----------------------------------------------------------------------------
(* The handler thread *)

HandlerAt(n, pc) == hpc' = [hpc EXCEPT ![n] = pc]

\* The handler returns: the answer reaches the caller if it still waits.
Respond(n, resp) ==
    /\ HandlerAt(n, "idle")
    /\ hreq' = [hreq EXCEPT ![n] = None]
    /\ hlive' = [hlive EXCEPT ![n] = FALSE]
    /\ IF hlive[n]
       THEN LET caller == hreq[n].from IN
            /\ rpc_state' = [rpc_state EXCEPT ![caller] = "done"]
            /\ rpc_resp' = [rpc_resp EXCEPT ![caller] = resp]
       ELSE UNCHANGED <<rpc_state, rpc_resp>>
    /\ UNCHANGED rpc_req

RefusalOf(n, req) ==
    IF req.kind = "RequestVote" THEN [NoVote EXCEPT !.term = current_term[n]]
    ELSE [NoAppend EXCEPT !.term = current_term[n], !.last_log_index = LastIndex(log[n])]

(***************************************************************************)
(* A connection thread gets handler_mu_ and enters HandleRequestVote or    *)
(* HandleAppendEntries, both of which first compare the terms, without     *)
(* mu_: an older request is answered on the spot.                          *)
(***************************************************************************)
Admit(n, req) ==
    /\ hpc[n] = "idle"
    /\ req.term >= current_term[n]
    /\ hreq' = [hreq EXCEPT ![n] = req]
    /\ HandlerAt(n, IF req.kind = "AppendEntries" THEN "ae_down"
                    ELSE IF req.term > current_term[n] THEN "rv_down" ELSE "rv_vote")

Take(n) ==
    /\ \E m \in Server :
          /\ rpc_state[m] = "sent" /\ rpc_req[m].to = n
          /\ Admit(n, rpc_req[m])
          /\ rpc_state' = [rpc_state EXCEPT ![m] = "taken"]
    /\ hlive' = [hlive EXCEPT ![n] = TRUE]
    /\ UNCHANGED <<termVars, leader_id, logVars, leaderVars, workerVars, rpc_req, rpc_resp,
                   orphans, clientVars, boundVars>>

Refuse(n) ==
    /\ hpc[n] = "idle"
    /\ \E m \in Server :
          /\ rpc_state[m] = "sent" /\ rpc_req[m].to = n
          /\ rpc_req[m].term < current_term[n]
          /\ rpc_state' = [rpc_state EXCEPT ![m] = "done"]
          /\ rpc_resp' = [rpc_resp EXCEPT ![m] = RefusalOf(n, rpc_req[m])]
    /\ UNCHANGED <<termVars, leader_id, logVars, leaderVars, workerVars, rpc_req, orphans,
                   handlerVars, clientVars, boundVars>>

TakeOrphan(n) ==
    /\ hpc[n] = "idle"
    /\ \E req \in orphans :
          /\ req.to = n
          /\ orphans' = orphans \ {req}
          /\ \/ Admit(n, req)
             \/ req.term < current_term[n] /\ UNCHANGED <<hpc, hreq>>
    /\ UNCHANGED <<termVars, leader_id, logVars, leaderVars, workerVars, rpcVars, hlive,
                   clientVars, boundVars>>

RequestVoteStepDown(n) ==
    /\ hpc[n] = "rv_down" /\ MuFree(n)
    /\ BecomeFollowerLocked(n, hreq[n].term)
    /\ HandlerAt(n, "rv_vote")
    /\ UNCHANGED <<leader_id, logVars, leaderVars, workerVars, rpcVars, orphans, hreq, hlive,
                   clientVars, boundVars>>

LogOk(n, req) ==
    \/ req.last_log_term > LastTerm(log[n])
    \/ /\ req.last_log_term = LastTerm(log[n])
       /\ req.last_log_index >= LastIndex(log[n])

\* Mutant: the vote already given is not looked at.
MutantVoteUnchecked(n) ==
    /\ hpc[n] = "rv_vote" /\ MuFree(n)
    /\ LET req     == hreq[n]
           granted == LogOk(n, req)
       IN
       /\ voted_for' = [voted_for EXCEPT ![n] = IF granted THEN req.from ELSE @]
       /\ Respond(n, [term |-> req.term, vote_granted |-> granted])
    /\ UNCHANGED <<current_term, state, leader_id, logVars, leaderVars, workerVars, orphans,
                   clientVars, boundVars>>

\* The locked read-check-write of voted_for_; req.term is not compared again.
RequestVoteDecide(n) ==
    /\ hpc[n] = "rv_vote" /\ MuFree(n)
    /\ LET req     == hreq[n]
           granted == voted_for[n] \in {kNoNodeId, req.from} /\ LogOk(n, req)
       IN
       /\ voted_for' = [voted_for EXCEPT ![n] = IF granted THEN req.from ELSE @]
       /\ Respond(n, [term |-> req.term, vote_granted |-> granted])
    /\ UNCHANGED <<current_term, state, leader_id, logVars, leaderVars, workerVars, orphans,
                   clientVars, boundVars>>

AppendEntriesStepDown(n) ==
    /\ hpc[n] = "ae_down" /\ MuFree(n)
    /\ BecomeFollowerLocked(n, hreq[n].term)
    /\ HandlerAt(n, "ae_check")
    /\ UNCHANGED <<leader_id, logVars, leaderVars, workerVars, rpcVars, orphans, hreq, hlive,
                   clientVars, boundVars>>

PrevMatches(n, req) ==
    req.prev_log_index > 0 => TermAt(log[n], req.prev_log_index) = req.prev_log_term

\* leader_id_ is set, then the entry before the new ones is compared.
AppendEntriesCheck(n) ==
    /\ hpc[n] = "ae_check"
    /\ leader_id' = [leader_id EXCEPT ![n] = hreq[n].from]
    /\ LET req == hreq[n] IN
       \/ /\ ~PrevMatches(n, req)
          /\ Respond(n, [term |-> req.term, success |-> FALSE,
                         last_log_index |-> LastIndex(log[n]),
                         conflict_index |-> ConflictIndex(log[n], req.prev_log_index),
                         conflict_term |-> TermAt(log[n], req.prev_log_index)])
       \/ /\ PrevMatches(n, req)
          /\ HandlerAt(n, IF req.entries # <<>> THEN "ae_trunc" ELSE "ae_commit")
          /\ UNCHANGED <<hreq, hlive, rpcVars>>
    /\ UNCHANGED <<termVars, logVars, leaderVars, workerVars, orphans, clientVars, boundVars>>

\* Two calls on the log, neither under mu_: a client may append in between.
AppendEntriesTruncate(n) ==
    /\ hpc[n] = "ae_trunc"
    /\ log' = [log EXCEPT ![n] = TruncateTo(@, hreq[n].entries[1].index - 1)]
    /\ HandlerAt(n, "ae_append")
    /\ UNCHANGED <<commit_index, last_applied, applied, termVars, leader_id, leaderVars,
                   workerVars, rpcVars, orphans, hreq, hlive, clientVars, boundVars>>

AppendEntriesStore(n) ==
    /\ hpc[n] = "ae_append"
    /\ log' = [log EXCEPT ![n] = AppendBatch(@, hreq[n].entries)]
    /\ HandlerAt(n, "ae_commit")
    /\ UNCHANGED <<commit_index, last_applied, applied, termVars, leader_id, leaderVars,
                   workerVars, rpcVars, orphans, hreq, hlive, clientVars, boundVars>>

Succeed(n) ==
    Respond(n, [NoAppend EXCEPT !.term = hreq[n].term, !.success = TRUE,
                                !.last_log_index = LastIndex(log[n])])

\* commit_index_ is compared, then assigned, without mu_.
AppendEntriesCommit(n) ==
    /\ hpc[n] = "ae_commit"
    /\ IF hreq[n].leader_commit > commit_index[n]
       THEN HandlerAt(n, "ae_set") /\ UNCHANGED <<hreq, hlive, rpcVars>>
       ELSE Succeed(n)
    /\ UNCHANGED <<termVars, leader_id, logVars, leaderVars, workerVars, orphans,
                   clientVars, boundVars>>

AppendEntriesSetCommit(n) ==
    /\ hpc[n] = "ae_set"
    /\ commit_index' = [commit_index EXCEPT ![n] =
                            LesserOf(hreq[n].leader_commit, LastIndex(log[n]))]
    /\ HandlerAt(n, "ae_apply")
    /\ UNCHANGED <<log, last_applied, applied, termVars, leader_id, leaderVars, workerVars,
                   rpcVars, orphans, hreq, hlive, clientVars, boundVars>>

AppendEntriesApply(n) ==
    /\ hpc[n] = "ae_apply" /\ MuFree(n)
    /\ ApplyCommitted(n)
    /\ Succeed(n)
    /\ UNCHANGED <<log, commit_index, termVars, leader_id, leaderVars, workerVars, orphans,
                   clientVars, boundVars>>

-----------------------------------------------------------------------------
(* A client thread in Propose *)

\* Mutant: IsLeader is not asked.
MutantProposeAnywhere(n) ==
    /\ cpc[n] = "idle"
    /\ proposals < MaxProposals
    /\ proposals' = proposals + 1
    /\ cpc' = [cpc EXCEPT ![n] = "lock"]
    /\ UNCHANGED <<termVars, leader_id, logVars, leaderVars, workerVars, rpcVars, orphans,
                   handlerVars, centry, elections, timeouts, restarts>>

\* IsLeader, without mu_.
ProposeEnter(n) ==
    /\ cpc[n] = "idle" /\ state[n] = "Leader"
    /\ proposals < MaxProposals
    /\ proposals' = proposals + 1
    /\ cpc' = [cpc EXCEPT ![n] = "lock"]
    /\ UNCHANGED <<termVars, leader_id, logVars, leaderVars, workerVars, rpcVars, orphans,
                   handlerVars, centry, elections, timeouts, restarts>>

\* mu_ is taken and the entry gets its term and index.
ProposeLock(n) ==
    /\ cpc[n] = "lock"
    /\ cpc' = [cpc EXCEPT ![n] = "append"]
    /\ \E v \in Value :
          centry' = [centry EXCEPT ![n] = [term |-> current_term[n],
                                           index |-> LastIndex(log[n]) + 1, value |-> v]]
    /\ UNCHANGED <<termVars, leader_id, logVars, leaderVars, workerVars, rpcVars, orphans,
                   handlerVars, boundVars>>

\* The entry goes to the end of the log, wherever that now is; mu_ is released.
ProposeAppend(n) ==
    /\ cpc[n] = "append"
    /\ log' = [log EXCEPT ![n] = AppendEntry(@, centry[n])]
    /\ match_index' = [match_index EXCEPT ![n][n] = centry[n].index]
    /\ cpc' = [cpc EXCEPT ![n] = "idle"]
    /\ centry' = [centry EXCEPT ![n] = NoEntry]
    /\ UNCHANGED <<commit_index, last_applied, applied, next_index, termVars, leader_id,
                   workerVars, rpcVars, orphans, handlerVars, boundVars>>

-----------------------------------------------------------------------------
(* Failures *)

\* Mutant: the connection outlives the caller, its answer meets the next call.
MutantAnswerKept(m) ==
    /\ \/ orphans' = orphans
       \/ rpc_state[m] = "sent" /\ orphans' = orphans \cup {rpc_req[m]}
    /\ hlive' = hlive

\* Nobody waits any more for the request of m: it may be lost, or arrive late.
Abandon(m) ==
    /\ \/ orphans' = orphans
       \/ rpc_state[m] = "sent" /\ orphans' = orphans \cup {rpc_req[m]}
    /\ hlive' = IF rpc_state[m] = "taken" THEN [hlive EXCEPT ![rpc_req[m].to] = FALSE]
                ELSE hlive

\* The two seconds of SO_RCVTIMEO are over, or the connection broke.
RpcTimeout(m) ==
    /\ rpc_state[m] \in {"sent", "taken"}
    /\ timeouts < MaxTimeouts
    /\ timeouts' = timeouts + 1
    /\ Abandon(m)
    /\ rpc_state' = [rpc_state EXCEPT ![m] = "done"]
    /\ rpc_resp' = [rpc_resp EXCEPT ![m] = FailedResponse(rpc_req[m])]
    /\ UNCHANGED <<termVars, leader_id, logVars, leaderVars, workerVars, rpc_req, hpc, hreq,
                   clientVars, elections, proposals, restarts>>

(***************************************************************************)
(* The process dies and starts again.  EtcdServer::Start loads the hard    *)
(* state but gives none of it to RaftNode, and the WAL is replayed into    *)
(* the key-value store only: the new RaftNode starts from nothing.  A      *)
(* request its handler was serving fails for its caller.                   *)
(***************************************************************************)
Restart(n) ==
    /\ restarts < MaxRestarts
    /\ restarts' = restarts + 1
    /\ current_term' = [current_term EXCEPT ![n] = 0]
    /\ voted_for' = [voted_for EXCEPT ![n] = kNoNodeId]
    /\ state' = [state EXCEPT ![n] = "Follower"]
    /\ leader_id' = [leader_id EXCEPT ![n] = kNoNodeId]
    /\ log' = [log EXCEPT ![n] = EmptyLog]
    /\ commit_index' = [commit_index EXCEPT ![n] = 0]
    /\ last_applied' = [last_applied EXCEPT ![n] = 0]
    /\ applied' = [applied EXCEPT ![n] = <<>>]
    /\ next_index' = [next_index EXCEPT ![n] = InitNode(0)]
    /\ match_index' = [match_index EXCEPT ![n] = InitNode(0)]
    /\ WorkerAt(n, "loop")
    /\ EndLoop(n)
    /\ leader_commit' = [leader_commit EXCEPT ![n] = 0]
    /\ prev' = [prev EXCEPT ![n] = NoPrev]
    /\ LET served(m) == rpc_state[m] = "taken" /\ rpc_req[m].to = n IN
       /\ rpc_state' = [m \in Server |-> IF m = n THEN "idle"
                                         ELSE IF served(m) THEN "done" ELSE rpc_state[m]]
       /\ rpc_resp' = [m \in Server |-> IF m = n THEN None
                                        ELSE IF served(m) THEN FailedResponse(rpc_req[m])
                                        ELSE rpc_resp[m]]
       /\ rpc_req' = [rpc_req EXCEPT ![n] = None]
    /\ \E late \in SUBSET (IF rpc_state[n] = "sent" THEN {rpc_req[n]} ELSE {}) :
          orphans' = {req \in orphans \cup late : req.to # n}
    /\ HandlerAt(n, "idle")
    /\ hreq' = [hreq EXCEPT ![n] = None]
    /\ hlive' = [m \in Server |-> hlive[m] /\ m # n /\ hreq[m].from # n]
    /\ cpc' = [cpc EXCEPT ![n] = "idle"]
    /\ centry' = [centry EXCEPT ![n] = NoEntry]
    /\ UNCHANGED <<elections, proposals, timeouts>>

-----------------------------------------------------------------------------
Worker(n) ==
    \/ BecomeCandidate(n) \/ EnterElection(n) \/ StartElection(n) \/ SendRequestVote(n)
    \/ VoteReply(n) \/ EndElection(n)
    \/ BroadcastHeartbeat(n) \/ ReadPrev(n) \/ SendAppendEntries(n) \/ AppendReply(n)
    \/ EndBroadcast(n) \/ AdvanceCommitIndex(n) \/ ApplyCommittedEntries(n)

Handler(n) ==
    \/ Take(n) \/ TakeOrphan(n) \/ Refuse(n)
    \/ RequestVoteStepDown(n) \/ RequestVoteDecide(n)
    \/ AppendEntriesStepDown(n) \/ AppendEntriesCheck(n)
    \/ AppendEntriesTruncate(n) \/ AppendEntriesStore(n) \/ AppendEntriesCommit(n)
    \/ AppendEntriesSetCommit(n) \/ AppendEntriesApply(n)

Client(n) == ProposeEnter(n) \/ ProposeLock(n) \/ ProposeAppend(n)

Next ==
    \E n \in Server :
        \/ Worker(n) \/ Handler(n) \/ Client(n)
        \/ RpcTimeout(n) \/ Restart(n)

Spec == Init /\ [][Next]_vars

(***************************************************************************)
(* The threads run and mu_ and handler_mu_ are granted; every wait of the  *)
(* worker ends.  That an RPC does not time out for ever is MaxTimeouts,    *)
(* that elections stop is MaxElections.                                    *)
(***************************************************************************)
Fairness ==
    \A n \in Server :
        /\ WF_vars(Worker(n))
        /\ WF_vars(Handler(n))
        /\ WF_vars(ProposeLock(n) \/ ProposeAppend(n))

FairSpec == Spec /\ Fairness

-----------------------------------------------------------------------------
(* Types *)

WorkerPc  == {"loop", "ballot", "poll", "vote", "bcast", "prev", "append", "advance", "apply"}
HandlerPc == {"idle", "rv_down", "rv_vote", "ae_down", "ae_check", "ae_trunc", "ae_append",
              "ae_commit", "ae_set", "ae_apply"}

Ballot == [term : Term, last_log_index : Index, last_log_term : Term]

TypeOfNodes ==
    /\ current_term \in [Server -> Term]
    /\ voted_for \in [Server -> Server \cup {kNoNodeId}]
    /\ state \in [Server -> NodeState]
    /\ leader_id \in [Server -> Server \cup {kNoNodeId}]
    /\ log \in [Server -> Log]
    /\ commit_index \in [Server -> Index]
    /\ last_applied \in [Server -> Index]
    /\ next_index \in [Server -> [Server -> Index]]
    /\ match_index \in [Server -> [Server -> Index]]
    /\ applied \in [Server -> Seq(RaftEntry)]

TypeOfThreads ==
    /\ wpc \in [Server -> WorkerPc]
    /\ ballot \in [Server -> Ballot]
    /\ votes \in [Server -> Nat]
    /\ peer \in [Server -> Server \cup {kNoNodeId}]
    /\ leader_commit \in [Server -> Index]
    /\ prev \in [Server -> [index : Index, term : Term]]
    /\ rpc_state \in [Server -> {"idle", "sent", "taken", "done"}]
    /\ rpc_req \in [Server -> Request \cup {None}]
    /\ rpc_resp \in [Server -> VoteResponse \cup AppendResponse \cup {None}]
    /\ orphans \in SUBSET Request
    /\ hpc \in [Server -> HandlerPc]
    /\ hreq \in [Server -> Request \cup {None}]
    /\ hlive \in [Server -> BOOLEAN]
    /\ cpc \in [Server -> {"idle", "lock", "append"}]
    /\ centry \in [Server -> RaftEntry \cup {NoEntry}]
    /\ {elections, proposals, timeouts, restarts} \subseteq Nat

\* Every variable keeps to its type; prev in particular: next_index_ - 1 never wraps.
TypeOK == TypeOfNodes /\ TypeOfThreads

RequestKind(pc) == IF pc \in {"rv_down", "rv_vote"} THEN VoteRequest ELSE AppendRequest

\* The worker that called waits with the request it sent, and gets an answer of its kind.
CallerMatched(n) ==
    /\ rpc_state[n] = "idle" <=> wpc[n] \notin {"vote", "append"}
    /\ wpc[n] = "vote" => rpc_req[n] \in VoteRequest
    /\ wpc[n] = "append" => rpc_req[n] \in AppendRequest
    /\ wpc[n] \in {"vote", "append"} => rpc_req[n].from = n
    /\ rpc_state[n] = "done" /\ wpc[n] = "vote" => rpc_resp[n] \in VoteResponse
    /\ rpc_state[n] = "done" /\ wpc[n] = "append" => rpc_resp[n] \in AppendResponse

\* A busy handler has a request of its kind for its node; one whose answer is still
\* wanted serves the very request its caller waits on.
HandlerMatched(n) ==
    /\ hpc[n] # "idle" => hreq[n] \in RequestKind(hpc[n]) /\ hreq[n].to = n
    /\ hlive[n] => /\ hpc[n] # "idle"
                   /\ rpc_state[hreq[n].from] = "taken"
                   /\ rpc_req[hreq[n].from] = hreq[n]

ClientMatched(n) == cpc[n] = "append" => centry[n] \in RaftEntry

(***************************************************************************)
(* A synchronous RPC is matched by what its two ends are doing             *)
(* (SendAndReceive and HandleClient share one connection): no answer meets *)
(* another call than its own, however timeouts and crashes fall.           *)
(***************************************************************************)
RpcMatched == \A n \in Server : CallerMatched(n) /\ HandlerMatched(n) /\ ClientMatched(n)

-----------------------------------------------------------------------------
(* Terms and votes *)

(***************************************************************************)
(* Two threads change current_term_: the worker on an election timeout and *)
(* on an answer, the handler on a request; BecomeFollowerLocked compares   *)
(* again under mu_ because its callers compared without it.  Until a       *)
(* crash, the term of a node never decreases.                              *)
(***************************************************************************)
TermMonotonic ==
    [][restarts' = restarts => \A n \in Server : current_term'[n] >= current_term[n]]_vars

KeepsVote(n) ==
    current_term'[n] = current_term[n] /\ voted_for[n] # kNoNodeId => voted_for'[n] = voted_for[n]

(***************************************************************************)
(* Within one term a node never changes its vote, whichever of its threads *)
(* votes: the read-check-write of HandleRequestVote and the self-vote of   *)
(* BecomeCandidateLocked are both under mu_.                               *)
(***************************************************************************)
VoteStable == [][restarts' = restarts => \A n \in Server : KeepsVote(n)]_vars

\* A candidate's vote is its own: no request handled meanwhile can win it over.
CandidateVotedForSelf == \A n \in Server : state[n] = "Candidate" => voted_for[n] = n

\* At most one leader in a term (README.md: safety of leader election).
ElectionSafety ==
    \A m, n \in Server :
        state[m] = "Leader" /\ state[n] = "Leader" /\ current_term[m] = current_term[n] => m = n

-----------------------------------------------------------------------------
(* Logs *)

EntriesOf(n) == log[n].entries

(***************************************************************************)
(* The terms in a log never decrease, on which the binary search of        *)
(* FindConflictTermIndex relies, although the handler (leader's entries)   *)
(* and a client thread (own entries) write the log without excluding each  *)
(* other; and none exceeds the node's own term.                            *)
(***************************************************************************)
LogTermsSorted ==
    \A n \in Server :
        /\ \A i, j \in 1 .. Len(EntriesOf(n)) :
              i <= j => EntriesOf(n)[i].term <= EntriesOf(n)[j].term
        /\ \A i \in 1 .. Len(EntriesOf(n)) : EntriesOf(n)[i].term <= current_term[n]

\* Two logs agree wherever both have an entry.
LogsAgree ==
    \A m, n \in Server : \A i \in 1 .. LesserOf(Len(EntriesOf(m)), Len(EntriesOf(n))) :
        EntriesOf(m)[i] = EntriesOf(n)[i]

-----------------------------------------------------------------------------
(* Replication *)

(***************************************************************************)
(* While a node leads, or its worker still runs the leader's loop after it *)
(* was deposed, next_index_ of every peer is at least 1: the unsigned      *)
(* subtraction next_index_ - 1 cannot wrap, whatever answers made it back  *)
(* off.                                                                    *)
(***************************************************************************)
NextIndexPositive ==
    \A n \in Server : \A p \in Peers(n) :
        state[n] = "Leader" \/ wpc[n] \in {"bcast", "prev", "append"} => next_index[n][p] > 0

\* What a leader takes for acknowledged is still in the log of the follower.
MatchStored ==
    \A n \in Server : \A p \in Peers(n) :
        state[n] = "Leader" /\ hpc[p] = "idle" => match_index[n][p] <= LastIndex(log[p])

\* A batch the handler is about to acknowledge is in its log, all of it.
BatchStored ==
    \A n \in Server : hpc[n] = "ae_commit" =>
        \A i \in 1 .. Len(hreq[n].entries) :
            LET e == hreq[n].entries[i] IN
            Stored(log[n], e.index) /\ EntriesOf(n)[Offset(log[n], e.index)] = e

\* An index the leader commits is, at that moment, in the logs of a majority.
CommitBackedByMajority ==
    [][\A n \in Server : wpc[n] = "advance" /\ commit_index'[n] > commit_index[n] =>
         Cardinality({m \in Server : TermAt(log[m], commit_index'[n]) = current_term[n]})
            >= Majority]_vars

(***************************************************************************)
(* Each position of the log is handed to ready_handler_ at most once,      *)
(* though the worker and the handler both call ApplyCommittedEntries.      *)
(***************************************************************************)
AppliedOnce == \A n \in Server : Len(applied[n]) <= last_applied[n]

\* State machines are fed the same entries in the same order.
AppliedAgree ==
    \A m, n \in Server : \A i \in 1 .. LesserOf(Len(applied[m]), Len(applied[n])) :
        applied[m][i] = applied[n][i]

\* The decided entries, as far as a state machine has them: the longest of the sequences.
Decided ==
    applied[CHOOSE n \in Server : \A m \in Server : Len(applied[m]) <= Len(applied[n])]

Promise == INSTANCE Consensus WITH Entry <- RaftEntry, order <- Decided, delivered <- applied

(***************************************************************************)
(* What EtcdServer builds on: each call of a node's ready_handler_ extends *)
(* its prefix of one sequence of entries.  It holds as long as nobody      *)
(* changes term.                                                           *)
(***************************************************************************)
ImplementsConsensus == Promise!Spec

(***************************************************************************)
(* An entry of a leader's own term reaches every state machine, unless the *)
(* leader is gone first: through a lost, late or repeated request and      *)
(* through a follower that lost its log in a crash.                        *)
(***************************************************************************)
LeaderReplicates ==
    \A n \in Server : \A k \in 1 .. MaxProposals :
        (state[n] = "Leader" /\ LastTerm(log[n]) = current_term[n] /\ Len(EntriesOf(n)) >= k)
          ~> (state[n] # "Leader" \/ \A m \in Server : Len(applied[m]) >= k)

\* When every node is a candidate, one of them ends up leading.
SplitVoteResolved ==
    (\A n \in Server : state[n] = "Candidate") ~> (\E n \in Server : state[n] = "Leader")
=============================================================================
