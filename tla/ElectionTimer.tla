---------------------------- MODULE ElectionTimer ----------------------------
(***************************************************************************)
(* When the worker of a RaftNode (raft.cpp, Run) starts an election.       *)
(*                                                                         *)
(* Raft.tla lets an election timeout fall at any moment.  Here time is     *)
(* counted in ticks, and the three cv_.wait_for calls of Run are modelled  *)
(* one by one: how long each waits, and which notification and predicate   *)
(* ends it early.  Everything that takes far less than a tick is one step: *)
(* a round of votes, a round of heartbeats.  The network is reliable and   *)
(* the logs are equal, so that only timers decide.                         *)
(***************************************************************************)
EXTENDS Naturals, FiniteSets

CONSTANTS
    Server,          \* node ids
    HeartbeatTicks,  \* heartbeat_interval_ms (100)
    MinTimeout,      \* election_timeout_ms (1000)
    MaxTimeout,      \* max_election_timeout_ms (2000)
    MaxTerm,         \* bound: no election after this term
    MaxCrashes       \* bound: nodes that stop for good

kNoNodeId == 0

ASSUME ServerAssumption == Server \subseteq Nat \ {kNoNodeId} /\ IsFiniteSet(Server)
ASSUME TimeoutAssumption ==
    /\ {HeartbeatTicks, MinTimeout, MaxTimeout} \subseteq Nat \ {0}
    /\ HeartbeatTicks < MinTimeout /\ MinTimeout <= MaxTimeout
ASSUME BoundAssumption == {MaxTerm, MaxCrashes} \subseteq Nat

VARIABLES
    current_term, voted_for, state,  \* of RaftNode, by node
    wait,     \* the wait_for the worker is in: that of a branch of Run, or none
    left,     \* ticks until that wait times out
    up,       \* nodes that have not crashed
    silence,  \* history: ticks since the node handled an AppendEntries it accepted
    following \* history: ticks since the node became a follower

vars == <<current_term, voted_for, state, wait, left, up, silence, following>>
history == <<silence, following>>

Majority == Cardinality(Server) \div 2 + 1

\* History counters stop where no property tells larger values apart.
Horizon == 2 * MaxTimeout + 1
Later(t) == IF t < Horizon THEN t + 1 ELSE t

\* Mutant: max_election_timeout_ms is taken for the width of the window.
MutantTimeoutWindow == MinTimeout .. MinTimeout + MaxTimeout

\* RandomElectionTimeout: one of these, by std::uniform_int_distribution.
RandomElectionTimeout == MinTimeout .. MaxTimeout

Init ==
    /\ current_term = [n \in Server |-> 0]
    /\ voted_for = [n \in Server |-> kNoNodeId]
    /\ state = [n \in Server |-> "Follower"]
    /\ wait = [n \in Server |-> "none"]
    /\ left = [n \in Server |-> 0]
    /\ up = Server
    /\ silence = [n \in Server |-> 0]
    /\ following = [n \in Server |-> 0]

-----------------------------------------------------------------------------
(* A round of RPCs: the live peers in order, up to the first with a newer term *)

Peers(n) == up \ {n}
Newer(n) == {p \in Peers(n) : current_term[p] > current_term[n]}
Served(n) == {p \in Peers(n) : \A q \in Newer(n) : p < q}
Behind(n) == {p \in Served(n) : current_term[p] < current_term[n]}

\* The term n ends the round with: that of the first newer peer, if there is one.
TermAfter(n) ==
    IF Newer(n) = {} THEN current_term[n]
    ELSE current_term[CHOOSE p \in Newer(n) : \A q \in Newer(n) : p <= q]

\* Votes in the round, and the state n and the peers in demoted are left with.
EndRound(n, voters, demoted, result) ==
    /\ current_term' = [p \in Server |-> IF p = n THEN TermAfter(n)
                                         ELSE IF p \in Served(n) THEN current_term[n]
                                         ELSE current_term[p]]
    /\ voted_for' = [p \in Server |-> IF p \in voters THEN n
                                      ELSE IF p \in Behind(n) \/ (p = n /\ Newer(n) # {})
                                           THEN kNoNodeId
                                      ELSE voted_for[p]]
    /\ state' = [p \in Server |-> IF p = n THEN result
                                  ELSE IF p \in demoted THEN "Follower" ELSE state[p]]
    /\ following' = [p \in Server |-> IF state'[p] = "Follower" /\ state[p] # "Follower"
                                      THEN 0 ELSE following[p]]

StartWait(n, branch, ticks) ==
    /\ wait' = [wait EXCEPT ![n] = branch]
    /\ \E t \in ticks : left' = [left EXCEPT ![n] = t]

EndWait(n) == wait' = [wait EXCEPT ![n] = "none"] /\ UNCHANGED left

-----------------------------------------------------------------------------
(* Follower branch: the predicate of its wait is !running_ and nothing else *)

FollowerWait(n) ==
    /\ n \in up /\ wait[n] = "none" /\ state[n] = "Follower"
    /\ StartWait(n, "Follower", RandomElectionTimeout)
    /\ UNCHANGED <<current_term, voted_for, state, up, history>>

BecomeCandidate(n) ==
    /\ n \in up /\ wait[n] = "Follower" /\ left[n] = 0
    /\ current_term[n] < MaxTerm
    /\ current_term' = [current_term EXCEPT ![n] = @ + 1]
    /\ voted_for' = [voted_for EXCEPT ![n] = n]
    /\ state' = [state EXCEPT ![n] = "Candidate"]
    /\ EndWait(n)
    /\ UNCHANGED <<up, history>>

-----------------------------------------------------------------------------
(* Candidate branch *)

\* HandleRequestVote at p, the logs being equal.
Grants(p, n) == p \in Behind(n) \/ voted_for[p] \in {kNoNodeId, n}

\* A round of votes, after which a worker that is still a candidate waits.  A node that
\* steps down for n is not notified: its worker stays in the wait it is in.
StartElection(n) ==
    LET voters == {p \in Served(n) : Grants(p, n)}
        result == IF Newer(n) # {} THEN "Follower"
                  ELSE IF Cardinality(voters) + 1 >= Majority THEN "Leader" ELSE "Candidate"
    IN
    /\ n \in up /\ wait[n] = "none" /\ state[n] = "Candidate"
    /\ EndRound(n, voters, Behind(n), result)
    /\ IF result = "Candidate"
       THEN StartWait(n, "Candidate", RandomElectionTimeout)
       ELSE UNCHANGED <<wait, left>>
    /\ UNCHANGED <<up, silence>>

\* Mutant: the next election begins without a look at state_.
MutantTimeoutUnchecked(n) ==
    /\ n \in up /\ wait[n] = "Candidate" /\ left[n] = 0
    /\ EndWait(n)
    /\ state' = [state EXCEPT ![n] = "Candidate"]
    /\ UNCHANGED <<current_term, voted_for, up, history>>

CandidateTimeout(n) ==
    /\ n \in up /\ wait[n] = "Candidate" /\ left[n] = 0
    /\ EndWait(n)
    /\ UNCHANGED <<current_term, voted_for, state, up, history>>

-----------------------------------------------------------------------------
(* Leader branch *)

\* A round of heartbeats.  Whoever handles one notifies cv_, which ends the waits whose
\* predicate looks at state_: the candidate's and the leader's, not the follower's.
BroadcastHeartbeat(n) ==
    LET result == IF Newer(n) # {} THEN "Follower" ELSE "Leader" IN
    /\ n \in up /\ wait[n] = "none" /\ state[n] = "Leader"
    /\ EndRound(n, {}, Served(n), result)
    /\ wait' = [p \in Server |->
          IF p = n THEN IF result = "Leader" THEN "Leader" ELSE "none"
          ELSE IF p \in Served(n) /\ wait[p] \in {"Candidate", "Leader"} THEN "none"
          ELSE wait[p]]
    /\ left' = IF result = "Leader" THEN [left EXCEPT ![n] = HeartbeatTicks] ELSE left
    /\ silence' = [p \in Server |-> IF p \in Served(n) THEN 0 ELSE silence[p]]
    /\ UNCHANGED up

LeaderTimeout(n) ==
    /\ n \in up /\ wait[n] = "Leader" /\ left[n] = 0
    /\ EndWait(n)
    /\ UNCHANGED <<current_term, voted_for, state, up, history>>

-----------------------------------------------------------------------------
Crash(n) ==
    /\ n \in up /\ Cardinality(Server \ up) < MaxCrashes
    /\ up' = up \ {n}
    /\ UNCHANGED <<current_term, voted_for, state, wait, left, history>>

\* Time passes only while every worker waits.
Tick ==
    /\ \A n \in up : wait[n] # "none" /\ left[n] > 0
    /\ left' = [n \in Server |-> IF n \in up THEN left[n] - 1 ELSE left[n]]
    /\ silence' = [n \in Server |-> IF n \in up THEN Later(silence[n]) ELSE silence[n]]
    /\ following' = [n \in Server |-> IF n \in up THEN Later(following[n]) ELSE following[n]]
    /\ UNCHANGED <<current_term, voted_for, state, wait, up>>

Next ==
    \/ \E n \in Server :
          \/ FollowerWait(n) \/ BecomeCandidate(n)
          \/ StartElection(n) \/ CandidateTimeout(n)
          \/ BroadcastHeartbeat(n) \/ LeaderTimeout(n)
          \/ Crash(n)
    \/ Tick

Spec == Init /\ [][Next]_vars

-----------------------------------------------------------------------------
TypeOK ==
    /\ current_term \in [Server -> 0 .. MaxTerm]
    /\ voted_for \in [Server -> Server \cup {kNoNodeId}]
    /\ state \in [Server -> {"Follower", "Candidate", "Leader"}]
    /\ wait \in [Server -> {"none", "Follower", "Candidate", "Leader"}]
    /\ left \in [Server -> 0 .. MaxTimeout]
    /\ up \in SUBSET Server
    /\ silence \in [Server -> 0 .. Horizon]
    /\ following \in [Server -> 0 .. Horizon]

(***************************************************************************)
(* A cluster without a leader does something about it: no node stays a     *)
(* follower for more than two full election timeouts.  Two, not one: a     *)
(* candidate that steps down in HandleRequestVote is not woken, waits out  *)
(* the candidate's timeout, and only then starts to wait as a follower.    *)
(***************************************************************************)
FollowerBounded == \A n \in up : state[n] = "Follower" => following[n] <= 2 * MaxTimeout

(***************************************************************************)
(* A node that has stepped down leaves the others election_timeout_ms      *)
(* before it stands again, whichever wait of Run it was in when it stepped *)
(* down, and whether or not that wait was interrupted.                     *)
(***************************************************************************)
StandsAfterTimeout ==
    [][\A n \in up : state[n] = "Follower" /\ state'[n] = "Candidate"
                     => following[n] >= MinTimeout]_vars

(***************************************************************************)
(* What raft.cpp says beside the BecomeFollower call of                    *)
(* HandleAppendEntries: a valid AppendEntries resets the election timer.   *)
(* Then no follower starts an election within election_timeout_ms of one.  *)
(***************************************************************************)
HeartbeatResetsTimer ==
    [][\A n \in Server : wait[n] = "Follower" /\ state'[n] = "Candidate"
                         => silence[n] >= MinTimeout]_vars
=============================================================================
