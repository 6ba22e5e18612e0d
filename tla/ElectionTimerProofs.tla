------------------------- MODULE ElectionTimerProofs -------------------------
(***************************************************************************)
(* How long a node follows: proofs about the timed waits of Run, for every *)
(* cluster and all settings of the timeouts that are in order.             *)
(***************************************************************************)
EXTENDS ElectionTimer, WellFoundedInduction, TLAPS

(***************************************************************************)
(* For every wait a follower's worker may be in: the time it has followed  *)
(* and the time that is left of the wait add up to one timeout, when it    *)
(* stepped down in the wait of another branch, and to between the minimum  *)
(* and two timeouts, when it waits as a follower.                          *)
(***************************************************************************)
FollowerWaits(n) ==
    /\ wait[n] = "Follower" => state[n] = "Follower"
    /\ state[n] = "Follower" =>
          /\ wait[n] = "none" => following[n] <= MaxTimeout
          /\ wait[n] \in {"Candidate", "Leader"} => following[n] + left[n] <= MaxTimeout
          /\ wait[n] = "Follower" => /\ following[n] + left[n] >= MinTimeout
                                     /\ following[n] + left[n] <= 2 * MaxTimeout

IndInv == TypeOK /\ \A n \in up : FollowerWaits(n)

-----------------------------------------------------------------------------
(* Constants, and what a round of RPCs changes *)

\* A nonempty set of naturals has a least element.
LEMMA LeastOf ==
    ASSUME NEW S \in SUBSET Nat, S # {}
    PROVE  \E i \in S : \A j \in S : i <= j
<1>1. PICK i \in S : \A j \in S : ~(<<j, i>> \in OpToRel(<, Nat))
  BY NatLessThanWellFounded, WFMin
<1>2. ASSUME NEW j \in S PROVE i <= j \/ j < i
  OBVIOUS
<1>. QED
  BY <1>1, <1>2 DEF OpToRel

LEMMA Timeouts ==
    /\ HeartbeatTicks \in Nat /\ MinTimeout \in Nat /\ MaxTimeout \in Nat /\ MaxTerm \in Nat
    /\ HeartbeatTicks < MinTimeout /\ MinTimeout <= MaxTimeout
    /\ Horizon \in Nat /\ 2 * MaxTimeout < Horizon
<1>1. /\ HeartbeatTicks \in Nat /\ MinTimeout \in Nat /\ MaxTimeout \in Nat
      /\ MaxTerm \in Nat /\ HeartbeatTicks < MinTimeout /\ MinTimeout <= MaxTimeout
  BY TimeoutAssumption, BoundAssumption
<1>. QED
  BY <1>1 DEF Horizon

\* What TypeOK says of one node, with the numbers known to be numbers.
LEMMA NodeTypes ==
    ASSUME TypeOK, NEW n \in Server
    PROVE  /\ current_term[n] \in 0 .. MaxTerm /\ voted_for[n] \in Server \cup {kNoNodeId}
           /\ state[n] \in {"Follower", "Candidate", "Leader"}
           /\ wait[n] \in {"none", "Follower", "Candidate", "Leader"}
           /\ left[n] \in 0 .. MaxTimeout /\ left[n] \in Nat
           /\ silence[n] \in 0 .. Horizon
           /\ following[n] \in 0 .. Horizon /\ following[n] \in Nat
BY Timeouts DEF TypeOK

\* The round ends in a term some node of the cluster was in.
LEMMA TermAfterType ==
    ASSUME TypeOK, NEW n \in Server
    PROVE  TermAfter(n) \in 0 .. MaxTerm
<1>1. CASE Newer(n) = {}
  BY <1>1, NodeTypes DEF TermAfter
<1>2. CASE Newer(n) # {}
  <2>1. Newer(n) \subseteq Server /\ Newer(n) \in SUBSET Nat
    BY ServerAssumption DEF Newer, Peers, TypeOK
  <2>2. \E p \in Newer(n) : \A q \in Newer(n) : p <= q
    BY <1>2, <2>1, LeastOf
  <2>3. (CHOOSE p \in Newer(n) : \A q \in Newer(n) : p <= q) \in Server
    BY <2>1, <2>2
  <2>4. TermAfter(n) = current_term[CHOOSE p \in Newer(n) : \A q \in Newer(n) : p <= q]
    BY <1>2 DEF TermAfter
  <2>. QED
    BY <2>3, <2>4, NodeTypes
<1>. QED
  BY <1>1, <1>2

\* A round keeps the types of what it assigns.
LEMMA EndRoundTypes ==
    ASSUME TypeOK, NEW n \in Server, NEW voters, NEW demoted,
           NEW result \in {"Follower", "Candidate", "Leader"},
           EndRound(n, voters, demoted, result)
    PROVE  /\ current_term' \in [Server -> 0 .. MaxTerm]
           /\ voted_for' \in [Server -> Server \cup {kNoNodeId}]
           /\ state' \in [Server -> {"Follower", "Candidate", "Leader"}]
           /\ following' \in [Server -> 0 .. Horizon]
<1>1. TermAfter(n) \in 0 .. MaxTerm
  BY TermAfterType
<1>2. current_term' \in [Server -> 0 .. MaxTerm]
  BY <1>1, NodeTypes DEF EndRound
<1>3. voted_for' \in [Server -> Server \cup {kNoNodeId}]
  BY NodeTypes DEF EndRound
<1>4. state' \in [Server -> {"Follower", "Candidate", "Leader"}]
  BY NodeTypes DEF EndRound
<1>5. 0 \in 0 .. Horizon
  BY Timeouts
<1>6. following' \in [Server -> 0 .. Horizon]
  BY <1>5, NodeTypes DEF EndRound
<1>. QED
  BY <1>2, <1>3, <1>4, <1>6

\* The round leaves a node as it was or makes it a follower from now on; only n itself may
\* get another state.
LEMMA EndRoundNodes ==
    ASSUME TypeOK, NEW n \in Server, NEW voters, NEW demoted, NEW result,
           EndRound(n, voters, demoted, result), NEW p \in Server
    PROVE  /\ state[p] = "Follower" /\ p # n =>
                 state'[p] = "Follower" /\ following'[p] = following[p]
           /\ state[p] # "Follower" /\ state'[p] = "Follower" => following'[p] = 0
           /\ p # n /\ state'[p] # "Follower" => state'[p] = state[p]
           /\ p = n => state'[p] = result
<1>1. /\ state'[p] = IF p = n THEN result
                     ELSE IF p \in demoted THEN "Follower" ELSE state[p]
      /\ following'[p] = IF state'[p] = "Follower" /\ state[p] # "Follower"
                         THEN 0 ELSE following[p]
  BY DEF EndRound
<1>. QED
  BY <1>1

-----------------------------------------------------------------------------
(* Types *)

LEMMA InitIndInv == Init => IndInv
<1>. SUFFICES ASSUME Init PROVE IndInv
  OBVIOUS
<1>1. 0 \in 0 .. MaxTerm /\ 0 \in 0 .. MaxTimeout /\ 0 \in 0 .. Horizon
  BY Timeouts
<1>2. TypeOK
  BY <1>1 DEF Init, TypeOK
<1>3. ASSUME NEW n \in up PROVE FollowerWaits(n)
  BY Timeouts DEF Init, FollowerWaits
<1>. QED
  BY <1>2, <1>3 DEF IndInv

LEMMA FollowerWaitTypes == ASSUME TypeOK, NEW n \in Server, FollowerWait(n) PROVE TypeOK'
<1>1. RandomElectionTimeout \subseteq 0 .. MaxTimeout
  BY Timeouts DEF RandomElectionTimeout
<1>2. PICK t \in RandomElectionTimeout : left' = [left EXCEPT ![n] = t]
  BY DEF FollowerWait, StartWait
<1>. QED
  BY <1>1, <1>2 DEF FollowerWait, StartWait, TypeOK, history

LEMMA BecomeCandidateTypes ==
    ASSUME TypeOK, NEW n \in Server, BecomeCandidate(n) PROVE TypeOK'
<1>1. current_term[n] + 1 \in 0 .. MaxTerm
  BY NodeTypes, Timeouts DEF BecomeCandidate
<1>. QED
  BY <1>1 DEF BecomeCandidate, EndWait, TypeOK, history

LEMMA StartElectionTypes ==
    ASSUME TypeOK, NEW n \in Server, StartElection(n) PROVE TypeOK'
<1>. DEFINE voters == {p \in Served(n) : Grants(p, n)}
            result == IF Newer(n) # {} THEN "Follower"
                      ELSE IF Cardinality(voters) + 1 >= Majority
                           THEN "Leader" ELSE "Candidate"
<1>1. /\ EndRound(n, voters, Behind(n), result)
      /\ IF result = "Candidate" THEN StartWait(n, "Candidate", RandomElectionTimeout)
         ELSE UNCHANGED <<wait, left>>
      /\ UNCHANGED <<up, silence>>
  BY DEF StartElection
<1>2. result \in {"Follower", "Candidate", "Leader"}
  OBVIOUS
<1>. HIDE DEF voters, result
<1>3. /\ current_term' \in [Server -> 0 .. MaxTerm]
      /\ voted_for' \in [Server -> Server \cup {kNoNodeId}]
      /\ state' \in [Server -> {"Follower", "Candidate", "Leader"}]
      /\ following' \in [Server -> 0 .. Horizon]
  BY <1>1, <1>2, EndRoundTypes
<1>4. RandomElectionTimeout \subseteq 0 .. MaxTimeout
  BY Timeouts DEF RandomElectionTimeout
<1>5. /\ wait' \in [Server -> {"none", "Follower", "Candidate", "Leader"}]
      /\ left' \in [Server -> 0 .. MaxTimeout]
  BY <1>1, <1>4 DEF StartWait, TypeOK
<1>. QED
  BY <1>1, <1>3, <1>5 DEF TypeOK

LEMMA BroadcastTypes ==
    ASSUME TypeOK, NEW n \in Server, BroadcastHeartbeat(n) PROVE TypeOK'
<1>. DEFINE result == IF Newer(n) # {} THEN "Follower" ELSE "Leader"
<1>1. /\ EndRound(n, {}, Served(n), result)
      /\ left' = IF result = "Leader" THEN [left EXCEPT ![n] = HeartbeatTicks] ELSE left
      /\ silence' = [p \in Server |-> IF p \in Served(n) THEN 0 ELSE silence[p]]
      /\ UNCHANGED up
  BY DEF BroadcastHeartbeat
<1>2. wait' \in [Server -> {"none", "Follower", "Candidate", "Leader"}]
  BY DEF BroadcastHeartbeat, TypeOK
<1>3. result \in {"Follower", "Candidate", "Leader"}
  OBVIOUS
<1>. HIDE DEF result
<1>4. /\ current_term' \in [Server -> 0 .. MaxTerm]
      /\ voted_for' \in [Server -> Server \cup {kNoNodeId}]
      /\ state' \in [Server -> {"Follower", "Candidate", "Leader"}]
      /\ following' \in [Server -> 0 .. Horizon]
  BY <1>1, <1>3, EndRoundTypes
<1>5. HeartbeatTicks \in 0 .. MaxTimeout /\ 0 \in 0 .. Horizon
  BY Timeouts
<1>6. left' \in [Server -> 0 .. MaxTimeout] /\ silence' \in [Server -> 0 .. Horizon]
  BY <1>1, <1>5 DEF TypeOK
<1>. QED
  BY <1>1, <1>2, <1>4, <1>6 DEF TypeOK

LEMMA TickTypes == ASSUME TypeOK, Tick PROVE TypeOK'
<1>1. ASSUME NEW t \in 0 .. Horizon PROVE Later(t) \in 0 .. Horizon
  BY Timeouts DEF Later
<1>2. ASSUME NEW n \in up PROVE left[n] - 1 \in 0 .. MaxTimeout
  <2>1. n \in Server /\ left[n] > 0
    BY DEF Tick, TypeOK
  <2>. QED
    BY <2>1, NodeTypes, Timeouts
<1>3. left' \in [Server -> 0 .. MaxTimeout]
  BY <1>2 DEF Tick, TypeOK
<1>4. silence' \in [Server -> 0 .. Horizon] /\ following' \in [Server -> 0 .. Horizon]
  BY <1>1 DEF Tick, TypeOK
<1>. QED
  BY <1>3, <1>4 DEF Tick, TypeOK

LEMMA StepTypes == TypeOK /\ [Next]_vars => TypeOK'
<1>. SUFFICES ASSUME TypeOK, [Next]_vars PROVE TypeOK'
  OBVIOUS
<1>1. ASSUME NEW n \in Server, CandidateTimeout(n) \/ LeaderTimeout(n) \/ Crash(n)
      PROVE  TypeOK'
  BY <1>1 DEF CandidateTimeout, LeaderTimeout, Crash, EndWait, TypeOK, history
<1>2. CASE UNCHANGED vars
  BY <1>2 DEF vars, TypeOK
<1>. QED
  BY <1>1, <1>2, FollowerWaitTypes, BecomeCandidateTypes, StartElectionTypes,
     BroadcastTypes, TickTypes DEF Next

-----------------------------------------------------------------------------
(* The waits of followers *)

\* A node whose clock, wait and state a step leaves alone keeps to the bound, and so does
\* one that steps down, or whose wait for something else ends early.
LEMMA WaitKept ==
    ASSUME TypeOK, NEW p \in Server, FollowerWaits(p),
           wait'[p] = wait[p] /\ left'[p] = left[p],
           \/ state'[p] = state[p] /\ following'[p] = following[p]
           \/ state[p] # "Follower" /\ state'[p] = "Follower" /\ following'[p] = 0
    PROVE  FollowerWaits(p)'
<1>1. /\ left[p] \in Nat /\ left[p] <= MaxTimeout /\ following[p] \in Nat
      /\ MaxTimeout \in Nat
  BY NodeTypes, Timeouts
<1>2. CASE state'[p] = state[p] /\ following'[p] = following[p]
  BY <1>2 DEF FollowerWaits
<1>3. CASE state[p] # "Follower" /\ state'[p] = "Follower" /\ following'[p] = 0
  <2>1. wait'[p] # "Follower"
    BY <1>3 DEF FollowerWaits
  <2>. QED
    BY <1>1, <1>3, <2>1 DEF FollowerWaits
<1>. QED
  BY <1>2, <1>3

\* The same for a wait of another branch that ends, by its timeout or by a notification.
LEMMA WaitEnded ==
    ASSUME TypeOK, NEW p \in Server, FollowerWaits(p),
           wait[p] # "Follower", wait'[p] = "none",
           \/ state'[p] = state[p] /\ following'[p] = following[p]
           \/ state'[p] = "Follower" /\ following'[p] = 0
    PROVE  FollowerWaits(p)'
<1>1. left[p] \in Nat /\ following[p] \in Nat /\ MaxTimeout \in Nat
  BY NodeTypes, Timeouts
<1>2. CASE state'[p] = state[p] /\ following'[p] = following[p]
  <2>1. wait[p] \in {"none", "Candidate", "Leader"}
    BY NodeTypes
  <2>2. state[p] = "Follower" => following[p] <= MaxTimeout
    BY <1>1, <2>1 DEF FollowerWaits
  <2>. QED
    BY <1>2, <2>2 DEF FollowerWaits
<1>3. CASE state'[p] = "Follower" /\ following'[p] = 0
  BY <1>1, <1>3 DEF FollowerWaits
<1>. QED
  BY <1>2, <1>3

LEMMA FollowerWaitWaits ==
    ASSUME IndInv, NEW n \in Server, FollowerWait(n), NEW p \in up
    PROVE  FollowerWaits(p)'
<1>1. TypeOK /\ p \in Server /\ FollowerWaits(p)
  BY DEF IndInv, TypeOK
<1>2. UNCHANGED <<state, following>>
  BY DEF FollowerWait, history
<1>3. PICK t \in RandomElectionTimeout : left' = [left EXCEPT ![n] = t]
  BY DEF FollowerWait, StartWait
<1>4. wait' = [wait EXCEPT ![n] = "Follower"]
  BY DEF FollowerWait, StartWait
<1>5. CASE p # n
  BY <1>1, <1>2, <1>3, <1>4, <1>5, WaitKept
<1>6. CASE p = n
  <2>1. state[p] = "Follower" /\ following[p] <= MaxTimeout
    BY <1>1, <1>6 DEF FollowerWait, FollowerWaits
  <2>2. t \in Nat /\ MinTimeout <= t /\ t <= MaxTimeout
    BY Timeouts DEF RandomElectionTimeout
  <2>3. /\ state'[p] = "Follower" /\ wait'[p] = "Follower"
        /\ left'[p] = t /\ following'[p] = following[p]
    BY <1>1, <1>2, <1>3, <1>4, <1>6, <2>1 DEF TypeOK
  <2>4. following[p] \in Nat /\ MinTimeout \in Nat /\ MaxTimeout \in Nat
    BY <1>1, NodeTypes, Timeouts
  <2>5. following[p] + t >= MinTimeout /\ following[p] + t <= 2 * MaxTimeout
    BY <2>1, <2>2, <2>4
  <2>. QED
    BY <2>3, <2>5 DEF FollowerWaits
<1>. QED
  BY <1>5, <1>6

LEMMA BecomeCandidateWaits ==
    ASSUME IndInv, NEW n \in Server, BecomeCandidate(n), NEW p \in up
    PROVE  FollowerWaits(p)'
<1>1. TypeOK /\ p \in Server /\ FollowerWaits(p)
  BY DEF IndInv, TypeOK
<1>2. /\ state' = [state EXCEPT ![n] = "Candidate"]
      /\ wait' = [wait EXCEPT ![n] = "none"]
      /\ left' = left /\ following' = following
  BY DEF BecomeCandidate, EndWait, history
<1>3. CASE p # n
  BY <1>1, <1>2, <1>3, WaitKept
<1>4. CASE p = n
  BY <1>1, <1>2, <1>4 DEF FollowerWaits, TypeOK
<1>. QED
  BY <1>3, <1>4

LEMMA StartElectionWaits ==
    ASSUME IndInv, NEW n \in Server, StartElection(n), NEW p \in up
    PROVE  FollowerWaits(p)'
<1>. DEFINE voters == {q \in Served(n) : Grants(q, n)}
            result == IF Newer(n) # {} THEN "Follower"
                      ELSE IF Cardinality(voters) + 1 >= Majority
                           THEN "Leader" ELSE "Candidate"
<1>0. TypeOK /\ p \in Server /\ FollowerWaits(p)
  BY DEF IndInv, TypeOK
<1>1. /\ EndRound(n, voters, Behind(n), result)
      /\ IF result = "Candidate" THEN StartWait(n, "Candidate", RandomElectionTimeout)
         ELSE UNCHANGED <<wait, left>>
      /\ wait[n] = "none" /\ state[n] = "Candidate"
  BY DEF StartElection
<1>. HIDE DEF voters, result
<1>2. /\ state[p] = "Follower" /\ p # n =>
            state'[p] = "Follower" /\ following'[p] = following[p]
      /\ state[p] # "Follower" /\ state'[p] = "Follower" => following'[p] = 0
      /\ p # n /\ state'[p] # "Follower" => state'[p] = state[p]
      /\ p = n => state'[p] = result
  BY <1>0, <1>1, EndRoundNodes
<1>3. CASE p = n
  <2>1. CASE result = "Candidate"
    <3>1. wait'[p] = "Candidate" /\ state'[p] = "Candidate"
      BY <1>0, <1>1, <1>2, <1>3, <2>1 DEF StartWait, TypeOK
    <3>. QED
      BY <3>1 DEF FollowerWaits
  <2>2. CASE result # "Candidate"
    <3>1. wait'[p] = "none" /\ (state'[p] = "Follower" => following'[p] = 0)
      BY <1>1, <1>2, <1>3, <2>2
    <3>. QED
      BY <3>1, Timeouts DEF FollowerWaits
  <2>. QED
    BY <2>1, <2>2
<1>4. CASE p # n
  <2>1. wait'[p] = wait[p] /\ left'[p] = left[p]
    BY <1>0, <1>1, <1>4 DEF StartWait, TypeOK
  <2>2. CASE state'[p] = "Follower"
    BY <1>0, <1>2, <1>4, <2>1, <2>2, WaitKept
  <2>3. CASE state'[p] # "Follower"
    <3>1. state'[p] = state[p]
      BY <1>2, <1>4, <2>3
    <3>. QED
      BY <1>0, <2>1, <2>3, <3>1 DEF FollowerWaits
  <2>. QED
    BY <2>2, <2>3
<1>. QED
  BY <1>3, <1>4

LEMMA BroadcastWaits ==
    ASSUME IndInv, NEW n \in Server, BroadcastHeartbeat(n), NEW p \in up
    PROVE  FollowerWaits(p)'
<1>. DEFINE result == IF Newer(n) # {} THEN "Follower" ELSE "Leader"
<1>0. TypeOK /\ p \in Server /\ FollowerWaits(p)
  BY DEF IndInv, TypeOK
<1>1. /\ EndRound(n, {}, Served(n), result)
      /\ left' = IF result = "Leader" THEN [left EXCEPT ![n] = HeartbeatTicks] ELSE left
      /\ wait[n] = "none" /\ state[n] = "Leader"
      /\ wait'[p] = IF p = n THEN IF result = "Leader" THEN "Leader" ELSE "none"
                    ELSE IF p \in Served(n) /\ wait[p] \in {"Candidate", "Leader"}
                         THEN "none" ELSE wait[p]
  BY <1>0 DEF BroadcastHeartbeat
<1>2. result \in {"Follower", "Leader"}
  OBVIOUS
<1>. HIDE DEF result
<1>3. /\ state[p] = "Follower" /\ p # n =>
            state'[p] = "Follower" /\ following'[p] = following[p]
      /\ state[p] # "Follower" /\ state'[p] = "Follower" => following'[p] = 0
      /\ p # n /\ state'[p] # "Follower" => state'[p] = state[p]
      /\ p = n => state'[p] = result
  BY <1>0, <1>1, EndRoundNodes
<1>4. CASE p = n
  <2>1. wait'[p] # "Follower"
    BY <1>1, <1>4
  <2>2. state'[p] = "Follower" => wait'[p] = "none" /\ following'[p] = 0
    BY <1>1, <1>2, <1>3, <1>4
  <2>. QED
    BY <2>1, <2>2, Timeouts DEF FollowerWaits
<1>5. CASE p # n
  <2>1. left'[p] = left[p]
    BY <1>0, <1>1, <1>5 DEF TypeOK
  <2>2. CASE state'[p] = "Follower"
    <3>1. \/ state'[p] = state[p] /\ following'[p] = following[p]
          \/ state[p] # "Follower" /\ state'[p] = "Follower" /\ following'[p] = 0
      BY <1>3, <1>5, <2>2
    <3>2. CASE wait'[p] = wait[p]
      BY <1>0, <2>1, <3>1, <3>2, WaitKept
    <3>3. CASE wait'[p] # wait[p]
      <4>1. wait[p] # "Follower" /\ wait'[p] = "none"
        BY <1>1, <1>5, <3>3
      <4>. QED
        BY <1>0, <3>1, <4>1, WaitEnded
    <3>. QED
      BY <3>2, <3>3
  <2>3. CASE state'[p] # "Follower"
    <3>1. state'[p] = state[p]
      BY <1>3, <1>5, <2>3
    <3>2. wait'[p] = wait[p] \/ wait'[p] = "none"
      BY <1>1, <1>5
    <3>. QED
      BY <1>0, <2>3, <3>1, <3>2 DEF FollowerWaits
  <2>. QED
    BY <2>2, <2>3
<1>. QED
  BY <1>4, <1>5

LEMMA TickWaits == ASSUME IndInv, Tick, NEW p \in up PROVE FollowerWaits(p)'
<1>1. TypeOK /\ p \in Server /\ FollowerWaits(p)
  BY DEF IndInv, TypeOK
<1>2. /\ wait[p] # "none" /\ left[p] > 0
      /\ left'[p] = left[p] - 1 /\ following'[p] = Later(following[p])
      /\ wait' = wait /\ state' = state
  BY <1>1 DEF Tick
<1>3. /\ left[p] \in Nat /\ following[p] \in Nat /\ MaxTimeout \in Nat
      /\ Horizon \in Nat /\ 2 * MaxTimeout < Horizon
  BY <1>1, NodeTypes, Timeouts
<1>4. ASSUME state[p] = "Follower" PROVE following[p] < Horizon
  <2>1. CASE wait[p] = "Follower"
    BY <1>1, <1>3, <1>4, <2>1 DEF FollowerWaits
  <2>2. CASE wait[p] \in {"Candidate", "Leader"}
    BY <1>1, <1>3, <1>4, <2>2 DEF FollowerWaits
  <2>. QED
    BY <1>1, <1>2, <2>1, <2>2, NodeTypes
<1>5. ASSUME state[p] = "Follower"
      PROVE  following'[p] + left'[p] = following[p] + left[p]
  <2>1. following'[p] = following[p] + 1
    BY <1>2, <1>4, <1>5 DEF Later
  <2>. QED
    BY <1>2, <1>3, <2>1
<1>. QED
  BY <1>1, <1>2, <1>5 DEF FollowerWaits

LEMMA StepIndInv == IndInv /\ [Next]_vars => IndInv'
<1>. SUFFICES ASSUME IndInv, [Next]_vars PROVE IndInv'
  OBVIOUS
<1>0. TypeOK /\ TypeOK'
  BY StepTypes DEF IndInv
<1>1. up' \subseteq up
  BY DEF Next, FollowerWait, BecomeCandidate, StartElection, CandidateTimeout,
         BroadcastHeartbeat, LeaderTimeout, Crash, Tick, vars
<1>. SUFFICES ASSUME NEW p \in up PROVE FollowerWaits(p)'
  BY <1>0, <1>1 DEF IndInv
<1>2. p \in Server /\ FollowerWaits(p)
  BY DEF IndInv, TypeOK
<1>3. ASSUME NEW n \in Server, CandidateTimeout(n) \/ LeaderTimeout(n)
      PROVE  FollowerWaits(p)'
  <2>1. /\ wait[n] # "Follower" /\ wait' = [wait EXCEPT ![n] = "none"]
        /\ UNCHANGED <<left, state, following>>
    BY <1>3 DEF CandidateTimeout, LeaderTimeout, EndWait, history
  <2>2. CASE p = n
    BY <1>0, <1>2, <2>1, <2>2, WaitEnded DEF TypeOK
  <2>3. CASE p # n
    BY <1>0, <1>2, <2>1, <2>3, WaitKept
  <2>. QED
    BY <2>2, <2>3
<1>4. CASE UNCHANGED vars \/ \E n \in Server : Crash(n)
  BY <1>0, <1>2, <1>4, WaitKept DEF Crash, vars, history
<1>. QED
  BY <1>3, <1>4, FollowerWaitWaits, BecomeCandidateWaits, StartElectionWaits,
     BroadcastWaits, TickWaits DEF Next

(***************************************************************************)
(* What a follower has waited and has left to wait adds up to a bound in   *)
(* every reachable state, whatever the cluster, the order of the rounds    *)
(* and the timeouts drawn.                                                 *)
(***************************************************************************)
THEOREM Inductive == Spec => []IndInv
<1>1. Init => IndInv
  BY InitIndInv
<1>2. IndInv /\ [Next]_vars => IndInv'
  BY StepIndInv
<1>. QED
  BY <1>1, <1>2, PTL DEF Spec

-----------------------------------------------------------------------------
(* What follows *)

\* No wait of Run is set to more than max_election_timeout_ms.
THEOREM TypeCorrect == Spec => []TypeOK
<1>1. IndInv => TypeOK
  BY DEF IndInv
<1>. QED
  BY <1>1, Inductive, PTL

\* A follower stands after at most two full timeouts: the one it may have been waiting as
\* a candidate, unwoken, when it stepped down, and its own.
THEOREM NoLastingFollower == Spec => []FollowerBounded
<1>1. IndInv => FollowerBounded
  <2>. SUFFICES ASSUME IndInv, NEW n \in up, state[n] = "Follower"
                PROVE  following[n] <= 2 * MaxTimeout
    BY DEF FollowerBounded
  <2>1. TypeOK /\ n \in Server /\ FollowerWaits(n)
    BY DEF IndInv, TypeOK
  <2>2. left[n] \in Nat /\ following[n] \in Nat /\ MaxTimeout \in Nat
    BY <2>1, NodeTypes, Timeouts
  <2>3. wait[n] \in {"none", "Follower", "Candidate", "Leader"}
    BY <2>1, NodeTypes
  <2>. QED
    BY <2>1, <2>2, <2>3 DEF FollowerWaits
<1>. QED
  BY <1>1, Inductive, PTL

\* A node that stepped down lets election_timeout_ms pass before it stands: it becomes a
\* candidate only at the end of a follower's wait that began after it stepped down.
THEOREM StandsNotTooSoon == Spec => StandsAfterTimeout
<1>1. ASSUME IndInv, [Next]_vars, NEW n \in up,
             state[n] = "Follower", state'[n] = "Candidate"
      PROVE  following[n] >= MinTimeout
  <2>1. TypeOK /\ n \in Server /\ FollowerWaits(n)
    BY <1>1 DEF IndInv, TypeOK
  <2>2. ASSUME NEW m \in Server, BecomeCandidate(m) PROVE m = n
    BY <1>1, <2>1, <2>2 DEF BecomeCandidate, TypeOK
  <2>3. ASSUME NEW m \in Server, StartElection(m) PROVE FALSE
    <3>. DEFINE voters == {q \in Served(m) : Grants(q, m)}
                result == IF Newer(m) # {} THEN "Follower"
                          ELSE IF Cardinality(voters) + 1 >= Majority
                               THEN "Leader" ELSE "Candidate"
    <3>1. EndRound(m, voters, Behind(m), result) /\ m # n
      BY <1>1, <2>3 DEF StartElection
    <3>. HIDE DEF voters, result
    <3>2. state'[n] = "Follower"
      BY <1>1, <2>1, <3>1, EndRoundNodes
    <3>. QED
      BY <1>1, <3>2
  <2>4. ASSUME NEW m \in Server, BroadcastHeartbeat(m) PROVE FALSE
    <3>. DEFINE result == IF Newer(m) # {} THEN "Follower" ELSE "Leader"
    <3>1. EndRound(m, {}, Served(m), result) /\ m # n
      BY <1>1, <2>4 DEF BroadcastHeartbeat
    <3>. HIDE DEF result
    <3>2. state'[n] = "Follower"
      BY <1>1, <2>1, <3>1, EndRoundNodes
    <3>. QED
      BY <1>1, <3>2
  <2>5. state' # state
    BY <1>1
  <2>6. BecomeCandidate(n)
    BY <1>1, <2>2, <2>3, <2>4, <2>5
       DEF Next, FollowerWait, CandidateTimeout, LeaderTimeout, Crash, Tick, vars
  <2>7. wait[n] = "Follower" /\ left[n] = 0
    BY <2>6 DEF BecomeCandidate
  <2>8. following[n] \in Nat /\ MinTimeout \in Nat
    BY <2>1, NodeTypes, Timeouts
  <2>. QED
    BY <1>1, <2>1, <2>7, <2>8 DEF FollowerWaits
<1>2. IndInv /\ [Next]_vars =>
      [\A n \in up : state[n] = "Follower" /\ state'[n] = "Candidate"
                     => following[n] >= MinTimeout]_vars
  BY <1>1
<1>. QED
  BY <1>2, Inductive, PTL DEF Spec, StandsAfterTimeout
=============================================================================
