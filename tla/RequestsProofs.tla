--------------------------- MODULE RequestsProofs ---------------------------
(***************************************************************************)
(* For every set of servers, requests, keys and transactions and any       *)
(* number of elections: what the answer to a Put or Delete says, that the  *)
(* stores replay one order, and that transactions are decided in order.    *)
(***************************************************************************)
EXTENDS Requests, SequenceTheorems, WellFoundedInduction, TLAPS

\* A request that is at work has a body, and stands at one of its comparisons or operations.
BodyMatches ==
    \A r \in Request :
        /\ pc[r] \in {"compare", "execute", "put_append", "txn_append"} => body[r] \in Body
        /\ pc[r] = "new" => met[r] /\ pos[r] = 1
        /\ pc[r] = "compare" => pos[r] <= Len(body[r].compare)
        /\ pc[r] \in {"put_append", "txn_append"} => pos[r] <= Len(Ops(r))

\* The leader of the latest term has every decided entry.
LeaderHolds ==
    /\ active = None => order = <<>>
    /\ active # None => elections # 0 /\ Holds(log[active], Len(order))

\* What is marked was applied, and what is being applied was decided.
Delivering ==
    \A s \in Server :
        /\ applied[s] + Len(batch[s]) <= Len(order)
        /\ \A i \in 1 .. Len(batch[s]) : batch[s][i] = order[applied[s] + i]
        /\ \A i \in pending[s] : i <= applied[s]

Answered ==
    \A r \in Request :
        /\ pc[r] # "new" => at[r] \in Server
        /\ pc[r] = "new" => index[r] = 0
        /\ answer[r] # "none" => pc[r] = "done"
        /\ answer[r] = "applied" => index[r] # 0 /\ index[r] <= applied[at[r]]

\* While leadership lasts the leader keeps what a request appended, where it was appended.
EntryKept ==
    \A r \in Request :
        /\ epoch[r] <= elections
        /\ index[r] # 0 /\ epoch[r] = elections /\ at[r] = active =>
              index[r] \in 1 .. Len(log[active]) /\ log[active][index[r]].req = r

\* In every log the operations of a request are in order, and before those still to come.
OpsInOrder ==
    \A s \in Server :
        /\ \A i, j \in 1 .. Len(log[s]) :
              i < j /\ log[s][i].req = log[s][j].req => log[s][i].op < log[s][j].op
        /\ \A i \in 1 .. Len(log[s]) : \A r \in Request :
              log[s][i].req = r =>
                 \/ pc[r] \in {"wait", "asleep", "done"}
                 \/ pc[r] \in {"execute", "txn_append"} /\ log[s][i].op < pos[r]

IndInv ==
    /\ TypeOK /\ BodyMatches /\ LeaderHolds /\ Delivering /\ Answered /\ EntryKept
    /\ OpsInOrder /\ StoresReplayOrder

-----------------------------------------------------------------------------
(* The last write to a key *)

\* A nonempty set of naturals below a bound has a greatest element.
LEMMA GreatestBelow ==
    ASSUME NEW S \in SUBSET Nat, NEW b \in Nat, S # {}, \A i \in S : i <= b
    PROVE  \E i \in S : \A j \in S : j <= i
<1>. DEFINE bounds == {m \in Nat : \A i \in S : i <= m}
<1>1. PICK m \in bounds : \A u \in bounds : ~(<<u, m>> \in OpToRel(<, Nat))
  BY NatLessThanWellFounded, WFMin
<1>2. ASSUME m \notin S PROVE m - 1 \in bounds
  <2>1. PICK i \in S : TRUE
    OBVIOUS
  <2>2. i <= m /\ i # m /\ i \in Nat /\ m \in Nat
    BY <1>2
  <2>3. m - 1 \in Nat
    BY <2>2
  <2>4. ASSUME NEW j \in S PROVE j <= m - 1
    BY <1>2
  <2>. QED
    BY <2>3, <2>4
<1>3. ASSUME m - 1 \in bounds PROVE FALSE
  <2>1. m - 1 \in Nat /\ m \in Nat /\ ~(m - 1 < m)
    BY <1>1, <1>3 DEF OpToRel
  <2>. QED
    BY <2>1
<1>. QED
  BY <1>1, <1>2, <1>3

LEMMA LatestIsGreatest ==
    ASSUME NEW places \in SUBSET Nat, NEW n \in Nat, places # {}, \A i \in places : i <= n
    PROVE  /\ Latest(places) \in places
           /\ \A j \in places : j <= Latest(places)
<1>1. \E i \in places : \A j \in places : j <= i
  BY GreatestBelow
<1>. QED
  BY <1>1 DEF Latest

LEMMA WritesPlaces ==
    ASSUME NEW l, NEW k, NEW n \in Nat
    PROVE  /\ Writes(l, k, n) \in SUBSET Nat
           /\ \A i \in Writes(l, k, n) : i \in 1 .. n /\ i <= n
<1>. QED
  BY DEF Writes

\* What the first n entries leave depends on these only.
LEMMA LastWriteKept ==
    ASSUME NEW l, NEW m, NEW k, NEW n \in Nat, \A i \in 1 .. n : l[i] = m[i]
    PROVE  LastWrite(l, k, n) = LastWrite(m, k, n)
<1>1. Writes(l, k, n) = Writes(m, k, n)
  BY DEF Writes
<1>2. CASE Writes(l, k, n) = {}
  BY <1>1, <1>2 DEF LastWrite
<1>3. CASE Writes(l, k, n) # {}
  <2>1. Latest(Writes(l, k, n)) \in 1 .. n
    BY <1>3, LatestIsGreatest, WritesPlaces
  <2>. QED
    BY <1>1, <1>3, <2>1 DEF LastWrite
<1>. QED
  BY <1>2, <1>3

\* One entry more decides the value of its key and of no other.
LEMMA LastWriteNext ==
    ASSUME NEW l, NEW k, NEW n \in Nat
    PROVE  LastWrite(l, k, n + 1) =
             IF l[n + 1].key # k THEN LastWrite(l, k, n)
             ELSE IF l[n + 1].type = "PUT" THEN l[n + 1].req ELSE NoValue
<1>1. CASE l[n + 1].key = k
  <2>1. n + 1 \in Writes(l, k, n + 1) /\ n + 1 \in Nat
    BY <1>1 DEF Writes
  <2>2. /\ Latest(Writes(l, k, n + 1)) \in 1 .. n + 1
        /\ n + 1 <= Latest(Writes(l, k, n + 1))
    BY <2>1, LatestIsGreatest, WritesPlaces
  <2>3. Latest(Writes(l, k, n + 1)) = n + 1
    BY <2>2
  <2>. QED
    BY <1>1, <2>1, <2>3 DEF LastWrite
<1>2. CASE l[n + 1].key # k
  <2>1. \A i \in 1 .. n + 1 : i = n + 1 \/ i \in 1 .. n
    OBVIOUS
  <2>2. Writes(l, k, n + 1) = Writes(l, k, n)
    BY <1>2, <2>1 DEF Writes
  <2>. QED
    BY <1>2, <2>2 DEF LastWrite
<1>. QED
  BY <1>1, <1>2

-----------------------------------------------------------------------------
(* What the steps leave alone *)

LEMMA TypeFacts ==
    ASSUME TypeOK
    PROVE  /\ order \in Seq(RaftEntry) /\ Len(order) \in Nat
           /\ active \in Server \cup {None} /\ elections \in Nat
           /\ \A s \in Server :
                 /\ log[s] \in Seq(RaftEntry) /\ Len(log[s]) \in Nat
                 /\ batch[s] \in Seq(RaftEntry) /\ Len(batch[s]) \in Nat
                 /\ applied[s] \in Nat
           /\ \A r \in Request :
                 /\ pos[r] \in Nat \ {0} /\ index[r] \in Nat /\ epoch[r] \in Nat
                 /\ at[r] \in Server \cup {None}
<1>. QED
  BY DEF TypeOK

\* The steps of Raft leave the server and the requests alone.  Decided entries stay decided.
LEMMA OrderGrows ==
    ASSUME IndInv, UNCHANGED serverVars, order' \in Seq(RaftEntry),
           Len(order) <= Len(order'), \A i \in 1 .. Len(order) : order[i] = order'[i]
    PROVE  Delivering' /\ StoresReplayOrder'
<1>1. /\ Len(order) \in Nat /\ Len(order') \in Nat
      /\ \A s \in Server : applied[s] \in Nat /\ Len(batch[s]) \in Nat
  BY TypeFacts DEF IndInv
<1>2. \A s \in Server : applied[s] + Len(batch[s]) <= Len(order)
  BY DEF IndInv, Delivering
<1>3. Delivering'
  <2>. SUFFICES ASSUME NEW s \in Server
                PROVE  /\ applied[s] + Len(batch[s]) <= Len(order')
                       /\ \A i \in 1 .. Len(batch[s]) : batch[s][i] = order'[applied[s] + i]
                       /\ \A i \in pending[s] : i <= applied[s]
    BY DEF Delivering, serverVars, applyVars
  <2>1. ASSUME NEW i \in 1 .. Len(batch[s]) PROVE batch[s][i] = order'[applied[s] + i]
    <3>1. applied[s] + i \in 1 .. Len(order)
      BY <1>1, <1>2
    <3>. QED
      BY <3>1 DEF IndInv, Delivering
  <2>. QED
    BY <1>1, <1>2, <2>1 DEF IndInv, Delivering
<1>4. StoresReplayOrder'
  <2>1. \A s \in Server : applied[s] <= Len(order')
    BY <1>1 DEF IndInv, StoresReplayOrder
  <2>2. ASSUME NEW s \in Server, NEW k \in Key
        PROVE  store[s][k] = LastWrite(order', k, applied[s])
    <3>1. applied[s] <= Len(order) /\ store[s][k] = LastWrite(order, k, applied[s])
      BY DEF IndInv, StoresReplayOrder
    <3>2. \A i \in 1 .. applied[s] : order[i] = order'[i]
      BY <1>1, <3>1
    <3>3. LastWrite(order, k, applied[s]) = LastWrite(order', k, applied[s])
      BY <1>1, <3>2, LastWriteKept
    <3>. QED
      BY <3>1, <3>3
  <2>. QED
    BY <2>1, <2>2 DEF StoresReplayOrder, serverVars, applyVars
<1>. QED
  BY <1>3, <1>4

\* A step of Raft that keeps the decided entries, the leader's log beside others at most.
LEMMA RaftKept ==
    ASSUME IndInv, UNCHANGED <<serverVars, requestVars>>, TypeOK', LeaderHolds', OpsInOrder',
           EntryKept', Len(order) <= Len(order'), \A i \in 1 .. Len(order) : order[i] = order'[i]
    PROVE  IndInv'
<1>1. order' \in Seq(RaftEntry)
  BY DEF TypeOK
<1>2. Delivering' /\ StoresReplayOrder'
  BY <1>1, OrderGrows
<1>3. BodyMatches' /\ Answered'
  BY DEF IndInv, BodyMatches, Answered, Ops, serverVars, applyVars, requestVars
<1>. QED
  BY <1>2, <1>3 DEF IndInv

\* A step of the applying thread that leaves the requests alone.
LEMMA ApplyKept ==
    ASSUME IndInv, UNCHANGED <<raftVars, requestVars>>, TypeOK', Delivering', StoresReplayOrder',
           \A s \in Server : applied'[s] >= applied[s]
    PROVE  IndInv'
<1>1. Answered'
  <2>1. \A r \in Request : index[r] \in Nat
    BY TypeFacts DEF IndInv
  <2>2. \A s \in Server : applied[s] \in Nat /\ applied'[s] \in Nat
    BY DEF IndInv, TypeOK
  <2>3. \A r \in Request : answer[r] = "applied" => at[r] \in Server
    BY DEF IndInv, Answered
  <2>. QED
    BY <2>1, <2>2, <2>3 DEF IndInv, Answered, requestVars
<1>2. BodyMatches' /\ LeaderHolds' /\ EntryKept' /\ OpsInOrder'
  BY DEF IndInv, BodyMatches, Ops, LeaderHolds, Holds, EntryKept, OpsInOrder, raftVars, requestVars
<1>. QED
  BY <1>1, <1>2 DEF IndInv

\* A step of a request that appends nothing.
LEMMA RequestKept ==
    ASSUME IndInv, UNCHANGED <<raftVars, running, applyVars, epoch>>, TypeOK', BodyMatches',
           Answered', EntryKept', OpsInOrder', \A s \in Server : pending'[s] \subseteq pending[s]
    PROVE  IndInv'
<1>1. Delivering' /\ StoresReplayOrder' /\ LeaderHolds'
  BY DEF IndInv, Delivering, StoresReplayOrder, LeaderHolds, Holds, raftVars, applyVars
<1>. QED
  BY <1>1 DEF IndInv

-----------------------------------------------------------------------------
LEMMA InitIndInv == Init => IndInv
<1>. SUFFICES ASSUME Init PROVE IndInv
  OBVIOUS
<1>. USE DEF Init, RaftInit, ServerInit, RequestInit
<1>1. TypeOK
  BY RequestsAssumption DEF TypeOK, Value
<1>2. BodyMatches /\ LeaderHolds /\ Answered
  BY DEF BodyMatches, LeaderHolds, Answered
<1>3. Delivering
  BY DEF Delivering
<1>4. EntryKept /\ OpsInOrder
  BY DEF EntryKept, OpsInOrder
<1>5. StoresReplayOrder
  <2>1. \A k : LastWrite(order, k, 0) = NoValue
    BY DEF LastWrite, Writes
  <2>. QED
    BY <2>1 DEF StoresReplayOrder
<1>. QED
  BY <1>1, <1>2, <1>3, <1>4, <1>5 DEF IndInv

-----------------------------------------------------------------------------
(* Raft *)

LEMMA BecomeLeaderIndInv ==
    ASSUME IndInv, NEW s \in Server, BecomeLeader(s)
    PROVE  IndInv'
<1>1. /\ active' = s /\ elections' = elections + 1 /\ elections \in Nat
      /\ leader' = [leader EXCEPT ![s] = TRUE]
      /\ Holds(log[s], Len(order))
      /\ UNCHANGED <<log, order, serverVars, requestVars>>
  BY TypeFacts DEF IndInv, BecomeLeader
<1>2. TypeOK'
  BY <1>1 DEF IndInv, TypeOK, serverVars, applyVars, requestVars
<1>3. LeaderHolds'
  <2>1. s # None /\ elections + 1 # 0
    BY <1>1, RequestsAssumption
  <2>. QED
    BY <1>1, <2>1 DEF LeaderHolds, Holds
<1>4. EntryKept'
  <2>1. \A r \in Request : epoch[r] \in Nat /\ epoch[r] <= elections
    BY TypeFacts DEF IndInv, EntryKept
  <2>2. \A r \in Request : epoch[r] <= elections + 1 /\ epoch[r] # elections + 1
    BY <1>1, <2>1
  <2>. QED
    BY <1>1, <2>2 DEF EntryKept, requestVars
<1>5. OpsInOrder'
  BY <1>1 DEF IndInv, OpsInOrder, requestVars
<1>6. Len(order) <= Len(order') /\ \A i \in 1 .. Len(order) : order[i] = order'[i]
  BY <1>1, TypeFacts DEF IndInv
<1>. QED
  BY <1>1, <1>2, <1>3, <1>4, <1>5, <1>6, RaftKept

LEMMA BecomeFollowerIndInv ==
    ASSUME IndInv, NEW s \in Server, BecomeFollower(s)
    PROVE  IndInv'
<1>1. /\ leader' = [leader EXCEPT ![s] = FALSE]
      /\ UNCHANGED <<log, active, elections, order, serverVars, requestVars>>
  BY DEF BecomeFollower
<1>2. TypeOK'
  BY <1>1 DEF IndInv, TypeOK, serverVars, applyVars, requestVars
<1>3. LeaderHolds' /\ EntryKept' /\ OpsInOrder'
  BY <1>1 DEF IndInv, LeaderHolds, Holds, EntryKept, OpsInOrder, requestVars
<1>4. Len(order) <= Len(order') /\ \A i \in 1 .. Len(order) : order[i] = order'[i]
  BY <1>1, TypeFacts DEF IndInv
<1>. QED
  BY <1>1, <1>2, <1>3, <1>4, RaftKept

\* A follower's log becomes the leader's, which is in order and keeps what it held.
LEMMA HandleAppendEntriesIndInv ==
    ASSUME IndInv, NEW s \in Server, HandleAppendEntries(s)
    PROVE  IndInv'
<1>1. /\ active \in Server /\ s # active
      /\ log' = [log EXCEPT ![s] = log[active]]
      /\ leader' = [leader EXCEPT ![s] = FALSE]
      /\ UNCHANGED <<active, elections, order, serverVars, requestVars>>
  BY TypeFacts DEF IndInv, HandleAppendEntries
<1>2. /\ log \in [Server -> Seq(RaftEntry)] /\ log' \in [Server -> Seq(RaftEntry)]
      /\ log'[active] = log[active] /\ log'[s] = log[active]
      /\ \A t \in Server : t # s => log'[t] = log[t]
  BY <1>1 DEF IndInv, TypeOK
<1>3. TypeOK'
  BY <1>1, <1>2 DEF IndInv, TypeOK, serverVars, applyVars, requestVars
<1>4. LeaderHolds' /\ EntryKept'
  BY <1>1, <1>2 DEF IndInv, LeaderHolds, Holds, EntryKept, requestVars
<1>5. OpsInOrder'
  <2>. SUFFICES ASSUME NEW t \in Server
                PROVE  /\ \A i, j \in 1 .. Len(log'[t]) :
                             i < j /\ log'[t][i].req = log'[t][j].req
                               => log'[t][i].op < log'[t][j].op
                       /\ \A i \in 1 .. Len(log'[t]) : \A r \in Request :
                             log'[t][i].req = r =>
                                \/ pc[r] \in {"wait", "asleep", "done"}
                                \/ pc[r] \in {"execute", "txn_append"} /\ log'[t][i].op < pos[r]
    BY <1>1 DEF OpsInOrder, requestVars
  <2>1. log'[t] = log[t] \/ log'[t] = log[active]
    BY <1>2
  <2>. QED
    BY <1>1, <2>1 DEF IndInv, OpsInOrder
<1>6. Len(order) <= Len(order') /\ \A i \in 1 .. Len(order) : order[i] = order'[i]
  BY <1>1, TypeFacts DEF IndInv
<1>. QED
  BY <1>1, <1>3, <1>4, <1>5, <1>6, RaftKept

\* More of the leader's log is decided.
LEMMA AdvanceCommitIndexIndInv ==
    ASSUME IndInv, AdvanceCommitIndex
    PROVE  IndInv'
<1>1. PICK k \in Len(order) + 1 .. Len(log[active]) : order' = SubSeq(log[active], 1, k)
  BY DEF AdvanceCommitIndex
<1>2. /\ active \in Server /\ UNCHANGED <<log, leader, active, elections, serverVars, requestVars>>
      /\ log[active] \in Seq(RaftEntry) /\ Len(log[active]) \in Nat /\ Len(order) \in Nat
      /\ \A i \in 1 .. Len(order) : log[active][i] = order[i]
      /\ elections # 0
  BY TypeFacts DEF IndInv, AdvanceCommitIndex, LeaderHolds, Holds
<1>3. k \in Nat /\ k <= Len(log[active]) /\ Len(order) < k
  BY <1>1, <1>2
<1>4. order' \in Seq(RaftEntry) /\ Len(order') = k /\ \A i \in 1 .. k : order'[i] = log[active][i]
  <2>1. \A i \in 1 .. k : log[active][i] \in RaftEntry
    BY <1>2, <1>3, ElementOfSeq
  <2>2. /\ SubSeq(log[active], 1, k) \in Seq(RaftEntry)
        /\ Len(SubSeq(log[active], 1, k)) = IF 1 <= k THEN k - 1 + 1 ELSE 0
        /\ \A i \in 1 .. k - 1 + 1 : SubSeq(log[active], 1, k)[i] = log[active][1 + i - 1]
    BY <1>3, <2>1, SubSeqProperties
  <2>3. k - 1 + 1 = k /\ 1 <= k /\ \A i \in 1 .. k : 1 + i - 1 = i
    BY <1>2, <1>3
  <2>. QED
    BY <1>1, <2>2, <2>3
<1>5. TypeOK'
  BY <1>2, <1>4 DEF IndInv, TypeOK, serverVars, applyVars, requestVars
<1>6. LeaderHolds'
  BY <1>2, <1>3, <1>4, RequestsAssumption DEF LeaderHolds, Holds
<1>7. EntryKept' /\ OpsInOrder'
  BY <1>2 DEF IndInv, EntryKept, OpsInOrder, requestVars
<1>8. Len(order) <= Len(order') /\ \A i \in 1 .. Len(order) : order[i] = order'[i]
  BY <1>2, <1>3, <1>4
<1>. QED
  BY <1>2, <1>5, <1>6, <1>7, <1>8, RaftKept

-----------------------------------------------------------------------------
(* The applying thread *)

\* What lies between two places of a sequence.
LEMMA Slice ==
    ASSUME NEW S, NEW l \in Seq(S), NEW m \in Nat, NEW k \in Nat, m < k, k <= Len(l)
    PROVE  /\ SubSeq(l, m + 1, k) \in Seq(S) /\ Len(SubSeq(l, m + 1, k)) = k - m
           /\ \A i \in 1 .. k - m : SubSeq(l, m + 1, k)[i] = l[m + i]
<1>. DEFINE b == SubSeq(l, m + 1, k)
<1>1. Len(l) \in Nat
  OBVIOUS
<1>2. \A i \in m + 1 .. k : i \in 1 .. Len(l)
  BY <1>1
<1>3. \A i \in m + 1 .. k : l[i] \in S
  BY <1>2, ElementOfSeq
<1>4. /\ b \in Seq(S) /\ Len(b) = IF m + 1 <= k THEN k - (m + 1) + 1 ELSE 0
      /\ \A i \in 1 .. k - (m + 1) + 1 : b[i] = l[m + 1 + i - 1]
  BY <1>1, <1>3, SubSeqProperties
<1>. HIDE DEF b
<1>5. k - (m + 1) + 1 = k - m /\ m + 1 <= k /\ \A i \in 1 .. k - m : m + 1 + i - 1 = m + i
  OBVIOUS
<1>6. Len(b) = k - m /\ \A i \in 1 .. k - m : b[i] = l[m + i]
  BY <1>4, <1>5
<1>. QED
  BY <1>4, <1>6 DEF b

LEMMA ApplyCommittedEntriesIndInv ==
    ASSUME IndInv, NEW s \in Server, ApplyCommittedEntries(s)
    PROVE  IndInv'
<1>1. PICK k \in applied[s] + 1 .. Len(order) :
          /\ Holds(log[s], k)
          /\ batch' = [batch EXCEPT ![s] = SubSeq(log[s], applied[s] + 1, k)]
  BY DEF ApplyCommittedEntries, Unapplied
<1>2. /\ first' = [first EXCEPT ![s] = applied[s] + 1]
      /\ apc' = [apc EXCEPT ![s] = "apply"]
      /\ UNCHANGED <<raftVars, running, applied, store, pending, requestVars>>
  BY DEF ApplyCommittedEntries
<1>3. /\ log[s] \in Seq(RaftEntry) /\ Len(log[s]) \in Nat /\ applied[s] \in Nat
      /\ Len(order) \in Nat /\ k \in Nat /\ applied[s] < k /\ k <= Len(order) /\ k <= Len(log[s])
      /\ \A i \in 1 .. k : log[s][i] = order[i]
  BY <1>1, TypeFacts DEF IndInv, Holds
<1>. DEFINE b == SubSeq(log[s], applied[s] + 1, k)
<1>4. /\ b \in Seq(RaftEntry) /\ Len(b) = k - applied[s]
      /\ \A i \in 1 .. k - applied[s] : b[i] = order[applied[s] + i]
  <2>0. /\ log[s] \in Seq(RaftEntry) /\ applied[s] \in Nat /\ k \in Nat
        /\ applied[s] < k /\ k <= Len(log[s])
    BY <1>3
  <2>1. /\ b \in Seq(RaftEntry) /\ Len(b) = k - applied[s]
        /\ \A i \in 1 .. k - applied[s] : b[i] = log[s][applied[s] + i]
    BY <2>0, Slice, Zenon
  <2>. HIDE DEF b
  <2>2. ASSUME NEW i \in 1 .. k - applied[s] PROVE b[i] = order[applied[s] + i]
    <3>1. applied[s] + i \in 1 .. k
      BY <1>3
    <3>. QED
      BY <1>3, <2>1, <3>1
  <2>. QED
    BY <2>1, <2>2
<1>5. /\ batch' \in [Server -> Seq(RaftEntry)] /\ batch'[s] = b
      /\ \A t \in Server : t # s => batch'[t] = batch[t]
  <2>. HIDE DEF b
  <2>1. batch' = [batch EXCEPT ![s] = b]
    BY <1>1 DEF b
  <2>. QED
    BY <1>4, <2>1 DEF IndInv, TypeOK
<1>. HIDE DEF b
<1>6. TypeOK'
  <2>1. applied[s] + 1 \in Nat \ {0}
    BY <1>3
  <2>. QED
    BY <1>2, <1>5, <2>1 DEF IndInv, TypeOK, raftVars, requestVars
<1>7. Delivering'
  <2>1. ASSUME NEW t \in Server
        PROVE  /\ applied[t] + Len(batch'[t]) <= Len(order)
               /\ \A i \in 1 .. Len(batch'[t]) : batch'[t][i] = order[applied[t] + i]
    <3>1. CASE t = s
      <4>1. applied[s] + Len(b) <= Len(order)
        BY <1>3, <1>4
      <4>. QED
        BY <1>4, <1>5, <3>1, <4>1
    <3>2. CASE t # s
      BY <1>5, <3>2 DEF IndInv, Delivering
    <3>. QED
      BY <3>1, <3>2
  <2>. QED
    BY <1>2, <2>1 DEF IndInv, Delivering, raftVars
<1>8. StoresReplayOrder'
  BY <1>2 DEF IndInv, StoresReplayOrder, raftVars
<1>9. \A t \in Server : applied'[t] >= applied[t]
  BY <1>2, TypeFacts DEF IndInv
<1>. QED
  BY <1>2, <1>6, <1>7, <1>8, <1>9, ApplyKept

\* The entry that goes into the store is the next one that was decided.
LEMMA ProcessRaftEntryIndInv ==
    ASSUME IndInv, NEW s \in Server, ProcessRaftEntry(s)
    PROVE  IndInv'
<1>. DEFINE e == Head(batch[s])
<1>1. /\ batch[s] # <<>>
      /\ store' = [store EXCEPT ![s] = StoreAfter(store[s], e)]
      /\ applied' = [applied EXCEPT ![s] = applied[s] + 1]
      /\ batch' = [batch EXCEPT ![s] = Tail(batch[s])]
      /\ UNCHANGED <<raftVars, running, first, apc, pending, requestVars>>
  BY DEF ProcessRaftEntry
<1>2. /\ batch[s] \in Seq(RaftEntry) /\ applied[s] \in Nat /\ Len(order) \in Nat
      /\ applied[s] + Len(batch[s]) <= Len(order)
      /\ \A i \in 1 .. Len(batch[s]) : batch[s][i] = order[applied[s] + i]
  BY TypeFacts DEF IndInv, Delivering
<1>3. /\ e \in RaftEntry /\ Len(batch[s]) \in Nat /\ Len(batch[s]) >= 1
      /\ Tail(batch[s]) \in Seq(RaftEntry) /\ Len(Tail(batch[s])) = Len(batch[s]) - 1
      /\ \A i \in 1 .. Len(Tail(batch[s])) : Tail(batch[s])[i] = batch[s][i + 1]
  BY <1>1, <1>2, HeadTailProperties, EmptySeq
<1>4. e = order[applied[s] + 1]
  BY <1>2, <1>3
<1>5. /\ applied' \in [Server -> Nat] /\ applied'[s] = applied[s] + 1
      /\ \A t \in Server : t # s => applied'[t] = applied[t]
  BY <1>1, <1>2 DEF IndInv, TypeOK
<1>6. /\ batch' \in [Server -> Seq(RaftEntry)] /\ batch'[s] = Tail(batch[s])
      /\ \A t \in Server : t # s => batch'[t] = batch[t]
  BY <1>1, <1>3 DEF IndInv, TypeOK
<1>. HIDE DEF e
<1>7. /\ store' \in [Server -> [Key -> Value]]
      /\ \A k \in Key : store'[s][k] =
            IF k # e.key THEN store[s][k] ELSE IF e.type = "PUT" THEN e.req ELSE NoValue
      /\ \A t \in Server : t # s => store'[t] = store[t]
  <2>1. e.req \in Value /\ e.key \in Key /\ NoValue \in Value
    BY <1>3 DEF RaftEntry, Value
  <2>2. store[s] \in [Key -> Value] /\ store \in [Server -> [Key -> Value]]
    BY DEF IndInv, TypeOK
  <2>3. /\ StoreAfter(store[s], e) \in [Key -> Value]
        /\ \A k \in Key : StoreAfter(store[s], e)[k] =
              IF k # e.key THEN store[s][k] ELSE IF e.type = "PUT" THEN e.req ELSE NoValue
    BY <2>1, <2>2 DEF StoreAfter
  <2>. QED
    BY <1>1, <2>2, <2>3
<1>8. TypeOK'
  BY <1>1, <1>5, <1>6, <1>7 DEF IndInv, TypeOK, raftVars, requestVars
<1>9. Delivering'
  <2>1. ASSUME NEW t \in Server
        PROVE  /\ applied'[t] + Len(batch'[t]) <= Len(order)
               /\ \A i \in 1 .. Len(batch'[t]) : batch'[t][i] = order[applied'[t] + i]
               /\ \A i \in pending[t] : i <= applied'[t]
    <3>1. CASE t = s
      <4>1. applied'[s] + Len(batch'[s]) <= Len(order)
        BY <1>2, <1>3, <1>5, <1>6
      <4>2. ASSUME NEW i \in 1 .. Len(batch'[s])
            PROVE  batch'[s][i] = order[applied'[s] + i]
        <5>1. i + 1 \in 1 .. Len(batch[s]) /\ i \in Nat
          BY <1>3, <1>6
        <5>2. \A j \in 1 .. Len(batch[s]) : batch[s][j] = order[applied[s] + j]
          BY <1>2
        <5>3. batch[s][i + 1] = order[applied[s] + (i + 1)]
          BY <5>1, <5>2, Zenon
        <5>4. i \in Nat /\ applied[s] \in Nat /\ applied'[s] = applied[s] + 1
          BY <1>2, <1>5, <5>1
        <5>5. applied[s] + (i + 1) = applied'[s] + i
          BY <5>4
        <5>. QED
          BY <1>3, <1>6, <5>3, <5>5
      <4>3. ASSUME NEW i \in pending[s] PROVE i <= applied'[s]
        <5>1. i \in Nat /\ i <= applied[s]
          BY DEF IndInv, TypeOK, Delivering
        <5>. QED
          BY <1>2, <1>5, <5>1
      <4>. QED
        BY <3>1, <4>1, <4>2, <4>3
    <3>2. CASE t # s
      BY <1>5, <1>6, <3>2 DEF IndInv, Delivering
    <3>. QED
      BY <3>1, <3>2
  <2>. QED
    BY <1>1, <2>1 DEF Delivering, raftVars
<1>10. StoresReplayOrder'
  <2>1. \A t \in Server : applied'[t] <= Len(order)
    BY <1>2, <1>3, <1>5 DEF IndInv, StoresReplayOrder
  <2>2. ASSUME NEW t \in Server, NEW k \in Key
        PROVE  store'[t][k] = LastWrite(order, k, applied'[t])
    <3>1. store[t][k] = LastWrite(order, k, applied[t])
      BY DEF IndInv, StoresReplayOrder
    <3>2. CASE t = s
      <4>1. LastWrite(order, k, applied[s] + 1) =
               IF e.key # k THEN LastWrite(order, k, applied[s])
               ELSE IF e.type = "PUT" THEN e.req ELSE NoValue
        BY <1>2, <1>4, LastWriteNext
      <4>. QED
        BY <1>5, <1>7, <3>1, <3>2, <4>1
    <3>3. CASE t # s
      BY <1>5, <1>7, <3>1, <3>3
    <3>. QED
      BY <3>2, <3>3
  <2>. QED
    BY <1>1, <2>1, <2>2 DEF StoresReplayOrder, raftVars
<1>11. \A t \in Server : applied'[t] >= applied[t]
  <2>1. \A t \in Server : applied[t] \in Nat
    BY TypeFacts DEF IndInv
  <2>. QED
    BY <1>5, <2>1
<1>. QED
  BY <1>1, <1>8, <1>9, <1>10, <1>11, ApplyKept

\* Only what was applied is marked.
LEMMA MarkCommitsIndInv ==
    ASSUME IndInv, NEW s \in Server, MarkCommits(s)
    PROVE  IndInv'
<1>1. /\ pending' = [pending EXCEPT ![s] = pending[s] \cup (first[s] .. applied[s])]
      /\ apc' = [apc EXCEPT ![s] = "notify"]
      /\ UNCHANGED <<raftVars, running, applied, batch, first, store, requestVars>>
  BY DEF MarkCommits, Marked
<1>2. first[s] \in Nat \ {0} /\ applied[s] \in Nat /\ pending \in [Server -> SUBSET (Nat \ {0})]
  BY DEF IndInv, TypeOK
<1>3. /\ first[s] .. applied[s] \subseteq Nat \ {0}
      /\ \A i \in first[s] .. applied[s] : i <= applied[s]
  BY <1>2
<1>4. pending' \in [Server -> SUBSET (Nat \ {0})]
  BY <1>1, <1>2, <1>3
<1>5. TypeOK'
  BY <1>1, <1>4 DEF IndInv, TypeOK, raftVars, requestVars
<1>6. \A t \in Server : \A i \in pending'[t] : i <= applied[t]
  BY <1>1, <1>2, <1>3 DEF IndInv, Delivering
<1>7. Delivering'
  BY <1>1, <1>6 DEF IndInv, Delivering, raftVars
<1>8. StoresReplayOrder'
  BY <1>1 DEF IndInv, StoresReplayOrder, raftVars
<1>9. \A t \in Server : applied'[t] >= applied[t]
  BY <1>1, TypeFacts DEF IndInv
<1>. QED
  BY <1>1, <1>5, <1>7, <1>8, <1>9, ApplyKept

LEMMA NotifyAllIndInv ==
    ASSUME IndInv, NEW s \in Server, NotifyAll(s)
    PROVE  IndInv'
<1>1. /\ pc' = [r \in Request |-> IF r \in Asleep(s) THEN "wait" ELSE pc[r]]
      /\ apc' = [apc EXCEPT ![s] = "idle"] /\ first' = [first EXCEPT ![s] = 1]
      /\ UNCHANGED <<raftVars, running, applied, batch, store, pending,
                     at, body, met, pos, index, answer, epoch>>
  BY DEF NotifyAll, Woken
<1>2. \A r \in Request : pc'[r] = pc[r] \/ (pc[r] = "asleep" /\ pc'[r] = "wait")
  BY <1>1 DEF Asleep
<1>3. TypeOK'
  BY <1>1, <1>2 DEF IndInv, TypeOK, raftVars
<1>4. BodyMatches' /\ Answered'
  BY <1>1, <1>2 DEF IndInv, BodyMatches, Ops, Answered
<1>5. OpsInOrder'
  BY <1>1, <1>2 DEF IndInv, OpsInOrder, raftVars
<1>6. LeaderHolds' /\ EntryKept' /\ Delivering' /\ StoresReplayOrder'
  BY <1>1 DEF IndInv, LeaderHolds, Holds, EntryKept, Delivering, StoresReplayOrder, raftVars
<1>. QED
  BY <1>3, <1>4, <1>5, <1>6 DEF IndInv

LEMMA StopIndInv ==
    ASSUME IndInv, NEW s \in Server, Stop(s)
    PROVE  IndInv'
<1>1. /\ running' = [running EXCEPT ![s] = FALSE]
      /\ UNCHANGED <<raftVars, applyVars, pending, requestVars>>
  BY DEF Stop
<1>2. TypeOK'
  BY <1>1 DEF IndInv, TypeOK, raftVars, applyVars, requestVars
<1>3. Delivering' /\ StoresReplayOrder'
  BY <1>1 DEF IndInv, Delivering, StoresReplayOrder, raftVars, applyVars
<1>4. \A t \in Server : applied'[t] >= applied[t]
  BY <1>1, TypeFacts DEF IndInv, applyVars
<1>. QED
  BY <1>1, <1>2, <1>3, <1>4, ApplyKept

-----------------------------------------------------------------------------
(* The threads of the requests *)

\* What Finish leaves of a request that may end.
LEMMA FinishIndInv ==
    ASSUME IndInv, NEW r \in Request,
           NEW result \in {"error", "applied", "expired", "stopped", "txn"},
           Finish(r, result), UNCHANGED <<raftVars, running, applyVars, index, epoch>>,
           at' \in [Request -> Server \cup {None}], at'[r] \in Server,
           \A q \in Request : at'[q] = at[q] \/ (q = r /\ index[r] = 0),
           result = "applied" => index[r] # 0 /\ index[r] <= applied[at[r]],
           pending' \in [Server -> SUBSET (Nat \ {0})],
           \A s \in Server : pending'[s] \subseteq pending[s]
    PROVE  IndInv'
<1>1. /\ pc' = [pc EXCEPT ![r] = "done"] /\ answer' = [answer EXCEPT ![r] = result]
      /\ body' = [body EXCEPT ![r] = None] /\ met' = [met EXCEPT ![r] = TRUE]
      /\ pos' = [pos EXCEPT ![r] = 1]
  BY DEF Finish
<1>2. TypeOK'
  <2>1. /\ pc' \in [Request -> {"new", "compare", "execute", "put_append", "txn_append", "wait",
                                "asleep", "done"}]
        /\ body' \in [Request -> Body \cup {None}] /\ met' \in [Request -> BOOLEAN]
        /\ pos' \in [Request -> Nat \ {0}]
        /\ answer' \in [Request -> {"none", "error", "applied", "expired", "stopped", "txn"}]
    BY <1>1 DEF IndInv, TypeOK
  <2>2. /\ UNCHANGED <<log, order, leader, active, elections, running, index, epoch>>
        /\ UNCHANGED <<applied, first, batch, apc, store>>
    BY DEF raftVars, applyVars
  <2>. QED
    BY <2>1, <2>2 DEF IndInv, TypeOK
<1>3. /\ \A q \in Request : q # r => /\ pc'[q] = pc[q] /\ answer'[q] = answer[q]
                                     /\ body'[q] = body[q] /\ met'[q] = met[q]
                                     /\ pos'[q] = pos[q] /\ at'[q] = at[q]
      /\ pc'[r] = "done" /\ answer'[r] = result
  BY <1>1 DEF IndInv, TypeOK
<1>4. BodyMatches'
  BY <1>3 DEF IndInv, BodyMatches, Ops
<1>5. Answered'
  BY <1>3 DEF IndInv, Answered, applyVars
<1>6. EntryKept'
  BY <1>3 DEF IndInv, EntryKept, raftVars
<1>7. OpsInOrder'
  BY <1>3 DEF IndInv, OpsInOrder, raftVars
<1>. QED
  BY <1>2, <1>4, <1>5, <1>6, <1>7, RequestKept

LEMMA UpdateIndInv ==
    ASSUME IndInv, NEW r \in Request, NEW s \in Server, NEW type \in {"PUT", "DELETE"},
           Update(r, s, type)
    PROVE  IndInv'
<1>1. /\ pc[r] = "new" /\ at' = [at EXCEPT ![r] = s] /\ index[r] = 0
      /\ UNCHANGED <<raftVars, serverVars, index, epoch>>
  BY DEF Update, IndInv, Answered
<1>2. /\ at' \in [Request -> Server \cup {None}] /\ at'[r] = s
      /\ \A q \in Request : q # r => at'[q] = at[q]
  BY <1>1 DEF IndInv, TypeOK
<1>3. /\ pending' \in [Server -> SUBSET (Nat \ {0})]
      /\ \A t \in Server : pending'[t] \subseteq pending[t]
      /\ UNCHANGED <<running, applyVars>>
  BY <1>1 DEF IndInv, TypeOK, serverVars
<1>4. CASE ~leader[s] /\ Finish(r, "error")
  BY <1>1, <1>2, <1>3, <1>4, FinishIndInv
<1>5. CASE /\ pc' = [pc EXCEPT ![r] = "put_append"]
           /\ \E k \in Key : body' = [body EXCEPT ![r] =
                 [compare |-> <<>>, success |-> <<[type |-> type, key |-> k]>>,
                  failure |-> <<>>]]
           /\ UNCHANGED <<met, pos, answer>>
  <2>1. PICK k \in Key : body' = [body EXCEPT ![r] =
           [compare |-> <<>>, success |-> <<[type |-> type, key |-> k]>>, failure |-> <<>>]]
    BY <1>5
  <2>2. [type |-> type, key |-> k] \in Op
    BY DEF Op
  <2>3. [compare |-> <<>>, success |-> <<[type |-> type, key |-> k]>>, failure |-> <<>>] \in Body
    BY <2>2 DEF Body
  <2>4. /\ body' \in [Request -> Body \cup {None}] /\ body'[r] \in Body
        /\ \A q \in Request : q # r => body'[q] = body[q] /\ pc'[q] = pc[q]
        /\ pc'[r] = "put_append"
    BY <1>5, <2>1, <2>3 DEF IndInv, TypeOK
  <2>5. TypeOK'
    BY <1>1, <1>2, <1>3, <1>5, <2>4 DEF IndInv, TypeOK, raftVars, applyVars
  <2>6. BodyMatches'
    <3>1. met'[r] /\ pos'[r] = 1
      BY <1>1, <1>5 DEF IndInv, BodyMatches
    <3>2. body'[r].success = <<[type |-> type, key |-> k]>>
      BY <2>1 DEF IndInv, TypeOK
    <3>3. Ops(r)' = <<[type |-> type, key |-> k]>>
      BY <3>1, <3>2 DEF Ops
    <3>4. pos'[r] <= Len(Ops(r)')
      BY <3>1, <3>3
    <3>5. ASSUME NEW q \in Request, q # r
          PROVE  /\ pc'[q] \in {"compare", "execute", "put_append", "txn_append"}
                       => body'[q] \in Body
                 /\ pc'[q] = "new" => met'[q] /\ pos'[q] = 1
                 /\ pc'[q] = "compare" => pos'[q] <= Len(body'[q].compare)
                 /\ pc'[q] \in {"put_append", "txn_append"} => pos'[q] <= Len(Ops(q)')
      BY <1>5, <2>4, <3>5 DEF IndInv, BodyMatches, Ops
    <3>. QED
      BY <2>4, <3>1, <3>4, <3>5 DEF BodyMatches
  <2>7. Answered'
    BY <1>1, <1>2, <1>3, <1>5, <2>4 DEF IndInv, Answered, applyVars
  <2>8. EntryKept'
    BY <1>1, <1>2 DEF IndInv, EntryKept, raftVars
  <2>9. OpsInOrder'
    BY <1>1, <1>5, <2>4 DEF IndInv, OpsInOrder, raftVars
  <2>. QED
    BY <1>1, <1>3, <2>5, <2>6, <2>7, <2>8, <2>9, RequestKept
<1>. QED
  BY <1>4, <1>5 DEF Update

LEMMA TxnIndInv ==
    ASSUME IndInv, NEW r \in Request, Txn(r)
    PROVE  IndInv'
<1>1. PICK s \in Server, t \in Transaction :
          /\ at' = [at EXCEPT ![r] = s] /\ body' = [body EXCEPT ![r] = t]
          /\ pc' = [pc EXCEPT ![r] = IF t.compare = <<>> THEN "execute" ELSE "compare"]
  BY DEF Txn
<1>2. /\ pc[r] = "new" /\ index[r] = 0 /\ met[r] /\ pos[r] = 1
      /\ UNCHANGED <<raftVars, serverVars, met, pos, index, answer, epoch>>
      /\ UNCHANGED <<running, applyVars, pending>>
  BY DEF Txn, IndInv, Answered, BodyMatches, serverVars
<1>3. t \in Body /\ t.compare \in Seq(Compare)
  BY RequestsAssumption DEF Body
<1>4. /\ at'[r] = s /\ body'[r] = t
      /\ pc'[r] = "execute" \/ (pc'[r] = "compare" /\ t.compare # <<>>)
      /\ \A q \in Request : q # r => at'[q] = at[q] /\ body'[q] = body[q] /\ pc'[q] = pc[q]
  BY <1>1 DEF IndInv, TypeOK
<1>5. TypeOK'
  BY <1>1, <1>2, <1>3 DEF IndInv, TypeOK, raftVars, serverVars, applyVars
<1>6. t.compare # <<>> => 1 <= Len(t.compare)
  BY <1>3, EmptySeq
<1>7. BodyMatches'
  BY <1>2, <1>3, <1>4, <1>6 DEF IndInv, BodyMatches, Ops
<1>8. Answered'
  BY <1>2, <1>4 DEF IndInv, Answered, applyVars
<1>9. EntryKept'
  BY <1>2, <1>4 DEF IndInv, EntryKept, raftVars
<1>10. OpsInOrder'
  BY <1>2, <1>4 DEF IndInv, OpsInOrder, raftVars
<1>. QED
  BY <1>2, <1>5, <1>7, <1>8, <1>9, <1>10, RequestKept

LEMMA TxnCompareIndInv ==
    ASSUME IndInv, NEW r \in Request, TxnCompare(r)
    PROVE  IndInv'
<1>1. PICK b \in BOOLEAN : met' = [met EXCEPT ![r] = b]
  <2>. DEFINE c == body[r].compare[pos[r]]
              holds == (store[at[r]][c.key] = c.value) = (c.op = "equal")
  <2>1. met' = [met EXCEPT ![r] = met[r] /\ holds]
    BY DEF TxnCompare
  <2>2. (met[r] /\ holds) \in BOOLEAN
    OBVIOUS
  <2>. QED
    BY <2>1, <2>2
<1>2. /\ pc[r] = "compare" /\ body[r] \in Body
      /\ UNCHANGED <<raftVars, serverVars, at, body, index, answer, epoch>>
      /\ UNCHANGED <<running, applyVars, pending>>
  BY DEF TxnCompare, IndInv, BodyMatches, serverVars
<1>3. pos[r] \in Nat \ {0} /\ pc[r] # "new" /\ Len(body[r].compare) \in Nat
  BY <1>2, TypeFacts DEF IndInv, Body
<1>4. \/ pos[r] < Len(body[r].compare) /\ pos' = [pos EXCEPT ![r] = pos[r] + 1] /\ UNCHANGED pc
      \/ pos' = [pos EXCEPT ![r] = 1] /\ pc' = [pc EXCEPT ![r] = "execute"]
  BY DEF TxnCompare
<1>5. /\ pos' \in [Request -> Nat \ {0}]
      /\ \A q \in Request : q # r => pos'[q] = pos[q] /\ pc'[q] = pc[q] /\ met'[q] = met[q]
      /\ \/ pc'[r] = "execute"
         \/ pc'[r] = "compare" /\ pos'[r] <= Len(body[r].compare)
  BY <1>1, <1>2, <1>3, <1>4 DEF IndInv, TypeOK
<1>6. TypeOK'
  BY <1>1, <1>2, <1>4, <1>5 DEF IndInv, TypeOK, raftVars, applyVars
<1>7. BodyMatches'
  BY <1>2, <1>5 DEF IndInv, BodyMatches, Ops
<1>8. Answered'
  BY <1>2, <1>5 DEF IndInv, Answered, applyVars
<1>9. EntryKept'
  BY <1>2 DEF IndInv, EntryKept, raftVars
<1>10. OpsInOrder'
  BY <1>2, <1>5 DEF IndInv, OpsInOrder, raftVars
<1>. QED
  BY <1>2, <1>6, <1>7, <1>8, <1>9, <1>10, RequestKept

LEMMA TxnExecuteIndInv ==
    ASSUME IndInv, NEW r \in Request, TxnExecute(r)
    PROVE  IndInv'
<1>1. /\ pc[r] = "execute" /\ body[r] \in Body /\ at[r] \in Server
      /\ UNCHANGED <<raftVars, serverVars, at, index, epoch>>
      /\ UNCHANGED <<running, applyVars, pending>>
  BY DEF TxnExecute, IndInv, BodyMatches, Answered, serverVars
<1>2. at \in [Request -> Server \cup {None}] /\ pending \in [Server -> SUBSET (Nat \ {0})]
  BY DEF IndInv, TypeOK
<1>3. CASE Finish(r, "txn")
  BY <1>1, <1>2, <1>3, FinishIndInv
<1>4. CASE /\ pos[r] <= Len(Ops(r))
           /\ pc' = [pc EXCEPT ![r] = "txn_append"]
           /\ UNCHANGED <<body, met, pos, answer>>
  <2>1. /\ pc'[r] = "txn_append" /\ \A q \in Request : q # r => pc'[q] = pc[q]
    BY <1>4 DEF IndInv, TypeOK
  <2>2. TypeOK'
    BY <1>1, <1>4 DEF IndInv, TypeOK, raftVars, applyVars
  <2>3. BodyMatches'
    BY <1>1, <1>4, <2>1 DEF IndInv, BodyMatches, Ops
  <2>4. Answered' /\ EntryKept'
    BY <1>1, <1>4, <2>1 DEF IndInv, Answered, EntryKept, applyVars, raftVars
  <2>5. OpsInOrder'
    BY <1>1, <1>4, <2>1 DEF IndInv, OpsInOrder, raftVars
  <2>. QED
    BY <1>1, <2>2, <2>3, <2>4, <2>5, RequestKept
<1>5. CASE pos' = [pos EXCEPT ![r] = pos[r] + 1] /\ UNCHANGED <<pc, body, met, answer>>
  <2>1. /\ pos' \in [Request -> Nat \ {0}] /\ pos'[r] = pos[r] + 1
        /\ \A q \in Request : q # r => pos'[q] = pos[q]
    BY <1>5 DEF IndInv, TypeOK
  <2>2. TypeOK'
    BY <1>1, <1>5, <2>1 DEF IndInv, TypeOK, raftVars, applyVars
  <2>3. BodyMatches'
    BY <1>1, <1>5, <2>1 DEF IndInv, BodyMatches, Ops
  <2>4. Answered' /\ EntryKept'
    BY <1>1, <1>5 DEF IndInv, Answered, EntryKept, applyVars, raftVars
  <2>5. OpsInOrder'
    <3>1. ASSUME NEW s \in Server, NEW i \in 1 .. Len(log[s]), log[s][i].req = r
          PROVE  log[s][i].op < pos[r] + 1
      <4>1. log[s][i].op < pos[r] /\ pos[r] \in Nat
        BY <1>1, <3>1, TypeFacts DEF IndInv, OpsInOrder
      <4>2. log[s] \in Seq(RaftEntry)
        BY TypeFacts DEF IndInv
      <4>3. log[s][i] \in RaftEntry
        BY <4>2, ElementOfSeq
      <4>4. log[s][i].op \in Nat
        BY <4>3 DEF RaftEntry
      <4>. QED
        BY <4>1, <4>4
    <3>. QED
      BY <1>1, <1>5, <2>1, <3>1 DEF IndInv, OpsInOrder, raftVars
  <2>. QED
    BY <1>1, <2>2, <2>3, <2>4, <2>5, RequestKept
<1>. QED
  BY <1>3, <1>4, <1>5 DEF TxnExecute

\* What Propose makes of the logs.
LEMMA ProposeAppends ==
    ASSUME IndInv, NEW r \in Request, Propose(r), pc[r] \in {"put_append", "txn_append"}
    PROVE  LET n == Len(log[at[r]]) IN
           /\ n \in Nat /\ at[r] \in Server
           /\ log' \in [Server -> Seq(RaftEntry)]
           /\ \A s \in Server : s # at[r] => log'[s] = log[s]
           /\ Len(log'[at[r]]) = n + 1
           /\ \A i \in 1 .. n : log'[at[r]][i] = log[at[r]][i]
           /\ log'[at[r]][n + 1].req = r /\ log'[at[r]][n + 1].op = pos[r]
           /\ index' = [index EXCEPT ![r] = n + 1]
           /\ epoch' = [epoch EXCEPT ![r] = IF at[r] = active THEN elections ELSE 0]
<1>. DEFINE s == at[r]
            n == Len(log[s])
            e == [req |-> r, op |-> pos[r], type |-> CurrentOp(r).type, key |-> CurrentOp(r).key]
<1>1. /\ log' = [log EXCEPT ![s] = Append(log[s], e)]
      /\ index' = [index EXCEPT ![r] = n + 1]
      /\ epoch' = [epoch EXCEPT ![r] = IF s = active THEN elections ELSE 0]
  BY DEF Propose, Rank, ProposedIndex
<1>2. s \in Server /\ body[r] \in Body /\ pos[r] \in Nat \ {0} /\ pos[r] <= Len(Ops(r))
  BY TypeFacts DEF IndInv, Answered, BodyMatches
<1>3. /\ log \in [Server -> Seq(RaftEntry)] /\ log[s] \in Seq(RaftEntry) /\ n \in Nat
  BY <1>2 DEF IndInv, TypeOK
<1>4. Ops(r) \in Seq(Op)
  BY <1>2 DEF Ops, Body
<1>5. pos[r] \in 1 .. Len(Ops(r))
  BY <1>2, <1>4
<1>6. CurrentOp(r) \in Op
  BY <1>4, <1>5, ElementOfSeq DEF CurrentOp, Rank
<1>7. e \in RaftEntry /\ e.req = r /\ e.op = pos[r]
  BY <1>2, <1>6 DEF RaftEntry, Op
<1>. HIDE DEF e
<1>8. /\ Append(log[s], e) \in Seq(RaftEntry) /\ Len(Append(log[s], e)) = n + 1
      /\ \A i \in 1 .. n : Append(log[s], e)[i] = log[s][i]
      /\ Append(log[s], e)[n + 1] = e
  BY <1>3, <1>7, AppendProperties
<1>9. /\ log' \in [Server -> Seq(RaftEntry)] /\ log'[s] = Append(log[s], e)
      /\ \A t \in Server : t # s => log'[t] = log[t]
  BY <1>1, <1>2, <1>3, <1>8
<1>. QED
  BY <1>1, <1>2, <1>3, <1>7, <1>8, <1>9

\* The entry goes where the leader keeps it, behind the other operations of its request.
LEMMA AppendIndInv ==
    ASSUME IndInv, NEW r \in Request, Propose(r), pc[r] \in {"put_append", "txn_append"},
           UNCHANGED <<leader, active, elections, order, serverVars, at, body, met, answer>>,
           \/ pc' = [pc EXCEPT ![r] = "wait"] /\ pos' = pos
           \/ /\ pc[r] = "txn_append" /\ pc' = [pc EXCEPT ![r] = "execute"]
              /\ pos' = [pos EXCEPT ![r] = pos[r] + 1]
    PROVE  IndInv'
<1>. DEFINE s == at[r]
            n == Len(log[s])
<1>1. /\ n \in Nat /\ s \in Server /\ log' \in [Server -> Seq(RaftEntry)]
      /\ \A t \in Server : t # s => log'[t] = log[t]
      /\ Len(log'[s]) = n + 1 /\ \A i \in 1 .. n : log'[s][i] = log[s][i]
      /\ log'[s][n + 1].req = r /\ log'[s][n + 1].op = pos[r]
      /\ index' = [index EXCEPT ![r] = n + 1]
      /\ epoch' = [epoch EXCEPT ![r] = IF s = active THEN elections ELSE 0]
  BY ProposeAppends
<1>2. /\ pos[r] \in Nat \ {0} /\ elections \in Nat /\ Len(order) \in Nat
      /\ \A t \in Server : Len(log[t]) \in Nat
  BY TypeFacts DEF IndInv
<1>3. /\ index' \in [Request -> Nat] /\ index'[r] = n + 1
      /\ epoch' \in [Request -> Nat] /\ epoch'[r] = (IF s = active THEN elections ELSE 0)
      /\ \A q \in Request : q # r => index'[q] = index[q] /\ epoch'[q] = epoch[q]
  BY <1>1, <1>2 DEF IndInv, TypeOK
<1>4. /\ pos' \in [Request -> Nat \ {0}]
      /\ \A q \in Request : q # r => pos'[q] = pos[q] /\ pc'[q] = pc[q]
      /\ pc'[r] = "wait" \/ (pc'[r] = "execute" /\ pos'[r] = pos[r] + 1)
      /\ pc' \in [Request -> {"new", "compare", "execute", "put_append", "txn_append", "wait",
                              "asleep", "done"}]
  <2>1. /\ pos \in [Request -> Nat \ {0}]
        /\ pc \in [Request -> {"new", "compare", "execute", "put_append", "txn_append", "wait",
                               "asleep", "done"}]
    BY DEF IndInv, TypeOK
  <2>2. CASE pc' = [pc EXCEPT ![r] = "wait"] /\ pos' = pos
    BY <2>1, <2>2
  <2>3. CASE pc' = [pc EXCEPT ![r] = "execute"] /\ pos' = [pos EXCEPT ![r] = pos[r] + 1]
    BY <1>2, <2>1, <2>3
  <2>. QED
    BY <2>2, <2>3
<1>5. TypeOK'
  <2>1. UNCHANGED <<leader, active, elections, order, at, body, met, answer>>
    OBVIOUS
  <2>2. UNCHANGED <<running, applied, batch, first, apc, store, pending>>
    BY DEF serverVars, applyVars
  <2>. QED
    BY <1>1, <1>3, <1>4, <2>1, <2>2 DEF IndInv, TypeOK
<1>6. BodyMatches'
  BY <1>4 DEF IndInv, BodyMatches, Ops
<1>7. LeaderHolds'
  <2>1. CASE active = None
    BY <2>1 DEF IndInv, LeaderHolds
  <2>2. CASE active # None
    <3>1. elections # 0 /\ Len(order) <= Len(log[active])
          /\ \A i \in 1 .. Len(order) : log[active][i] = order[i]
      BY <2>2 DEF IndInv, LeaderHolds, Holds
    <3>2. active \in Server
      BY <2>2, TypeFacts DEF IndInv
    <3>3. Len(order) <= Len(log'[active]) /\ \A i \in 1 .. Len(order) : log'[active][i] = order[i]
      BY <1>1, <1>2, <3>1, <3>2
    <3>. QED
      BY <2>2, <3>1, <3>3 DEF LeaderHolds, Holds
  <2>. QED
    BY <2>1, <2>2
<1>8. Delivering' /\ StoresReplayOrder'
  BY DEF IndInv, Delivering, StoresReplayOrder, serverVars, applyVars
<1>9. Answered'
  BY <1>1, <1>3, <1>4 DEF IndInv, Answered, serverVars, applyVars
<1>10. EntryKept'
  <2>1. ASSUME NEW q \in Request
        PROVE  /\ epoch'[q] <= elections
               /\ index'[q] # 0 /\ epoch'[q] = elections /\ at[q] = active =>
                     index'[q] \in 1 .. Len(log'[active]) /\ log'[active][index'[q]].req = q
    <3>1. CASE q = r
      BY <1>1, <1>2, <1>3, <3>1
    <3>2. CASE q # r
      <4>1. epoch[q] <= elections /\ epoch'[q] = epoch[q] /\ index'[q] = index[q]
        BY <1>3, <3>2 DEF IndInv, EntryKept
      <4>2. ASSUME index[q] # 0, epoch[q] = elections, at[q] = active
            PROVE  index[q] \in 1 .. Len(log'[active]) /\ log'[active][index[q]].req = q
        <5>1. index[q] \in 1 .. Len(log[active]) /\ log[active][index[q]].req = q
          BY <4>2 DEF IndInv, EntryKept
        <5>2. active \in Server \/ active = None
          BY TypeFacts DEF IndInv
        <5>3. CASE active = s
          <6>1. index[q] \in 1 .. n /\ log[s][index[q]].req = q
            BY <5>1, <5>3
          <6>2. \A i \in 1 .. n : log'[s][i] = log[s][i]
            BY <1>1
          <6>3. log'[s][index[q]].req = q
            BY <6>1, <6>2
          <6>4. index[q] \in 1 .. n + 1
            BY <1>1, <6>1
          <6>. QED
            BY <1>1, <5>3, <6>3, <6>4
        <5>4. CASE active \in Server /\ active # s
          BY <1>1, <5>1, <5>4
        <5>5. active # None
          <6>1. q \in Request /\ (pc[q] = "new" => index[q] = 0)
            BY DEF IndInv, Answered
          <6>2. pc[q] # "new"
            BY <4>2, <6>1
          <6>. QED
            BY <4>2, <6>2, RequestsAssumption DEF IndInv, Answered
        <5>. QED
          BY <5>2, <5>3, <5>4, <5>5
      <4>. QED
        BY <4>1, <4>2
    <3>. QED
      BY <3>1, <3>2
  <2>. QED
    BY <2>1 DEF EntryKept
<1>11. OpsInOrder'
  <2>1. \A i \in 1 .. n : log[s][i].req = r => log[s][i].op < pos[r]
    BY <1>1 DEF IndInv, OpsInOrder
  <2>2. \A i \in 1 .. n : log[s][i].op \in Nat
    <3>1. log[s] \in Seq(RaftEntry)
      BY <1>1, TypeFacts DEF IndInv
    <3>2. \A i \in 1 .. n : log[s][i] \in RaftEntry
      BY <3>1, ElementOfSeq
    <3>. QED
      BY <3>2 DEF RaftEntry
  <2>3. \A i \in 1 .. n + 1 : i \in 1 .. n \/ i = n + 1
    BY <1>1
  <2>4. ASSUME NEW i \in 1 .. n + 1, NEW j \in 1 .. n + 1, i < j,
               log'[s][i].req = log'[s][j].req
        PROVE  log'[s][i].op < log'[s][j].op
    <3>1. i \in 1 .. n
      BY <1>1, <2>4
    <3>2. CASE j \in 1 .. n
      <4>1. log'[s][i] = log[s][i] /\ log'[s][j] = log[s][j]
        BY <1>1, <3>1, <3>2
      <4>2. log[s][i].req = log[s][j].req
        BY <2>4, <4>1
      <4>3. log[s][i].op < log[s][j].op
        BY <1>1, <2>4, <3>1, <3>2, <4>2 DEF IndInv, OpsInOrder
      <4>. QED
        BY <4>1, <4>3
    <3>3. CASE j = n + 1
      BY <1>1, <2>1, <2>4, <3>1, <3>3
    <3>. QED
      BY <2>3, <3>2, <3>3
  <2>5. ASSUME NEW t \in Server, NEW i \in 1 .. Len(log[t])
        PROVE  \A q \in Request : log[t][i].req = q =>
                  \/ pc'[q] \in {"wait", "asleep", "done"}
                  \/ pc'[q] \in {"execute", "txn_append"} /\ log[t][i].op < pos'[q]
    <3>1. log[t][i].req = r => log[t][i].op < pos[r]
      BY DEF IndInv, OpsInOrder
    <3>2. log[t][i].op \in Nat
      <4>1. log[t] \in Seq(RaftEntry)
        BY TypeFacts DEF IndInv
      <4>2. log[t][i] \in RaftEntry
        BY <4>1, ElementOfSeq
      <4>. QED
        BY <4>2 DEF RaftEntry
    <3>3. log[t][i].req = r => log[t][i].op < pos[r] + 1
      BY <1>2, <3>1, <3>2
    <3>. QED
      BY <1>4, <3>3 DEF IndInv, OpsInOrder
  <2>6. \/ pc'[r] = "wait"
        \/ pc'[r] = "execute" /\ log'[s][n + 1].op < pos'[r]
    BY <1>1, <1>2, <1>4
  <2>7. ASSUME NEW t \in Server
        PROVE  /\ \A i, j \in 1 .. Len(log'[t]) :
                     i < j /\ log'[t][i].req = log'[t][j].req => log'[t][i].op < log'[t][j].op
               /\ \A i \in 1 .. Len(log'[t]) : \A q \in Request :
                     log'[t][i].req = q =>
                        \/ pc'[q] \in {"wait", "asleep", "done"}
                        \/ pc'[q] \in {"execute", "txn_append"} /\ log'[t][i].op < pos'[q]
    <3>1. CASE t = s
      <4>1. ASSUME NEW i \in 1 .. n + 1, NEW q \in Request, log'[s][i].req = q
            PROVE  \/ pc'[q] \in {"wait", "asleep", "done"}
                   \/ pc'[q] \in {"execute", "txn_append"} /\ log'[s][i].op < pos'[q]
        <5>1. CASE i \in 1 .. n
          BY <1>1, <2>5, <4>1, <5>1
        <5>2. CASE i = n + 1
          BY <1>1, <2>6, <4>1, <5>2
        <5>. QED
          BY <2>3, <5>1, <5>2
      <4>. QED
        BY <1>1, <2>4, <3>1, <4>1
    <3>2. CASE t # s
      BY <1>1, <2>5, <3>2 DEF IndInv, OpsInOrder
    <3>. QED
      BY <3>1, <3>2
  <2>. QED
    BY <2>7 DEF OpsInOrder
<1>. QED
  BY <1>5, <1>6, <1>7, <1>8, <1>9, <1>10, <1>11 DEF IndInv

LEMMA PutAppendIndInv ==
    ASSUME IndInv, NEW r \in Request, PutAppend(r)
    PROVE  IndInv'
<1>. QED
  BY AppendIndInv DEF PutAppend

LEMMA TxnAppendIndInv ==
    ASSUME IndInv, NEW r \in Request, TxnAppend(r)
    PROVE  IndInv'
<1>. QED
  BY AppendIndInv DEF TxnAppend

\* A mark that is taken was there.
LEMMA WaitCheckIndInv ==
    ASSUME IndInv, NEW r \in Request, WaitCheck(r)
    PROVE  IndInv'
<1>1. /\ pc[r] = "wait" /\ at[r] \in Server /\ index[r] \in Nat
      /\ UNCHANGED <<raftVars, running, applyVars, at, index, epoch>>
  BY TypeFacts DEF WaitCheck, IndInv, Answered
<1>2. at \in [Request -> Server \cup {None}] /\ pending \in [Server -> SUBSET (Nat \ {0})]
  BY DEF IndInv, TypeOK
<1>3. index[r] \in pending[at[r]] => index[r] # 0 /\ index[r] <= applied[at[r]]
  BY <1>1, <1>2 DEF IndInv, Delivering
<1>4. CASE /\ Finish(r, IF index[r] \in pending[at[r]] THEN "applied" ELSE "stopped")
           /\ pending' = [pending EXCEPT ![at[r]] = pending[at[r]] \ {index[r]}]
  <2>1. /\ pending' \in [Server -> SUBSET (Nat \ {0})]
        /\ \A s \in Server : pending'[s] \subseteq pending[s]
    BY <1>1, <1>2, <1>4
  <2>2. CASE index[r] \in pending[at[r]]
    <3>1. Finish(r, "applied")
      BY <1>4, <2>2
    <3>. QED
      BY <1>1, <1>2, <1>3, <2>1, <2>2, <3>1, FinishIndInv
  <2>3. CASE index[r] \notin pending[at[r]]
    <3>1. Finish(r, "stopped")
      BY <1>4, <2>3
    <3>. QED
      BY <1>1, <1>2, <2>1, <3>1, FinishIndInv
  <2>. QED
    BY <2>2, <2>3
<1>5. CASE pc' = [pc EXCEPT ![r] = "asleep"] /\ UNCHANGED <<answer, body, met, pos, pending>>
  <2>1. pc'[r] = "asleep" /\ \A q \in Request : q # r => pc'[q] = pc[q]
    BY <1>5 DEF IndInv, TypeOK
  <2>2. TypeOK'
    BY <1>1, <1>5 DEF IndInv, TypeOK, raftVars, applyVars
  <2>3. BodyMatches' /\ Answered'
    BY <1>1, <1>5, <2>1 DEF IndInv, BodyMatches, Ops, Answered, applyVars
  <2>4. EntryKept' /\ OpsInOrder'
    BY <1>1, <1>5, <2>1 DEF IndInv, EntryKept, OpsInOrder, raftVars
  <2>. QED
    BY <1>1, <1>5, <2>2, <2>3, <2>4, RequestKept
<1>. QED
  BY <1>4, <1>5 DEF WaitCheck

LEMMA WaitTimeoutIndInv ==
    ASSUME IndInv, NEW r \in Request, WaitTimeout(r)
    PROVE  IndInv'
<1>1. /\ pc[r] = "asleep" /\ at[r] \in Server /\ index[r] \in Nat
      /\ UNCHANGED <<raftVars, running, applyVars, at, index, epoch>>
      /\ Finish(r, IF index[r] \in pending[at[r]] THEN "applied" ELSE "expired")
      /\ pending' = [pending EXCEPT ![at[r]] = pending[at[r]] \ {index[r]}]
  BY TypeFacts DEF WaitTimeout, IndInv, Answered
<1>2. at \in [Request -> Server \cup {None}] /\ pending \in [Server -> SUBSET (Nat \ {0})]
  BY DEF IndInv, TypeOK
<1>3. index[r] \in pending[at[r]] => index[r] # 0 /\ index[r] <= applied[at[r]]
  BY <1>1, <1>2 DEF IndInv, Delivering
<1>4. /\ pending' \in [Server -> SUBSET (Nat \ {0})]
      /\ \A s \in Server : pending'[s] \subseteq pending[s]
  BY <1>1, <1>2
<1>5. CASE index[r] \in pending[at[r]]
  <2>1. Finish(r, "applied")
    BY <1>1, <1>5
  <2>. QED
    BY <1>1, <1>2, <1>3, <1>4, <1>5, <2>1, FinishIndInv
<1>6. CASE index[r] \notin pending[at[r]]
  <2>1. Finish(r, "expired")
    BY <1>1, <1>6
  <2>. QED
    BY <1>1, <1>2, <1>4, <2>1, FinishIndInv
<1>. QED
  BY <1>5, <1>6

-----------------------------------------------------------------------------
LEMMA StutterIndInv == ASSUME IndInv, UNCHANGED vars PROVE IndInv'
<1>. USE DEF vars, raftVars, serverVars, applyVars, requestVars
<1>1. TypeOK'
  BY DEF IndInv, TypeOK
<1>2. BodyMatches' /\ Answered' /\ EntryKept' /\ OpsInOrder'
  BY DEF IndInv, BodyMatches, Ops, Answered, EntryKept, OpsInOrder
<1>3. LeaderHolds' /\ Delivering' /\ StoresReplayOrder'
  BY DEF IndInv, LeaderHolds, Holds, Delivering, StoresReplayOrder
<1>. QED
  BY <1>1, <1>2, <1>3 DEF IndInv

LEMMA NextIndInv == ASSUME IndInv, [Next]_vars PROVE IndInv'
<1>1. CASE Raft
  BY <1>1, AdvanceCommitIndexIndInv, BecomeLeaderIndInv, BecomeFollowerIndInv,
     HandleAppendEntriesIndInv DEF Raft
<1>2. ASSUME NEW s \in Server, Apply(s) \/ Stop(s) PROVE IndInv'
  BY <1>2, ApplyCommittedEntriesIndInv, ProcessRaftEntryIndInv, MarkCommitsIndInv,
     NotifyAllIndInv, StopIndInv DEF Apply
<1>3. ASSUME NEW r \in Request, Put(r) \/ Delete(r) PROVE IndInv'
  BY <1>3, UpdateIndInv DEF Put, Delete
<1>4. ASSUME NEW r \in Request, Txn(r) \/ Serve(r) \/ WaitTimeout(r) PROVE IndInv'
  BY <1>4, TxnIndInv, TxnCompareIndInv, TxnExecuteIndInv, PutAppendIndInv, TxnAppendIndInv,
     WaitCheckIndInv, WaitTimeoutIndInv DEF Serve
<1>. QED
  BY <1>1, <1>2, <1>3, <1>4, StutterIndInv DEF Next

LEMMA Invariance == Spec => []IndInv
<1>. QED
  BY InitIndInv, NextIndInv, PTL DEF Spec

-----------------------------------------------------------------------------
\* The variables have their types whatever the requests and leaders do.
THEOREM TypeCorrect == Spec => []TypeOK
<1>1. IndInv => TypeOK
  BY DEF IndInv
<1>. QED
  BY <1>1, Invariance, PTL

\* Put and Delete answer "applied" only when the store of their server has the entry at
\* their index.
THEOREM AnswersAfterApplication == Spec => []AppliedBeforeAnswer
<1>1. IndInv => AppliedBeforeAnswer
  BY DEF IndInv, Answered, AppliedBeforeAnswer
<1>. QED
  BY <1>1, Invariance, PTL

\* While leadership has not changed, what ended the wait of a Put or Delete is the
\* application of its own entry.
THEOREM AnswersOwnEntry == Spec => []AnswerIsOwn
<1>1. ASSUME IndInv, NEW r \in Request, answer[r] = "applied", epoch[r] = elections,
             at[r] = active
      PROVE  index[r] \in 1 .. Len(order) /\ order[index[r]].req = r
  <2>1. at[r] \in Server /\ index[r] # 0 /\ index[r] <= applied[at[r]]
    BY <1>1 DEF IndInv, Answered
  <2>2. applied[at[r]] <= Len(order)
    BY <1>1, <2>1 DEF IndInv, StoresReplayOrder
  <2>3. index[r] \in Nat /\ applied[at[r]] \in Nat /\ Len(order) \in Nat
    BY <1>1, <2>1, TypeFacts DEF IndInv
  <2>4. index[r] \in 1 .. Len(order)
    BY <2>1, <2>2, <2>3
  <2>5. log[active][index[r]].req = r
    BY <1>1, <2>1 DEF IndInv, EntryKept
  <2>6. active # None
    BY <1>1, <2>1, RequestsAssumption
  <2>7. log[active][index[r]] = order[index[r]]
    BY <1>1, <2>4, <2>6 DEF IndInv, LeaderHolds, Holds
  <2>. QED
    BY <2>4, <2>5, <2>7
<1>2. IndInv => AnswerIsOwn
  BY <1>1 DEF AnswerIsOwn
<1>. QED
  BY <1>2, Invariance, PTL

\* Every store is the replay of a prefix of one order.
THEOREM StoresAgree == Spec => []StoresReplayOrder
<1>1. IndInv => StoresReplayOrder
  BY DEF IndInv
<1>. QED
  BY <1>1, Invariance, PTL

\* The operations of a Txn are decided in the order of its branch, and never twice.
THEOREM TransactionsInOrder == Spec => []DecidedInOrder
<1>1. ASSUME IndInv, NEW i \in 1 .. Len(order), NEW j \in 1 .. Len(order), i < j,
             order[i].req = order[j].req
      PROVE  order[i].op < order[j].op
  <2>1. CASE active = None
    <3>1. Len(order) = 0
      BY <1>1, <2>1 DEF IndInv, LeaderHolds
    <3>. QED
      BY <1>1, <3>1
  <2>2. CASE active # None
    <3>1. /\ active \in Server /\ Len(order) \in Nat /\ Len(log[active]) \in Nat
          /\ Len(order) <= Len(log[active])
          /\ \A m \in 1 .. Len(order) : log[active][m] = order[m]
      BY <1>1, <2>2, TypeFacts DEF IndInv, LeaderHolds, Holds
    <3>2. i \in 1 .. Len(log[active]) /\ j \in 1 .. Len(log[active])
      BY <3>1
    <3>3. log[active][i] = order[i] /\ log[active][j] = order[j]
      BY <3>1
    <3>4. \A a, b \in 1 .. Len(log[active]) :
             a < b /\ log[active][a].req = log[active][b].req
               => log[active][a].op < log[active][b].op
      BY <1>1, <3>1 DEF IndInv, OpsInOrder
    <3>5. log[active][i].op < log[active][j].op
      BY <1>1, <3>2, <3>3, <3>4
    <3>. QED
      BY <3>3, <3>5
  <2>. QED
    BY <2>1, <2>2
<1>2. IndInv => DecidedInOrder
  BY <1>1 DEF DecidedInOrder
<1>. QED
  BY <1>2, Invariance, PTL
=============================================================================
