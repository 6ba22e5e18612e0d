-------------------------- MODULE MembershipProofs --------------------------
(***************************************************************************)
(* For every set of node IDs, any configuration and any entries of other   *)
(* leaders: a leader has the maps of all its peers, and peers_ is what the *)
(* changes say that were in the log when they were taken.                  *)
(***************************************************************************)
EXTENDS Membership, SequenceTheorems, FiniteSetTheorems, WellFoundedInduction, TLAPS

\* Who holds mu_ over several steps is where its program says.
HolderMatches ==
    /\ wpc \in {"commit", "take", "applying"} <=> mu = "worker"
    /\ hpc \in {"take", "applying"} <=> mu = "handler"
    /\ \A c \in Client : cpc[c] = "append" => mu = c

\* An answer is awaited from a node, and a request that proposes has chosen its change.
PlacesMatch ==
    /\ wpc = "reply" => visit \in NodeId
    /\ \A c \in Client : cpc[c] \in {"propose", "lock", "append"} => change[c] \in Change

Applying == wpc = "applying" \/ hpc = "applying"

\* The entries still to be applied are the ones that were taken at the next indices; where no
\* entry is left, the log had none.  Outside ApplyCommittedEntries everything taken is applied.
TakenPending ==
    /\ ~Applying => batch = <<>> /\ Len(passed) = last_applied
    /\ Applying =>
          /\ Len(passed) = IF target > last_applied THEN target ELSE last_applied
          /\ last_applied + Len(batch) <= Len(passed)
          /\ \A i \in 1 .. Len(batch) : passed[last_applied + i] = batch[i].value
          /\ \A i \in last_applied + Len(batch) + 1 .. Len(passed) : passed[i] = NoEntry

IndInv == /\ TypeOK /\ HolderMatches /\ PlacesMatch /\ TakenPending
          /\ PeersTracked /\ PeersReplayPassed /\ IsFiniteSet(peers)

-----------------------------------------------------------------------------
\* ApplyConfChange asks whether a removal leaves a majority.  It always does: the majority of
\* what remains is never more than what remains.
THEOREM RemovalNeverRefused == \A remaining \in Nat : ~LosesQuorum(remaining)
<1>. QED
  BY DEF LosesQuorum

\* A nonempty set of naturals has a least element.
LEMMA LeastOf ==
    ASSUME NEW S \in SUBSET Nat, S # {}
    PROVE  \E i \in S : \A j \in S : i <= j
<1>1. PICK i \in S : \A j \in S : ~(<<j, i>> \in OpToRel(<, Nat))
  BY NatLessThanWellFounded, WFMin
<1>2. ASSUME NEW j \in S PROVE i <= j \/ j < i
  OBVIOUS
<1>. QED
  BY <1>1, <1>2 DEF OpToRel

\* A loop over peers_ stands at a node or at the end.
LEMMA AfterType ==
    ASSUME peers \subseteq NodeId, NEW id \in NodeId \cup {kNoNodeId}
    PROVE  After(id) \in NodeId \cup {kNoNodeId}
<1>. DEFINE later == {p \in peers : p > id}
<1>1. CASE later = {}
  BY <1>1 DEF After
<1>2. CASE later # {}
  <2>1. later \in SUBSET Nat
    BY MembershipAssumption
  <2>2. \E p \in later : \A q \in later : p <= q
    BY <1>2, <2>1, LeastOf
  <2>3. After(id) \in later
    BY <1>2, <2>2 DEF After
  <2>. QED
    BY <2>3
<1>. QED
  BY <1>1, <1>2

-----------------------------------------------------------------------------
(* The last change about a node *)

\* A nonempty set of naturals below a bound has a greatest element.
LEMMA GreatestBelow ==
    ASSUME NEW S \in SUBSET Nat, NEW b \in Nat, S # {}, \A i \in S : i <= b
    PROVE  \E i \in S : \A j \in S : j <= i
<1>. DEFINE bounds == {m \in Nat : \A i \in S : i <= m}
<1>1. PICK m \in bounds : \A u \in bounds : ~(<<u, m>> \in OpToRel(<, Nat))
  BY NatLessThanWellFounded, WFMin
<1>2. ASSUME m \notin S PROVE m - 1 \in bounds
  <2>1. PICK i \in S : TRUE
    OBVIOUS
  <2>2. i <= m /\ i # m /\ i \in Nat /\ m \in Nat
    BY <1>2
  <2>3. m - 1 \in Nat
    BY <2>2
  <2>4. ASSUME NEW j \in S PROVE j <= m - 1
    BY <1>2
  <2>. QED
    BY <2>3, <2>4
<1>3. ASSUME m - 1 \in bounds PROVE FALSE
  <2>1. m - 1 \in Nat /\ m \in Nat /\ ~(m - 1 < m)
    BY <1>1, <1>3 DEF OpToRel
  <2>. QED
    BY <2>1
<1>. QED
  BY <1>1, <1>2, <1>3

\* Of a nonempty set of places the latest is the greatest.
LEMMA LatestIsGreatest ==
    ASSUME NEW places \in SUBSET Nat, NEW k \in Nat, places # {}, \A i \in places : i <= k
    PROVE  /\ Latest(places) \in places
           /\ \A j \in places : j <= Latest(places)
<1>1. \E i \in places : \A j \in places : j <= i
  BY GreatestBelow
<1>. QED
  BY <1>1 DEF Latest

LEMMA AboutPlaces ==
    ASSUME NEW l, NEW id, NEW k \in Nat
    PROVE  /\ About(l, id, k) \in SUBSET Nat
           /\ \A i \in About(l, id, k) : i \in 1 .. k /\ i <= k
<1>. QED
  BY DEF About

\* What a log says of its first k changes depends on these only.
LEMMA LastChangeKept ==
    ASSUME NEW l, NEW m, NEW id, NEW k \in Nat, \A i \in 1 .. k : l[i] = m[i]
    PROVE  LastChange(l, id, k) = LastChange(m, id, k)
<1>1. About(l, id, k) = About(m, id, k)
  BY DEF About
<1>2. CASE About(l, id, k) = {}
  BY <1>1, <1>2 DEF LastChange
<1>3. CASE About(l, id, k) # {}
  <2>1. Latest(About(l, id, k)) \in 1 .. k
    BY <1>3, LatestIsGreatest, AboutPlaces
  <2>. QED
    BY <1>1, <1>3, <2>1 DEF LastChange
<1>. QED
  BY <1>2, <1>3

\* One change more: it is the last about its node, and without a meaning for the others.
LEMMA LastChangeNext ==
    ASSUME NEW l, NEW id, NEW k \in Nat
    PROVE  LastChange(l, id, k + 1) =
             IF l[k + 1].node_id = id THEN l[k + 1].type ELSE LastChange(l, id, k)
<1>1. CASE l[k + 1].node_id = id
  <2>1. k + 1 \in About(l, id, k + 1) /\ k + 1 \in Nat
    BY <1>1 DEF About
  <2>2. /\ Latest(About(l, id, k + 1)) \in 1 .. k + 1
        /\ k + 1 <= Latest(About(l, id, k + 1))
    BY <2>1, LatestIsGreatest, AboutPlaces
  <2>3. Latest(About(l, id, k + 1)) = k + 1
    BY <2>2
  <2>. QED
    BY <1>1, <2>1, <2>3 DEF LastChange
<1>2. CASE l[k + 1].node_id # id
  <2>1. \A i \in 1 .. k + 1 : i = k + 1 \/ i \in 1 .. k
    OBVIOUS
  <2>2. About(l, id, k + 1) = About(l, id, k)
    BY <1>2, <2>1 DEF About
  <2>. QED
    BY <1>2, <2>2 DEF LastChange
<1>. QED
  BY <1>1, <1>2

\* Entries without a meaning for a node add nothing to what is said of it.
LEMMA LastChangeSkip ==
    ASSUME NEW l, NEW id, NEW a \in Nat, NEW b \in Nat, a <= b,
           \A i \in a + 1 .. b : l[i].node_id # id
    PROVE  LastChange(l, id, b) = LastChange(l, id, a)
<1>1. \A i \in 1 .. b : i \in 1 .. a \/ i \in a + 1 .. b
  OBVIOUS
<1>2. \A i \in 1 .. a : i \in 1 .. b
  OBVIOUS
<1>3. About(l, id, b) = About(l, id, a)
  BY <1>1, <1>2 DEF About
<1>. QED
  BY <1>3 DEF LastChange

-----------------------------------------------------------------------------
(* The log *)

LEMMA LogFacts ==
    ASSUME TypeOK
    PROVE  /\ log = [first |-> 1, entries |-> log.entries]
           /\ log.first = 1 /\ log.entries \in Seq(Entry) /\ Len(log.entries) \in Nat
           /\ LastIndex(log) \in Nat
           /\ LastIndexUnsafe(log) = LastIndex(log)
<1>1. log = [first |-> 1, entries |-> log.entries] /\ log.entries \in Seq(Entry) /\ log.first = 1
  BY DEF TypeOK
<1>2. CASE log.entries = <<>>
  BY <1>1, <1>2, EmptySeq DEF LastIndex, LastIndexUnsafe, kNoIndex
<1>3. CASE log.entries # <<>>
  <2>1. Len(log.entries) \in Nat \ {0}
    BY <1>1, <1>3, EmptySeq
  <2>2. log.entries[Len(log.entries)] \in Entry
    BY <1>1, <2>1, ElementOfSeq
  <2>. QED
    BY <1>1, <1>3, <2>1, <2>2 DEF LastIndex, LastIndexUnsafe, Entry, Index
<1>. QED
  BY <1>2, <1>3

\* The front of a log is a log.
LEMMA TruncateToType ==
    ASSUME TypeOK, NEW i \in Nat
    PROVE  TruncateTo(log, i) \in [first : {1}, entries : Seq(Entry)]
<1>1. log.first = 1 /\ log.entries \in Seq(Entry) /\ Len(log.entries) \in Nat
      /\ log = [first |-> 1, entries |-> log.entries]
  BY LogFacts
<1>2. CASE i < 1
  <2>1. i + 1 = 1
    BY <1>2
  <2>. QED
    BY <1>1, <1>2, <2>1, EmptySeq DEF TruncateTo
<1>3. CASE ~(i < 1) /\ i >= Len(log.entries)
  BY <1>1, <1>3 DEF TruncateTo, Offset
<1>4. CASE ~(i < 1) /\ ~(i >= Len(log.entries))
  <2>1. \A j \in 1 .. i : log.entries[j] \in Entry
    BY <1>1, <1>4, ElementOfSeq
  <2>2. SubSeq(log.entries, 1, i) \in Seq(Entry)
    BY <2>1, SubSeqProperties
  <2>3. Offset(log, i) = i
    BY <1>1 DEF Offset
  <2>4. TruncateTo(log, i) = [first |-> 1, entries |-> SubSeq(log.entries, 1, i)]
    BY <1>1, <1>4, <2>3 DEF TruncateTo
  <2>. QED
    BY <2>2, <2>4
<1>. QED
  BY <1>2, <1>3, <1>4

\* A batch is taken whole or dropped.
LEMMA AppendBatchType ==
    ASSUME TypeOK, NEW es \in Seq(Entry)
    PROVE  AppendBatch(log, es) \in [first : {1}, entries : Seq(Entry)]
<1>1. log.entries \in Seq(Entry) /\ log = [first |-> 1, entries |-> log.entries]
  BY LogFacts
<1>2. log.entries \o es \in Seq(Entry)
  BY <1>1, ConcatProperties
<1>3. \A more : [log EXCEPT !.entries = more] = [first |-> 1, entries |-> more]
  BY <1>1
<1>4. CASE es = <<>> \/ es[1].index # AppendExpects(log)
  BY <1>4 DEF AppendBatch, TypeOK
<1>5. CASE ~(es = <<>> \/ es[1].index # AppendExpects(log))
  BY <1>2, <1>3, <1>5 DEF AppendBatch
<1>. QED
  BY <1>4, <1>5

LEMMA AppendEntryType ==
    ASSUME TypeOK, NEW e \in Entry
    PROVE  AppendEntry(log, e) \in [first : {1}, entries : Seq(Entry)]
<1>1. log.entries \in Seq(Entry) /\ log = [first |-> 1, entries |-> log.entries]
  BY LogFacts
<1>2. Append(log.entries, e) \in Seq(Entry)
  BY <1>1, AppendProperties
<1>3. AppendEntry(log, e) = [first |-> 1, entries |-> Append(log.entries, e)]
  BY <1>1 DEF AppendEntry
<1>. QED
  BY <1>2, <1>3

LEMMA BatchType ==
    ASSUME NEW first, NEW es \in Batches(first)
    PROVE  es \in Seq(Entry)
<1>1. PICK n \in 1 .. MaxEntriesPerMsg :
          es \in [1 .. n -> [index : 1 .. MaxIndex, value : Change]]
  BY DEF Batches
<1>2. n \in Nat
  BY <1>1, MembershipAssumption
<1>3. [index : 1 .. MaxIndex, value : Change] \subseteq Entry
  BY MembershipAssumption DEF Entry, Index
<1>4. es \in [1 .. n -> Entry]
  BY <1>1, <1>3
<1>. QED
  BY <1>2, <1>4, SeqDef

\* What ApplyCommittedEntries takes: the entries from the one after the last applied to the one
\* committed, as far as the log goes.
LEMMA TakenEntries ==
    ASSUME TypeOK, NEW a \in Nat, NEW k \in Nat
    PROVE  LET taken == Slice(log, a + 1, k + 1) IN
           /\ taken \in Seq(Entry) /\ Len(taken) \in Nat
           /\ a + Len(taken) <= IF k > a THEN k ELSE a
           /\ \A i \in 1 .. Len(taken) : taken[i].value = Held(a + i)
           /\ \A i \in a + Len(taken) + 1 .. k : Held(i) = NoEntry
<1>. DEFINE taken == Slice(log, a + 1, k + 1)
            to    == LesserOf(k + 1, LastIndex(log) + 1)
            last  == LesserOf(to - 1, Len(log.entries))
<1>1. /\ log.first = 1 /\ log.entries \in Seq(Entry) /\ Len(log.entries) \in Nat
      /\ LastIndex(log) \in Nat /\ LastIndexUnsafe(log) = LastIndex(log)
  BY LogFacts
<1>2. /\ to \in Nat /\ to >= 1 /\ to - 1 <= k /\ to - 1 <= LastIndex(log)
      /\ to = k + 1 \/ to = LastIndex(log) + 1
  BY <1>1 DEF LesserOf
<1>3. /\ last \in Nat /\ last <= to - 1 /\ last <= Len(log.entries)
      /\ last = to - 1 \/ last = Len(log.entries)
  <2>. HIDE DEF to
  <2>. QED
    BY <1>1, <1>2 DEF LesserOf
<1>4. taken = IF a + 1 >= to THEN <<>> ELSE SubSeq(log.entries, a + 1, last)
  <2>1. AtLeastFirst(log, a + 1) = a + 1
    BY <1>1 DEF AtLeastFirst
  <2>2. Offset(log, a + 1) = a + 1 /\ Offset(log, to) = to
    <3>. HIDE DEF to
    <3>. QED
      BY <1>1, <1>2 DEF Offset
  <2>. QED
    BY <1>1, <2>1, <2>2 DEF Slice
<1>. HIDE DEF taken, to, last
<1>5. \A i \in last + 1 .. k : Held(i) = NoEntry
  <2>. TAKE i \in last + 1 .. k
  <2>1. i > Len(log.entries) \/ i > LastIndex(log)
    BY <1>1, <1>2, <1>3
  <2>. QED
    BY <1>1, <2>1 DEF Held
<1>6. CASE a >= last
  <2>1. taken = <<>>
    <3>1. CASE a + 1 >= to
      BY <1>4, <3>1
    <3>2. CASE ~(a + 1 >= to)
      BY <1>3, <1>4, <1>6, <3>2, SubSeqEmpty
    <3>. QED
      BY <3>1, <3>2
  <2>2. taken \in Seq(Entry) /\ Len(taken) = 0
    BY <2>1, EmptySeq
  <2>3. \A i \in a + 0 + 1 .. k : i \in last + 1 .. k
    BY <1>3, <1>6
  <2>4. \A i \in a + Len(taken) + 1 .. k : Held(i) = NoEntry
    BY <1>5, <2>2, <2>3
  <2>. QED
    BY <2>2, <2>4 DEF taken
<1>7. CASE a < last
  <2>1. taken = SubSeq(log.entries, a + 1, last)
    BY <1>2, <1>3, <1>4, <1>7
  <2>2. \A i \in a + 1 .. last : log.entries[i] \in Entry
    BY <1>1, <1>3, ElementOfSeq
  <2>3. /\ taken \in Seq(Entry)
        /\ Len(taken) = IF a + 1 <= last THEN last - (a + 1) + 1 ELSE 0
        /\ \A i \in 1 .. last - (a + 1) + 1 : taken[i] = log.entries[a + 1 + i - 1]
    BY <1>3, <2>1, <2>2, SubSeqProperties
  <2>4. Len(taken) = last - a /\ Len(taken) \in Nat /\ last - (a + 1) + 1 = last - a
    BY <1>3, <1>7, <2>3
  <2>5. ASSUME NEW i \in 1 .. Len(taken) PROVE taken[i].value = Held(a + i)
    <3>1. i \in 1 .. last - (a + 1) + 1 /\ a + 1 + i - 1 = a + i
      BY <2>4
    <3>2. a + i <= Len(log.entries) /\ a + i <= LastIndex(log)
      BY <1>1, <1>2, <1>3, <2>4
    <3>. QED
      BY <2>3, <3>1, <3>2 DEF Held
  <2>6. a + Len(taken) = last /\ last <= k
    BY <1>2, <1>3, <2>4
  <2>7. \A i \in a + Len(taken) + 1 .. k : Held(i) = NoEntry
    BY <1>5, <2>6
  <2>8. a + Len(taken) <= IF k > a THEN k ELSE a
    BY <1>3, <1>7, <2>6
  <2>. QED
    BY <2>3, <2>4, <2>5, <2>7, <2>8 DEF taken
<1>. QED
  BY <1>3, <1>6, <1>7

-----------------------------------------------------------------------------
(* What the actions leave alone *)

LEMMA TypeFacts ==
    ASSUME TypeOK
    PROVE  /\ batch \in Seq(Entry) /\ Len(batch) \in Nat
           /\ passed \in Seq(Change \cup {NoEntry}) /\ Len(passed) \in Nat
           /\ commit_index \in Nat /\ target \in Nat
           /\ last_applied \in Nat /\ last_applied <= Len(passed)
           /\ peers \subseteq NodeId /\ tracked \subseteq NodeId /\ counted \subseteq NodeId
<1>. QED
  BY DEF TypeOK

\* Whoever keeps the members, what was taken and what is applied keeps their agreement.
LEMMA ReplayKept ==
    ASSUME IndInv, UNCHANGED <<peers, passed, last_applied>>
    PROVE  PeersReplayPassed' /\ IsFiniteSet(peers)'
<1>. QED
  BY DEF IndInv, PeersReplayPassed, LastChange, About, Latest

\* The steps outside ApplyCommittedEntries change state_, the maps, the log, the commit index and
\* the places in the programs at most.
LEMMA RestKept ==
    ASSUME IndInv, UNCHANGED <<peers, last_applied, batch, passed>>,
           Applying' = Applying, Applying => target' = target,
           TypeOK', HolderMatches', PlacesMatch', PeersTracked'
    PROVE  IndInv'
<1>1. PeersReplayPassed' /\ IsFiniteSet(peers)'
  BY ReplayKept
<1>2. TakenPending'
  <2>1. CASE Applying
    BY <2>1 DEF IndInv, TakenPending, NoEntry
  <2>2. CASE ~Applying
    BY <2>2 DEF IndInv, TakenPending
  <2>. QED
    BY <2>1, <2>2
<1>. QED
  BY <1>1, <1>2 DEF IndInv

-----------------------------------------------------------------------------
LEMMA InitIndInv == Init => IndInv
<1>. SUFFICES ASSUME Init PROVE IndInv
  OBVIOUS
<1>1. TypeOK
  BY MembershipAssumption, EmptySeq DEF Init, TypeOK, Thread, EmptyLog
<1>2. HolderMatches /\ PlacesMatch /\ PeersTracked
  BY MembershipAssumption DEF Init, HolderMatches, PlacesMatch, PeersTracked, Thread
<1>3. TakenPending
  BY DEF Init, TakenPending, Applying
<1>4. PeersReplayPassed
  <2>1. \A id : LastChange(passed, id, 0) = IF id \in Config THEN "AddNode" ELSE "RemoveNode"
    BY DEF LastChange, About
  <2>. QED
    BY <2>1 DEF Init, PeersReplayPassed
<1>5. IsFiniteSet(peers)
  BY MembershipAssumption DEF Init
<1>. QED
  BY <1>1, <1>2, <1>3, <1>4, <1>5 DEF IndInv
-----------------------------------------------------------------------------
(* The worker and the handler outside ApplyCommittedEntries *)

\* The worker's steps in Run, StartElection and BroadcastHeartbeat.
LEMMA WorkerIndInv ==
    ASSUME IndInv,
           \/ BecomeCandidate \/ StartElection \/ BroadcastHeartbeat \/ SendRequestVote
           \/ BecomeFollower \/ BecomeLeader \/ LoseElection \/ SendAppendEntries \/ AppendReply
           \/ EndBroadcast
    PROVE  IndInv'
<1>. USE DEF IndInv
<1>1. \A id \in NodeId \cup {kNoNodeId} : After(id) \in NodeId \cup {kNoNodeId}
  BY TypeFacts, AfterType
<1>2. visit \in NodeId \cup {kNoNodeId} /\ (Advance => visit' \in NodeId \cup {kNoNodeId})
  BY <1>1 DEF Advance, TypeOK
<1>3. UNCHANGED <<peers, log, commit_index, last_applied, mu, target, batch, passed, hpc, request,
                  cpc, change, granted>>
  BY DEF BecomeCandidate, StartElection, BroadcastHeartbeat, SendRequestVote, BecomeFollower,
         BecomeLeader, LoseElection, SendAppendEntries, AppendReply, EndBroadcast, restVars,
         logVars, lockVars, handlerVars, clientVars
<1>4. /\ state' \in {"Follower", "Candidate", "Leader"}
      /\ visit' \in NodeId \cup {kNoNodeId}
      /\ \/ wpc' = wpc
         \/ /\ wpc' \in {"loop", "vote", "elected", "heartbeat", "reply", "advance", "apply"}
            /\ wpc \notin {"commit", "take", "applying"}
      /\ wpc' = "reply" => visit' \in NodeId
  <2>1. state \in {"Follower", "Candidate", "Leader"}
    BY DEF TypeOK
  <2>2. CASE BecomeCandidate
    BY <1>2, <2>1, <2>2 DEF BecomeCandidate, workerVars
  <2>3. CASE StartElection \/ BroadcastHeartbeat
    BY <1>1, <2>1, <2>3 DEF StartElection, BroadcastHeartbeat
  <2>4. CASE SendRequestVote
    BY <1>2, <2>1, <2>4 DEF SendRequestVote
  <2>5. CASE BecomeFollower
    BY <2>5 DEF BecomeFollower
  <2>6. CASE BecomeLeader \/ LoseElection
    BY <1>2, <2>1, <2>6 DEF BecomeLeader, LoseElection
  <2>7. CASE SendAppendEntries
    BY <1>2, <2>1, <2>7 DEF SendAppendEntries
  <2>8. CASE AppendReply
    BY <1>2, <2>1, <2>8 DEF AppendReply
  <2>9. CASE EndBroadcast
    BY <1>2, <2>1, <2>9 DEF EndBroadcast
  <2>. QED
    BY <2>2, <2>3, <2>4, <2>5, <2>6, <2>7, <2>8, <2>9
<1>5. tracked' \subseteq NodeId /\ counted' \subseteq NodeId /\ PeersTracked'
  <2>1. /\ peers \subseteq NodeId /\ tracked \subseteq NodeId /\ counted \subseteq NodeId
        /\ PeersTracked
    BY TypeFacts
  <2>2. \/ tracked' = peers /\ counted' = peers
        \/ /\ \/ tracked' = tracked
              \/ visit \in NodeId /\ tracked' = tracked \cup {visit}
           /\ \/ counted' = counted
              \/ visit \in NodeId /\ counted' = counted \cup {visit}
           /\ state' = "Leader" => state = "Leader"
    <3>1. wpc = "reply" => visit \in NodeId
      BY DEF PlacesMatch
    <3>2. CASE BecomeLeader
      BY <3>2 DEF BecomeLeader, BecomeLeaderLocked
    <3>3. CASE SendAppendEntries
      BY <1>2, <3>3 DEF SendAppendEntries
    <3>4. CASE AppendReply
      <4>1. wpc = "reply" /\ state' = state
        BY <3>4 DEF AppendReply
      <4>2. \/ tracked' = tracked \cup {visit} /\ counted' = counted \cup {visit}
            \/ tracked' = tracked /\ counted' = counted \cup {visit}
            \/ tracked' = tracked \cup {visit} /\ counted' = counted
        BY <3>4 DEF AppendReply
      <4>. QED
        BY <3>1, <4>1, <4>2
    <3>5. CASE ~(BecomeLeader \/ SendAppendEntries \/ AppendReply)
      BY <3>5 DEF BecomeCandidate, StartElection, BroadcastHeartbeat, SendRequestVote,
                  BecomeFollower, LoseElection, EndBroadcast, mapVars
    <3>. QED
      BY <3>2, <3>3, <3>4, <3>5
  <2>. QED
    BY <1>3, <2>1, <2>2 DEF PeersTracked
<1>6. TypeOK'
  BY <1>3, <1>4, <1>5 DEF TypeOK
<1>7. HolderMatches' /\ PlacesMatch' /\ Applying' = Applying
  <2>1. HolderMatches'
    BY <1>3, <1>4 DEF HolderMatches
  <2>2. PlacesMatch'
    <3>1. wpc' = "reply" => visit' \in NodeId
      BY <1>4
    <3>. QED
      BY <1>3, <3>1 DEF PlacesMatch
  <2>3. Applying' = Applying
    BY <1>3, <1>4 DEF Applying
  <2>. QED
    BY <2>1, <2>2, <2>3
<1>. QED
  BY <1>3, <1>5, <1>6, <1>7, RestKept

\* The commit index is chosen, then assigned, under mu_.
LEMMA CommitIndexIndInv ==
    ASSUME IndInv, AdvanceCommitIndex \/ RaiseCommitIndex
    PROVE  IndInv'
<1>. USE DEF IndInv
<1>1. UNCHANGED <<state, peers, tracked, counted, log, last_applied, batch, passed, visit, hpc,
                  request, cpc, change, granted>>
  BY DEF AdvanceCommitIndex, RaiseCommitIndex, mapVars, logVars, handlerVars, clientVars
<1>2. target \in Nat /\ commit_index \in Nat /\ Len(log.entries) \in Nat
  BY TypeFacts, LogFacts
<1>3. /\ wpc \in {"advance", "commit"} /\ wpc' \in {"commit", "apply"}
      /\ target' \in Nat /\ commit_index' \in Nat
      /\ mu = IF wpc = "commit" THEN "worker" ELSE None
      /\ mu' = IF wpc' = "commit" THEN "worker" ELSE None
  <2>1. CASE AdvanceCommitIndex
    BY <1>2, <2>1 DEF AdvanceCommitIndex, logVars
  <2>2. CASE RaiseCommitIndex
    BY <1>2, <2>2 DEF RaiseCommitIndex, HolderMatches
  <2>. QED
    BY <2>1, <2>2
<1>4. ~Applying /\ ~Applying'
  BY <1>1, <1>3, MembershipAssumption DEF HolderMatches, Applying, Thread
<1>5. TypeOK'
  BY <1>1, <1>3 DEF TypeOK, Thread
<1>6. HolderMatches'
  <2>1. \A c \in Client : cpc[c] # "append"
    BY <1>3, MembershipAssumption DEF HolderMatches, Thread
  <2>2. hpc \notin {"take", "applying"} /\ mu' # "handler"
    BY <1>3, MembershipAssumption DEF HolderMatches, Thread
  <2>3. wpc' \in {"commit", "take", "applying"} <=> mu' = "worker"
    BY <1>3, MembershipAssumption DEF Thread
  <2>. QED
    BY <1>1, <2>1, <2>2, <2>3 DEF HolderMatches
<1>7. PlacesMatch' /\ PeersTracked'
  BY <1>1, <1>3 DEF PlacesMatch, PeersTracked
<1>8. Applying' = Applying
  BY <1>4 DEF Applying
<1>. QED
  BY <1>1, <1>4, <1>5, <1>6, <1>7, <1>8, RestKept

\* The handler steps down, writes the log and assigns the commit index, without mu_ but for the
\* first.
LEMMA HandlerIndInv ==
    ASSUME IndInv,
           \/ StepDown \/ Truncate \/ StoreEntries \/ CompareCommit \/ LimitCommit
           \/ AssignCommit
    PROVE  IndInv'
<1>. USE DEF IndInv
<1>1. /\ UNCHANGED <<peers, tracked, counted, last_applied, mu, target, batch, passed, wpc,
                     visit, cpc, change, granted>>
      /\ state' = state \/ state' = "Follower"
  BY DEF StepDown, Truncate, StoreEntries, CompareCommit, LimitCommit, AssignCommit,
         nonHandlerVars, mapVars, logVars, lockVars, workerVars, clientVars
<1>2. /\ hpc \in {"idle", "store", "append", "compare", "limit", "assign"}
      /\ hpc' \in {"idle", "store", "append", "compare", "limit", "assign", "apply"}
  BY DEF StepDown, Truncate, StoreEntries, CompareCommit, LimitCommit, AssignCommit
<1>3. request \in Nat /\ commit_index \in Nat /\ LastIndex(log) \in Nat
  BY TypeFacts, LogFacts DEF TypeOK
<1>4. log' \in [first : {1}, entries : Seq(Entry)]
  <2>1. CASE Truncate
    <3>1. PICK first \in 1 .. MaxIndex : log' = TruncateTo(log, first - 1)
      BY <2>1 DEF Truncate
    <3>2. first - 1 \in Nat
      BY MembershipAssumption
    <3>. QED
      BY <3>1, <3>2, TruncateToType
  <2>2. CASE StoreEntries
    BY <2>2, BatchType, AppendBatchType DEF StoreEntries
  <2>3. CASE ~Truncate /\ ~StoreEntries
    BY <2>3 DEF TypeOK, StepDown, CompareCommit, LimitCommit, AssignCommit, logVars
  <2>. QED
    BY <2>1, <2>2, <2>3
<1>5. request' \in Nat /\ commit_index' \in Nat
  <2>1. LesserOf(request, LastIndex(log)) \in Nat
    BY <1>3 DEF LesserOf
  <2>2. MaxIndex \in Nat
    BY MembershipAssumption
  <2>. QED
    BY <1>3, <2>1, <2>2 DEF StepDown, Truncate, StoreEntries, CompareCommit, LimitCommit,
                            AssignCommit, logVars
<1>6. TypeOK'
  BY <1>1, <1>2, <1>4, <1>5 DEF TypeOK
<1>7. PlacesMatch' /\ PeersTracked'
  BY <1>1 DEF PlacesMatch, PeersTracked
<1>8. HolderMatches'
  BY <1>1, <1>2 DEF HolderMatches
<1>9. Applying' = Applying
  BY <1>1, <1>2 DEF Applying
<1>. QED
  BY <1>1, <1>6, <1>7, <1>8, <1>9, RestKept
-----------------------------------------------------------------------------
(* ApplyCommittedEntries *)

\* mu_ is taken.
LEMMA LockIndInv ==
    ASSUME IndInv, WorkerLock \/ HandlerLock
    PROVE  IndInv'
<1>. USE DEF IndInv
<1>1. /\ mu = None /\ target' = commit_index
      /\ UNCHANGED <<state, peers, tracked, counted, log, commit_index, last_applied, batch,
                     passed, visit, request, cpc, change, granted>>
  BY DEF WorkerLock, HandlerLock, Lock, workerVars, handlerVars, clientVars, logVars
<1>2. \/ wpc = "apply" /\ wpc' = "take" /\ mu' = "worker" /\ hpc' = hpc
      \/ hpc = "apply" /\ hpc' = "take" /\ mu' = "handler" /\ wpc' = wpc
  BY DEF WorkerLock, HandlerLock, Lock, workerVars, handlerVars
<1>3. /\ wpc \notin {"commit", "take", "applying"} /\ hpc \notin {"take", "applying"}
      /\ \A c \in Client : cpc[c] # "append"
  BY <1>1, MembershipAssumption DEF HolderMatches, Thread
<1>4. ~Applying /\ ~Applying'
  BY <1>2, <1>3 DEF Applying
<1>5. TypeOK'
  BY <1>1, <1>2 DEF TypeOK, Thread
<1>6. HolderMatches'
  BY <1>1, <1>2, <1>3 DEF HolderMatches
<1>7. PlacesMatch' /\ PeersTracked'
  BY <1>1, <1>2 DEF PlacesMatch, PeersTracked
<1>8. Applying' = Applying
  BY <1>4 DEF Applying
<1>. QED
  BY <1>1, <1>4, <1>5, <1>6, <1>7, <1>8, RestKept

\* The entries are taken, and passed goes as far as the commit index that was read.
LEMMA TakeIndInv ==
    ASSUME IndInv, WorkerTake \/ HandlerTake
    PROVE  IndInv'
<1>. USE DEF IndInv
<1>1. /\ batch' = Slice(log, last_applied + 1, target + 1)
      /\ passed' = passed \o [k \in 1 .. target - last_applied |-> Held(last_applied + k)]
      /\ UNCHANGED <<state, peers, tracked, counted, log, commit_index, last_applied, mu, target,
                     visit, request, cpc, change, granted>>
  BY DEF WorkerTake, HandlerTake, TakeEntries, Unapplied, workerVars, handlerVars, clientVars,
         logVars
<1>2. \/ wpc = "take" /\ wpc' = "applying" /\ hpc' = hpc
      \/ hpc = "take" /\ hpc' = "applying" /\ wpc' = wpc
  BY DEF WorkerTake, HandlerTake, workerVars, handlerVars
<1>3. ~Applying /\ Applying'
  BY <1>2, MembershipAssumption DEF HolderMatches, Applying, Thread
<1>4. /\ passed \in Seq(Change \cup {NoEntry}) /\ Len(passed) = last_applied
      /\ last_applied \in Nat /\ target \in Nat
  BY <1>3, TypeFacts DEF TakenPending
<1>. DEFINE n    == IF target > last_applied THEN target - last_applied ELSE 0
            more == [k \in 1 .. target - last_applied |-> Held(last_applied + k)]
<1>5. n \in Nat
  BY <1>4
<1>15. 1 .. target - last_applied = 1 .. n
  BY <1>4
<1>6. \A i \in 1 .. n : Held(last_applied + i) \in Change \cup {NoEntry}
  <2>. TAKE i \in 1 .. n
  <2>1. ASSUME last_applied + i <= Len(log.entries)
        PROVE  log.entries[last_applied + i].value \in Change
    <3>1. log.entries \in Seq(Entry) /\ last_applied + i \in 1 .. Len(log.entries)
      BY <1>4, <1>5, <2>1, LogFacts
    <3>2. log.entries[last_applied + i] \in Entry
      BY <3>1, ElementOfSeq
    <3>. QED
      BY <3>2 DEF Entry
  <2>. QED
    BY <2>1 DEF Held
<1>7. /\ more \in Seq(Change \cup {NoEntry}) /\ Len(more) = n
      /\ \A i \in 1 .. n : more[i] = Held(last_applied + i)
  <2>1. more \in [1 .. n -> Change \cup {NoEntry}]
    BY <1>6, <1>15
  <2>2. more \in Seq(Change \cup {NoEntry})
    BY <1>5, <2>1, SeqDef
  <2>3. Len(more) = n
    <3>. HIDE DEF more, n
    <3>1. Len(more) \in Nat /\ 1 .. Len(more) = 1 .. n
      BY <2>1, <2>2, LenProperties
    <3>2. \A a, b \in Nat : 1 .. a = 1 .. b => ~(a < b)
      <4>1. \A a, b \in Nat : a < b => b \in 1 .. b /\ b \notin 1 .. a
        OBVIOUS
      <4>. QED
        BY <4>1
    <3>. QED
      BY <1>5, <3>1, <3>2
  <2>. QED
    BY <1>15, <2>2, <2>3
<1>. HIDE DEF more
<1>8. /\ passed' \in Seq(Change \cup {NoEntry}) /\ Len(passed') = last_applied + n
      /\ \A i \in 1 .. last_applied : passed'[i] = passed[i]
      /\ \A i \in 1 .. n : passed'[last_applied + i] = Held(last_applied + i)
  <2>1. passed' = passed \o more
    BY <1>1 DEF more
  <2>. HIDE DEF n
  <2>2. /\ passed \o more \in Seq(Change \cup {NoEntry})
        /\ Len(passed \o more) = Len(passed) + Len(more)
        /\ \A i \in 1 .. Len(passed) + Len(more) :
              (passed \o more)[i] = IF i <= Len(passed) THEN passed[i] ELSE more[i - Len(passed)]
    BY <1>4, <1>7, ConcatProperties
  <2>3. ASSUME NEW i \in 1 .. n PROVE passed'[last_applied + i] = Held(last_applied + i)
    <3>. DEFINE j == last_applied + i
    <3>1. j \in 1 .. Len(passed) + Len(more) /\ ~(j <= Len(passed)) /\ j - Len(passed) = i
      BY <1>4, <1>5, <1>7
    <3>2. (passed \o more)[j] = more[i]
      <4>. HIDE DEF j
      <4>. QED
        BY <2>2, <3>1
    <3>. QED
      BY <1>7, <2>1, <3>2
  <2>4. ASSUME NEW i \in 1 .. last_applied PROVE passed'[i] = passed[i]
    <3>1. i \in 1 .. Len(passed) + Len(more) /\ i <= Len(passed)
      BY <1>4, <1>5, <1>7
    <3>. QED
      BY <2>1, <2>2, <3>1
  <2>. QED
    BY <1>4, <1>7, <2>1, <2>2, <2>3, <2>4
<1>9. /\ batch' \in Seq(Entry) /\ Len(batch') \in Nat
      /\ last_applied + Len(batch') <= last_applied + n
      /\ \A i \in 1 .. Len(batch') : batch'[i].value = Held(last_applied + i)
      /\ \A i \in last_applied + Len(batch') + 1 .. target : Held(i) = NoEntry
  <2>1. LET taken == Slice(log, last_applied + 1, target + 1) IN
        /\ taken \in Seq(Entry) /\ Len(taken) \in Nat
        /\ last_applied + Len(taken) <= IF target > last_applied THEN target ELSE last_applied
        /\ \A i \in 1 .. Len(taken) : taken[i].value = Held(last_applied + i)
        /\ \A i \in last_applied + Len(taken) + 1 .. target : Held(i) = NoEntry
    BY <1>4, TakenEntries
  <2>2. (IF target > last_applied THEN target ELSE last_applied) = last_applied + n
    BY <1>4
  <2>. HIDE DEF n
  <2>. QED
    BY <1>1, <2>1, <2>2
<1>10. TakenPending'
  <2>1. last_applied + n = IF target > last_applied THEN target ELSE last_applied
    BY <1>4
  <2>. HIDE DEF n
  <2>2. ASSUME NEW i \in 1 .. Len(batch') PROVE passed'[last_applied + i] = batch'[i].value
    <3>1. i \in 1 .. n
      BY <1>4, <1>5, <1>9
    <3>. QED
      BY <1>8, <1>9, <3>1
  <2>3. ASSUME NEW i \in last_applied + Len(batch') + 1 .. Len(passed') PROVE passed'[i] = NoEntry
    <3>1. /\ i - last_applied \in 1 .. n /\ last_applied + (i - last_applied) = i
          /\ i \in last_applied + Len(batch') + 1 .. target
      BY <1>4, <1>5, <1>8, <1>9, <2>1
    <3>. QED
      BY <1>8, <1>9, <3>1
  <2>. QED
    BY <1>1, <1>3, <1>8, <1>9, <2>1, <2>2, <2>3 DEF TakenPending, NoEntry
<1>11. PeersReplayPassed'
  <2>1. \A id \in NodeId : LastChange(passed', id, last_applied) = LastChange(passed, id, last_applied)
    BY <1>4, <1>8, LastChangeKept
  <2>2. \A id \in NodeId \ {Self} :
            id \in peers' <=> LastChange(passed', id, last_applied') = "AddNode"
    BY <1>1, <2>1 DEF PeersReplayPassed
  <2>. QED
    BY <2>2 DEF PeersReplayPassed
<1>12. TypeOK'
  <2>. HIDE DEF n
  <2>1. last_applied' = last_applied
    BY <1>1
  <2>2. last_applied' \in 0 .. Len(passed')
    BY <1>4, <1>5, <1>8, <2>1
  <2>. QED
    BY <1>1, <1>2, <1>8, <1>9, <2>2 DEF TypeOK, NoEntry
<1>13. HolderMatches'
  BY <1>1, <1>2 DEF HolderMatches
<1>14. PlacesMatch' /\ PeersTracked' /\ IsFiniteSet(peers)'
  BY <1>1, <1>2 DEF PlacesMatch, PeersTracked
<1>. QED
  BY <1>10, <1>11, <1>12, <1>13, <1>14

\* last_applied_ goes to the commit index that was read, over the indices that had no entry.
LEMMA UnlockIndInv ==
    ASSUME IndInv, WorkerUnlock \/ HandlerUnlock
    PROVE  IndInv'
<1>. USE DEF IndInv
<1>1. /\ batch = <<>> /\ mu' = None /\ target' = 0
      /\ last_applied' = IF target > last_applied THEN target ELSE last_applied
      /\ UNCHANGED <<state, peers, tracked, counted, log, commit_index, batch, passed, visit,
                     request, cpc, change, granted>>
  BY DEF WorkerUnlock, HandlerUnlock, Unlock, workerVars, handlerVars, clientVars
<1>2. \/ wpc = "applying" /\ wpc' = "loop" /\ mu = "worker" /\ hpc' = hpc
      \/ hpc = "applying" /\ hpc' = "idle" /\ mu = "handler" /\ wpc' = wpc
  BY DEF WorkerUnlock, HandlerUnlock, Unlock, workerVars, handlerVars
<1>3. Applying
  BY <1>2 DEF Applying
<1>4. wpc' \notin {"commit", "take", "applying"} /\ hpc' \notin {"take", "applying"}
  BY <1>2 DEF HolderMatches
<1>5. /\ last_applied \in Nat /\ target \in Nat /\ Len(passed) \in Nat
      /\ last_applied' = Len(passed) /\ last_applied <= Len(passed)
      /\ \A i \in last_applied + 1 .. Len(passed) : passed[i] = NoEntry
  <2>1. Len(batch) = 0
    BY <1>1, EmptySeq
  <2>2. /\ Len(passed) = IF target > last_applied THEN target ELSE last_applied
        /\ \A i \in last_applied + Len(batch) + 1 .. Len(passed) : passed[i] = NoEntry
    BY <1>3 DEF TakenPending
  <2>3. last_applied + Len(batch) + 1 = last_applied + 1
    BY <2>1, TypeFacts
  <2>. QED
    BY <1>1, <2>2, <2>3, TypeFacts
<1>6. TakenPending'
  BY <1>1, <1>4, <1>5 DEF TakenPending, Applying
<1>7. PeersReplayPassed'
  <2>1. \A id \in NodeId : \A i \in last_applied + 1 .. Len(passed) : passed[i].node_id # id
    BY <1>5, MembershipAssumption DEF NoEntry
  <2>2. \A id \in NodeId : LastChange(passed, id, Len(passed)) = LastChange(passed, id, last_applied)
    BY <1>5, <2>1, LastChangeSkip
  <2>3. \A id \in NodeId \ {Self} :
            id \in peers' <=> LastChange(passed', id, last_applied') = "AddNode"
    BY <1>1, <1>5, <2>2 DEF PeersReplayPassed
  <2>. QED
    BY <2>3 DEF PeersReplayPassed
<1>8. TypeOK'
  <2>1. last_applied' \in 0 .. Len(passed')
    BY <1>1, <1>5
  <2>. QED
    BY <1>1, <1>2, <2>1 DEF TypeOK
<1>9. HolderMatches'
  <2>1. \A c \in Client : cpc[c] # "append"
    BY <1>2, MembershipAssumption DEF HolderMatches, Thread
  <2>2. mu' # "worker" /\ mu' # "handler"
    BY <1>1, MembershipAssumption DEF Thread
  <2>. QED
    BY <1>1, <1>4, <2>1, <2>2 DEF HolderMatches
<1>10. PlacesMatch' /\ PeersTracked' /\ IsFiniteSet(peers)'
  BY <1>1, <1>2 DEF PlacesMatch, PeersTracked
<1>. QED
  BY <1>6, <1>7, <1>8, <1>9, <1>10

\* What an entry does to peers_ and to the maps.
LEMMA ChangeEffect ==
    ASSUME IndInv, NEW cc \in Change,
           \/ cc.type = "AddNode" /\ AddNode(cc.node_id)
           \/ cc.type = "RemoveNode" /\ RemoveNode(cc.node_id)
           \/ cc.type = "Put" /\ UNCHANGED <<peers, tracked, counted>>,
           state' = state
    PROVE  /\ peers' \subseteq NodeId /\ tracked' \subseteq NodeId /\ counted' \subseteq NodeId
           /\ IsFiniteSet(peers')
           /\ PeersTracked'
           /\ \A id \in NodeId \ {Self} :
                 id \in peers' <=> IF cc.node_id = id THEN cc.type = "AddNode" ELSE id \in peers
<1>1. /\ cc.type \in {"AddNode", "RemoveNode"} => cc.node_id \in NodeId
      /\ cc.type = "Put" => cc.node_id \notin NodeId
      /\ peers \subseteq NodeId /\ tracked \subseteq NodeId /\ counted \subseteq NodeId
      /\ IsFiniteSet(peers)
      /\ state = "Leader" => peers \subseteq tracked /\ peers \subseteq counted
  <2>1. CASE cc \in ConfChange
    BY <2>1, TypeFacts DEF IndInv, ConfChange, PeersTracked
  <2>2. CASE cc = Put
    BY <2>2, TypeFacts, MembershipAssumption DEF IndInv, Put, PeersTracked
  <2>. QED
    BY <2>1, <2>2 DEF Change
<1>2. CASE cc.type = "AddNode" /\ AddNode(cc.node_id)
  <2>1. peers' = peers \cup {cc.node_id}
    BY <1>2 DEF AddNode
  <2>2. IsFiniteSet(peers')
    BY <1>1, <2>1, FS_AddElement
  <2>3. /\ tracked' \subseteq NodeId /\ counted' \subseteq NodeId
        /\ state = "Leader" => peers' \subseteq tracked' /\ peers' \subseteq counted'
    BY <1>1, <1>2 DEF AddNode
  <2>. QED
    BY <1>1, <1>2, <2>1, <2>2, <2>3 DEF PeersTracked
<1>3. CASE cc.type = "RemoveNode" /\ RemoveNode(cc.node_id)
  <2>1. cc.node_id \in peers => ~LosesQuorum(Cardinality(peers) - 1)
    <3>1. ASSUME cc.node_id \in peers PROVE Cardinality(peers) \in Nat /\ Cardinality(peers) # 0
      BY <1>1, <3>1, FS_CardinalityType, FS_EmptySet
    <3>2. ASSUME cc.node_id \in peers PROVE Cardinality(peers) - 1 \in Nat
      BY <3>1, <3>2
    <3>. QED
      BY <3>2, RemovalNeverRefused
  <2>2. CASE cc.node_id = Self
    BY <1>1, <1>3, <2>2 DEF RemoveNode, PeersTracked
  <2>3. CASE cc.node_id # Self
    <3>1. /\ peers' = peers \ {cc.node_id} /\ tracked' = tracked \ {cc.node_id}
          /\ counted' = counted \ {cc.node_id}
      BY <1>3, <2>1, <2>3 DEF RemoveNode
    <3>2. IsFiniteSet(peers')
      BY <1>1, <3>1, FS_Subset
    <3>. QED
      BY <1>1, <1>3, <3>1, <3>2 DEF PeersTracked
  <2>. QED
    BY <2>2, <2>3
<1>4. CASE cc.type = "Put" /\ UNCHANGED <<peers, tracked, counted>>
  BY <1>1, <1>4 DEF PeersTracked
<1>. QED
  BY <1>2, <1>3, <1>4

LEMMA ApplyConfChangeIndInv ==
    ASSUME IndInv, ApplyConfChange
    PROVE  IndInv'
<1>. DEFINE cc == Head(batch).value
<1>1. /\ last_applied' = last_applied + 1 /\ batch' = Tail(batch) /\ batch # <<>>
      /\ UNCHANGED <<state, log, commit_index, mu, target, passed, wpc, visit, hpc, request, cpc,
                     change, granted>>
      /\ \/ cc.type = "AddNode" /\ AddNode(cc.node_id)
         \/ cc.type = "RemoveNode" /\ RemoveNode(cc.node_id)
         \/ cc.type = "Put" /\ UNCHANGED <<peers, tracked, counted>>
  BY DEF ApplyConfChange, workerVars, handlerVars, clientVars
<1>2. /\ batch \in Seq(Entry) /\ Len(batch) \in Nat /\ Len(passed) \in Nat
      /\ last_applied \in Nat /\ target \in Nat
  BY TypeFacts DEF IndInv
<1>3. Applying /\ Applying'
  BY <1>1 DEF IndInv, TakenPending, Applying
<1>4. /\ Len(passed) = IF target > last_applied THEN target ELSE last_applied
      /\ last_applied + Len(batch) <= Len(passed)
      /\ \A i \in 1 .. Len(batch) : passed[last_applied + i] = batch[i].value
      /\ \A i \in last_applied + Len(batch) + 1 .. Len(passed) : passed[i] = NoEntry
  BY <1>3 DEF IndInv, TakenPending
<1>5. /\ Head(batch) \in Entry /\ Head(batch) = batch[1] /\ Len(batch) >= 1
      /\ Tail(batch) \in Seq(Entry) /\ Len(Tail(batch)) = Len(batch) - 1
      /\ \A i \in 1 .. Len(Tail(batch)) : Tail(batch)[i] = batch[i + 1]
  BY <1>1, <1>2, HeadTailProperties, EmptySeq
<1>6. cc \in Change /\ passed[last_applied + 1] = cc
  BY <1>2, <1>4, <1>5 DEF Entry
<1>. HIDE DEF cc
<1>7. /\ peers' \subseteq NodeId /\ tracked' \subseteq NodeId /\ counted' \subseteq NodeId
      /\ IsFiniteSet(peers')
      /\ PeersTracked'
      /\ \A id \in NodeId \ {Self} :
            id \in peers' <=> IF cc.node_id = id THEN cc.type = "AddNode" ELSE id \in peers
  BY <1>1, <1>6, ChangeEffect
<1>8. PeersReplayPassed'
  <2>1. \A id \in NodeId \ {Self} :
            id \in peers <=> LastChange(passed, id, last_applied) = "AddNode"
    BY DEF IndInv, PeersReplayPassed
  <2>2. \A id \in NodeId : LastChange(passed, id, last_applied + 1) =
            IF cc.node_id = id THEN cc.type ELSE LastChange(passed, id, last_applied)
    <3>1. \A id \in NodeId : LastChange(passed, id, last_applied + 1) =
              IF passed[last_applied + 1].node_id = id THEN passed[last_applied + 1].type
              ELSE LastChange(passed, id, last_applied)
      BY <1>2, LastChangeNext
    <3>. QED
      BY <1>6, <3>1
  <2>3. \A id \in NodeId \ {Self} :
            id \in peers' <=> LastChange(passed, id, last_applied + 1) = "AddNode"
    BY <1>7, <2>1, <2>2
  <2>. QED
    BY <1>1, <2>3 DEF PeersReplayPassed
<1>9. TakenPending'
  <2>. DEFINE rest == Tail(batch)
              a    == last_applied + 1
  <2>1. a \in Nat /\ Len(rest) \in Nat /\ a + Len(rest) = last_applied + Len(batch)
    BY <1>2, <1>5
  <2>2. Len(passed) = IF target > a THEN target ELSE a
    BY <1>2, <1>4, <1>5
  <2>3. ASSUME NEW i \in 1 .. Len(rest) PROVE passed[a + i] = rest[i].value
    <3>1. i + 1 \in 1 .. Len(batch) /\ a + i = last_applied + (i + 1)
      BY <1>2, <1>5
    <3>. QED
      BY <1>4, <1>5, <3>1
  <2>4. \A i \in a + Len(rest) + 1 .. Len(passed) : passed[i] = NoEntry
    BY <1>4, <2>1
  <2>5. a + Len(rest) <= Len(passed)
    BY <1>4, <2>1
  <2>6. last_applied' = a /\ batch' = rest
    BY <1>1
  <2>. HIDE DEF a, rest
  <2>. QED
    BY <1>1, <1>3, <2>2, <2>3, <2>4, <2>5, <2>6 DEF TakenPending, NoEntry
<1>10. TypeOK'
  <2>1. last_applied + 1 \in 0 .. Len(passed)
    BY <1>2, <1>4, <1>5
  <2>. QED
    BY <1>1, <1>5, <1>7, <2>1 DEF IndInv, TypeOK, NoEntry
<1>11. HolderMatches' /\ PlacesMatch'
  BY <1>1 DEF IndInv, HolderMatches, PlacesMatch
<1>. QED
  BY <1>7, <1>8, <1>9, <1>10, <1>11 DEF IndInv

-----------------------------------------------------------------------------
(* The requests *)

LEMMA RequestIndInv ==
    ASSUME IndInv, NEW c \in Client,
           MemberAdd(c) \/ MemberRemove(c) \/ PutKey(c) \/ Refuse(c) \/ ProposeCheck(c)
    PROVE  IndInv'
<1>. USE DEF IndInv
<1>1. UNCHANGED <<state, peers, tracked, counted, log, commit_index, last_applied, mu, target,
                  batch, passed, wpc, visit, hpc, request, granted>>
  BY DEF MemberAdd, MemberRemove, PutKey, Refuse, ProposeCheck, nodeVars, workerVars,
         handlerVars, logVars, lockVars
<1>2. PICK place \in {"new", "propose", "lock"}, cc \in Change \cup {None} :
          /\ cpc' = [cpc EXCEPT ![c] = place] /\ change' = [change EXCEPT ![c] = cc]
          /\ place # "new" => cc \in Change
          /\ cpc[c] # "append"
  <2>1. /\ cpc \in [Client -> {"new", "propose", "lock", "append", "done"}]
        /\ change \in [Client -> Change \cup {None}]
        /\ cpc[c] = "propose" => change[c] \in Change
    BY DEF TypeOK, PlacesMatch
  <2>2. CASE MemberAdd(c) \/ MemberRemove(c)
    <3>1. PICK cc \in ConfChange : change' = [change EXCEPT ![c] = cc]
      BY <2>2, TypeFacts DEF MemberAdd, MemberRemove, ConfChange
    <3>. QED
      BY <2>2, <3>1 DEF MemberAdd, MemberRemove, Change
  <2>3. CASE PutKey(c)
    BY <2>3 DEF PutKey, Change
  <2>4. CASE Refuse(c)
    BY <2>4 DEF Refuse
  <2>5. CASE ProposeCheck(c)
    <3>1. change' = [change EXCEPT ![c] = change[c]]
      BY <2>1, <2>5 DEF ProposeCheck
    <3>. QED
      BY <2>1, <2>5, <3>1 DEF ProposeCheck
  <2>. QED
    BY <2>2, <2>3, <2>4, <2>5
<1>3. TypeOK'
  BY <1>1, <1>2 DEF TypeOK
<1>4. HolderMatches'
  <2>1. \A d \in Client : cpc'[d] = "append" => cpc[d] = "append"
    BY <1>2 DEF TypeOK
  <2>. QED
    BY <1>1, <2>1 DEF HolderMatches
<1>5. PlacesMatch'
  <2>1. \A d \in Client : cpc'[d] \in {"propose", "lock", "append"} => change'[d] \in Change
    BY <1>2 DEF TypeOK, PlacesMatch
  <2>. QED
    BY <1>1, <2>1 DEF PlacesMatch
<1>6. Applying' = Applying /\ PeersTracked'
  BY <1>1 DEF Applying, PeersTracked
<1>. QED
  BY <1>1, <1>3, <1>4, <1>5, <1>6, RestKept

LEMMA ProposeIndInv ==
    ASSUME IndInv, NEW c \in Client, ProposeLock(c) \/ ProposeAppend(c)
    PROVE  IndInv'
<1>. USE DEF IndInv
<1>1. /\ UNCHANGED <<state, peers, tracked, commit_index, last_applied, batch, passed, wpc, visit,
                     hpc, request>>
      /\ change[c] \in Change
      /\ cpc[c] \in {"lock", "append"} /\ (mu = None \/ mu = c)
  BY DEF ProposeLock, ProposeAppend, HolderMatches, PlacesMatch, workerVars, handlerVars, logVars
<1>2. /\ wpc \notin {"commit", "take", "applying"} /\ hpc \notin {"take", "applying"}
  BY <1>1, MembershipAssumption DEF HolderMatches, Thread
<1>3. target \in Nat /\ LastIndex(log) + 1 \in Nat /\ counted \subseteq NodeId
      /\ log \in [first : {1}, entries : Seq(Entry)]
  BY TypeFacts, LogFacts DEF TypeOK
<1>4. /\ log' \in [first : {1}, entries : Seq(Entry)]
      /\ counted' = counted \/ counted' = counted \cup {Self}
      /\ target' \in Nat /\ mu' \in Client \cup {None}
      /\ change' = change \/ change' = [change EXCEPT ![c] = None]
      /\ granted' \in [Client -> NodeId \cup {None}]
  <2>1. CASE ProposeLock(c)
    BY <1>3, <2>1 DEF ProposeLock, TypeOK, logVars
  <2>2. CASE ProposeAppend(c)
    <3>1. [index |-> target, value |-> change[c]] \in Entry
      BY <1>1, <1>3 DEF Entry, Index
    <3>2. log' \in [first : {1}, entries : Seq(Entry)]
      BY <2>2, <3>1, AppendEntryType DEF ProposeAppend
    <3>3. change[c].type = "AddNode" => change[c].node_id \in NodeId
      BY <1>1 DEF Change, ConfChange, Put
    <3>4. granted' \in [Client -> NodeId \cup {None}]
      BY <2>2, <3>3 DEF ProposeAppend, TypeOK
    <3>. QED
      BY <2>2, <3>2, <3>4 DEF ProposeAppend
  <2>. QED
    BY <2>1, <2>2
<1>5. \/ cpc' = [cpc EXCEPT ![c] = "append"] /\ mu' = c /\ change' = change
      \/ cpc' = [cpc EXCEPT ![c] = "done"] /\ mu' = None
  BY DEF ProposeLock, ProposeAppend
<1>6. TypeOK'
  <2>1. counted' \subseteq NodeId
    BY <1>3, <1>4, MembershipAssumption
  <2>2. /\ cpc' \in [Client -> {"new", "propose", "lock", "append", "done"}]
        /\ change' \in [Client -> Change \cup {None}]
    BY <1>4, <1>5 DEF TypeOK
  <2>. QED
    BY <1>1, <1>4, <2>1, <2>2 DEF TypeOK
<1>7. HolderMatches'
  <2>1. \A d \in Client \ {c} : cpc'[d] # "append"
    <3>1. \A d \in Client \ {c} : cpc[d] # "append"
      BY <1>1, MembershipAssumption DEF HolderMatches
    <3>. QED
      BY <1>5, <3>1 DEF TypeOK
  <2>2. cpc'[c] = "append" => mu' = c
    BY <1>5 DEF TypeOK
  <2>3. mu' # "worker" /\ mu' # "handler"
    BY <1>4, MembershipAssumption DEF Thread
  <2>. QED
    BY <1>1, <1>2, <2>1, <2>2, <2>3 DEF HolderMatches
<1>8. PlacesMatch'
  <2>1. \A d \in Client : cpc'[d] \in {"propose", "lock", "append"} => change'[d] \in Change
    BY <1>1, <1>4, <1>5 DEF TypeOK, PlacesMatch
  <2>. QED
    BY <1>1, <2>1 DEF PlacesMatch
<1>9. PeersTracked'
  BY <1>1, <1>4 DEF PeersTracked
<1>10. ~Applying /\ Applying' = Applying
  BY <1>1, <1>2 DEF Applying
<1>. QED
  BY <1>1, <1>6, <1>7, <1>8, <1>9, <1>10, RestKept

-----------------------------------------------------------------------------
LEMMA NextIndInv == IndInv /\ [Next]_vars => IndInv'
<1>. SUFFICES ASSUME IndInv, [Next]_vars PROVE IndInv'
  OBVIOUS
<1>1. CASE Worker
  BY <1>1, WorkerIndInv, CommitIndexIndInv, LockIndInv, TakeIndInv, UnlockIndInv DEF Worker
<1>2. CASE Handler
  BY <1>2, HandlerIndInv, LockIndInv, TakeIndInv, UnlockIndInv DEF Handler
<1>3. CASE ApplyConfChange
  BY <1>3, ApplyConfChangeIndInv
<1>4. ASSUME NEW c \in Client,
             \/ MemberAdd(c) \/ MemberRemove(c) \/ PutKey(c) \/ Refuse(c) \/ ProposeCheck(c)
             \/ ProposeLock(c) \/ ProposeAppend(c)
      PROVE  IndInv'
  BY <1>4, RequestIndInv, ProposeIndInv
<1>5. CASE UNCHANGED vars
  <2>1. UNCHANGED <<state, peers, tracked, counted, log, commit_index, last_applied, mu, target,
                    batch, passed, wpc, visit, hpc, request, cpc, change, granted>>
    BY <1>5 DEF vars, nodeVars, logVars, lockVars, workerVars, handlerVars, clientVars
  <2>2. TypeOK'
    BY <2>1 DEF IndInv, TypeOK, NoEntry
  <2>3. HolderMatches' /\ PlacesMatch' /\ PeersTracked' /\ Applying' = Applying
    BY <2>1 DEF IndInv, HolderMatches, PlacesMatch, PeersTracked, Applying
  <2>. QED
    BY <2>1, <2>2, <2>3, RestKept
<1>. QED
  BY <1>1, <1>2, <1>3, <1>4, <1>5 DEF Next

LEMMA Invariance == Spec => []IndInv
<1>. QED
  BY InitIndInv, NextIndInv, PTL DEF Spec

\* The variables keep their types, whatever the handler does to the log and to the commit index;
\* no more is applied than ApplyCommittedEntries took under the commit index it read.
THEOREM TypeCorrect == Spec => []TypeOK
<1>1. IndInv => TypeOK
  BY DEF IndInv
<1>. QED
  BY <1>1, Invariance, PTL

\* A leader has next_index_ and match_index_ of every peer (BecomeLeaderLocked and
\* ApplyConfChange, in the worker or in a handler of a request that came before).
THEOREM LeaderTracksPeers == Spec => []PeersTracked
<1>1. IndInv => PeersTracked
  BY DEF IndInv
<1>. QED
  BY <1>1, Invariance, PTL

\* peers_ is what the configuration and the changes taken make it, each index once and in order
\* (ApplyCommittedEntries in two threads), although TruncateTo removes and replaces entries that
\* are committed, taken or applied, and HandleAppendEntries may lower the commit index.
THEOREM MembersFollowPassed == Spec => []PeersReplayPassed
<1>1. IndInv => PeersReplayPassed
  BY DEF IndInv
<1>. QED
  BY <1>1, Invariance, PTL
=============================================================================
