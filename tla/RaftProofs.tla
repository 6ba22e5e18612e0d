----------------------------- MODULE RaftProofs -----------------------------
(***************************************************************************)
(* Theorems about Raft, for every cluster and every value of the bounds:   *)
(* what the operators of RaftLog return for every log, the inductive       *)
(* invariant and that every step keeps its types, that the two ends of an  *)
(* RPC match, and what follows of terms, votes and the state machines;     *)
(* then what holds as long as nobody crashes and nobody is past term 1.    *)
(***************************************************************************)
EXTENDS Raft, SequenceTheorems, FiniteSetTheorems, WellFoundedInduction, TLAPS

\* A nonempty set of naturals below a bound has a greatest element.
LEMMA GreatestBelow ==
    ASSUME NEW S \in SUBSET Nat, NEW b \in Nat, S # {}, \A i \in S : i <= b
    PROVE  \E i \in S : \A j \in S : j <= i
<1>. DEFINE bounds == {m \in Nat : \A i \in S : i <= m}
<1>1. PICK m \in bounds : \A u \in bounds : ~(<<u, m>> \in OpToRel(<, Nat))
  BY NatLessThanWellFounded, WFMin
<1>2. ASSUME m \notin S PROVE m - 1 \in bounds
  <2>1. PICK i \in S : TRUE
    OBVIOUS
  <2>2. i <= m /\ i # m /\ i \in Nat /\ m \in Nat
    BY <1>2
  <2>3. m - 1 \in Nat
    BY <2>2
  <2>4. ASSUME NEW j \in S PROVE j <= m - 1
    BY <1>2
  <2>. QED
    BY <2>3, <2>4
<1>3. ASSUME m - 1 \in bounds PROVE FALSE
  <2>1. m - 1 \in Nat /\ m \in Nat /\ ~(m - 1 < m)
    BY <1>1, <1>3 DEF OpToRel
  <2>. QED
    BY <2>1
<1>. QED
  BY <1>1, <1>2, <1>3

-----------------------------------------------------------------------------
(* The log *)

\* The readers of the log give indices and terms; an empty log reads as 0.
LEMMA ReaderTypes ==
    ASSUME NEW l \in Log
    PROVE  /\ l.first \in Nat \ {0}
           /\ l.entries \in Seq(RaftEntry)
           /\ Len(l.entries) \in Nat
           /\ LastIndex(l) \in Index
           /\ LastTerm(l) \in Term
           /\ LastIndexUnsafe(l) \in Index
<1>1. /\ l.first \in Nat \ {0}
      /\ l.entries \in Seq(RaftEntry)
  BY DEF Log, Index
<1>2. Len(l.entries) \in Nat
  BY <1>1
<1>3. CASE l.entries = <<>>
  BY <1>1, <1>2, <1>3 DEF LastIndex, LastTerm, LastIndexUnsafe, kNoIndex, kNoTerm, Index, Term
<1>4. CASE l.entries # <<>>
  <2>1. Len(l.entries) \in 1 .. Len(l.entries)
    BY <1>1, <1>4, EmptySeq
  <2>2. l.entries[Len(l.entries)] \in RaftEntry
    BY <1>1, <2>1, ElementOfSeq
  <2>. QED
    BY <1>1, <1>2, <1>4, <2>2
       DEF LastIndex, LastTerm, LastIndexUnsafe, RaftEntry, Index, Term
<1>. QED
  BY <1>3, <1>4, <1>1, <1>2

\* TermAt is a term at every index, the unsigned 0 of an absent one included.
LEMMA TermAtType ==
    ASSUME NEW l \in Log, NEW i \in Index
    PROVE  TermAt(l, i) \in Term
<1>1. CASE Stored(l, i)
  <2>1. Offset(l, i) \in 1 .. Len(l.entries)
    BY <1>1, ReaderTypes DEF Stored, Offset, Index
  <2>2. l.entries[Offset(l, i)] \in RaftEntry
    BY <2>1, ReaderTypes, ElementOfSeq
  <2>. QED
    BY <1>1, <2>2 DEF TermAt, RaftEntry
<1>2. CASE ~Stored(l, i)
  BY <1>2 DEF TermAt, kNoTerm, Term
<1>. QED
  BY <1>1, <1>2

\* Whatever range is asked for, the copies are sequences of entries of the log.
LEMMA EntriesFromType ==
    ASSUME NEW l \in Log, NEW start \in Index
    PROVE  EntriesFrom(l, start) \in Seq(RaftEntry)
<1>. DEFINE from == AtLeastFirst(l, start)
<1>1. from \in Nat /\ from >= l.first
  BY ReaderTypes DEF AtLeastFirst, Index
<1>2. Offset(l, from) \in Int /\ Offset(l, from) >= 1
  BY <1>1, ReaderTypes DEF Offset
<1>3. \A i \in Offset(l, from) .. Len(l.entries) : l.entries[i] \in RaftEntry
  BY <1>2, ReaderTypes, ElementOfSeq
<1>4. SubSeq(l.entries, Offset(l, from), Len(l.entries)) \in Seq(RaftEntry)
  BY <1>2, <1>3, ReaderTypes, SubSeqProperties
<1>. QED
  BY <1>4 DEF EntriesFrom

LEMMA SliceType ==
    ASSUME NEW l \in Log, NEW start \in Index, NEW end \in Index
    PROVE  Slice(l, start, end) \in Seq(RaftEntry)
<1>. DEFINE from == AtLeastFirst(l, start)
            to   == LesserOf(end, LastIndexUnsafe(l) + 1)
            last == LesserOf(Offset(l, to) - 1, Len(l.entries))
<1>1. from \in Nat /\ from >= l.first
  BY ReaderTypes DEF AtLeastFirst, Index
<1>2. to \in Nat
  BY ReaderTypes DEF LesserOf, Index
<1>3. Offset(l, from) \in Int /\ Offset(l, from) >= 1
  BY <1>1, ReaderTypes DEF Offset
<1>4. last \in Int /\ last <= Len(l.entries)
  BY <1>2, ReaderTypes DEF LesserOf, Offset
<1>5. \A i \in Offset(l, from) .. last : l.entries[i] \in RaftEntry
  BY <1>3, <1>4, ReaderTypes, ElementOfSeq
<1>6. SubSeq(l.entries, Offset(l, from), last) \in Seq(RaftEntry)
  BY <1>3, <1>4, <1>5, SubSeqProperties
<1>. QED
  BY <1>6 DEF Slice

\* A slice is no longer than its range, holes or not.
LEMMA SliceLength ==
    ASSUME NEW l \in Log, NEW start \in Index, NEW end \in Index, start < end
    PROVE  Len(Slice(l, start, end)) <= end - start
<1>. DEFINE from == AtLeastFirst(l, start)
            to   == LesserOf(end, LastIndexUnsafe(l) + 1)
            last == LesserOf(Offset(l, to) - 1, Len(l.entries))
<1>1. /\ from \in Nat /\ from >= l.first /\ from >= start
      /\ to \in Nat /\ to <= end
      /\ l.first \in Nat /\ start \in Nat /\ end \in Nat /\ Len(l.entries) \in Nat
  BY ReaderTypes DEF AtLeastFirst, LesserOf, Index
<1>2. CASE from >= to
  BY <1>1, <1>2, EmptySeq DEF Slice
<1>3. CASE from < to
  <2>1. /\ Offset(l, from) \in Int /\ Offset(l, from) >= 1
        /\ last \in Int /\ last <= Offset(l, to) - 1 /\ last <= Len(l.entries)
        /\ Offset(l, to) - Offset(l, from) = to - from
    <3>1. Offset(l, from) = from - l.first + 1 /\ Offset(l, to) = to - l.first + 1
      BY DEF Offset
    <3>2. /\ last = Offset(l, to) - 1 \/ last = Len(l.entries)
          /\ last = Offset(l, to) - 1 \/ ~(Offset(l, to) - 1 <= Len(l.entries))
          /\ last = Len(l.entries) \/ Offset(l, to) - 1 <= Len(l.entries)
      BY Zenon DEF LesserOf
    <3>. HIDE DEF from, to, last
    <3>3. /\ Offset(l, from) \in Int /\ Offset(l, from) >= 1 /\ Offset(l, to) \in Int
          /\ Offset(l, to) - Offset(l, from) = to - from
      BY <1>1, <3>1
    <3>4. last \in Int /\ last <= Offset(l, to) - 1 /\ last <= Len(l.entries)
      <4>1. CASE last = Offset(l, to) - 1
        BY <1>1, <3>2, <3>3, <4>1
      <4>2. CASE last = Len(l.entries)
        BY <1>1, <3>2, <3>3, <4>2
      <4>. QED
        BY <3>2, <4>1, <4>2
    <3>. QED
      BY <3>3, <3>4
  <2>2. \A i \in Offset(l, from) .. last : l.entries[i] \in RaftEntry
    BY <2>1, ReaderTypes, ElementOfSeq
  <2>3. Len(SubSeq(l.entries, Offset(l, from), last)) =
           IF Offset(l, from) <= last THEN last - Offset(l, from) + 1 ELSE 0
    BY <2>1, <2>2, SubSeqProperties
  <2>4. Slice(l, start, end) = SubSeq(l.entries, Offset(l, from), last)
    <3>1. ~(from >= to)
      BY <1>1, <1>3
    <3>. QED
      BY <3>1, Zenon DEF Slice
  <2>5. to - from <= end - start
    BY <1>1
  <2>6. Offset(l, to) \in Int
    BY <1>1 DEF Offset
  <2>7. CASE Offset(l, from) <= last
    <3>1. last - Offset(l, from) + 1 <= end - start
      BY <1>1, <2>1, <2>5, <2>6
    <3>. QED
      BY <2>3, <2>4, <2>7, <3>1
  <2>8. CASE ~(Offset(l, from) <= last)
    <3>1. Len(Slice(l, start, end)) = 0
      BY <2>3, <2>4, <2>8, Zenon
    <3>2. 0 <= end - start
      BY <1>1
    <3>. QED
      BY <3>1, <3>2
  <2>. QED
    BY <2>7, <2>8
<1>. QED
  BY <1>1, <1>2, <1>3

\* A prefix of a sequence, as the batch limit takes one.
LEMMA PrefixType ==
    ASSUME NEW S, NEW s \in Seq(S), NEW k \in Nat
    PROVE  SubSeq(s, 1, LesserOf(k, Len(s))) \in Seq(S)
<1>1. LesserOf(k, Len(s)) \in Int /\ LesserOf(k, Len(s)) <= Len(s)
  BY DEF LesserOf
<1>2. \A i \in 1 .. LesserOf(k, Len(s)) : s[i] \in S
  BY <1>1, ElementOfSeq
<1>. QED
  BY <1>1, <1>2, SubSeqProperties

\* Every writer leaves a log; TruncateTo keeps first_index_ above 0 even where it moves it.
LEMMA WriterTypes ==
    ASSUME NEW l \in Log
    PROVE  /\ \A e \in RaftEntry : AppendEntry(l, e) \in Log
           /\ \A es \in Seq(RaftEntry) : AppendBatch(l, es) \in Log
           /\ \A i \in Index : TruncateTo(l, i) \in Log
<1>1. ASSUME NEW e \in RaftEntry PROVE AppendEntry(l, e) \in Log
  BY ReaderTypes DEF AppendEntry, Log
<1>2. ASSUME NEW es \in Seq(RaftEntry) PROVE AppendBatch(l, es) \in Log
  <2>1. l.entries \o es \in Seq(RaftEntry)
    BY ReaderTypes, ConcatProperties
  <2>. QED
    BY <2>1 DEF AppendBatch, Log
<1>3. ASSUME NEW i \in Index PROVE TruncateTo(l, i) \in Log
  <2>1. CASE i < l.first
    BY <2>1, EmptySeq DEF TruncateTo, Log, Index
  <2>2. CASE ~(i < l.first)
    <3>1. Offset(l, i) \in Nat
      BY <2>2, ReaderTypes DEF Offset, Index
    <3>2. CASE Offset(l, i) >= Len(l.entries)
      BY <2>2, <3>2 DEF TruncateTo, Log
    <3>3. CASE ~(Offset(l, i) >= Len(l.entries))
      <4>1. LesserOf(Offset(l, i), Len(l.entries)) = Offset(l, i)
        BY <3>1, <3>3, ReaderTypes DEF LesserOf
      <4>2. SubSeq(l.entries, 1, Offset(l, i)) \in Seq(RaftEntry)
        BY <3>1, <4>1, ReaderTypes, PrefixType
      <4>. QED
        BY <2>2, <3>3, <4>2 DEF TruncateTo, Log
    <3>. QED
      BY <3>2, <3>3
  <2>. QED
    BY <2>1, <2>2
<1>. QED
  BY <1>1, <1>2, <1>3

-----------------------------------------------------------------------------
(* The two searches of the code *)

\* The index a follower reports on a mismatch is never 0, so the leader can use it.
LEMMA ConflictIndexType ==
    ASSUME NEW l \in Log, NEW p \in Index
    PROVE  ConflictIndex(l, p) \in Index \ {0}
<1>. DEFINE below == {i \in l.first .. p : TermAt(l, i) # TermAt(l, p)}
<1>1. CASE below = {}
  BY <1>1, ReaderTypes DEF ConflictIndex, Index
<1>2. CASE below # {}
  <2>1. below \in SUBSET Nat /\ \A i \in below : i <= p
    BY ReaderTypes DEF Index
  <2>2. \E i \in below : \A j \in below : j <= i
    BY <1>2, <2>1, GreatestBelow DEF Index
  <2>3. (CHOOSE i \in below : \A j \in below : j <= i) \in below
    BY <2>2
  <2>. QED
    BY <1>2, <2>1, <2>3 DEF ConflictIndex, Index
<1>. QED
  BY <1>1, <1>2

\* What the leader's search proposes is an index above 0, whether or not the term occurs.
LEMMA FindConflictTermIndexType ==
    ASSUME NEW l \in Log, NEW t \in Term, NEW hint \in Index
    PROVE  FindConflictTermIndex(l, t, hint) \in Index \ {0}
<1>1. l.first \in Nat \ {0} /\ LastIndex(l) \in Nat
  BY ReaderTypes DEF Index
<1>2. ASSUME NEW found, found \in l.first .. LastIndex(l)
      PROVE  found \in Index \ {0}
  BY <1>1, <1>2 DEF Index
<1>. HIDE DEF LowerBound
<1>. QED
  BY <1>1, <1>2 DEF FindConflictTermIndex, Index

-----------------------------------------------------------------------------
(* The inductive invariant *)

\* The loops over peers_ serve a real peer whenever they use the loop variable.
PeerServed == \A n \in Server : wpc[n] \in {"vote", "prev", "append"} => peer[n] \in Peers(n)

\* The handler truncates only for a request that brings entries.
BatchHeld == \A n \in Server : hpc[n] = "ae_trunc" => hreq[n].entries # <<>>

IndInv == /\ TypeOfNodes
          /\ TypeOfThreads
          /\ RpcMatched
          /\ NextIndexPositive
          /\ CandidateVotedForSelf
          /\ PeerServed
          /\ BatchHeld

\* Everything starts empty and idle.
LEMMA InitIndInv == Init => IndInv
<1>. SUFFICES ASSUME Init PROVE IndInv
  OBVIOUS
<1>1. TypeOfNodes
  <2>1. EmptyLog \in Log
    BY EmptySeq DEF EmptyLog, Log, Index
  <2>2. <<>> \in Seq(RaftEntry)
    BY EmptySeq
  <2>. QED
    BY <2>1, <2>2 DEF Init, InitNode, TypeOfNodes, NodeState, Index, Term, kNoNodeId
<1>2. TypeOfThreads
  BY DEF Init, InitNode, TypeOfThreads, WorkerPc, HandlerPc, Ballot, NoBallot, NoPrev, NoEntry,
         Index, Term, kNoNodeId
<1>3. RpcMatched /\ NextIndexPositive /\ CandidateVotedForSelf /\ PeerServed /\ BatchHeld
  BY DEF Init, InitNode, RpcMatched, CallerMatched, HandlerMatched, ClientMatched,
     NextIndexPositive, CandidateVotedForSelf, PeerServed,
         BatchHeld
<1>. QED
  BY <1>1, <1>2, <1>3 DEF IndInv

-----------------------------------------------------------------------------
(* What the invariant says where a thread stands *)

\* The members of a node in a state of the invariant.
LEMMA NodeTypes ==
    ASSUME TypeOfNodes, NEW n \in Server
    PROVE  /\ current_term[n] \in Term
           /\ voted_for[n] \in Server \cup {kNoNodeId}
           /\ state[n] \in NodeState
           /\ log[n] \in Log
           /\ commit_index[n] \in Index
           /\ last_applied[n] \in Index
           /\ next_index[n] \in [Server -> Index]
           /\ match_index[n] \in [Server -> Index]
           /\ applied[n] \in Seq(RaftEntry)
BY DEF TypeOfNodes

\* A handler that is busy holds a request of the right kind, addressed to its node.
LEMMA HandlerRequest ==
    ASSUME IndInv, NEW n \in Server, hpc[n] # "idle"
    PROVE  /\ hreq[n].from \in Server
           /\ hreq[n].to = n
           /\ hreq[n].term \in Term
           /\ hpc[n] \in {"rv_down", "rv_vote"} => hreq[n] \in VoteRequest
           /\ hpc[n] \notin {"rv_down", "rv_vote"} =>
                 /\ hreq[n] \in AppendRequest
                 /\ hreq[n].entries \in Seq(RaftEntry)
                 /\ hreq[n].leader_commit \in Index
                 /\ hreq[n].prev_log_index \in Index
BY DEF IndInv, RpcMatched, HandlerMatched, RequestKind, VoteRequest, AppendRequest

\* A worker in an RPC waits on its own request and gets an answer of its kind.
LEMMA WorkerRpc ==
    ASSUME IndInv, NEW n \in Server, wpc[n] \in {"vote", "append"}
    PROVE  /\ rpc_req[n] \in Request
           /\ rpc_req[n].from = n
           /\ peer[n] \in Peers(n)
           /\ rpc_state[n] = "done" => rpc_resp[n].term \in Term
           /\ rpc_state[n] = "done" /\ wpc[n] = "vote" => rpc_resp[n] \in VoteResponse
           /\ wpc[n] = "append" =>
                 /\ rpc_req[n].entries \in Seq(RaftEntry)
                 /\ rpc_state[n] = "done" => rpc_resp[n] \in AppendResponse
                 /\ next_index[n][peer[n]] \in Index \ {0}
<1>1. /\ rpc_req[n] \in Request
      /\ rpc_req[n].from = n
      /\ wpc[n] = "append" => rpc_req[n] \in AppendRequest
      /\ rpc_state[n] = "done" /\ wpc[n] = "vote" => rpc_resp[n] \in VoteResponse
      /\ rpc_state[n] = "done" /\ wpc[n] = "append" => rpc_resp[n] \in AppendResponse
  BY DEF IndInv, RpcMatched, CallerMatched, Request
<1>2. peer[n] \in Peers(n)
  BY DEF IndInv, PeerServed
<1>3. rpc_state[n] = "done" => rpc_resp[n].term \in Term
  BY <1>1 DEF VoteResponse, AppendResponse
<1>4. wpc[n] = "append" => rpc_req[n].entries \in Seq(RaftEntry)
  BY <1>1 DEF AppendRequest
<1>5. wpc[n] = "append" => next_index[n][peer[n]] \in Index \ {0}
  <2>1. peer[n] \in Server
    BY <1>2 DEF Peers
  <2>. QED
    BY <1>2, <2>1 DEF IndInv, NextIndexPositive, TypeOfNodes, Index
<1>. QED
  BY <1>1, <1>2, <1>3, <1>4, <1>5

-----------------------------------------------------------------------------
(* The shared state changes keep the types *)

LEMMA FollowerTypes ==
    ASSUME TypeOfNodes, NEW n \in Server, NEW term \in Term, BecomeFollowerLocked(n, term)
    PROVE  /\ current_term' \in [Server -> Term]
           /\ voted_for' \in [Server -> Server \cup {kNoNodeId}]
           /\ state' \in [Server -> NodeState]
BY DEF TypeOfNodes, BecomeFollowerLocked, NodeState

LEMMA LeaderTypes ==
    ASSUME TypeOfNodes, NEW n \in Server, BecomeLeaderLocked(n)
    PROVE  /\ state' \in [Server -> NodeState]
           /\ leader_id' \in [Server -> Server \cup {kNoNodeId}]
           /\ next_index' \in [Server -> [Server -> Index]]
           /\ match_index' \in [Server -> [Server -> Index]]
<1>1. LastIndex(log[n]) \in Nat
  BY NodeTypes, ReaderTypes DEF Index
<1>2. [p \in Server |-> IF p = n THEN 0 ELSE LastIndex(log[n]) + 1] \in [Server -> Index]
  BY <1>1 DEF Index
<1>3. InitNode(0) \in [Server -> Index]
  BY DEF InitNode, Index
<1>. QED
  BY <1>2, <1>3 DEF TypeOfNodes, BecomeLeaderLocked, NodeState

LEMMA ApplyTypes ==
    ASSUME TypeOfNodes, NEW n \in Server, ApplyCommitted(n)
    PROVE  /\ applied' \in [Server -> Seq(RaftEntry)]
           /\ last_applied' \in [Server -> Index]
<1>. DEFINE range == Slice(log[n], last_applied[n] + 1, commit_index[n] + 1)
<1>1. range \in Seq(RaftEntry)
  <2>1. last_applied[n] + 1 \in Index /\ commit_index[n] + 1 \in Index
    BY NodeTypes DEF Index
  <2>. QED
    BY <2>1, NodeTypes, SliceType
<1>2. applied[n] \o range \in Seq(RaftEntry)
  BY <1>1, NodeTypes, ConcatProperties
<1>. HIDE DEF range
<1>. QED
  BY <1>2 DEF TypeOfNodes, ApplyCommitted, range

\* next_index_ never falls to 0 when a peer refuses the entries.
LEMMA BackedOffType ==
    ASSUME NEW n \in Server, log[n] \in Log, NEW cur \in Index \ {0}, NEW resp \in AppendResponse
    PROVE  BackedOff(n, cur, resp) \in Index \ {0}
<1>1. /\ resp.conflict_index \in Nat
      /\ resp.conflict_term \in Term
  BY DEF AppendResponse, Index
<1>2. FindConflictTermIndex(log[n], resp.conflict_term, resp.conflict_index) \in Nat \ {0}
  BY <1>1, FindConflictTermIndexType DEF Index
<1>3. StepBack(cur) \in Nat \ {0}
  BY DEF StepBack, Index
<1>. QED
  BY <1>1, <1>2, <1>3 DEF BackedOff, Index

\* A request that is admitted gives the handler a request and a place to start at.
LEMMA AdmitTypes ==
    ASSUME TypeOfThreads, NEW n \in Server, NEW req \in Request, Admit(n, req)
    PROVE  /\ hpc' \in [Server -> HandlerPc]
           /\ hreq' \in [Server -> Request \cup {None}]
<1>1. PICK pc \in {"ae_down", "rv_down", "rv_vote"} : hpc' = [hpc EXCEPT ![n] = pc]
  BY DEF Admit, HandlerAt
<1>2. pc \in HandlerPc
  BY DEF HandlerPc
<1>. QED
  BY <1>1, <1>2 DEF TypeOfThreads, Admit

\* An answer of either kind keeps the types of both ends of the RPC.
LEMMA RespondTypes ==
    ASSUME TypeOfThreads, NEW n \in Server,
           NEW resp \in VoteResponse \cup AppendResponse, Respond(n, resp)
    PROVE  /\ rpc_state' \in [Server -> {"idle", "sent", "taken", "done"}]
           /\ rpc_req' \in [Server -> Request \cup {None}]
           /\ rpc_resp' \in [Server -> VoteResponse \cup AppendResponse \cup {None}]
           /\ hpc' \in [Server -> HandlerPc]
           /\ hreq' \in [Server -> Request \cup {None}]
           /\ hlive' \in [Server -> BOOLEAN]
<1>. DEFINE answer == VoteResponse \cup AppendResponse \cup {None}
<1>1. /\ rpc_state' \in [Server -> {"idle", "sent", "taken", "done"}]
      /\ rpc_req' \in [Server -> Request \cup {None}]
      /\ rpc_resp' \in [Server -> VoteResponse \cup AppendResponse \cup {None}]
  <2>1. rpc_resp \in [Server -> answer] /\ resp \in answer
    BY DEF TypeOfThreads
  <2>. HIDE DEF answer
  <2>2. rpc_resp' \in [Server -> answer]
    BY <2>1 DEF Respond
  <2>3. /\ rpc_state' \in [Server -> {"idle", "sent", "taken", "done"}]
        /\ rpc_req' \in [Server -> Request \cup {None}]
    BY DEF TypeOfThreads, Respond
  <2>. QED
    BY <2>2, <2>3 DEF answer
<1>2. /\ hpc' \in [Server -> HandlerPc]
      /\ hreq' \in [Server -> Request \cup {None}]
      /\ hlive' \in [Server -> BOOLEAN]
  BY DEF TypeOfThreads, Respond, HandlerAt, HandlerPc
<1>. QED
  BY <1>1, <1>2

\* The answers the code builds have the types of their kinds.
LEMMA AnswerTypes ==
    /\ NoVote \in VoteResponse
    /\ NoAppend \in AppendResponse
    /\ \A req \in Request : FailedResponse(req) \in VoteResponse \cup AppendResponse
    /\ \A req \in VoteRequest : FailedResponse(req) \in VoteResponse
    /\ \A req \in AppendRequest : FailedResponse(req) \in AppendResponse
BY DEF NoVote, NoAppend, FailedResponse, VoteResponse, AppendResponse, VoteRequest,
       AppendRequest, Request, Index, Term

\* AppendEntriesCheck either refuses with a well-typed answer or goes on.
LEMMA CheckAnswers ==
    ASSUME IndInv, NEW n \in Server, AppendEntriesCheck(n)
    PROVE  \/ \E resp \in AppendResponse : Respond(n, resp)
           \/ /\ \E pc \in {"ae_trunc", "ae_commit"} : HandlerAt(n, pc)
              /\ UNCHANGED <<hreq, hlive, rpcVars>>
<1>. DEFINE refusal == [term |-> hreq[n].term, success |-> FALSE,
                        last_log_index |-> LastIndex(log[n]),
                        conflict_index |-> ConflictIndex(log[n], hreq[n].prev_log_index),
                        conflict_term |-> TermAt(log[n], hreq[n].prev_log_index)]
<1>1. refusal \in AppendResponse
  BY HandlerRequest, NodeTypes, ReaderTypes, ConflictIndexType, TermAtType
     DEF IndInv, AppendEntriesCheck, AppendResponse, Index
<1>. QED
  BY <1>1 DEF AppendEntriesCheck

\* The answer at the end of HandleAppendEntries is well typed.
LEMMA SuccessAnswer ==
    ASSUME IndInv, NEW n \in Server, hpc[n] \in {"ae_commit", "ae_apply"}, Succeed(n)
    PROVE  \E resp \in AppendResponse : Respond(n, resp)
<1>. DEFINE resp == [NoAppend EXCEPT !.term = hreq[n].term, !.success = TRUE,
                                     !.last_log_index = LastIndex(log[n])]
<1>1. resp \in AppendResponse
  BY HandlerRequest, NodeTypes, ReaderTypes, AnswerTypes DEF IndInv, AppendResponse
<1>. QED
  BY <1>1 DEF Succeed

-----------------------------------------------------------------------------
(* One step per action *)

\* Every step keeps the types of the members of RaftNode.
LEMMA NodesStep ==
    ASSUME IndInv, NEW n \in Server,
           Worker(n) \/ Handler(n) \/ Client(n) \/ RpcTimeout(n) \/ Restart(n)
    PROVE  TypeOfNodes'
<1>. TypeOfNodes
  BY DEF IndInv
<1>1. CASE BecomeCandidate(n)
  BY <1>1 DEF TypeOfNodes, BecomeCandidate, logVars, leaderVars, NodeState, Term
<1>2. CASE EnterElection(n)
  BY <1>2 DEF TypeOfNodes, EnterElection, logVars, termVars, leaderVars
<1>3. CASE StartElection(n)
  BY <1>3 DEF TypeOfNodes, StartElection, logVars, termVars, leaderVars
<1>4. CASE SendRequestVote(n)
  BY <1>4 DEF TypeOfNodes, SendRequestVote, logVars, termVars, leaderVars
<1>5. CASE VoteReply(n)
  <2>1. rpc_resp[n].term \in Term
    BY <1>5, WorkerRpc DEF VoteReply
  <2>2. CASE BecomeFollowerLocked(n, rpc_resp[n].term)
    BY <1>5, <2>1, <2>2, FollowerTypes DEF TypeOfNodes, VoteReply, logVars, leaderVars
  <2>3. CASE UNCHANGED termVars
    BY <1>5, <2>3 DEF TypeOfNodes, VoteReply, logVars, leaderVars, termVars
  <2>. QED
    BY <1>5, <2>2, <2>3 DEF VoteReply, termVars
<1>6. CASE EndElection(n)
  <2>1. CASE BecomeLeaderLocked(n)
    BY <1>6, <2>1, LeaderTypes DEF TypeOfNodes, EndElection, logVars
  <2>2. CASE UNCHANGED <<state, leader_id, leaderVars>>
    BY <1>6, <2>2 DEF TypeOfNodes, EndElection, logVars, leaderVars
  <2>. QED
    BY <1>6, <2>1, <2>2 DEF EndElection
<1>7. CASE BroadcastHeartbeat(n)
  BY <1>7 DEF TypeOfNodes, BroadcastHeartbeat, logVars, termVars, leaderVars
<1>8. CASE ReadPrev(n)
  BY <1>8 DEF TypeOfNodes, ReadPrev, logVars, termVars, leaderVars
<1>9. CASE SendAppendEntries(n)
  BY <1>9 DEF TypeOfNodes, SendAppendEntries, logVars, termVars, leaderVars
<1>10. CASE AppendReply(n)
  <2>. DEFINE resp == rpc_resp[n]
              sent == rpc_req[n].entries
              p    == peer[n]
  <2>1. /\ resp \in AppendResponse /\ resp.term \in Term
        /\ sent \in Seq(RaftEntry)
        /\ p \in Server
        /\ next_index[n][p] \in Index \ {0}
    BY <1>10, WorkerRpc DEF AppendReply, Peers
  <2>2. ASSUME sent # <<>> PROVE sent[Len(sent)].index \in Nat
    <3>1. Len(sent) \in 1 .. Len(sent)
      BY <2>1, <2>2, EmptySeq
    <3>2. sent[Len(sent)] \in RaftEntry
      BY <2>1, <3>1, ElementOfSeq
    <3>. QED
      BY <3>2 DEF RaftEntry, Index
  <2>3. resp.last_log_index \in Nat /\ BackedOff(n, next_index[n][p], resp) \in Nat
    BY <2>1, BackedOffType, NodeTypes DEF AppendResponse, Index
  <2>4. CASE BecomeFollowerLocked(n, resp.term) /\ UNCHANGED leaderVars
    BY <1>10, <2>1, <2>4, FollowerTypes DEF TypeOfNodes, AppendReply, logVars, leaderVars
  <2>5. CASE UNCHANGED termVars
    <3>1. /\ match_index' \in [Server -> [Server -> Index]]
          /\ next_index' \in [Server -> [Server -> Index]]
      <4>1. CASE UNCHANGED leaderVars
        BY <4>1 DEF TypeOfNodes, leaderVars
      <4>2. CASE /\ match_index' = [match_index EXCEPT ![n][p] = sent[Len(sent)].index]
                 /\ next_index' = [next_index EXCEPT ![n][p] = sent[Len(sent)].index + 1]
                 /\ sent # <<>>
        <5>. DEFINE last == sent[Len(sent)].index
        <5>1. last \in Nat
          BY <2>2, <4>2
        <5>2. /\ match_index' = [match_index EXCEPT ![n][p] = last]
              /\ next_index' = [next_index EXCEPT ![n][p] = last + 1]
          BY <4>2
        <5>3. last \in Index /\ last + 1 \in Index
          BY <5>1 DEF Index
        <5>. HIDE DEF last
        <5>4. match_index' \in [Server -> [Server -> Index]]
          BY <2>1, <5>2, <5>3 DEF TypeOfNodes
        <5>5. next_index' \in [Server -> [Server -> Index]]
          BY <2>1, <5>2, <5>3 DEF TypeOfNodes
        <5>. QED
          BY <5>4, <5>5
      <4>3. CASE /\ match_index' = [match_index EXCEPT ![n][p] =
                       IF resp.last_log_index > @ THEN resp.last_log_index ELSE @]
                 /\ UNCHANGED next_index
        BY <2>1, <2>3, <4>3 DEF TypeOfNodes, Index
      <4>4. CASE /\ next_index' = [next_index EXCEPT ![n][p] = BackedOff(n, @, resp)]
                 /\ UNCHANGED match_index
        BY <2>1, <2>3, <4>4 DEF TypeOfNodes, Index
      <4>. QED
        BY <1>10, <4>1, <4>2, <4>3, <4>4 DEF AppendReply, leaderVars
    <3>. QED
      BY <1>10, <2>5, <3>1 DEF TypeOfNodes, AppendReply, logVars, termVars
  <2>. QED
    BY <1>10, <2>4, <2>5 DEF AppendReply, termVars
<1>11. CASE EndBroadcast(n)
  BY <1>11 DEF TypeOfNodes, EndBroadcast, logVars, termVars, leaderVars
<1>12. CASE AdvanceCommitIndex(n)
  <2>1. MatchIndices(n) \subseteq Index
    BY ReaderTypes, NodeTypes DEF IndInv, MatchIndices, Index
  <2>. QED
    BY <1>12, <2>1 DEF AdvanceCommitIndex, TypeOfNodes, termVars, leaderVars
<1>13. CASE ApplyCommittedEntries(n)
  BY <1>13, ApplyTypes DEF ApplyCommittedEntries, TypeOfNodes, termVars, leaderVars
<1>14. CASE Take(n)
  BY <1>14 DEF TypeOfNodes, Take, logVars, termVars, leaderVars
<1>15. CASE TakeOrphan(n)
  BY <1>15 DEF TypeOfNodes, TakeOrphan, logVars, termVars, leaderVars
<1>16. CASE Refuse(n)
  BY <1>16 DEF TypeOfNodes, Refuse, logVars, termVars, leaderVars
<1>17. CASE RequestVoteStepDown(n)
  BY <1>17, HandlerRequest, FollowerTypes DEF RequestVoteStepDown, TypeOfNodes, logVars,
     leaderVars
<1>18. CASE RequestVoteDecide(n)
  <2>1. hreq[n].from \in Server
    BY <1>18, HandlerRequest DEF RequestVoteDecide
  <2>. QED
    BY <1>18, <2>1 DEF RequestVoteDecide, TypeOfNodes, logVars, leaderVars
<1>19. CASE AppendEntriesStepDown(n)
  BY <1>19, HandlerRequest, FollowerTypes DEF AppendEntriesStepDown, TypeOfNodes, logVars,
     leaderVars
<1>20. CASE AppendEntriesCheck(n)
  <2>1. hreq[n].from \in Server
    BY <1>20, HandlerRequest DEF AppendEntriesCheck
  <2>. QED
    BY <1>20, <2>1 DEF AppendEntriesCheck, TypeOfNodes, logVars, leaderVars, termVars
<1>21. CASE AppendEntriesTruncate(n)
  <2>. DEFINE i == hreq[n].entries[1].index - 1
  <2>1. hreq[n].entries \in Seq(RaftEntry) /\ hreq[n].entries # <<>>
    BY <1>21, HandlerRequest DEF AppendEntriesTruncate, IndInv, BatchHeld
  <2>2. hreq[n].entries[1] \in RaftEntry
    BY <2>1, EmptySeq, ElementOfSeq
  <2>3. i \in Index
    BY <2>2 DEF RaftEntry, Index
  <2>4. TruncateTo(log[n], i) \in Log
    BY <2>3, NodeTypes, WriterTypes
  <2>. QED
    BY <1>21, <2>4 DEF AppendEntriesTruncate, TypeOfNodes, leaderVars, termVars
<1>22. CASE AppendEntriesStore(n)
  <2>1. AppendBatch(log[n], hreq[n].entries) \in Log
    BY <1>22, HandlerRequest, NodeTypes, WriterTypes DEF AppendEntriesStore
  <2>. QED
    BY <1>22, <2>1 DEF AppendEntriesStore, TypeOfNodes, leaderVars, termVars
<1>23. CASE AppendEntriesCommit(n)
  BY <1>23 DEF TypeOfNodes, AppendEntriesCommit, logVars, termVars, leaderVars
<1>24. CASE AppendEntriesSetCommit(n)
  <2>1. LesserOf(hreq[n].leader_commit, LastIndex(log[n])) \in Index
    BY <1>24, HandlerRequest, NodeTypes, ReaderTypes DEF AppendEntriesSetCommit, LesserOf
  <2>. QED
    BY <1>24, <2>1 DEF AppendEntriesSetCommit, TypeOfNodes, leaderVars, termVars
<1>25. CASE AppendEntriesApply(n)
  BY <1>25, ApplyTypes DEF AppendEntriesApply, TypeOfNodes, termVars, leaderVars
<1>26. CASE ProposeEnter(n)
  BY <1>26 DEF TypeOfNodes, ProposeEnter, logVars, termVars, leaderVars
<1>27. CASE ProposeLock(n)
  BY <1>27 DEF TypeOfNodes, ProposeLock, logVars, termVars, leaderVars
<1>28. CASE ProposeAppend(n)
  <2>1. centry[n] \in RaftEntry
    BY <1>28 DEF ProposeAppend, IndInv, RpcMatched, ClientMatched
  <2>2. AppendEntry(log[n], centry[n]) \in Log /\ centry[n].index \in Index
    BY <2>1, NodeTypes, WriterTypes DEF RaftEntry
  <2>. QED
    BY <1>28, <2>2 DEF ProposeAppend, TypeOfNodes, termVars
<1>29. CASE RpcTimeout(n)
  BY <1>29 DEF TypeOfNodes, RpcTimeout, logVars, termVars, leaderVars
<1>30. CASE Restart(n)
  <2>1. EmptyLog \in Log /\ <<>> \in Seq(RaftEntry)
    BY EmptySeq DEF EmptyLog, Log, Index
  <2>2. InitNode(0) \in [Server -> Index]
    BY DEF InitNode, Index
  <2>. QED
    BY <1>30, <2>1, <2>2 DEF Restart, TypeOfNodes, NodeState, Term, Index
<1>. QED
  BY <1>1, <1>2, <1>3, <1>4, <1>5, <1>6, <1>7, <1>8, <1>9, <1>10, <1>11, <1>12, <1>13, <1>14,
     <1>15, <1>16, <1>17, <1>18, <1>19, <1>20, <1>21, <1>22, <1>23, <1>24, <1>25, <1>26,
     <1>27, <1>28, <1>29, <1>30 DEF Worker, Handler, Client

\* Every step keeps the types of the threads' locals, of the RPCs and of the counters.
LEMMA ThreadsStep ==
    ASSUME IndInv, NEW n \in Server,
           Worker(n) \/ Handler(n) \/ Client(n) \/ RpcTimeout(n) \/ Restart(n)
    PROVE  TypeOfThreads'
<1>. TypeOfThreads /\ TypeOfNodes
  BY DEF IndInv
<1>1. CASE BecomeCandidate(n)
  BY <1>1 DEF TypeOfThreads, BecomeCandidate, workerVars, rpcVars, handlerVars, clientVars,
     WorkerPc, HandlerPc, NoBallot, NoPrev, NoEntry, Ballot, Index, Term, kNoNodeId
<1>2. CASE EnterElection(n)
  BY <1>2 DEF TypeOfThreads, EnterElection, WorkerAt, rpcVars, handlerVars, clientVars,
     boundVars, WorkerPc, HandlerPc, NoBallot, NoPrev, NoEntry, Ballot, Index, Term, kNoNodeId
<1>3. CASE StartElection(n)
  <2>1. [term |-> current_term[n], last_log_index |-> LastIndex(log[n]),
         last_log_term |-> LastTerm(log[n])] \in Ballot
    BY NodeTypes, ReaderTypes DEF Ballot
  <2>. QED
    BY <1>3, <2>1 DEF TypeOfThreads, StartElection, WorkerAt, rpcVars, handlerVars, clientVars,
       boundVars, WorkerPc, kNoNodeId
<1>4. CASE SendRequestVote(n)
  <2>1. PICK p \in Server :
          /\ peer' = [peer EXCEPT ![n] = p]
          /\ Send(n, [kind |-> "RequestVote", from |-> n, to |-> p,
                      term |-> ballot[n].term,
                      last_log_index |-> ballot[n].last_log_index,
                      last_log_term |-> ballot[n].last_log_term])
    BY <1>4 DEF SendRequestVote
  <2>2. rpc_req'[n] \in Request /\ rpc_req' = [rpc_req EXCEPT ![n] = rpc_req'[n]]
    BY <2>1 DEF TypeOfThreads, Send, Ballot, Request, VoteRequest
  <2>. QED
    BY <1>4, <2>1, <2>2 DEF TypeOfThreads, SendRequestVote, Send, WorkerAt, handlerVars,
       clientVars, boundVars, WorkerPc
<1>5. CASE VoteReply(n)
  <2>1. CASE EndLoop(n) /\ WorkerAt(n, "loop")
    BY <1>5, <2>1 DEF TypeOfThreads, VoteReply, EndLoop, EndRpc, WorkerAt, WorkerPc, NoBallot,
       Ballot, Index, Term, kNoNodeId, handlerVars, clientVars, boundVars
  <2>2. CASE /\ votes' = [votes EXCEPT ![n] = IF rpc_resp[n].vote_granted THEN @ + 1 ELSE @]
             /\ WorkerAt(n, "poll")
             /\ UNCHANGED <<ballot, peer>>
    BY <1>5, <2>2 DEF TypeOfThreads, VoteReply, EndRpc, WorkerAt, WorkerPc, handlerVars,
       clientVars, boundVars
  <2>. QED
    BY <1>5, <2>1, <2>2 DEF VoteReply
<1>6. CASE EndElection(n)
  BY <1>6 DEF TypeOfThreads, EndElection, WorkerAt, EndLoop, InitNode, rpcVars, handlerVars,
     clientVars, boundVars, WorkerPc, HandlerPc, NoBallot, NoPrev, NoEntry, Ballot, Index,
     Term, kNoNodeId
<1>7. CASE BroadcastHeartbeat(n)
  BY <1>7, NodeTypes DEF TypeOfThreads, BroadcastHeartbeat, WorkerAt, rpcVars, handlerVars,
     clientVars, boundVars, WorkerPc
<1>8. CASE ReadPrev(n)
  <2>1. PICK p \in Server :
          /\ p \in Peers(n)
          /\ peer' = [peer EXCEPT ![n] = p]
          /\ prev' = [prev EXCEPT ![n] = [index |-> next_index[n][p] - 1,
                                          term |-> TermAt(log[n], next_index[n][p] - 1)]]
    BY <1>8 DEF ReadPrev, NextPeer
  <2>2. next_index[n][p] - 1 \in Index
    BY <1>8, <2>1, NodeTypes DEF ReadPrev, IndInv, NextIndexPositive, Index
  <2>3. TermAt(log[n], next_index[n][p] - 1) \in Term
    BY <2>2, NodeTypes, TermAtType
  <2>. QED
    BY <1>8, <2>1, <2>2, <2>3 DEF TypeOfThreads, ReadPrev, WorkerAt, rpcVars, handlerVars,
       clientVars, boundVars, WorkerPc
<1>9. CASE SendAppendEntries(n)
  <2>. DEFINE es    == EntriesFrom(log[n], prev[n].index + 1)
              batch == SubSeq(es, 1, LesserOf(MaxEntriesPerMsg, Len(es)))
  <2>1. prev[n].index \in Index /\ prev[n].term \in Term
    BY DEF TypeOfThreads
  <2>2. es \in Seq(RaftEntry)
    BY <2>1, NodeTypes, EntriesFromType DEF Index
  <2>3. batch \in Seq(RaftEntry)
    BY <2>2, BatchAssumption, PrefixType
  <2>4. peer[n] \in Server
    BY <1>9 DEF SendAppendEntries, IndInv, PeerServed, Peers
  <2>. HIDE DEF es, batch
  <2>5. [kind |-> "AppendEntries", from |-> n, to |-> peer[n], term |-> current_term[n],
         prev_log_index |-> prev[n].index, prev_log_term |-> prev[n].term,
         entries |-> batch, leader_commit |-> leader_commit[n]] \in Request
    BY <2>1, <2>3, <2>4, NodeTypes DEF TypeOfThreads, Request, AppendRequest
  <2>. QED
    BY <1>9, <2>5 DEF TypeOfThreads, SendAppendEntries, Send, WorkerAt, handlerVars, clientVars,
       boundVars, WorkerPc, NoPrev, Index, Term, es, batch
<1>10. CASE AppendReply(n)
  BY <1>10 DEF TypeOfThreads, AppendReply, WorkerAt, EndRpc, handlerVars, clientVars,
     boundVars, WorkerPc, HandlerPc, NoBallot, NoPrev, NoEntry, Ballot, Index, Term, kNoNodeId
<1>11. CASE EndBroadcast(n)
  BY <1>11 DEF TypeOfThreads, EndBroadcast, WorkerAt, EndLoop, rpcVars, handlerVars,
     clientVars, boundVars, WorkerPc, HandlerPc, NoBallot, NoPrev, NoEntry, Ballot, Index,
     Term, kNoNodeId
<1>12. CASE AdvanceCommitIndex(n)
  BY <1>12 DEF TypeOfThreads, AdvanceCommitIndex, WorkerAt, rpcVars, handlerVars, clientVars,
     boundVars, WorkerPc, HandlerPc, NoBallot, NoPrev, NoEntry, Ballot, Index, Term, kNoNodeId
<1>13. CASE ApplyCommittedEntries(n)
  BY <1>13 DEF TypeOfThreads, ApplyCommittedEntries, WorkerAt, rpcVars, handlerVars,
     clientVars, boundVars, WorkerPc, HandlerPc, NoBallot, NoPrev, NoEntry, Ballot, Index,
     Term, kNoNodeId
<1>14. CASE Take(n)
  <2>1. PICK m \in Server :
          /\ rpc_state[m] = "sent"
          /\ Admit(n, rpc_req[m])
          /\ rpc_state' = [rpc_state EXCEPT ![m] = "taken"]
    BY <1>14 DEF Take
  <2>2. rpc_req[m] \in Request
    BY <2>1, WorkerRpc DEF IndInv, RpcMatched, CallerMatched
  <2>3. hpc' \in [Server -> HandlerPc] /\ hreq' \in [Server -> Request \cup {None}]
    BY <2>1, <2>2, AdmitTypes
  <2>4. rpc_state' \in [Server -> {"idle", "sent", "taken", "done"}]
    BY <2>1 DEF TypeOfThreads
  <2>5. /\ hlive' = [hlive EXCEPT ![n] = TRUE]
        /\ UNCHANGED <<workerVars, rpc_req, rpc_resp, orphans, clientVars, boundVars>>
    BY <1>14 DEF Take
  <2>6. hlive' \in [Server -> BOOLEAN]
    BY <2>5 DEF TypeOfThreads
  <2>. QED
    BY <2>3, <2>4, <2>5, <2>6 DEF TypeOfThreads, workerVars, clientVars, boundVars
<1>15. CASE TakeOrphan(n)
  <2>1. PICK req \in orphans :
          /\ orphans' = orphans \ {req}
          /\ Admit(n, req) \/ UNCHANGED <<hpc, hreq>>
    BY <1>15 DEF TakeOrphan
  <2>2. req \in Request /\ orphans' \in SUBSET Request
    BY <2>1 DEF TypeOfThreads
  <2>3. hpc' \in [Server -> HandlerPc] /\ hreq' \in [Server -> Request \cup {None}]
    <3>1. CASE Admit(n, req)
      BY <2>2, <3>1, AdmitTypes
    <3>2. CASE UNCHANGED <<hpc, hreq>>
      BY <3>2 DEF TypeOfThreads
    <3>. QED
      BY <2>1, <3>1, <3>2
  <2>4. UNCHANGED <<workerVars, rpcVars, hlive, clientVars, boundVars>>
    BY <1>15 DEF TakeOrphan
  <2>. QED
    BY <2>2, <2>3, <2>4 DEF TypeOfThreads, workerVars, rpcVars, clientVars, boundVars
<1>16. CASE Refuse(n)
  <2>1. PICK m \in Server :
          /\ rpc_state' = [rpc_state EXCEPT ![m] = "done"]
          /\ rpc_resp' = [rpc_resp EXCEPT ![m] = RefusalOf(n, rpc_req[m])]
    BY <1>16 DEF Refuse
  <2>2. RefusalOf(n, rpc_req[m]) \in VoteResponse \cup AppendResponse
    BY NodeTypes, ReaderTypes, AnswerTypes DEF RefusalOf, VoteResponse, AppendResponse
  <2>. QED
    BY <1>16, <2>1, <2>2 DEF TypeOfThreads, Refuse, workerVars, handlerVars, clientVars,
       boundVars
<1>17. CASE RequestVoteStepDown(n)
  BY <1>17 DEF TypeOfThreads, RequestVoteStepDown, HandlerAt, workerVars, rpcVars, clientVars,
     boundVars, WorkerPc, HandlerPc, NoBallot, NoPrev, NoEntry, Ballot, Index, Term, kNoNodeId
<1>18. CASE RequestVoteDecide(n)
  <2>1. PICK granted \in BOOLEAN : Respond(n, [term |-> hreq[n].term, vote_granted |-> granted])
    BY <1>18 DEF RequestVoteDecide, LogOk
  <2>2. [term |-> hreq[n].term, vote_granted |-> granted] \in VoteResponse
    BY <1>18, HandlerRequest DEF RequestVoteDecide, VoteResponse
  <2>. QED
    BY <1>18, <2>1, <2>2, RespondTypes
       DEF TypeOfThreads, RequestVoteDecide, workerVars, clientVars, boundVars
<1>19. CASE AppendEntriesStepDown(n)
  BY <1>19 DEF TypeOfThreads, AppendEntriesStepDown, HandlerAt, workerVars, rpcVars,
     clientVars, boundVars, WorkerPc, HandlerPc, NoBallot, NoPrev, NoEntry, Ballot, Index,
     Term, kNoNodeId
<1>20. CASE AppendEntriesCheck(n)
  <2>1. CASE \E resp \in AppendResponse : Respond(n, resp)
    BY <1>20, <2>1, RespondTypes
       DEF TypeOfThreads, AppendEntriesCheck, workerVars, clientVars, boundVars
  <2>2. CASE /\ \E pc \in {"ae_trunc", "ae_commit"} : HandlerAt(n, pc)
             /\ UNCHANGED <<hreq, hlive, rpcVars>>
    BY <1>20, <2>2 DEF TypeOfThreads, AppendEntriesCheck, HandlerAt, HandlerPc, workerVars,
       rpcVars, clientVars, boundVars
  <2>. QED
    BY <1>20, <2>1, <2>2, CheckAnswers
<1>21. CASE AppendEntriesTruncate(n)
  BY <1>21 DEF TypeOfThreads, AppendEntriesTruncate, HandlerAt, workerVars, rpcVars,
     clientVars, boundVars, WorkerPc, HandlerPc, NoBallot, NoPrev, NoEntry, Ballot, Index,
     Term, kNoNodeId
<1>22. CASE AppendEntriesStore(n)
  BY <1>22 DEF TypeOfThreads, AppendEntriesStore, HandlerAt, workerVars, rpcVars, clientVars,
     boundVars, WorkerPc, HandlerPc, NoBallot, NoPrev, NoEntry, Ballot, Index, Term, kNoNodeId
<1>23. CASE AppendEntriesCommit(n)
  <2>1. CASE Succeed(n)
    <3>1. PICK resp \in AppendResponse : Respond(n, resp)
      BY <1>23, <2>1, SuccessAnswer DEF AppendEntriesCommit
    <3>. QED
      BY <1>23, <3>1, RespondTypes DEF TypeOfThreads, AppendEntriesCommit, workerVars,
         clientVars, boundVars
  <2>2. CASE HandlerAt(n, "ae_set") /\ UNCHANGED <<hreq, hlive, rpcVars>>
    BY <1>23, <2>2 DEF TypeOfThreads, AppendEntriesCommit, HandlerAt, HandlerPc, workerVars,
       rpcVars, clientVars, boundVars
  <2>. QED
    BY <1>23, <2>1, <2>2 DEF AppendEntriesCommit
<1>24. CASE AppendEntriesSetCommit(n)
  BY <1>24 DEF TypeOfThreads, AppendEntriesSetCommit, HandlerAt, workerVars, rpcVars,
     clientVars, boundVars, WorkerPc, HandlerPc, NoBallot, NoPrev, NoEntry, Ballot, Index,
     Term, kNoNodeId
<1>25. CASE AppendEntriesApply(n)
  <2>1. PICK resp \in AppendResponse : Respond(n, resp)
    BY <1>25, SuccessAnswer DEF AppendEntriesApply
  <2>. QED
    BY <1>25, <2>1, RespondTypes
       DEF TypeOfThreads, AppendEntriesApply, workerVars, clientVars, boundVars
<1>26. CASE ProposeEnter(n)
  BY <1>26 DEF TypeOfThreads, ProposeEnter, workerVars, rpcVars, handlerVars, WorkerPc,
     HandlerPc, NoBallot, NoPrev, NoEntry, Ballot, Index, Term, kNoNodeId
<1>27. CASE ProposeLock(n)
  <2>1. PICK v \in Value :
          centry' = [centry EXCEPT ![n] = [term |-> current_term[n],
                                           index |-> LastIndex(log[n]) + 1, value |-> v]]
    BY <1>27 DEF ProposeLock
  <2>2. [term |-> current_term[n], index |-> LastIndex(log[n]) + 1, value |-> v] \in RaftEntry
    BY NodeTypes, ReaderTypes DEF RaftEntry, Index
  <2>. QED
    BY <1>27, <2>1, <2>2 DEF TypeOfThreads, ProposeLock, workerVars, rpcVars, handlerVars,
       boundVars
<1>28. CASE ProposeAppend(n)
  BY <1>28 DEF TypeOfThreads, ProposeAppend, workerVars, rpcVars, handlerVars, boundVars,
     WorkerPc, HandlerPc, NoBallot, NoPrev, NoEntry, Ballot, Index, Term, kNoNodeId
<1>29. CASE RpcTimeout(n)
  <2>1. rpc_req[n] \in Request
    BY <1>29, WorkerRpc DEF RpcTimeout, IndInv, RpcMatched, CallerMatched
  <2>2. orphans' \in SUBSET Request /\ hlive' \in [Server -> BOOLEAN]
    BY <1>29, <2>1 DEF RpcTimeout, Abandon, TypeOfThreads
  <2>3. FailedResponse(rpc_req[n]) \in VoteResponse \cup AppendResponse
    BY <2>1, AnswerTypes
  <2>4. /\ rpc_state' \in [Server -> {"idle", "sent", "taken", "done"}]
        /\ rpc_resp' \in [Server -> VoteResponse \cup AppendResponse \cup {None}]
        /\ {elections, proposals, timeouts, restarts}' \subseteq Nat
    BY <1>29, <2>3 DEF RpcTimeout, TypeOfThreads
  <2>. QED
    BY <1>29, <2>2, <2>4 DEF TypeOfThreads, RpcTimeout, workerVars, clientVars
<1>30. CASE Restart(n)
  <2>1. /\ wpc' \in [Server -> WorkerPc]
        /\ ballot' \in [Server -> Ballot]
        /\ votes' \in [Server -> Nat]
        /\ peer' \in [Server -> Server \cup {kNoNodeId}]
        /\ leader_commit' \in [Server -> Index]
        /\ prev' \in [Server -> [index : Index, term : Term]]
    BY <1>30 DEF Restart, TypeOfThreads, WorkerAt, EndLoop, WorkerPc, Ballot, NoBallot, NoPrev,
       Index, Term, kNoNodeId
  <2>. DEFINE served(m) == rpc_state[m] = "taken" /\ rpc_req[m].to = n
  <2>2. ASSUME NEW m \in Server, served(m)
        PROVE  FailedResponse(rpc_req[m]) \in VoteResponse \cup AppendResponse
    BY <2>2, WorkerRpc, AnswerTypes DEF IndInv, RpcMatched, CallerMatched
  <2>3. /\ rpc_state' \in [Server -> {"idle", "sent", "taken", "done"}]
        /\ rpc_req' \in [Server -> Request \cup {None}]
    BY <1>30 DEF Restart, TypeOfThreads
  <2>4. rpc_resp' \in [Server -> VoteResponse \cup AppendResponse \cup {None}]
    BY <1>30, <2>2 DEF Restart, TypeOfThreads
  <2>5. orphans' \in SUBSET Request
    <3>1. rpc_state[n] = "sent" => rpc_req[n] \in Request
      BY WorkerRpc DEF IndInv, RpcMatched, CallerMatched
    <3>. QED
      BY <1>30, <3>1 DEF Restart, TypeOfThreads
  <2>6. /\ hpc' \in [Server -> HandlerPc]
        /\ hreq' \in [Server -> Request \cup {None}]
        /\ hlive' \in [Server -> BOOLEAN]
    BY <1>30 DEF Restart, TypeOfThreads, HandlerAt, HandlerPc
  <2>7. /\ cpc' \in [Server -> {"idle", "lock", "append"}]
        /\ centry' \in [Server -> RaftEntry \cup {NoEntry}]
        /\ {elections, proposals, timeouts, restarts}' \subseteq Nat
    BY <1>30 DEF Restart, TypeOfThreads
  <2>. QED
    BY <2>1, <2>3, <2>4, <2>5, <2>6, <2>7 DEF TypeOfThreads
<1>. QED
  BY <1>1, <1>2, <1>3, <1>4, <1>5, <1>6, <1>7, <1>8, <1>9, <1>10, <1>11, <1>12, <1>13, <1>14,
     <1>15, <1>16, <1>17, <1>18, <1>19, <1>20, <1>21, <1>22, <1>23, <1>24, <1>25, <1>26,
     <1>27, <1>28, <1>29, <1>30 DEF Worker, Handler, Client

-----------------------------------------------------------------------------
(* The two ends of an RPC *)

(***************************************************************************)
(* The handler answers: its caller, if it still waits, gets an answer of   *)
(* the kind it asked for, and no other caller is disturbed, because two    *)
(* busy handlers never serve the same call.                                *)
(***************************************************************************)
LEMMA RespondMatched ==
    ASSUME IndInv, NEW n \in Server, NEW resp, hpc[n] # "idle",
           hpc[n] \in {"rv_down", "rv_vote"} => resp \in VoteResponse,
           hpc[n] \notin {"rv_down", "rv_vote"} => resp \in AppendResponse,
           Respond(n, resp), UNCHANGED <<wpc, cpc, centry>>
    PROVE  RpcMatched'
<1>. TypeOfThreads
  BY DEF IndInv
<1>1. \A m \in Server : CallerMatched(m) /\ HandlerMatched(m) /\ ClientMatched(m)
  BY DEF IndInv, RpcMatched
<1>. DEFINE caller == hreq[n].from
<1>2. /\ hlive[n] => rpc_state[caller] = "taken" /\ rpc_req[caller] = hreq[n]
      /\ hreq[n] \in RequestKind(hpc[n]) /\ hreq[n].to = n
      /\ caller \in Server
  BY <1>1, HandlerRequest DEF HandlerMatched
<1>3. hreq[n] \in VoteRequest <=> hpc[n] \in {"rv_down", "rv_vote"}
  BY <1>2 DEF RequestKind, VoteRequest, AppendRequest
<1>4. /\ rpc_req' = rpc_req
      /\ rpc_state' = IF hlive[n] THEN [rpc_state EXCEPT ![caller] = "done"] ELSE rpc_state
      /\ rpc_resp' = IF hlive[n] THEN [rpc_resp EXCEPT ![caller] = resp] ELSE rpc_resp
      /\ hpc' = [hpc EXCEPT ![n] = "idle"]
      /\ hreq' = [hreq EXCEPT ![n] = None]
      /\ hlive' = [hlive EXCEPT ![n] = FALSE]
  BY DEF Respond, HandlerAt
<1>5. ASSUME NEW m \in Server PROVE CallerMatched(m)'
  <2>1. CASE hlive[n] /\ m = caller
    <3>1. wpc[m] \in {"vote", "append"}
      BY <1>1, <1>2, <2>1 DEF CallerMatched
    <3>2. /\ wpc[m] = "vote" => hreq[n] \in VoteRequest
          /\ wpc[m] = "append" => hreq[n] \in AppendRequest
      BY <1>1, <1>2, <2>1 DEF CallerMatched
    <3>3. /\ wpc[m] = "vote" => resp \in VoteResponse
          /\ wpc[m] = "append" => resp \in AppendResponse
      BY <1>3, <3>2 DEF VoteRequest, AppendRequest
    <3>. QED
      BY <1>1, <1>4, <2>1, <3>1, <3>3 DEF CallerMatched, TypeOfThreads
  <2>2. CASE ~(hlive[n] /\ m = caller)
    BY <1>1, <1>2, <1>4, <2>2 DEF CallerMatched, TypeOfThreads
  <2>. QED
    BY <2>1, <2>2
<1>6. ASSUME NEW m \in Server PROVE HandlerMatched(m)'
  <2>1. CASE m = n
    BY <1>4, <2>1 DEF HandlerMatched, TypeOfThreads
  <2>2. CASE m # n
    <3>1. /\ hpc'[m] = hpc[m] /\ hreq'[m] = hreq[m] /\ hlive'[m] = hlive[m]
      BY <1>4, <2>2 DEF TypeOfThreads
    <3>2. hlive[m] /\ hlive[n] => hreq[m].from # caller
      BY <1>1, <1>2, <2>2 DEF HandlerMatched
    <3>3. hlive[m] => rpc_state'[hreq[m].from] = "taken"
      BY <1>1, <1>2, <1>4, <3>2 DEF HandlerMatched, TypeOfThreads
    <3>. QED
      BY <1>1, <1>4, <3>1, <3>3 DEF HandlerMatched
  <2>. QED
    BY <2>1, <2>2
<1>7. ASSUME NEW m \in Server PROVE ClientMatched(m)'
  BY <1>1 DEF ClientMatched
<1>. QED
  BY <1>5, <1>6, <1>7 DEF RpcMatched

\* A worker that was in no RPC sends a request of its own: no handler served it yet.
LEMMA SentMatched ==
    ASSUME IndInv, NEW n \in Server, wpc[n] \notin {"vote", "append"},
           rpc_state' = [rpc_state EXCEPT ![n] = "sent"],
           NEW req, rpc_req' = [rpc_req EXCEPT ![n] = req],
           NEW pc, wpc' = [wpc EXCEPT ![n] = pc],
           \/ pc = "vote" /\ req \in VoteRequest
           \/ pc = "append" /\ req \in AppendRequest,
           req.from = n,
           UNCHANGED <<rpc_resp, hpc, hreq, hlive, cpc, centry>>
    PROVE  RpcMatched'
<1>1. TypeOfThreads /\ RpcMatched
  BY DEF IndInv
<1>2. ASSUME NEW m \in Server PROVE CallerMatched(m)'
  BY <1>1 DEF RpcMatched, CallerMatched, TypeOfThreads
<1>3. ASSUME NEW m \in Server PROVE HandlerMatched(m)'
  <2>1. rpc_state[n] = "idle"
    BY <1>1 DEF RpcMatched, CallerMatched
  <2>2. hlive[m] => hreq[m].from # n
    BY <1>1, <2>1 DEF RpcMatched, HandlerMatched
  <2>. QED
    BY <1>1, <2>2 DEF RpcMatched, HandlerMatched, TypeOfThreads
<1>4. ASSUME NEW m \in Server PROVE ClientMatched(m)'
  BY <1>1 DEF RpcMatched, ClientMatched
<1>. QED
  BY <1>2, <1>3, <1>4 DEF RpcMatched

\* A request nobody has taken is answered on the spot: no handler was serving it.
LEMMA AnsweredMatched ==
    ASSUME IndInv, NEW m \in Server, rpc_state[m] = "sent", NEW resp,
           rpc_req[m] \in VoteRequest => resp \in VoteResponse,
           rpc_req[m] \in AppendRequest => resp \in AppendResponse,
           rpc_state' = [rpc_state EXCEPT ![m] = "done"],
           rpc_resp' = [rpc_resp EXCEPT ![m] = resp],
           UNCHANGED <<wpc, rpc_req, hpc, hreq, hlive, cpc, centry>>
    PROVE  RpcMatched'
<1>1. TypeOfThreads /\ RpcMatched
  BY DEF IndInv
<1>2. ASSUME NEW k \in Server PROVE CallerMatched(k)'
  BY <1>1 DEF RpcMatched, CallerMatched, TypeOfThreads
<1>3. ASSUME NEW k \in Server PROVE HandlerMatched(k)'
  BY <1>1 DEF RpcMatched, HandlerMatched, TypeOfThreads
<1>4. ASSUME NEW k \in Server PROVE ClientMatched(k)'
  BY <1>1 DEF RpcMatched, ClientMatched
<1>. QED
  BY <1>2, <1>3, <1>4 DEF RpcMatched

\* Every step keeps the two ends of every RPC matched.
LEMMA RpcStep ==
    ASSUME IndInv, NEW n \in Server,
           Worker(n) \/ Handler(n) \/ Client(n) \/ RpcTimeout(n) \/ Restart(n)
    PROVE  RpcMatched'
<1>. TypeOfThreads /\ RpcMatched
  BY DEF IndInv
<1>1. CASE BecomeCandidate(n)
  BY <1>1 DEF TypeOfThreads, RpcMatched, CallerMatched, HandlerMatched, ClientMatched,
     RequestKind, BecomeCandidate, workerVars, rpcVars, handlerVars, clientVars
<1>2. CASE EnterElection(n)
  BY <1>2 DEF TypeOfThreads, RpcMatched, CallerMatched, HandlerMatched, ClientMatched,
     RequestKind, EnterElection, WorkerAt, rpcVars, handlerVars, clientVars
<1>3. CASE StartElection(n)
  BY <1>3 DEF TypeOfThreads, RpcMatched, CallerMatched, HandlerMatched, ClientMatched,
     RequestKind, StartElection, WorkerAt, rpcVars, handlerVars, clientVars
<1>4. CASE SendRequestVote(n)
  <2>1. PICK p \in Server :
          Send(n, [kind |-> "RequestVote", from |-> n, to |-> p,
                   term |-> ballot[n].term,
                   last_log_index |-> ballot[n].last_log_index,
                   last_log_term |-> ballot[n].last_log_term])
    BY <1>4 DEF SendRequestVote
  <2>. DEFINE req == [kind |-> "RequestVote", from |-> n, to |-> p,
                      term |-> ballot[n].term,
                      last_log_index |-> ballot[n].last_log_index,
                      last_log_term |-> ballot[n].last_log_term]
  <2>2. req \in VoteRequest /\ req.from = n
    BY DEF TypeOfThreads, Ballot, VoteRequest
  <2>3. /\ rpc_state' = [rpc_state EXCEPT ![n] = "sent"]
        /\ rpc_req' = [rpc_req EXCEPT ![n] = req]
        /\ UNCHANGED rpc_resp
    BY <2>1 DEF Send
  <2>. HIDE DEF req
  <2>. QED
    BY <1>4, <2>2, <2>3, SentMatched DEF SendRequestVote, WorkerAt, handlerVars, clientVars
<1>5. CASE VoteReply(n)
  BY <1>5 DEF TypeOfThreads, RpcMatched, CallerMatched, HandlerMatched, ClientMatched,
     RequestKind, VoteReply, WorkerAt, EndLoop, EndRpc, handlerVars, clientVars
<1>6. CASE EndElection(n)
  BY <1>6 DEF TypeOfThreads, RpcMatched, CallerMatched, HandlerMatched, ClientMatched,
     RequestKind, EndElection, WorkerAt, EndLoop, InitNode, rpcVars, handlerVars, clientVars
<1>7. CASE BroadcastHeartbeat(n)
  BY <1>7 DEF TypeOfThreads, RpcMatched, CallerMatched, HandlerMatched, ClientMatched,
     RequestKind, BroadcastHeartbeat, WorkerAt, rpcVars, handlerVars, clientVars
<1>8. CASE ReadPrev(n)
  BY <1>8 DEF TypeOfThreads, RpcMatched, CallerMatched, HandlerMatched, ClientMatched,
     RequestKind, ReadPrev, WorkerAt, rpcVars, handlerVars, clientVars
<1>9. CASE SendAppendEntries(n)
  <2>1. rpc_req'[n] \in Request /\ rpc_req'[n].kind = "AppendEntries" /\ rpc_req'[n].from = n
    <3>1. TypeOfThreads'
      BY <1>9, ThreadsStep DEF Worker
    <3>2. rpc_req'[n].kind = "AppendEntries" /\ rpc_req'[n].from = n
      BY <1>9 DEF SendAppendEntries, Send, TypeOfThreads
    <3>. QED
      BY <3>1, <3>2 DEF TypeOfThreads, None
  <2>2. rpc_req'[n] \in AppendRequest
    BY <2>1 DEF Request, VoteRequest
  <2>. QED
    BY <1>9, <2>1, <2>2, SentMatched DEF SendAppendEntries, Send, WorkerAt, handlerVars,
       clientVars
<1>10. CASE AppendReply(n)
  BY <1>10 DEF TypeOfThreads, RpcMatched, CallerMatched, HandlerMatched, ClientMatched,
     RequestKind, AppendReply, WorkerAt, EndRpc, handlerVars, clientVars
<1>11. CASE EndBroadcast(n)
  BY <1>11 DEF TypeOfThreads, RpcMatched, CallerMatched, HandlerMatched, ClientMatched,
     RequestKind, EndBroadcast, WorkerAt, EndLoop, rpcVars, handlerVars, clientVars
<1>12. CASE AdvanceCommitIndex(n)
  BY <1>12 DEF TypeOfThreads, RpcMatched, CallerMatched, HandlerMatched, ClientMatched,
     RequestKind, AdvanceCommitIndex, WorkerAt, rpcVars, handlerVars, clientVars
<1>13. CASE ApplyCommittedEntries(n)
  BY <1>13 DEF TypeOfThreads, RpcMatched, CallerMatched, HandlerMatched, ClientMatched,
     RequestKind, ApplyCommittedEntries, WorkerAt, rpcVars, handlerVars, clientVars
<1>14. CASE Take(n)
  <2>1. PICK m \in Server :
          /\ rpc_state[m] = "sent" /\ rpc_req[m].to = n
          /\ Admit(n, rpc_req[m])
          /\ rpc_state' = [rpc_state EXCEPT ![m] = "taken"]
    BY <1>14 DEF Take
  <2>2. rpc_req[m] \in Request /\ rpc_req[m].from = m
    BY <2>1, WorkerRpc DEF RpcMatched, CallerMatched
  <2>3. rpc_req[m] \in RequestKind(hpc'[n]) /\ hpc'[n] # "idle" /\ hreq'[n] = rpc_req[m]
    BY <2>1, <2>2 DEF Admit, HandlerAt, RequestKind, Request, VoteRequest, AppendRequest,
       TypeOfThreads
  <2>4. ASSUME NEW k \in Server PROVE CallerMatched(k)'
    BY <1>14, <2>1 DEF Take, RpcMatched, CallerMatched, TypeOfThreads, workerVars
  <2>5. HandlerMatched(n)'
    BY <1>14, <2>1, <2>2, <2>3 DEF Take, HandlerMatched, TypeOfThreads
  <2>6. ASSUME NEW k \in Server, k # n PROVE HandlerMatched(k)'
    <3>1. hpc'[k] = hpc[k] /\ hreq'[k] = hreq[k] /\ hlive'[k] = hlive[k] /\ rpc_req' = rpc_req
      BY <1>14, <2>1, <2>6 DEF Take, Admit, HandlerAt, TypeOfThreads
    <3>2. hlive[k] => rpc_state[hreq[k].from] = "taken" /\ hreq[k].from \in Server
      BY HandlerRequest DEF RpcMatched, HandlerMatched
    <3>3. hlive[k] => rpc_state'[hreq[k].from] = "taken"
      BY <2>1, <3>2 DEF TypeOfThreads
    <3>. QED
      BY <3>1, <3>3 DEF RpcMatched, HandlerMatched
  <2>7. ASSUME NEW k \in Server PROVE ClientMatched(k)'
    BY <1>14 DEF Take, RpcMatched, ClientMatched, clientVars
  <2>. QED
    BY <2>4, <2>5, <2>6, <2>7 DEF RpcMatched
<1>15. CASE TakeOrphan(n)
  <2>1. PICK req \in orphans :
          req.to = n /\ (Admit(n, req) \/ UNCHANGED <<hpc, hreq>>)
    BY <1>15 DEF TakeOrphan
  <2>2. req \in Request
    BY DEF TypeOfThreads
  <2>3. ~hlive[n]
    BY <1>15 DEF TakeOrphan, RpcMatched, HandlerMatched
  <2>4. CASE Admit(n, req)
    <3>1. req \in RequestKind(hpc'[n]) /\ hreq'[n] = req
      BY <2>2, <2>4 DEF Admit, HandlerAt, RequestKind, Request, VoteRequest, AppendRequest,
         TypeOfThreads
    <3>2. HandlerMatched(n)'
      BY <1>15, <2>1, <2>3, <3>1 DEF TakeOrphan, HandlerMatched
    <3>3. ASSUME NEW k \in Server, k # n PROVE HandlerMatched(k)'
      BY <1>15, <2>4, <3>3 DEF TakeOrphan, Admit, HandlerAt, RpcMatched, HandlerMatched,
         TypeOfThreads, rpcVars
    <3>. QED
      BY <1>15, <3>2, <3>3 DEF TakeOrphan, RpcMatched, CallerMatched, ClientMatched, workerVars,
         rpcVars, clientVars
  <2>5. CASE UNCHANGED <<hpc, hreq>>
    BY <1>15, <2>5 DEF TakeOrphan, RpcMatched, CallerMatched, HandlerMatched, ClientMatched,
       workerVars, rpcVars, clientVars
  <2>. QED
    BY <2>1, <2>4, <2>5
<1>16. CASE Refuse(n)
  <2>1. PICK m \in Server :
          /\ rpc_state[m] = "sent"
          /\ rpc_state' = [rpc_state EXCEPT ![m] = "done"]
          /\ rpc_resp' = [rpc_resp EXCEPT ![m] = RefusalOf(n, rpc_req[m])]
    BY <1>16 DEF Refuse
  <2>2. /\ rpc_req[m] \in VoteRequest => RefusalOf(n, rpc_req[m]) \in VoteResponse
        /\ rpc_req[m] \in AppendRequest => RefusalOf(n, rpc_req[m]) \in AppendResponse
    BY NodeTypes, ReaderTypes, AnswerTypes
       DEF IndInv, RefusalOf, VoteResponse, AppendResponse, VoteRequest, AppendRequest
  <2>. QED
    BY <1>16, <2>1, <2>2, AnsweredMatched DEF Refuse, workerVars, handlerVars, clientVars
<1>17. CASE RequestVoteStepDown(n)
  BY <1>17 DEF TypeOfThreads, RpcMatched, CallerMatched, HandlerMatched, ClientMatched,
     RequestKind, RequestVoteStepDown, HandlerAt, workerVars, rpcVars, clientVars
<1>18. CASE RequestVoteDecide(n)
  <2>1. PICK granted \in BOOLEAN : Respond(n, [term |-> hreq[n].term, vote_granted |-> granted])
    BY <1>18 DEF RequestVoteDecide, LogOk
  <2>2. [term |-> hreq[n].term, vote_granted |-> granted] \in VoteResponse
    BY <1>18, HandlerRequest DEF RequestVoteDecide, VoteResponse
  <2>. QED
    BY <1>18, <2>1, <2>2, RespondMatched DEF RequestVoteDecide, workerVars, clientVars
<1>19. CASE AppendEntriesStepDown(n)
  BY <1>19 DEF TypeOfThreads, RpcMatched, CallerMatched, HandlerMatched, ClientMatched,
     RequestKind, AppendEntriesStepDown, HandlerAt, workerVars, rpcVars, clientVars
<1>20. CASE AppendEntriesCheck(n)
  <2>1. CASE /\ \E pc \in {"ae_trunc", "ae_commit"} : HandlerAt(n, pc)
             /\ UNCHANGED <<hreq, hlive, rpcVars>>
    BY <1>20, <2>1 DEF TypeOfThreads, RpcMatched, CallerMatched, HandlerMatched, ClientMatched,
       RequestKind, AppendEntriesCheck, HandlerAt, workerVars, rpcVars, clientVars
  <2>2. CASE \E resp \in AppendResponse : Respond(n, resp)
    BY <1>20, <2>2, RespondMatched DEF AppendEntriesCheck, workerVars, clientVars
  <2>. QED
    BY <1>20, <2>1, <2>2, CheckAnswers
<1>21. CASE AppendEntriesTruncate(n)
  BY <1>21 DEF TypeOfThreads, RpcMatched, CallerMatched, HandlerMatched, ClientMatched,
     RequestKind, AppendEntriesTruncate, HandlerAt, workerVars, rpcVars, clientVars
<1>22. CASE AppendEntriesStore(n)
  BY <1>22 DEF TypeOfThreads, RpcMatched, CallerMatched, HandlerMatched, ClientMatched,
     RequestKind, AppendEntriesStore, HandlerAt, workerVars, rpcVars, clientVars
<1>23. CASE AppendEntriesCommit(n)
  <2>1. CASE Succeed(n)
    <3>1. PICK resp \in AppendResponse : Respond(n, resp)
      BY <1>23, <2>1, SuccessAnswer DEF AppendEntriesCommit
    <3>. QED
      BY <1>23, <3>1, RespondMatched DEF AppendEntriesCommit, workerVars, clientVars
  <2>2. CASE HandlerAt(n, "ae_set") /\ UNCHANGED <<hreq, hlive, rpcVars>>
    BY <1>23, <2>2 DEF TypeOfThreads, RpcMatched, CallerMatched, HandlerMatched, ClientMatched,
       RequestKind, AppendEntriesCommit, HandlerAt, workerVars, rpcVars, clientVars
  <2>. QED
    BY <1>23, <2>1, <2>2 DEF AppendEntriesCommit
<1>24. CASE AppendEntriesSetCommit(n)
  BY <1>24 DEF TypeOfThreads, RpcMatched, CallerMatched, HandlerMatched, ClientMatched,
     RequestKind, AppendEntriesSetCommit, HandlerAt, workerVars, rpcVars, clientVars
<1>25. CASE AppendEntriesApply(n)
  <2>1. PICK resp \in AppendResponse : Respond(n, resp)
    BY <1>25, SuccessAnswer DEF AppendEntriesApply
  <2>. QED
    BY <1>25, <2>1, RespondMatched DEF AppendEntriesApply, workerVars, clientVars
<1>26. CASE ProposeEnter(n)
  BY <1>26 DEF TypeOfThreads, RpcMatched, CallerMatched, HandlerMatched, ClientMatched,
     RequestKind, ProposeEnter, workerVars, rpcVars, handlerVars
<1>27. CASE ProposeLock(n)
  <2>1. PICK v \in Value :
          centry' = [centry EXCEPT ![n] = [term |-> current_term[n],
                                           index |-> LastIndex(log[n]) + 1, value |-> v]]
    BY <1>27 DEF ProposeLock
  <2>2. [term |-> current_term[n], index |-> LastIndex(log[n]) + 1, value |-> v] \in RaftEntry
    BY NodeTypes, ReaderTypes DEF IndInv, RaftEntry, Index
  <2>. QED
    BY <1>27, <2>1, <2>2 DEF ProposeLock, TypeOfThreads, RpcMatched, CallerMatched,
       HandlerMatched, ClientMatched, workerVars, rpcVars, handlerVars
<1>28. CASE ProposeAppend(n)
  BY <1>28 DEF TypeOfThreads, RpcMatched, CallerMatched, HandlerMatched, ClientMatched,
     RequestKind, ProposeAppend, workerVars, rpcVars, handlerVars
<1>29. CASE RpcTimeout(n)
  <2>1. /\ rpc_req[n] \in VoteRequest => FailedResponse(rpc_req[n]) \in VoteResponse
        /\ rpc_req[n] \in AppendRequest => FailedResponse(rpc_req[n]) \in AppendResponse
    BY AnswerTypes
  <2>2. ASSUME NEW m \in Server PROVE CallerMatched(m)'
    BY <1>29, <2>1 DEF RpcTimeout, RpcMatched, CallerMatched, TypeOfThreads, workerVars
  <2>3. ASSUME NEW m \in Server PROVE HandlerMatched(m)'
    <3>1. /\ hpc' = hpc /\ hreq' = hreq /\ rpc_req' = rpc_req
          /\ rpc_state' = [rpc_state EXCEPT ![n] = "done"]
          /\ hlive'[m] => hlive[m]
      BY <1>29 DEF RpcTimeout, Abandon, TypeOfThreads
    <3>2. ASSUME hlive'[m] PROVE hreq[m].from # n
      <4>1. SUFFICES ASSUME hreq[m].from = n PROVE FALSE
        OBVIOUS
      <4>2. rpc_state[n] = "taken" /\ rpc_req[n] = hreq[m] /\ hreq[m].to = m
        BY <3>1, <3>2, <4>1 DEF RpcMatched, HandlerMatched
      <4>3. ~hlive'[m]
        BY <1>29, <4>2 DEF RpcTimeout, Abandon, TypeOfThreads
      <4>. QED
        BY <3>2, <4>3
    <3>3. hlive'[m] => rpc_state'[hreq[m].from] = "taken"
      BY <3>1, <3>2, HandlerRequest DEF RpcMatched, HandlerMatched, TypeOfThreads
    <3>. QED
      BY <3>1, <3>3 DEF RpcMatched, HandlerMatched
  <2>4. ASSUME NEW m \in Server PROVE ClientMatched(m)'
    BY <1>29 DEF RpcTimeout, RpcMatched, ClientMatched, clientVars
  <2>. QED
    BY <2>2, <2>3, <2>4 DEF RpcMatched
<1>30. CASE Restart(n)
  <2>. DEFINE served(m) == rpc_state[m] = "taken" /\ rpc_req[m].to = n
  <2>1. /\ wpc' = [wpc EXCEPT ![n] = "loop"]
        /\ rpc_req' = [rpc_req EXCEPT ![n] = None]
        /\ \A m \in Server : /\ rpc_state'[m] = IF m = n THEN "idle"
                                                ELSE IF served(m) THEN "done" ELSE rpc_state[m]
                             /\ rpc_resp'[m] = IF m = n THEN None
                                               ELSE IF served(m) THEN FailedResponse(rpc_req[m])
                                               ELSE rpc_resp[m]
    BY <1>30 DEF Restart, WorkerAt
  <2>2. /\ hpc' = [hpc EXCEPT ![n] = "idle"]
        /\ hreq' = [hreq EXCEPT ![n] = None]
        /\ \A m \in Server : hlive'[m] <=> hlive[m] /\ m # n /\ hreq[m].from # n
    BY <1>30 DEF Restart, HandlerAt
  <2>3. ASSUME NEW m \in Server PROVE CallerMatched(m)'
    <3>1. CASE m = n
      BY <2>1, <3>1 DEF CallerMatched, TypeOfThreads
    <3>2. CASE m # n
      <4>1. wpc'[m] = wpc[m] /\ rpc_req'[m] = rpc_req[m]
        BY <2>1, <3>2 DEF TypeOfThreads
      <4>2. /\ rpc_req[m] \in VoteRequest => FailedResponse(rpc_req[m]) \in VoteResponse
            /\ rpc_req[m] \in AppendRequest => FailedResponse(rpc_req[m]) \in AppendResponse
        BY AnswerTypes
      <4>. QED
        BY <2>1, <3>2, <4>1, <4>2 DEF RpcMatched, CallerMatched
    <3>. QED
      BY <3>1, <3>2
  <2>4. ASSUME NEW m \in Server PROVE HandlerMatched(m)'
    <3>1. CASE m = n
      BY <2>2, <3>1 DEF HandlerMatched, TypeOfThreads
    <3>2. CASE m # n
      <4>1. hpc'[m] = hpc[m] /\ hreq'[m] = hreq[m]
        BY <2>2, <3>2 DEF TypeOfThreads
      <4>2. hlive'[m] => /\ hreq[m].from \in Server \ {n}
                         /\ rpc_req[hreq[m].from].to = m
        BY <2>2, <3>2, HandlerRequest DEF RpcMatched, HandlerMatched
      <4>3. hlive'[m] => /\ rpc_state'[hreq[m].from] = "taken"
                         /\ rpc_req'[hreq[m].from] = hreq[m]
        BY <2>1, <2>2, <3>2, <4>2 DEF RpcMatched, HandlerMatched, TypeOfThreads
      <4>. QED
        BY <2>2, <4>1, <4>3 DEF RpcMatched, HandlerMatched
    <3>. QED
      BY <3>1, <3>2
  <2>5. ASSUME NEW m \in Server PROVE ClientMatched(m)'
    BY <1>30 DEF Restart, RpcMatched, ClientMatched, TypeOfThreads
  <2>. QED
    BY <2>3, <2>4, <2>5 DEF RpcMatched
<1>. QED
  BY <1>1, <1>2, <1>3, <1>4, <1>5, <1>6, <1>7, <1>8, <1>9, <1>10, <1>11, <1>12, <1>13, <1>14,
     <1>15, <1>16, <1>17, <1>18, <1>19, <1>20, <1>21, <1>22, <1>23, <1>24, <1>25, <1>26,
     <1>27, <1>28, <1>29, <1>30 DEF Worker, Handler, Client

-----------------------------------------------------------------------------
(* What a thread leaves alone *)

\* The worker takes no part in the handler's or the client's work.
LEMMA WorkerFrame ==
    ASSUME NEW n \in Server, Worker(n)
    PROVE  UNCHANGED <<handlerVars, clientVars>>
BY DEF Worker, BecomeCandidate, EnterElection, StartElection, SendRequestVote, VoteReply,
   EndElection, BroadcastHeartbeat, ReadPrev, SendAppendEntries, AppendReply, EndBroadcast,
   AdvanceCommitIndex, ApplyCommittedEntries

\* The handler moves neither the worker nor the client, nor what leads to commit.
LEMMA HandlerFrame ==
    ASSUME NEW n \in Server, Handler(n)
    PROVE  UNCHANGED <<workerVars, clientVars, leaderVars>>
BY DEF Handler, Take, TakeOrphan, Refuse, RequestVoteStepDown, RequestVoteDecide,
   AppendEntriesStepDown, AppendEntriesCheck, AppendEntriesTruncate, AppendEntriesStore,
   AppendEntriesCommit, AppendEntriesSetCommit, AppendEntriesApply

\* A client changes the log and match_index_ only.
LEMMA ClientFrame ==
    ASSUME NEW n \in Server, Client(n)
    PROVE  UNCHANGED <<termVars, next_index, workerVars, rpcVars, handlerVars>>
BY DEF Client, ProposeEnter, ProposeLock, ProposeAppend, leaderVars, clientVars

-----------------------------------------------------------------------------
(* The other parts of the invariant *)

\* Every step keeps next_index_ of a leader's peers above 0.
LEMMA NextIndexStep ==
    ASSUME IndInv, NEW n \in Server,
           Worker(n) \/ Handler(n) \/ Client(n) \/ RpcTimeout(n) \/ Restart(n)
    PROVE  NextIndexPositive'
<1>. TypeOfThreads /\ TypeOfNodes /\ NextIndexPositive
  BY DEF IndInv
<1>1. CASE BecomeCandidate(n)
  BY <1>1 DEF TypeOfThreads, TypeOfNodes, NextIndexPositive, BecomeCandidate, leaderVars,
     workerVars
<1>2. CASE EnterElection(n)
  BY <1>2 DEF TypeOfThreads, TypeOfNodes, NextIndexPositive, EnterElection, WorkerAt,
     termVars, leaderVars
<1>3. CASE StartElection(n)
  BY <1>3 DEF TypeOfThreads, TypeOfNodes, NextIndexPositive, StartElection, WorkerAt,
     termVars, leaderVars
<1>4. CASE SendRequestVote(n)
  BY <1>4 DEF TypeOfThreads, TypeOfNodes, NextIndexPositive, SendRequestVote, WorkerAt,
     termVars, leaderVars
<1>5. CASE VoteReply(n)
  BY <1>5 DEF TypeOfThreads, TypeOfNodes, NextIndexPositive, VoteReply, BecomeFollowerLocked,
     WorkerAt, termVars, leaderVars
<1>6. CASE EndElection(n)
  <2>1. CASE BecomeLeaderLocked(n)
    <3>1. LastIndex(log[n]) \in Nat
      BY NodeTypes, ReaderTypes DEF Index
    <3>2. \A p \in Peers(n) : next_index'[n][p] > 0
      BY <2>1, <3>1 DEF BecomeLeaderLocked, TypeOfNodes, Peers
    <3>. QED
      BY <1>6, <2>1, <3>2 DEF TypeOfThreads, TypeOfNodes, NextIndexPositive, EndElection,
         BecomeLeaderLocked, WorkerAt
  <2>2. CASE UNCHANGED <<state, leader_id, leaderVars>>
    BY <1>6, <2>2 DEF TypeOfThreads, NextIndexPositive, EndElection, WorkerAt, leaderVars
  <2>. QED
    BY <1>6, <2>1, <2>2 DEF EndElection
<1>7. CASE BroadcastHeartbeat(n)
  BY <1>7 DEF TypeOfThreads, TypeOfNodes, NextIndexPositive, BroadcastHeartbeat, WorkerAt,
     termVars, leaderVars
<1>8. CASE ReadPrev(n)
  BY <1>8 DEF TypeOfThreads, TypeOfNodes, NextIndexPositive, ReadPrev, WorkerAt, termVars,
     leaderVars
<1>9. CASE SendAppendEntries(n)
  BY <1>9 DEF TypeOfThreads, TypeOfNodes, NextIndexPositive, SendAppendEntries, WorkerAt,
     termVars, leaderVars
<1>10. CASE AppendReply(n)
  <2>. DEFINE resp == rpc_resp[n]
              sent == rpc_req[n].entries
              p    == peer[n]
  <2>1. /\ resp \in AppendResponse /\ sent \in Seq(RaftEntry)
        /\ p \in Server
        /\ next_index[n][p] \in Index \ {0}
        /\ \A q \in Peers(n) : next_index[n][q] > 0
    BY <1>10, WorkerRpc DEF AppendReply, Peers, NextIndexPositive
  <2>2. ASSUME NEW i \in Nat \ {0}, next_index' = [next_index EXCEPT ![n][p] = i]
        PROVE  \A m \in Server, q \in Server :
                  next_index'[m][q] = IF m = n /\ q = p THEN i ELSE next_index[m][q]
    BY <2>1, <2>2 DEF TypeOfNodes
  <2>3. \A q \in Peers(n) : next_index'[n][q] > 0
    <3>1. CASE UNCHANGED next_index
      BY <2>1, <3>1
    <3>2. CASE /\ next_index' = [next_index EXCEPT ![n][p] = sent[Len(sent)].index + 1]
               /\ sent # <<>>
      <4>1. Len(sent) \in 1 .. Len(sent)
        BY <2>1, <3>2, EmptySeq
      <4>2. sent[Len(sent)] \in RaftEntry
        BY <2>1, <4>1, ElementOfSeq
      <4>3. sent[Len(sent)].index + 1 \in Nat \ {0}
        BY <4>2 DEF RaftEntry, Index
      <4>. QED
        BY <2>1, <2>2, <3>2, <4>3 DEF Peers
    <3>3. CASE next_index' = [next_index EXCEPT ![n][p] = BackedOff(n, @, resp)]
      <4>1. BackedOff(n, next_index[n][p], resp) \in Nat \ {0}
        BY <2>1, NodeTypes, BackedOffType DEF Index
      <4>2. next_index' = [next_index EXCEPT ![n][p] = BackedOff(n, next_index[n][p], resp)]
        BY <3>3
      <4>. QED
        BY <2>1, <2>2, <4>1, <4>2 DEF Peers
    <3>. QED
      BY <1>10, <3>1, <3>2, <3>3 DEF AppendReply, leaderVars
  <2>4. /\ \A m \in Server \ {n} : next_index'[m] = next_index[m] /\ wpc'[m] = wpc[m]
        /\ \A m \in Server \ {n} : state'[m] = state[m]
    BY <1>10 DEF AppendReply, BecomeFollowerLocked, WorkerAt, leaderVars, termVars,
       TypeOfNodes, TypeOfThreads
  <2>. QED
    BY <2>3, <2>4 DEF NextIndexPositive, Peers
<1>11. CASE EndBroadcast(n)
  BY <1>11 DEF TypeOfThreads, TypeOfNodes, NextIndexPositive, EndBroadcast, WorkerAt,
     termVars, leaderVars
<1>12. CASE AdvanceCommitIndex(n)
  BY <1>12 DEF TypeOfThreads, TypeOfNodes, NextIndexPositive, AdvanceCommitIndex, WorkerAt,
     termVars, leaderVars
<1>13. CASE ApplyCommittedEntries(n)
  BY <1>13 DEF TypeOfThreads, TypeOfNodes, NextIndexPositive, ApplyCommittedEntries, WorkerAt,
     termVars, leaderVars
<1>14. CASE Take(n)
  BY <1>14 DEF TypeOfThreads, TypeOfNodes, NextIndexPositive, Take, termVars, leaderVars,
     workerVars
<1>15. CASE TakeOrphan(n)
  BY <1>15 DEF TypeOfThreads, TypeOfNodes, NextIndexPositive, TakeOrphan, termVars,
     leaderVars, workerVars
<1>16. CASE Refuse(n)
  BY <1>16 DEF TypeOfThreads, TypeOfNodes, NextIndexPositive, Refuse, termVars, leaderVars,
     workerVars
<1>17. CASE RequestVoteStepDown(n)
  BY <1>17 DEF TypeOfThreads, TypeOfNodes, NextIndexPositive, RequestVoteStepDown,
     BecomeFollowerLocked, leaderVars, workerVars
<1>18. CASE RequestVoteDecide(n)
  BY <1>18 DEF TypeOfThreads, TypeOfNodes, NextIndexPositive, RequestVoteDecide, leaderVars,
     workerVars
<1>19. CASE AppendEntriesStepDown(n)
  BY <1>19 DEF TypeOfThreads, TypeOfNodes, NextIndexPositive, AppendEntriesStepDown,
     BecomeFollowerLocked, leaderVars, workerVars
<1>20. CASE AppendEntriesCheck(n)
  BY <1>20 DEF TypeOfThreads, TypeOfNodes, NextIndexPositive, AppendEntriesCheck, termVars,
     leaderVars, workerVars
<1>21. CASE AppendEntriesTruncate(n)
  BY <1>21 DEF TypeOfThreads, TypeOfNodes, NextIndexPositive, AppendEntriesTruncate, termVars,
     leaderVars, workerVars
<1>22. CASE AppendEntriesStore(n)
  BY <1>22 DEF TypeOfThreads, TypeOfNodes, NextIndexPositive, AppendEntriesStore, termVars,
     leaderVars, workerVars
<1>23. CASE AppendEntriesCommit(n)
  BY <1>23 DEF TypeOfThreads, TypeOfNodes, NextIndexPositive, AppendEntriesCommit, termVars,
     leaderVars, workerVars
<1>24. CASE AppendEntriesSetCommit(n)
  BY <1>24 DEF TypeOfThreads, TypeOfNodes, NextIndexPositive, AppendEntriesSetCommit,
     termVars, leaderVars, workerVars
<1>25. CASE AppendEntriesApply(n)
  BY <1>25 DEF TypeOfThreads, TypeOfNodes, NextIndexPositive, AppendEntriesApply, termVars,
     leaderVars, workerVars
<1>26. CASE Client(n)
  BY <1>26, ClientFrame DEF NextIndexPositive, termVars, workerVars
<1>27. CASE RpcTimeout(n)
  BY <1>27 DEF TypeOfThreads, TypeOfNodes, NextIndexPositive, RpcTimeout, termVars,
     leaderVars, workerVars
<1>28. CASE Restart(n)
  BY <1>28 DEF TypeOfThreads, TypeOfNodes, NextIndexPositive, Restart, WorkerAt, InitNode
<1>. QED
  BY <1>1, <1>2, <1>3, <1>4, <1>5, <1>6, <1>7, <1>8, <1>9, <1>10, <1>11, <1>12, <1>13, <1>14,
     <1>15, <1>16, <1>17, <1>18, <1>19, <1>20, <1>21, <1>22, <1>23, <1>24, <1>25, <1>26,
     <1>27, <1>28 DEF Worker, Handler

\* Every step keeps a candidate's vote its own.
LEMMA CandidateStep ==
    ASSUME IndInv, NEW n \in Server,
           Worker(n) \/ Handler(n) \/ Client(n) \/ RpcTimeout(n) \/ Restart(n)
    PROVE  CandidateVotedForSelf'
<1>. TypeOfThreads /\ TypeOfNodes /\ CandidateVotedForSelf
  BY DEF IndInv
<1>1. CASE BecomeCandidate(n)
  BY <1>1 DEF TypeOfNodes, CandidateVotedForSelf, BecomeCandidate
<1>2. CASE EnterElection(n)
  BY <1>2 DEF TypeOfNodes, CandidateVotedForSelf, EnterElection, termVars
<1>3. CASE StartElection(n)
  BY <1>3 DEF TypeOfNodes, CandidateVotedForSelf, StartElection, termVars
<1>4. CASE SendRequestVote(n)
  BY <1>4 DEF TypeOfNodes, CandidateVotedForSelf, SendRequestVote, termVars
<1>5. CASE VoteReply(n)
  BY <1>5 DEF TypeOfNodes, CandidateVotedForSelf, VoteReply, BecomeFollowerLocked, termVars
<1>6. CASE EndElection(n)
  BY <1>6 DEF TypeOfNodes, CandidateVotedForSelf, EndElection, BecomeLeaderLocked
<1>7. CASE BroadcastHeartbeat(n)
  BY <1>7 DEF TypeOfNodes, CandidateVotedForSelf, BroadcastHeartbeat, termVars
<1>8. CASE ReadPrev(n)
  BY <1>8 DEF TypeOfNodes, CandidateVotedForSelf, ReadPrev, termVars
<1>9. CASE SendAppendEntries(n)
  BY <1>9 DEF TypeOfNodes, CandidateVotedForSelf, SendAppendEntries, termVars
<1>10. CASE AppendReply(n)
  BY <1>10 DEF TypeOfNodes, CandidateVotedForSelf, AppendReply, BecomeFollowerLocked, termVars
<1>11. CASE EndBroadcast(n)
  BY <1>11 DEF TypeOfNodes, CandidateVotedForSelf, EndBroadcast, termVars
<1>12. CASE AdvanceCommitIndex(n)
  BY <1>12 DEF TypeOfNodes, CandidateVotedForSelf, AdvanceCommitIndex, termVars
<1>13. CASE ApplyCommittedEntries(n)
  BY <1>13 DEF TypeOfNodes, CandidateVotedForSelf, ApplyCommittedEntries, termVars
<1>14. CASE Take(n)
  BY <1>14 DEF TypeOfNodes, CandidateVotedForSelf, Take, termVars
<1>15. CASE TakeOrphan(n)
  BY <1>15 DEF TypeOfNodes, CandidateVotedForSelf, TakeOrphan, termVars
<1>16. CASE Refuse(n)
  BY <1>16 DEF TypeOfNodes, CandidateVotedForSelf, Refuse, termVars
<1>17. CASE RequestVoteStepDown(n)
  BY <1>17 DEF TypeOfNodes, CandidateVotedForSelf, RequestVoteStepDown, BecomeFollowerLocked
<1>18. CASE RequestVoteDecide(n)
  <2>1. n # kNoNodeId
    BY ServerAssumption
  <2>. QED
    BY <1>18, <2>1 DEF TypeOfNodes, CandidateVotedForSelf, RequestVoteDecide
<1>19. CASE AppendEntriesStepDown(n)
  BY <1>19 DEF TypeOfNodes, CandidateVotedForSelf, AppendEntriesStepDown, BecomeFollowerLocked
<1>20. CASE AppendEntriesCheck(n)
  BY <1>20 DEF TypeOfNodes, CandidateVotedForSelf, AppendEntriesCheck, termVars
<1>21. CASE AppendEntriesTruncate(n)
  BY <1>21 DEF TypeOfNodes, CandidateVotedForSelf, AppendEntriesTruncate, termVars
<1>22. CASE AppendEntriesStore(n)
  BY <1>22 DEF TypeOfNodes, CandidateVotedForSelf, AppendEntriesStore, termVars
<1>23. CASE AppendEntriesCommit(n)
  BY <1>23 DEF TypeOfNodes, CandidateVotedForSelf, AppendEntriesCommit, termVars
<1>24. CASE AppendEntriesSetCommit(n)
  BY <1>24 DEF TypeOfNodes, CandidateVotedForSelf, AppendEntriesSetCommit, termVars
<1>25. CASE AppendEntriesApply(n)
  BY <1>25 DEF TypeOfNodes, CandidateVotedForSelf, AppendEntriesApply, termVars
<1>26. CASE Client(n)
  BY <1>26, ClientFrame DEF CandidateVotedForSelf, termVars
<1>27. CASE RpcTimeout(n)
  BY <1>27 DEF TypeOfNodes, CandidateVotedForSelf, RpcTimeout, termVars
<1>28. CASE Restart(n)
  BY <1>28 DEF TypeOfNodes, CandidateVotedForSelf, Restart
<1>. QED
  BY <1>1, <1>2, <1>3, <1>4, <1>5, <1>6, <1>7, <1>8, <1>9, <1>10, <1>11, <1>12, <1>13, <1>14,
     <1>15, <1>16, <1>17, <1>18, <1>19, <1>20, <1>21, <1>22, <1>23, <1>24, <1>25, <1>26,
     <1>27, <1>28 DEF Worker, Handler

\* Every step keeps the loop variable of a worker in an RPC, or about to send, a real peer.
LEMMA PeerStep ==
    ASSUME IndInv, NEW n \in Server,
           Worker(n) \/ Handler(n) \/ Client(n) \/ RpcTimeout(n) \/ Restart(n)
    PROVE  PeerServed'
<1>. TypeOfThreads /\ TypeOfNodes /\ PeerServed
  BY DEF IndInv
<1>1. CASE BecomeCandidate(n)
  BY <1>1 DEF TypeOfThreads, PeerServed, BecomeCandidate, workerVars
<1>2. CASE EnterElection(n)
  BY <1>2 DEF TypeOfThreads, PeerServed, EnterElection, WorkerAt
<1>3. CASE StartElection(n)
  BY <1>3 DEF TypeOfThreads, PeerServed, StartElection, WorkerAt
<1>4. CASE SendRequestVote(n)
  <2>1. PICK p \in Peers(n) : peer' = [peer EXCEPT ![n] = p]
    BY <1>4 DEF SendRequestVote, NextPeer
  <2>. QED
    BY <1>4, <2>1 DEF TypeOfThreads, PeerServed, SendRequestVote, WorkerAt
<1>5. CASE VoteReply(n)
  BY <1>5 DEF TypeOfThreads, PeerServed, VoteReply, WorkerAt, EndLoop
<1>6. CASE EndElection(n)
  BY <1>6 DEF TypeOfThreads, PeerServed, EndElection, WorkerAt, EndLoop
<1>7. CASE BroadcastHeartbeat(n)
  BY <1>7 DEF TypeOfThreads, PeerServed, BroadcastHeartbeat, WorkerAt
<1>8. CASE ReadPrev(n)
  <2>1. PICK p \in Peers(n) : peer' = [peer EXCEPT ![n] = p]
    BY <1>8 DEF ReadPrev, NextPeer
  <2>. QED
    BY <1>8, <2>1 DEF TypeOfThreads, PeerServed, ReadPrev, WorkerAt
<1>9. CASE SendAppendEntries(n)
  BY <1>9 DEF TypeOfThreads, PeerServed, SendAppendEntries, WorkerAt
<1>10. CASE AppendReply(n)
  BY <1>10 DEF TypeOfThreads, PeerServed, AppendReply, WorkerAt
<1>11. CASE EndBroadcast(n)
  BY <1>11 DEF TypeOfThreads, PeerServed, EndBroadcast, WorkerAt, EndLoop
<1>12. CASE AdvanceCommitIndex(n)
  BY <1>12 DEF TypeOfThreads, PeerServed, AdvanceCommitIndex, WorkerAt
<1>13. CASE ApplyCommittedEntries(n)
  BY <1>13 DEF TypeOfThreads, PeerServed, ApplyCommittedEntries, WorkerAt
<1>14. CASE Handler(n)
  BY <1>14, HandlerFrame DEF PeerServed, workerVars
<1>15. CASE Client(n)
  BY <1>15, ClientFrame DEF PeerServed, workerVars
<1>16. CASE RpcTimeout(n)
  BY <1>16 DEF TypeOfThreads, PeerServed, RpcTimeout, workerVars
<1>17. CASE Restart(n)
  BY <1>17 DEF TypeOfThreads, PeerServed, Restart, WorkerAt, EndLoop
<1>. QED
  BY <1>1, <1>2, <1>3, <1>4, <1>5, <1>6, <1>7, <1>8, <1>9, <1>10, <1>11, <1>12, <1>13, <1>14,
     <1>15, <1>16, <1>17 DEF Worker

\* Every step keeps the request of a truncating handler nonempty.
LEMMA BatchStep ==
    ASSUME IndInv, NEW n \in Server,
           Worker(n) \/ Handler(n) \/ Client(n) \/ RpcTimeout(n) \/ Restart(n)
    PROVE  BatchHeld'
<1>. TypeOfThreads /\ TypeOfNodes /\ BatchHeld
  BY DEF IndInv
<1>1. CASE Worker(n)
  BY <1>1, WorkerFrame DEF BatchHeld, handlerVars
<1>2. CASE Take(n)
  BY <1>2 DEF TypeOfThreads, BatchHeld, Take, HandlerAt, Admit
<1>3. CASE TakeOrphan(n)
  BY <1>3 DEF TypeOfThreads, BatchHeld, TakeOrphan, HandlerAt, Admit
<1>4. CASE Refuse(n)
  BY <1>4 DEF TypeOfThreads, BatchHeld, Refuse, handlerVars
<1>5. CASE RequestVoteStepDown(n)
  BY <1>5 DEF TypeOfThreads, BatchHeld, RequestVoteStepDown, HandlerAt
<1>6. CASE RequestVoteDecide(n)
  BY <1>6 DEF TypeOfThreads, BatchHeld, RequestVoteDecide, HandlerAt, Respond
<1>7. CASE AppendEntriesStepDown(n)
  BY <1>7 DEF TypeOfThreads, BatchHeld, AppendEntriesStepDown, HandlerAt
<1>8. CASE AppendEntriesCheck(n)
  BY <1>8 DEF TypeOfThreads, BatchHeld, AppendEntriesCheck, HandlerAt, Respond
<1>9. CASE AppendEntriesTruncate(n)
  BY <1>9 DEF TypeOfThreads, BatchHeld, AppendEntriesTruncate, HandlerAt
<1>10. CASE AppendEntriesStore(n)
  BY <1>10 DEF TypeOfThreads, BatchHeld, AppendEntriesStore, HandlerAt
<1>11. CASE AppendEntriesCommit(n)
  BY <1>11 DEF TypeOfThreads, BatchHeld, AppendEntriesCommit, HandlerAt, Respond, Succeed
<1>12. CASE AppendEntriesSetCommit(n)
  BY <1>12 DEF TypeOfThreads, BatchHeld, AppendEntriesSetCommit, HandlerAt
<1>13. CASE AppendEntriesApply(n)
  BY <1>13 DEF TypeOfThreads, BatchHeld, AppendEntriesApply, HandlerAt, Respond, Succeed
<1>14. CASE Client(n)
  BY <1>14, ClientFrame DEF BatchHeld, handlerVars
<1>15. CASE RpcTimeout(n)
  BY <1>15 DEF TypeOfThreads, BatchHeld, RpcTimeout
<1>16. CASE Restart(n)
  BY <1>16 DEF TypeOfThreads, BatchHeld, Restart, HandlerAt
<1>. QED
  BY <1>1, <1>2, <1>3, <1>4, <1>5, <1>6, <1>7, <1>8, <1>9, <1>10, <1>11, <1>12, <1>13, <1>14,
     <1>15, <1>16 DEF Handler

-----------------------------------------------------------------------------
(* The steps that change the terms, and those that apply entries *)

\* Only an election timeout, a higher term seen, and a crash change the term; these and a
\* vote change the vote.
LEMMA TermSteps ==
    ASSUME IndInv, NEW n \in Server,
           Worker(n) \/ Handler(n) \/ Client(n) \/ RpcTimeout(n) \/ Restart(n)
    PROVE  \/ UNCHANGED <<current_term, voted_for>>
           \/ \E term \in Term : BecomeFollowerLocked(n, term)
           \/ BecomeCandidate(n)
           \/ RequestVoteDecide(n)
           \/ Restart(n)
<1>1. CASE Worker(n)
  <2>1. CASE VoteReply(n)
    BY <2>1, WorkerRpc DEF VoteReply, termVars
  <2>2. CASE AppendReply(n)
    BY <2>2, WorkerRpc DEF AppendReply, termVars
  <2>. QED
    BY <1>1, <2>1, <2>2
       DEF Worker, termVars, EnterElection, StartElection, SendRequestVote, EndElection,
           BroadcastHeartbeat, ReadPrev, SendAppendEntries, EndBroadcast, AdvanceCommitIndex,
           ApplyCommittedEntries
<1>2. CASE Handler(n)
  <2>1. CASE RequestVoteStepDown(n)
    BY <2>1, HandlerRequest DEF RequestVoteStepDown
  <2>2. CASE AppendEntriesStepDown(n)
    BY <2>2, HandlerRequest DEF AppendEntriesStepDown
  <2>. QED
    BY <1>2, <2>1, <2>2
       DEF Handler, termVars, Take, TakeOrphan, Refuse, AppendEntriesCheck,
           AppendEntriesTruncate, AppendEntriesStore, AppendEntriesCommit,
           AppendEntriesSetCommit, AppendEntriesApply
<1>3. CASE Client(n) \/ RpcTimeout(n)
  BY <1>3, ClientFrame DEF termVars, RpcTimeout
<1>. QED
  BY <1>1, <1>2, <1>3

\* Only ApplyCommittedEntries, called by the worker or by the handler, and a crash change
\* what has been applied.
LEMMA ApplySteps ==
    ASSUME [Next]_vars
    PROVE  \/ UNCHANGED <<applied, last_applied>>
           \/ \E n \in Server : ApplyCommitted(n) \/ Restart(n)
<1>1. CASE UNCHANGED vars
  BY <1>1 DEF vars, logVars
<1>2. ASSUME NEW n \in Server, Worker(n)
      PROVE  UNCHANGED <<applied, last_applied>> \/ ApplyCommitted(n)
  BY <1>2
     DEF Worker, logVars, BecomeCandidate, EnterElection, StartElection, SendRequestVote,
         VoteReply, EndElection, BroadcastHeartbeat, ReadPrev, SendAppendEntries, AppendReply,
         EndBroadcast, AdvanceCommitIndex, ApplyCommittedEntries
<1>3. ASSUME NEW n \in Server, Handler(n)
      PROVE  UNCHANGED <<applied, last_applied>> \/ ApplyCommitted(n)
  BY <1>3
     DEF Handler, logVars, Take, TakeOrphan, Refuse, RequestVoteStepDown, RequestVoteDecide,
         AppendEntriesStepDown, AppendEntriesCheck, AppendEntriesTruncate, AppendEntriesStore,
         AppendEntriesCommit, AppendEntriesSetCommit, AppendEntriesApply
<1>4. ASSUME NEW n \in Server, Client(n) \/ RpcTimeout(n)
      PROVE  UNCHANGED <<applied, last_applied>>
  BY <1>4 DEF Client, logVars, ProposeEnter, ProposeLock, ProposeAppend, RpcTimeout
<1>. QED
  BY <1>1, <1>2, <1>3, <1>4 DEF Next

\* ApplyCommittedEntries hands over no more entries than it moves last_applied_.
LEMMA ApplyCounts ==
    ASSUME IndInv, AppliedOnce, NEW n \in Server, ApplyCommitted(n)
    PROVE  AppliedOnce'
<1>. DEFINE range == Slice(log[n], last_applied[n] + 1, commit_index[n] + 1)
<1>1. /\ last_applied[n] \in Nat /\ commit_index[n] \in Nat
      /\ log[n] \in Log
      /\ applied[n] \in Seq(RaftEntry)
      /\ last_applied \in [Server -> Nat]
      /\ applied \in [Server -> Seq(RaftEntry)]
  BY NodeTypes DEF IndInv, TypeOfNodes, Index
<1>2. CASE commit_index[n] > last_applied[n]
  <2>1. /\ range \in Seq(RaftEntry)
        /\ Len(range) <= commit_index[n] - last_applied[n]
    <3>1. /\ last_applied[n] + 1 \in Index /\ commit_index[n] + 1 \in Index
          /\ last_applied[n] + 1 < commit_index[n] + 1
          /\ (commit_index[n] + 1) - (last_applied[n] + 1) = commit_index[n] - last_applied[n]
      BY <1>1, <1>2 DEF Index
    <3>2. Len(range) <= (commit_index[n] + 1) - (last_applied[n] + 1)
      BY <1>1, <3>1, SliceLength
    <3>. QED
      BY <1>1, <3>1, <3>2, SliceType
  <2>2. Len(applied[n] \o range) = Len(applied[n]) + Len(range)
    BY <1>1, <2>1, ConcatProperties
  <2>3. Len(applied[n]) <= last_applied[n] /\ Len(applied[n]) \in Nat /\ Len(range) \in Nat
    BY <1>1, <2>1, LenProperties DEF AppliedOnce
  <2>. HIDE DEF range
  <2>4. Len(applied[n] \o range) <= commit_index[n]
    BY <1>1, <2>1, <2>2, <2>3
  <2>5. /\ applied' = [applied EXCEPT ![n] = applied[n] \o range]
        /\ last_applied' = [last_applied EXCEPT ![n] = commit_index[n]]
    BY <1>2 DEF ApplyCommitted, range
  <2>. QED
    BY <1>1, <2>4, <2>5 DEF AppliedOnce
<1>3. CASE ~(commit_index[n] > last_applied[n])
  BY <1>3 DEF ApplyCommitted, AppliedOnce
<1>. QED
  BY <1>2, <1>3

-----------------------------------------------------------------------------
(* The theorems *)

\* A state of the invariant is followed only by states of the invariant.
LEMMA StepIndInv == IndInv /\ [Next]_vars => IndInv'
<1>. SUFFICES ASSUME IndInv, [Next]_vars PROVE IndInv'
  OBVIOUS
<1>1. CASE Next
  <2>1. PICK n \in Server :
          Worker(n) \/ Handler(n) \/ Client(n) \/ RpcTimeout(n) \/ Restart(n)
    BY <1>1 DEF Next
  <2>. QED
    BY <2>1, NodesStep, ThreadsStep, RpcStep, NextIndexStep, CandidateStep, PeerStep, BatchStep
       DEF IndInv
<1>2. CASE UNCHANGED vars
  BY <1>2 DEF IndInv, vars, logVars, termVars, leaderVars, workerVars, rpcVars, handlerVars,
     clientVars, boundVars, TypeOfNodes, TypeOfThreads, RpcMatched, CallerMatched,
     HandlerMatched, ClientMatched, NextIndexPositive, CandidateVotedForSelf, PeerServed,
     BatchHeld
<1>. QED
  BY <1>1, <1>2

\* The invariant holds in every reachable state of a cluster of any size.
THEOREM Inductive == Spec => []IndInv
<1>1. Init => IndInv
  BY InitIndInv
<1>2. IndInv /\ [Next]_vars => IndInv'
  BY StepIndInv
<1>. QED
  BY <1>1, <1>2, PTL DEF Spec

\* Types of RaftNode's members and threads; in particular next_index_ - 1 never wraps.
THEOREM TypeCorrect == Spec => []TypeOK
<1>1. IndInv => TypeOK
  BY DEF IndInv, TypeOK
<1>. QED
  BY <1>1, Inductive, PTL

\* No answer meets another call than its own, whatever times out or crashes.
THEOREM RpcsMatched == Spec => []RpcMatched
<1>1. IndInv => RpcMatched
  BY DEF IndInv
<1>. QED
  BY <1>1, Inductive, PTL

\* next_index_ never falls to 0 under a leader, whatever the followers answer.
THEOREM NextIndexNeverZero == Spec => []NextIndexPositive
<1>1. IndInv => NextIndexPositive
  BY DEF IndInv
<1>. QED
  BY <1>1, Inductive, PTL

\* A candidate keeps the vote it gave itself.
THEOREM CandidateKeepsVote == Spec => []CandidateVotedForSelf
<1>1. IndInv => CandidateVotedForSelf
  BY DEF IndInv
<1>. QED
  BY <1>1, Inductive, PTL

-----------------------------------------------------------------------------
(* Terms and votes *)

(***************************************************************************)
(* A node's term never decreases before a crash.  BecomeFollowerLocked     *)
(* compares the terms itself, so it does not matter that its callers       *)
(* compared them without mu_.                                              *)
(***************************************************************************)
THEOREM TermNeverDecreases == Spec => TermMonotonic
<1>. DEFINE Kept == restarts' = restarts => \A n \in Server : current_term'[n] >= current_term[n]
<1>1. IndInv /\ [Next]_vars => [Kept]_vars
  <2>. SUFFICES ASSUME IndInv, NEW n \in Server,
                       Worker(n) \/ Handler(n) \/ Client(n) \/ RpcTimeout(n) \/ Restart(n)
                PROVE  Kept
    BY DEF Next
  <2>1. current_term \in [Server -> Nat]
    BY DEF IndInv, TypeOfNodes, Term
  <2>2. CASE UNCHANGED current_term
    BY <2>1, <2>2
  <2>3. CASE \E term \in Term : BecomeFollowerLocked(n, term)
    BY <2>1, <2>3 DEF BecomeFollowerLocked, Term
  <2>4. CASE BecomeCandidate(n)
    BY <2>1, <2>4 DEF BecomeCandidate
  <2>5. CASE Restart(n)
    BY <2>5 DEF Restart, IndInv, TypeOfThreads
  <2>. QED
    BY <2>2, <2>3, <2>4, <2>5, TermSteps DEF RequestVoteDecide
<1>. QED
  BY <1>1, Inductive, PTL DEF Spec, TermMonotonic

(***************************************************************************)
(* Within a term a node votes once: the two places that vote, and the two  *)
(* that clear the vote, hold mu_ over their test and their assignment.     *)
(***************************************************************************)
THEOREM VoteNeverChanges == Spec => VoteStable
<1>. DEFINE Kept == restarts' = restarts => \A n \in Server : KeepsVote(n)
<1>1. IndInv /\ [Next]_vars => [Kept]_vars
  <2>. SUFFICES ASSUME IndInv, NEW n \in Server,
                       Worker(n) \/ Handler(n) \/ Client(n) \/ RpcTimeout(n) \/ Restart(n)
                PROVE  Kept
    BY DEF Next
  <2>1. /\ current_term \in [Server -> Nat]
        /\ voted_for \in [Server -> Server \cup {kNoNodeId}]
    BY DEF IndInv, TypeOfNodes, Term
  <2>2. CASE UNCHANGED voted_for
    BY <2>2 DEF KeepsVote
  <2>3. CASE \E term \in Term : BecomeFollowerLocked(n, term)
    BY <2>1, <2>3 DEF BecomeFollowerLocked, Term, KeepsVote
  <2>4. CASE BecomeCandidate(n)
    BY <2>1, <2>4 DEF BecomeCandidate, KeepsVote
  <2>5. CASE RequestVoteDecide(n)
    BY <2>1, <2>5 DEF RequestVoteDecide, KeepsVote
  <2>6. CASE Restart(n)
    BY <2>6 DEF Restart, IndInv, TypeOfThreads
  <2>. QED
    BY <2>2, <2>3, <2>4, <2>5, <2>6, TermSteps
<1>. QED
  BY <1>1, Inductive, PTL DEF Spec, VoteStable

-----------------------------------------------------------------------------
(* Applying entries *)

(***************************************************************************)
(* ready_handler_ never sees a position twice: every call hands over at    *)
(* most the entries from last_applied_ to the commit index, and moves      *)
(* last_applied_ by as much, under mu_.                                    *)
(***************************************************************************)
THEOREM EntryAppliedOnce == Spec => []AppliedOnce
<1>1. Init => AppliedOnce
  BY DEF Init, InitNode, AppliedOnce
<1>2. IndInv /\ AppliedOnce /\ [Next]_vars => AppliedOnce'
  <2>. SUFFICES ASSUME IndInv, AppliedOnce, [Next]_vars PROVE AppliedOnce'
    OBVIOUS
  <2>1. CASE UNCHANGED <<applied, last_applied>>
    BY <2>1 DEF AppliedOnce
  <2>2. ASSUME NEW n \in Server, ApplyCommitted(n) PROVE AppliedOnce'
    BY <2>2, ApplyCounts
  <2>3. ASSUME NEW n \in Server, Restart(n) PROVE AppliedOnce'
    BY <2>3 DEF Restart, AppliedOnce, IndInv, TypeOfNodes
  <2>. QED
    BY <2>1, <2>2, <2>3, ApplySteps
<1>. QED
  BY <1>1, <1>2, Inductive, PTL DEF Spec

-----------------------------------------------------------------------------
(***************************************************************************)
(* What Raft keeps as long as nobody crashes and nobody is past term 1:    *)
(* at most one leader, logs that agree, and state machines that are fed    *)
(* one sequence.  The runs that expect a violation show that a second term *)
(* or a crash ends each of these, so the condition is the code's own.      *)
(***************************************************************************)

OneTerm == restarts = 0 /\ \A n \in Server : current_term[n] <= 1

-----------------------------------------------------------------------------
(* The inductive invariant: elections *)

\* n has been a candidate in term 1, whatever it is now.
Stood(n) == current_term[n] = 1 /\ voted_for[n] = n

Supporters(n) == {m \in Server : voted_for[m] = n}

\* n has won the election of term 1, whether or not its worker knows it.
Elected(n) == Stood(n) /\ Cardinality(Supporters(n)) >= Majority

\* A worker that is neither waiting nor a follower stood for election.
Standing == \A n \in Server : state[n] # "Follower" \/ wpc[n] # "loop" => Stood(n)

\* Whoever leads, or still does a leader's work after it was told to stop, was elected.
Leading ==
    \A n \in Server :
        \/ state[n] = "Leader"
        \/ wpc[n] \in {"bcast", "prev", "append", "advance", "apply"}
        \/ cpc[n] # "idle"
        => Elected(n)

\* Votes are given in term 1, and a handler past its first test is in term 1.
Voting ==
    \A n \in Server :
        /\ voted_for[n] # kNoNodeId => current_term[n] = 1
        /\ hpc[n] \notin {"idle", "rv_down", "ae_down"} => current_term[n] = 1

\* The requests somebody may still read.
InFlight ==
    (orphans \cup {rpc_req[n] : n \in Server} \cup {hreq[n] : n \in Server}) \ {None}

\* es is a stretch of the log l, in its place.
Copied(es, l) ==
    \A i \in 1 .. Len(es) :
        /\ es[i].index = es[1].index + i - 1
        /\ es[i].index \in 1 .. Len(l.entries)
        /\ es[i] = l.entries[es[i].index]

SoundRequest(req) ==
    /\ req.term = 1
    /\ req.from # req.to
    /\ req.kind = "AppendEntries" => /\ Elected(req.from)
                                     /\ Copied(req.entries, log[req.from])

\* Every request of an elected leader brings entries of its log, however late it comes.
Requests == \A req \in InFlight : SoundRequest(req)

\* The supporters the loop over peers_ has passed.
Counted(n) ==
    {m \in Supporters(n) : m = n \/ m < peer[n] \/ (wpc[n] = "poll" /\ m = peer[n])}

\* A candidate counts no vote it was not given.
Counting ==
    \A n \in Server :
        /\ wpc[n] = "vote" => rpc_req[n].to = peer[n]
        /\ wpc[n] = "vote" /\ rpc_state[n] = "done" /\ rpc_resp[n].vote_granted
              => voted_for[peer[n]] = n
        /\ wpc[n] \in {"poll", "vote"} => /\ ballot[n].term = 1
                                         /\ votes[n] <= Cardinality(Counted(n))

Elections == Standing /\ Leading /\ Voting /\ Requests /\ Counting

-----------------------------------------------------------------------------
(* The inductive invariant: logs *)

\* The index an entry carries is its position, from 1 on, and its term is 1.
Numbered ==
    \A n \in Server :
        /\ log[n].first = 1
        /\ \A i \in 1 .. Len(EntriesOf(n)) :
              EntriesOf(n)[i].index = i /\ EntriesOf(n)[i].term = 1
        /\ EntriesOf(n) # <<>> => current_term[n] = 1

\* The logs, and what was applied, are beginnings of the log of whoever was elected.
Follows ==
    \A n, l \in Server : Elected(l) =>
        /\ Promise!Begins(EntriesOf(n), EntriesOf(l))
        /\ Promise!Begins(applied[n], EntriesOf(l))

\* Before anybody is elected there is nothing in any log.
Quiet ==
    (\A l \in Server : ~Elected(l)) =>
        \A n \in Server : EntriesOf(n) = <<>> /\ applied[n] = <<>> /\ commit_index[n] = 0

\* The entry of a client in Propose still belongs at the end of the log.
Proposing ==
    \A n \in Server : cpc[n] = "append" =>
        centry[n].term = 1 /\ centry[n].index = Len(EntriesOf(n)) + 1

\* What is about to be applied is in the log, and last_applied_ counts what was.
Applying ==
    \A n \in Server :
        /\ Len(applied[n]) = last_applied[n]
        /\ hpc[n] = "ae_apply" \/ Elected(n) => commit_index[n] <= Len(EntriesOf(n))

Logs == Numbered /\ Follows /\ Quiet /\ Proposing /\ Applying

OneTermInv == OneTerm => Elections /\ Logs

-----------------------------------------------------------------------------
(* What a step cannot take back *)

Steps(n) == Worker(n) \/ Handler(n) \/ Client(n) \/ RpcTimeout(n)

\* As long as the term is 1 nobody's vote, and so nobody's election, is undone.
Lasting ==
    \A m \in Server :
        /\ current_term[m] <= current_term'[m]
        /\ \A k \in Server : voted_for[m] = k => voted_for'[m] = k
        /\ Stood(m) => Stood(m)'
        /\ Elected(m) => Elected(m)'

\* A step into a state of one term started in one, and was no crash.
LEMMA OneTermBefore ==
    ASSUME IndInv, [Next]_vars, OneTerm'
    PROVE  /\ OneTerm
           /\ UNCHANGED vars \/ \E n \in Server : Steps(n)
<1>1. /\ restarts \in Nat /\ restarts' = 0
      /\ \A n \in Server : current_term[n] \in Nat /\ current_term'[n] <= 1
  BY DEF IndInv, TypeOfThreads, TypeOfNodes, Term, OneTerm
<1>2. CASE UNCHANGED vars
  BY <1>2 DEF vars, termVars, boundVars, OneTerm
<1>3. ASSUME NEW n \in Server,
             Worker(n) \/ Handler(n) \/ Client(n) \/ RpcTimeout(n) \/ Restart(n)
      PROVE  OneTerm /\ Steps(n)
  <2>1. ~Restart(n)
    BY <1>1 DEF Restart
  <2>2. UNCHANGED restarts
    BY <1>3, <2>1
       DEF Worker, Handler, Client, RpcTimeout, boundVars, BecomeCandidate, EnterElection,
           StartElection, SendRequestVote, VoteReply, EndElection, BroadcastHeartbeat, ReadPrev,
           SendAppendEntries, AppendReply, EndBroadcast, AdvanceCommitIndex,
           ApplyCommittedEntries, Take, TakeOrphan, Refuse, RequestVoteStepDown,
           RequestVoteDecide, AppendEntriesStepDown, AppendEntriesCheck, AppendEntriesTruncate,
           AppendEntriesStore, AppendEntriesCommit, AppendEntriesSetCommit, AppendEntriesApply,
           ProposeEnter, ProposeLock, ProposeAppend
  <2>3. \A m \in Server : current_term[m] <= current_term'[m]
    <3>1. current_term \in [Server -> Nat]
      BY DEF IndInv, TypeOfNodes, Term
    <3>2. CASE UNCHANGED current_term
      BY <3>1, <3>2
    <3>3. CASE \E term \in Term : BecomeFollowerLocked(n, term)
      BY <3>1, <3>3 DEF BecomeFollowerLocked, Term
    <3>4. CASE BecomeCandidate(n)
      BY <3>1, <3>4 DEF BecomeCandidate
    <3>. QED
      BY <1>3, <2>1, <3>2, <3>3, <3>4, TermSteps DEF RequestVoteDecide
  <2>4. OneTerm
    <3>1. \A m \in Server : current_term'[m] \in Nat
      BY <1>3, NodesStep DEF TypeOfNodes, Term
    <3>. QED
      BY <1>1, <2>2, <2>3, <3>1 DEF OneTerm
  <2>. QED
    BY <1>3, <2>1, <2>4 DEF Steps
<1>. QED
  BY <1>2, <1>3 DEF Next

LEMMA FiniteSupport ==
    ASSUME NEW S \in SUBSET Server
    PROVE  /\ IsFiniteSet(S)
           /\ Cardinality(S) \in Nat
           /\ Cardinality(S) <= Cardinality(Server)
BY ServerAssumption, FS_Subset, FS_CardinalityType

LEMMA StepLasting ==
    ASSUME IndInv, Voting, OneTerm, OneTerm', NEW n \in Server, Steps(n)
    PROVE  Lasting
<1>1. /\ current_term \in [Server -> Nat] /\ current_term' \in [Server -> Nat]
      /\ voted_for \in [Server -> Server \cup {kNoNodeId}]
      /\ \A m \in Server : current_term[m] <= 1 /\ current_term'[m] <= 1
      /\ kNoNodeId \notin Server
  BY NodesStep, ServerAssumption DEF Steps, IndInv, TypeOfNodes, Term, OneTerm
<1>2. \/ UNCHANGED <<current_term, voted_for>>
      \/ \E term \in Term : BecomeFollowerLocked(n, term)
      \/ BecomeCandidate(n)
      \/ RequestVoteDecide(n)
  <2>1. ~Restart(n)
    BY DEF Restart, IndInv, TypeOfThreads, OneTerm
  <2>. QED
    BY <2>1, TermSteps DEF Steps
<1>3. ASSUME NEW m \in Server
      PROVE  /\ current_term[m] <= current_term'[m]
             /\ \A k \in Server : voted_for[m] = k => voted_for'[m] = k
  <2>1. CASE UNCHANGED <<current_term, voted_for>>
    BY <1>1, <2>1
  <2>2. CASE \E term \in Term : BecomeFollowerLocked(n, term)
    BY <1>1, <2>2 DEF BecomeFollowerLocked, Term, Voting
  <2>3. CASE BecomeCandidate(n)
    BY <1>1, <2>3 DEF BecomeCandidate, Voting
  <2>4. CASE RequestVoteDecide(n)
    BY <1>1, <2>4 DEF RequestVoteDecide
  <2>. QED
    BY <1>2, <2>1, <2>2, <2>3, <2>4
<1>4. ASSUME NEW m \in Server, Stood(m) PROVE Stood(m)'
  BY <1>1, <1>3, <1>4 DEF Stood
<1>5. ASSUME NEW m \in Server, Elected(m) PROVE Elected(m)'
  <2>1. Supporters(m) \in SUBSET Supporters(m)' /\ Supporters(m)' \in SUBSET Server
    BY <1>3 DEF Supporters
  <2>2. Cardinality(Supporters(m)) <= Cardinality(Supporters(m)')
    BY <2>1, FiniteSupport, FS_Subset
  <2>3. Cardinality(Supporters(m)) \in Nat /\ Cardinality(Supporters(m)') \in Nat
    BY <2>1, FiniteSupport
  <2>4. Majority \in Nat
    BY ServerAssumption, FS_CardinalityType DEF Majority
  <2>. QED
    BY <1>4, <1>5, <2>2, <2>3, <2>4 DEF Elected, Majority
<1>. QED
  BY <1>3, <1>4, <1>5 DEF Lasting

\* Two majorities share a node.
LEMMA MajoritiesMeet ==
    ASSUME NEW S \in SUBSET Server, NEW T \in SUBSET Server,
           Cardinality(S) >= Majority, Cardinality(T) >= Majority
    PROVE  S \cap T # {}
<1>1. /\ Cardinality(S) \in Nat /\ Cardinality(T) \in Nat
      /\ Cardinality(Server) \in Nat
  BY FiniteSupport, ServerAssumption, FS_CardinalityType
<1>2. /\ Cardinality(S) >= Cardinality(Server) \div 2 + 1
      /\ Cardinality(T) >= Cardinality(Server) \div 2 + 1
  BY DEF Majority
<1>3. Cardinality(S) + Cardinality(T) > Cardinality(Server)
  BY <1>1, <1>2
<1>. QED
  BY <1>1, <1>3, ServerAssumption, FS_MajoritiesIntersect

\* Nobody votes for two: at most one node is elected, before the step and after it.
LEMMA OneElected ==
    ASSUME NEW m \in Server, NEW n \in Server
    PROVE  /\ Elected(m) /\ Elected(n) => m = n
           /\ Elected(m)' /\ Elected(n)' => m = n
<1>1. ASSUME Elected(m), Elected(n) PROVE m = n
  <2>1. Supporters(m) \in SUBSET Server /\ Supporters(n) \in SUBSET Server
    BY DEF Supporters
  <2>2. Supporters(m) \cap Supporters(n) # {}
    BY <1>1, <2>1, MajoritiesMeet DEF Elected
  <2>. QED
    BY <2>2 DEF Supporters
<1>2. ASSUME Elected(m)', Elected(n)' PROVE m = n
  <2>1. Supporters(m)' \in SUBSET Server /\ Supporters(n)' \in SUBSET Server
    BY DEF Supporters
  <2>2. /\ Cardinality(Supporters(m)') >= Majority
        /\ Cardinality(Supporters(n)') >= Majority
    BY <1>2 DEF Elected, Majority
  <2>3. Supporters(m)' \cap Supporters(n)' # {}
    BY <2>1, <2>2, MajoritiesMeet
  <2>. QED
    BY <2>3 DEF Supporters
<1>. QED
  BY <1>1, <1>2

-----------------------------------------------------------------------------
(* What a step changes of what the invariant looks at *)

\* A request on its way was on its way already, or is the one just sent.
LEMMA FlightSteps ==
    ASSUME IndInv, NEW n \in Server, Steps(n), NEW req \in InFlight'
    PROVE  \/ req \in InFlight
           \/ req = rpc_req'[n] /\ (SendRequestVote(n) \/ SendAppendEntries(n))
<1>1. /\ rpc_req \in [Server -> Request \cup {None}]
      /\ hreq \in [Server -> Request \cup {None}]
  BY DEF IndInv, TypeOfThreads
<1>2. req # None /\ (\/ req \in orphans'
                     \/ \E m \in Server : req = rpc_req'[m]
                     \/ \E m \in Server : req = hreq'[m])
  BY DEF InFlight
<1>3. CASE UNCHANGED <<orphans, rpc_req, hreq>>
  BY <1>2, <1>3 DEF InFlight
<1>4. CASE UNCHANGED <<orphans, hreq>> /\ EndRpc(n)
  BY <1>1, <1>2, <1>4 DEF InFlight, EndRpc
<1>5. CASE UNCHANGED <<orphans, rpc_req>> /\ hreq' = [hreq EXCEPT ![n] = None]
  BY <1>1, <1>2, <1>5 DEF InFlight
<1>6. CASE SendRequestVote(n) \/ SendAppendEntries(n)
  BY <1>1, <1>2, <1>6 DEF InFlight, SendRequestVote, SendAppendEntries, Send, handlerVars
<1>7. CASE Take(n)
  BY <1>1, <1>2, <1>7 DEF InFlight, Take, Admit
<1>8. CASE TakeOrphan(n)
  BY <1>1, <1>2, <1>8 DEF InFlight, TakeOrphan, Admit, rpcVars
<1>9. CASE RpcTimeout(n)
  BY <1>1, <1>2, <1>9 DEF InFlight, RpcTimeout, Abandon
<1>10. CASE Client(n)
  BY <1>3, <1>10 DEF Client, ProposeEnter, ProposeLock, ProposeAppend, rpcVars, handlerVars
<1>11. CASE Worker(n)
  BY <1>3, <1>4, <1>6, <1>11
     DEF Worker, rpcVars, handlerVars, BecomeCandidate, EnterElection, StartElection, VoteReply,
         EndElection, BroadcastHeartbeat, ReadPrev, AppendReply, EndBroadcast,
         AdvanceCommitIndex, ApplyCommittedEntries
<1>12. CASE Handler(n)
  BY <1>3, <1>5, <1>7, <1>8, <1>12
     DEF Handler, rpcVars, handlerVars, Respond, Succeed, Refuse, RequestVoteStepDown,
         RequestVoteDecide, AppendEntriesStepDown, AppendEntriesCheck, AppendEntriesTruncate,
         AppendEntriesStore, AppendEntriesCommit, AppendEntriesSetCommit, AppendEntriesApply
<1>. QED
  BY <1>9, <1>10, <1>11, <1>12 DEF Steps

LeaderPc == {"bcast", "prev", "append", "advance", "apply"}

\* Where the threads come from.
LEMMA ControlSteps ==
    ASSUME IndInv, NEW n \in Server, Steps(n), NEW m \in Server
    PROVE  /\ state'[m] # "Follower" => \/ state[m] # "Follower"
                                        \/ wpc[m] # "loop"
                                        \/ m = n /\ BecomeCandidate(n)
           /\ wpc'[m] # "loop" => wpc[m] # "loop" \/ state[m] # "Follower"
           /\ state'[m] = "Leader" => \/ state[m] = "Leader"
                                      \/ m = n /\ wpc[n] = "poll" /\ votes[n] >= Majority
           /\ wpc'[m] \in LeaderPc => wpc[m] \in LeaderPc \/ state[m] = "Leader"
           /\ cpc'[m] # "idle" => cpc[m] # "idle" \/ state[m] = "Leader"
<1>. USE DEF LeaderPc
<1>1. /\ wpc \in [Server -> WorkerPc] /\ state \in [Server -> NodeState]
      /\ cpc \in [Server -> {"idle", "lock", "append"}]
  BY DEF IndInv, TypeOfThreads, TypeOfNodes
<1>2. CASE Handler(n)
  <2>1. UNCHANGED <<wpc, cpc>>
    BY <1>2, HandlerFrame DEF workerVars, clientVars
  <2>2. state'[m] = state[m] \/ state'[m] = "Follower"
    BY <1>1, <1>2
       DEF Handler, termVars, BecomeFollowerLocked, Take, TakeOrphan, Refuse,
           RequestVoteStepDown, RequestVoteDecide, AppendEntriesStepDown, AppendEntriesCheck,
           AppendEntriesTruncate, AppendEntriesStore, AppendEntriesCommit,
           AppendEntriesSetCommit, AppendEntriesApply
  <2>. QED
    BY <2>1, <2>2
<1>3. CASE Client(n)
  <2>1. UNCHANGED <<wpc, state>>
    BY <1>3, ClientFrame DEF workerVars, termVars
  <2>. QED
    BY <1>1, <1>3, <2>1 DEF Client, ProposeEnter, ProposeLock, ProposeAppend
<1>4. CASE RpcTimeout(n)
  BY <1>4 DEF RpcTimeout, workerVars, termVars, clientVars
<1>5. CASE Worker(n)
  <2>1. UNCHANGED cpc
    BY <1>5, WorkerFrame DEF clientVars
  <2>2. CASE VoteReply(n) \/ AppendReply(n)
    BY <1>1, <2>1, <2>2 DEF VoteReply, AppendReply, BecomeFollowerLocked, WorkerAt, termVars
  <2>3. CASE EndElection(n)
    BY <1>1, <2>1, <2>3 DEF EndElection, BecomeLeaderLocked, WorkerAt
  <2>4. CASE BecomeCandidate(n)
    BY <1>1, <2>1, <2>4 DEF BecomeCandidate, workerVars
  <2>. QED
    BY <1>1, <1>5, <2>1, <2>2, <2>3, <2>4
       DEF Worker, WorkerAt, termVars, EnterElection, StartElection, SendRequestVote,
           BroadcastHeartbeat, ReadPrev, SendAppendEntries, EndBroadcast, AdvanceCommitIndex,
           ApplyCommittedEntries
<1>. QED
  BY <1>2, <1>3, <1>4, <1>5 DEF Steps

-----------------------------------------------------------------------------
(* Every step keeps the part about elections *)

LEMMA StandingStep ==
    ASSUME IndInv, Standing, OneTerm', NEW n \in Server, Steps(n), Lasting
    PROVE  Standing'
<1>. SUFFICES ASSUME NEW m \in Server, state'[m] # "Follower" \/ wpc'[m] # "loop"
              PROVE  Stood(m)'
  BY DEF Standing
<1>1. CASE m = n /\ BecomeCandidate(n)
  BY <1>1 DEF BecomeCandidate, IndInv, TypeOfNodes, Term, OneTerm, Stood
<1>2. CASE Stood(m)
  BY <1>2 DEF Lasting
<1>. QED
  BY <1>1, <1>2, ControlSteps DEF Standing

\* Enough votes counted are enough votes given.
LEMMA LeadingStep ==
    ASSUME IndInv, Standing, Leading, Counting, NEW n \in Server, Steps(n), Lasting
    PROVE  Leading'
<1>1. ASSUME wpc[n] = "poll", votes[n] >= Majority PROVE Elected(n)
  <2>1. Counted(n) \in SUBSET Supporters(n) /\ Supporters(n) \in SUBSET Server
    BY DEF Counted, Supporters
  <2>2. Cardinality(Counted(n)) <= Cardinality(Supporters(n))
    BY <2>1, FiniteSupport, FS_Subset
  <2>3. Cardinality(Counted(n)) \in Nat /\ Cardinality(Supporters(n)) \in Nat
    <3>1. Counted(n) \in SUBSET Server
      BY <2>1
    <3>. QED
      BY <2>1, <3>1, FiniteSupport
  <2>4. votes[n] \in Nat /\ Majority \in Nat /\ votes[n] <= Cardinality(Counted(n))
    BY <1>1, ServerAssumption, FS_CardinalityType
       DEF Counting, IndInv, TypeOfThreads, Majority
  <2>. HIDE DEF Majority
  <2>5. Cardinality(Supporters(n)) >= Majority
    BY <1>1, <2>2, <2>3, <2>4
  <2>. QED
    BY <1>1, <2>5 DEF Elected, Standing
<1>. SUFFICES ASSUME NEW m \in Server,
                     state'[m] = "Leader" \/ wpc'[m] \in LeaderPc \/ cpc'[m] # "idle"
              PROVE  Elected(m)'
  BY DEF Leading, LeaderPc, Elected, Supporters, Stood
<1>2. Elected(m)
  BY <1>1, ControlSteps DEF Leading, LeaderPc
<1>. QED
  BY <1>2 DEF Lasting

LEMMA VotingStep ==
    ASSUME IndInv, Voting, Requests, OneTerm', NEW n \in Server, Steps(n), Lasting
    PROVE  Voting'
<1>1. /\ current_term \in [Server -> Nat] /\ current_term' \in [Server -> Nat]
      /\ voted_for \in [Server -> Server \cup {kNoNodeId}]
      /\ hpc \in [Server -> HandlerPc]
      /\ \A m \in Server : current_term'[m] <= 1
  BY NodesStep DEF Steps, IndInv, TypeOfNodes, TypeOfThreads, Term, OneTerm
<1>2. ASSUME NEW m \in Server, voted_for'[m] # kNoNodeId PROVE current_term'[m] = 1
  <2>1. CASE UNCHANGED <<current_term, voted_for>>
    BY <1>2, <2>1 DEF Voting
  <2>2. CASE \E term \in Term : BecomeFollowerLocked(n, term)
    BY <1>1, <1>2, <2>2 DEF BecomeFollowerLocked, Term, Voting
  <2>3. CASE BecomeCandidate(n)
    BY <1>1, <1>2, <2>3 DEF BecomeCandidate, Voting
  <2>4. CASE RequestVoteDecide(n)
    BY <1>1, <1>2, <2>4 DEF RequestVoteDecide, Voting
  <2>5. ~Restart(n)
    BY DEF Restart, Steps, Worker, Handler, Client, IndInv, OneTerm, TypeOfThreads
  <2>. QED
    BY <2>1, <2>2, <2>3, <2>4, <2>5, TermSteps DEF Steps
<1>3. ASSUME NEW m \in Server, hpc'[m] \notin {"idle", "rv_down", "ae_down"}
      PROVE  current_term'[m] = 1
  <2>1. CASE hpc[m] \notin {"idle", "rv_down", "ae_down"}
    BY <1>1, <2>1 DEF Voting, Lasting
  <2>2. ASSUME NEW req \in InFlight, Admit(n, req), m = n PROVE current_term'[m] = 1
    <3>1. req.term = 1
      BY <2>2 DEF Requests, SoundRequest
    <3>2. current_term[n] = 1
      BY <1>1, <1>3, <2>2, <3>1 DEF Admit, HandlerAt
    <3>. QED
      BY <1>1, <2>2, <3>2 DEF Lasting
  <2>3. ASSUME BecomeFollowerLocked(n, hreq[n].term), hpc[n] # "idle", m = n
        PROVE  current_term'[m] = 1
    <3>1. hreq[n] \in InFlight
      <4>1. hreq[n] # None
        BY <2>3, HandlerRequest DEF VoteRequest, AppendRequest, None
      <4>. QED
        BY <4>1 DEF InFlight
    <3>2. hreq[n].term = 1
      BY <3>1 DEF Requests, SoundRequest
    <3>. QED
      BY <1>1, <2>3, <3>2 DEF BecomeFollowerLocked
  <2>4. CASE Handler(n)
    <3>1. CASE Take(n)
      <4>1. PICK k \in Server : rpc_state[k] = "sent" /\ Admit(n, rpc_req[k])
        BY <3>1 DEF Take
      <4>2. rpc_req[k] \in InFlight
        BY <4>1, WorkerRpc DEF InFlight, IndInv, RpcMatched, CallerMatched, Request,
           VoteRequest, AppendRequest, None
      <4>. QED
        BY <1>1, <1>3, <2>1, <2>2, <4>1, <4>2 DEF Admit, HandlerAt
    <3>2. CASE TakeOrphan(n)
      <4>1. PICK req \in orphans : Admit(n, req) \/ UNCHANGED hpc
        BY <3>2 DEF TakeOrphan
      <4>2. req \in InFlight
        BY DEF InFlight, IndInv, TypeOfThreads, Request, VoteRequest, AppendRequest, None
      <4>. QED
        BY <1>1, <1>3, <2>1, <2>2, <4>1, <4>2 DEF Admit, HandlerAt
    <3>3. CASE RequestVoteStepDown(n) \/ AppendEntriesStepDown(n)
      BY <1>1, <1>3, <2>1, <2>3, <3>3
         DEF RequestVoteStepDown, AppendEntriesStepDown, HandlerAt
    <3>. QED
      BY <1>1, <1>3, <2>1, <2>4, <3>1, <3>2, <3>3
         DEF Handler, HandlerAt, handlerVars, Respond, Succeed, Refuse, RequestVoteDecide,
             AppendEntriesCheck, AppendEntriesTruncate, AppendEntriesStore,
             AppendEntriesCommit, AppendEntriesSetCommit, AppendEntriesApply
  <2>5. CASE Worker(n) \/ Client(n) \/ RpcTimeout(n)
    BY <1>3, <2>1, <2>5, WorkerFrame, ClientFrame DEF handlerVars, RpcTimeout
  <2>. QED
    BY <2>4, <2>5 DEF Steps
<1>. QED
  BY <1>2, <1>3 DEF Voting

-----------------------------------------------------------------------------
(* The operators of RaftLog on a log without holes that starts at 1 *)

NumberedLog(l) == l.first = 1 /\ \A i \in 1 .. Len(l.entries) : l.entries[i].index = i

\* Index and position are the same, so the two ways the code finds an entry agree.
LEMMA NumberedReaders ==
    ASSUME NEW l \in Log, NumberedLog(l)
    PROVE  /\ LastIndex(l) = Len(l.entries)
           /\ LastIndexUnsafe(l) = Len(l.entries)
           /\ AppendExpects(l) = Len(l.entries) + 1
           /\ \A i \in Nat : Offset(l, i) = i
<1>1. l.entries \in Seq(RaftEntry) /\ l.first = 1 /\ Len(l.entries) \in Nat
  BY ReaderTypes DEF NumberedLog
<1>2. \A i \in Nat : Offset(l, i) = i
  BY <1>1 DEF Offset
<1>3. CASE l.entries = <<>>
  <2>1. Len(l.entries) = 0
    BY <1>3
  <2>. QED
    BY <1>1, <1>2, <1>3, <2>1 DEF LastIndex, LastIndexUnsafe, AppendExpects, kNoIndex
<1>4. CASE l.entries # <<>>
  <2>1. Len(l.entries) \in 1 .. Len(l.entries)
    BY <1>1, <1>4, EmptySeq
  <2>2. l.entries[Len(l.entries)].index = Len(l.entries)
    BY <2>1 DEF NumberedLog
  <2>. QED
    BY <1>2, <1>4, <2>2 DEF LastIndex, LastIndexUnsafe, AppendExpects
<1>. QED
  BY <1>3, <1>4

\* The batch of BroadcastHeartbeat is a stretch of the log.
LEMMA BatchCopied ==
    ASSUME NEW l \in Log, NumberedLog(l), NEW start \in Nat, NEW k \in Nat
    PROVE  LET es == EntriesFrom(l, start)
           IN  Copied(SubSeq(es, 1, LesserOf(k, Len(es))), l)
<1>. DEFINE from == AtLeastFirst(l, start)
            es   == EntriesFrom(l, start)
            top  == LesserOf(k, Len(es))
            bs   == SubSeq(es, 1, top)
<1>1. /\ l.entries \in Seq(RaftEntry) /\ l.first = 1 /\ Len(l.entries) \in Nat
      /\ from \in Nat /\ from >= 1
  BY ReaderTypes DEF NumberedLog, AtLeastFirst
<1>2. es \in Seq(RaftEntry) /\ Len(es) \in Nat
  BY EntriesFromType DEF Index
<1>3. /\ top \in Nat /\ top <= Len(es)
  BY <1>2 DEF LesserOf
<1>4. \A i \in 1 .. Len(es) : es[i] = l.entries[from + i - 1] /\ from + i - 1 <= Len(l.entries)
  <2>1. CASE from > LastIndexUnsafe(l)
    <3>1. es = <<>>
      BY <2>1 DEF EntriesFrom
    <3>. QED
      BY <3>1
  <2>2. CASE ~(from > LastIndexUnsafe(l))
    <3>1. es = SubSeq(l.entries, from, Len(l.entries))
      BY <1>1, <2>2, NumberedReaders DEF EntriesFrom
    <3>2. \A i \in from .. Len(l.entries) : l.entries[i] \in RaftEntry
      BY <1>1, ElementOfSeq
    <3>. HIDE DEF from, es
    <3>3. /\ Len(es) = IF from <= Len(l.entries) THEN Len(l.entries) - from + 1 ELSE 0
          /\ \A i \in 1 .. Len(l.entries) - from + 1 : es[i] = l.entries[from + i - 1]
      BY <1>1, <3>1, <3>2, SubSeqProperties
    <3>. QED
      BY <1>1, <3>3
  <2>. QED
    BY <2>1, <2>2
<1>5. Len(bs) = top /\ \A i \in 1 .. top : bs[i] = es[i]
  <2>1. \A i \in 1 .. top : es[i] \in RaftEntry
    BY <1>2, <1>3, ElementOfSeq
  <2>. HIDE DEF es, top
  <2>2. /\ Len(bs) = IF 1 <= top THEN top - 1 + 1 ELSE 0
        /\ \A i \in 1 .. top - 1 + 1 : bs[i] = es[1 + i - 1]
    BY <1>3, <2>1, SubSeqProperties
  <2>. HIDE DEF bs
  <2>3. \A i \in 1 .. top : 1 + i - 1 = i /\ i \in 1 .. top - 1 + 1
    BY <1>3
  <2>. QED
    BY <1>3, <2>2, <2>3
<1>. HIDE DEF from, es, top, bs
<1>6. \A i \in 1 .. Len(bs) : /\ bs[i] = l.entries[from + i - 1]
                              /\ from + i - 1 \in 1 .. Len(l.entries)
  BY <1>1, <1>2, <1>3, <1>4, <1>5
<1>7. \A i \in 1 .. Len(bs) : bs[i].index = from + i - 1
  BY <1>6 DEF NumberedLog
<1>8. ASSUME NEW i \in 1 .. Len(bs)
      PROVE  /\ bs[i].index = bs[1].index + i - 1
             /\ bs[i].index \in 1 .. Len(l.entries)
             /\ bs[i] = l.entries[bs[i].index]
  <2>1. 1 \in 1 .. Len(bs) /\ Len(bs) \in Nat
    BY <1>3, <1>5
  <2>2. bs[1].index = from + 1 - 1
    BY <1>7, <2>1
  <2>. QED
    BY <1>1, <1>6, <1>7, <2>2
<1>9. Copied(bs, l)
  BY <1>8 DEF Copied
<1>. QED
  BY <1>9 DEF bs, top, es

\* A range that lies in the log is copied whole.
LEMMA SliceNumbered ==
    ASSUME NEW l \in Log, NumberedLog(l), NEW m \in Nat, NEW k \in Nat,
           m < k, k <= Len(l.entries)
    PROVE  /\ Len(Slice(l, m + 1, k + 1)) = k - m
           /\ \A i \in 1 .. k - m : Slice(l, m + 1, k + 1)[i] = l.entries[m + i]
<1>1. /\ l.entries \in Seq(RaftEntry) /\ l.first = 1 /\ Len(l.entries) \in Nat
  BY ReaderTypes DEF NumberedLog
<1>2. AtLeastFirst(l, m + 1) = m + 1
  BY <1>1 DEF AtLeastFirst
<1>3. LesserOf(k + 1, LastIndexUnsafe(l) + 1) = k + 1
  BY <1>1, NumberedReaders DEF LesserOf
<1>4. Offset(l, m + 1) = m + 1 /\ Offset(l, k + 1) = k + 1
  BY NumberedReaders
<1>5. LesserOf(k, Len(l.entries)) = k
  BY <1>1 DEF LesserOf
<1>6. Slice(l, m + 1, k + 1) = SubSeq(l.entries, m + 1, k)
  <2>. DEFINE from == AtLeastFirst(l, m + 1)
              to   == LesserOf(k + 1, LastIndexUnsafe(l) + 1)
  <2>1. from = m + 1 /\ to = k + 1 /\ ~(from >= to)
    BY <1>2, <1>3
  <2>2. Slice(l, m + 1, k + 1) =
           SubSeq(l.entries, Offset(l, from), LesserOf(Offset(l, to) - 1, Len(l.entries)))
    BY <2>1, Zenon DEF Slice
  <2>. HIDE DEF from, to
  <2>3. Offset(l, from) = m + 1 /\ Offset(l, to) = k + 1
    BY <1>4, <2>1
  <2>4. Offset(l, to) - 1 = k
    BY <2>3
  <2>. QED
    BY <1>5, <2>2, <2>3, <2>4
<1>. DEFINE b == SubSeq(l.entries, m + 1, k)
<1>7. \A i \in m + 1 .. k : l.entries[i] \in RaftEntry
  BY <1>1, ElementOfSeq
<1>8. /\ Len(b) = IF m + 1 <= k THEN k - (m + 1) + 1 ELSE 0
      /\ \A i \in 1 .. k - (m + 1) + 1 : b[i] = l.entries[m + 1 + i - 1]
  BY <1>7, SubSeqProperties
<1>. HIDE DEF b
<1>9. k - (m + 1) + 1 = k - m /\ m + 1 <= k /\ \A i \in 1 .. k - m : m + 1 + i - 1 = m + i
  OBVIOUS
<1>10. Len(b) = k - m /\ \A i \in 1 .. k - m : b[i] = l.entries[m + i]
  BY <1>8, <1>9
<1>. QED
  BY <1>6, <1>10 DEF b

\* What a writer leaves of a numbered log that begins the log L is still both.
LEMMA TruncateNumbered ==
    ASSUME NEW l \in Log, NumberedLog(l), NEW i \in Nat
    PROVE  /\ NumberedLog(TruncateTo(l, i))
           /\ Promise!Begins(TruncateTo(l, i).entries, l.entries)
<1>1. /\ l.entries \in Seq(RaftEntry) /\ l.first = 1 /\ Len(l.entries) \in Nat
  BY ReaderTypes DEF NumberedLog
<1>2. CASE i < l.first
  <2>1. TruncateTo(l, i).first = i + 1 /\ TruncateTo(l, i).entries = <<>>
    BY <1>2 DEF TruncateTo
  <2>2. i = 0
    BY <1>1, <1>2
  <2>. QED
    BY <1>1, <2>1, <2>2 DEF NumberedLog, Promise!Begins
<1>3. CASE ~(i < l.first)
  <2>1. Offset(l, i) = i
    BY NumberedReaders
  <2>2. CASE i >= Len(l.entries)
    <3>1. TruncateTo(l, i) = l
      BY <1>3, <2>1, <2>2 DEF TruncateTo, Log
    <3>. QED
      BY <1>1, <3>1 DEF Promise!Begins
  <2>3. CASE ~(i >= Len(l.entries))
    <3>. DEFINE b == SubSeq(l.entries, 1, i)
    <3>1. TruncateTo(l, i).first = l.first /\ TruncateTo(l, i).entries = b
      BY <1>3, <2>1, <2>3 DEF TruncateTo, Log
    <3>2. \A j \in 1 .. i : l.entries[j] \in RaftEntry
      BY <1>1, <2>3, ElementOfSeq
    <3>3. /\ Len(b) = IF 1 <= i THEN i - 1 + 1 ELSE 0
          /\ \A j \in 1 .. i - 1 + 1 : b[j] = l.entries[1 + j - 1]
      BY <3>2, SubSeqProperties
    <3>. HIDE DEF b
    <3>4. Len(b) = i /\ \A j \in 1 .. i : b[j] = l.entries[j]
      <4>1. \A j \in 1 .. i : 1 + j - 1 = j /\ j \in 1 .. i - 1 + 1
        OBVIOUS
      <4>. QED
        BY <3>3, <4>1
    <3>5. \A j \in 1 .. i : j \in 1 .. Len(l.entries)
      BY <1>1, <2>3
    <3>. QED
      BY <1>1, <2>3, <3>1, <3>4, <3>5 DEF NumberedLog, Promise!Begins
  <2>. QED
    BY <2>2, <2>3
<1>. QED
  BY <1>2, <1>3

LEMMA BatchNumbered ==
    ASSUME NEW l \in Log, NumberedLog(l), NEW es \in Seq(RaftEntry),
           NEW L \in Log, NumberedLog(L), Copied(es, L), Promise!Begins(l.entries, L.entries)
    PROVE  /\ NumberedLog(AppendBatch(l, es))
           /\ Promise!Begins(AppendBatch(l, es).entries, L.entries)
<1>1. /\ l.entries \in Seq(RaftEntry) /\ l.first = 1 /\ Len(l.entries) \in Nat
      /\ L.entries \in Seq(RaftEntry) /\ Len(L.entries) \in Nat /\ Len(es) \in Nat
  BY ReaderTypes DEF NumberedLog
<1>2. CASE es = <<>> \/ es[1].index # AppendExpects(l)
  <2>1. AppendBatch(l, es) = l
    BY <1>2 DEF AppendBatch
  <2>. QED
    BY <2>1
<1>3. CASE es # <<>> /\ es[1].index = Len(l.entries) + 1
  <2>. DEFINE b == l.entries \o es
  <2>1. AppendBatch(l, es).first = l.first /\ AppendBatch(l, es).entries = b
    BY <1>3, NumberedReaders DEF AppendBatch, Log
  <2>2. /\ Len(b) = Len(l.entries) + Len(es)
        /\ \A i \in 1 .. Len(l.entries) + Len(es) :
              b[i] = IF i <= Len(l.entries) THEN l.entries[i] ELSE es[i - Len(l.entries)]
    BY <1>1, ConcatProperties
  <2>3. Len(es) >= 1
    BY <1>1, <1>3, EmptySeq
  <2>. HIDE DEF b
  <2>4. ASSUME NEW i \in 1 .. Len(b) PROVE i <= Len(L.entries) /\ b[i] = L.entries[i]
    <3>1. CASE i <= Len(l.entries)
      <4>1. i \in 1 .. Len(l.entries)
        BY <1>1, <2>2, <3>1
      <4>. QED
        BY <1>1, <2>2, <3>1, <4>1 DEF Promise!Begins
    <3>2. CASE ~(i <= Len(l.entries))
      <4>1. i - Len(l.entries) \in 1 .. Len(es)
        BY <1>1, <2>2, <3>2
      <4>2. b[i] = es[i - Len(l.entries)]
        BY <1>1, <2>2, <3>2
      <4>3. es[i - Len(l.entries)].index = i
        BY <1>1, <1>3, <4>1 DEF Copied
      <4>4. /\ es[i - Len(l.entries)].index \in 1 .. Len(L.entries)
            /\ es[i - Len(l.entries)] = L.entries[es[i - Len(l.entries)].index]
        BY <4>1 DEF Copied
      <4>. QED
        BY <1>1, <4>2, <4>3, <4>4
    <3>. QED
      BY <3>1, <3>2
  <2>5. Len(b) <= Len(L.entries) /\ Len(b) \in Nat
    <3>1. Len(b) \in Nat /\ Len(b) >= 1
      BY <1>1, <2>2, <2>3
    <3>2. Len(b) \in 1 .. Len(b)
      BY <3>1
    <3>. QED
      BY <2>4, <3>1, <3>2
  <2>6. \A i \in 1 .. Len(b) : b[i].index = i
    BY <1>1, <2>4, <2>5 DEF NumberedLog
  <2>. QED
    BY <1>1, <2>1, <2>4, <2>5, <2>6 DEF NumberedLog, Promise!Begins
<1>. QED
  BY <1>2, <1>3, NumberedReaders

LEMMA EntryNumbered ==
    ASSUME NEW l \in Log, NumberedLog(l), NEW e \in RaftEntry, e.index = Len(l.entries) + 1
    PROVE  /\ NumberedLog(AppendEntry(l, e))
           /\ Promise!Begins(l.entries, AppendEntry(l, e).entries)
           /\ Len(AppendEntry(l, e).entries) = Len(l.entries) + 1
           /\ AppendEntry(l, e).entries[Len(l.entries) + 1] = e
<1>. DEFINE b == Append(l.entries, e)
<1>1. /\ l.entries \in Seq(RaftEntry) /\ l.first = 1 /\ Len(l.entries) \in Nat
  BY ReaderTypes DEF NumberedLog
<1>2. AppendEntry(l, e).first = l.first /\ AppendEntry(l, e).entries = b
  BY DEF AppendEntry, Log
<1>3. /\ Len(b) = Len(l.entries) + 1
      /\ \A i \in 1 .. Len(l.entries) : b[i] = l.entries[i]
      /\ b[Len(l.entries) + 1] = e
  BY <1>1, AppendProperties
<1>. HIDE DEF b
<1>4. \A i \in 1 .. Len(b) : i \in 1 .. Len(l.entries) \/ i = Len(l.entries) + 1
  BY <1>1, <1>3
<1>. QED
  BY <1>1, <1>2, <1>3, <1>4 DEF NumberedLog, Promise!Begins

\* Beginnings of beginnings, and two beginnings of one sequence.
LEMMA BeginsFacts ==
    ASSUME NEW a \in Seq(RaftEntry), NEW b \in Seq(RaftEntry), NEW c \in Seq(RaftEntry)
    PROVE  /\ Promise!Begins(a, a)
           /\ Promise!Begins(<<>>, a)
           /\ Promise!Begins(a, b) /\ Promise!Begins(b, c) => Promise!Begins(a, c)
           /\ Promise!Begins(a, c) /\ Promise!Begins(b, c) /\ Len(a) <= Len(b)
                 => Promise!Begins(a, b)
<1>1. Len(a) \in Nat /\ Len(b) \in Nat /\ Len(c) \in Nat /\ Len(<<>>) = 0
  OBVIOUS
<1>2. ASSUME Len(a) <= Len(b), NEW i \in 1 .. Len(a) PROVE i \in 1 .. Len(b)
  BY <1>1, <1>2
<1>. QED
  BY <1>1, <1>2 DEF Promise!Begins

-----------------------------------------------------------------------------
(* Who writes a log *)

Leads(l) == l \in Server /\ Elected(l)

\* The handler of HandleAppendEntries serves the one who was elected, and that is another.
LEMMA AppendHandler ==
    ASSUME IndInv, Requests, NEW n \in Server, hpc[n] \notin {"idle", "rv_down", "rv_vote"}
    PROVE  /\ Leads(hreq[n].from) /\ hreq[n].from # n
           /\ ~Elected(n)
           /\ hreq[n].entries \in Seq(RaftEntry)
           /\ Copied(hreq[n].entries, log[hreq[n].from])
<1>1. /\ hreq[n].from \in Server /\ hreq[n].to = n /\ hreq[n] \in AppendRequest
      /\ hreq[n].entries \in Seq(RaftEntry)
  BY HandlerRequest
<1>2. hreq[n] \in InFlight /\ hreq[n].kind = "AppendEntries"
  BY <1>1 DEF InFlight, AppendRequest, None
<1>3. /\ Elected(hreq[n].from) /\ hreq[n].from # n
      /\ Copied(hreq[n].entries, log[hreq[n].from])
  BY <1>1, <1>2 DEF Requests, SoundRequest
<1>4. ~Elected(n)
  BY <1>1, <1>3, OneElected
<1>. QED
  BY <1>1, <1>3, <1>4 DEF Leads

LEMMA LogSteps ==
    ASSUME NEW n \in Server, Steps(n)
    PROVE  \/ UNCHANGED log
           \/ ProposeAppend(n)
           \/ AppendEntriesTruncate(n)
           \/ AppendEntriesStore(n)
<1>1. CASE Worker(n)
  BY <1>1 DEF Worker, logVars, BecomeCandidate, EnterElection, StartElection, SendRequestVote,
     VoteReply, EndElection, BroadcastHeartbeat, ReadPrev, SendAppendEntries, AppendReply,
     EndBroadcast, AdvanceCommitIndex, ApplyCommittedEntries
<1>2. CASE Handler(n)
  BY <1>2 DEF Handler, logVars, Take, TakeOrphan, Refuse, RequestVoteStepDown,
     RequestVoteDecide, AppendEntriesStepDown, AppendEntriesCheck, AppendEntriesCommit,
     AppendEntriesSetCommit, AppendEntriesApply
<1>3. CASE Client(n) \/ RpcTimeout(n)
  BY <1>3 DEF Client, logVars, ProposeEnter, ProposeLock, RpcTimeout
<1>. QED
  BY <1>1, <1>2, <1>3 DEF Steps

\* The elected one appends to its own log, everybody else copies from it.
LEMMA LogWrites ==
    ASSUME IndInv, Elections, Logs, NEW n \in Server, Steps(n)
    PROVE  \/ UNCHANGED log
           \/ \E new \in Log :
                 /\ log' = [log EXCEPT ![n] = new]
                 /\ NumberedLog(new)
                 /\ current_term[n] = 1
                 /\ \/ /\ Elected(n)
                       /\ Promise!Begins(EntriesOf(n), new.entries)
                       /\ \A i \in 1 .. Len(new.entries) : new.entries[i].term = 1
                    \/ /\ ~Elected(n)
                       /\ \E l \in Server : /\ Elected(l)
                                            /\ Promise!Begins(new.entries, EntriesOf(l))
<1>1. /\ \A m \in Server : log[m] \in Log /\ NumberedLog(log[m])
      /\ \A m \in Server : current_term[m] \in Nat
  BY NodeTypes DEF IndInv, Logs, Numbered, NumberedLog, EntriesOf, Term
<1>2. CASE ProposeAppend(n)
  <2>. DEFINE new == AppendEntry(log[n], centry[n])
  <2>1. /\ cpc[n] = "append" /\ Elected(n) /\ current_term[n] = 1
        /\ centry[n] \in RaftEntry
        /\ centry[n].term = 1 /\ centry[n].index = Len(EntriesOf(n)) + 1
    BY <1>2 DEF ProposeAppend, Elections, Leading, Elected, Stood, Logs, Proposing, IndInv,
       RpcMatched, ClientMatched
  <2>2. log' = [log EXCEPT ![n] = new] /\ new \in Log
    BY <1>1, <1>2, <2>1, WriterTypes DEF ProposeAppend
  <2>3. /\ NumberedLog(new) /\ Promise!Begins(EntriesOf(n), new.entries)
        /\ Len(new.entries) = Len(EntriesOf(n)) + 1
        /\ new.entries[Len(EntriesOf(n)) + 1] = centry[n]
    BY <1>1, <2>1, EntryNumbered DEF EntriesOf
  <2>. HIDE DEF new
  <2>4. ASSUME NEW i \in 1 .. Len(new.entries) PROVE new.entries[i].term = 1
    <3>1. Len(EntriesOf(n)) \in Nat
      BY <1>1, ReaderTypes DEF EntriesOf
    <3>2. CASE i = Len(EntriesOf(n)) + 1
      BY <2>1, <2>3, <3>2
    <3>3. CASE i # Len(EntriesOf(n)) + 1
      <4>1. i \in 1 .. Len(EntriesOf(n))
        BY <2>3, <3>1, <3>3
      <4>2. new.entries[i] = EntriesOf(n)[i]
        BY <2>3, <4>1 DEF Promise!Begins
      <4>. QED
        BY <4>1, <4>2 DEF Logs, Numbered
    <3>. QED
      BY <3>2, <3>3
  <2>. QED
    BY <2>1, <2>2, <2>3, <2>4
<1>3. CASE AppendEntriesTruncate(n) \/ AppendEntriesStore(n)
  <2>. DEFINE l  == hreq[n].from
              es == hreq[n].entries
  <2>1. hpc[n] \in {"ae_trunc", "ae_append"}
    BY <1>3 DEF AppendEntriesTruncate, AppendEntriesStore
  <2>2. /\ l \in Server /\ Elected(l) /\ ~Elected(n)
        /\ es \in Seq(RaftEntry) /\ Copied(es, log[l])
        /\ current_term[n] = 1
    BY <2>1, AppendHandler DEF Leads, Elections, Voting
  <2>3. Promise!Begins(EntriesOf(n), EntriesOf(l))
    BY <2>2 DEF Logs, Follows
  <2>4. CASE AppendEntriesTruncate(n)
    <3>. DEFINE new == TruncateTo(log[n], es[1].index - 1)
    <3>1. es[1].index - 1 \in Nat
      <4>1. es # <<>>
        BY <2>4 DEF AppendEntriesTruncate, IndInv, BatchHeld
      <4>2. 1 \in 1 .. Len(es)
        BY <2>2, <4>1, EmptySeq
      <4>3. es[1] \in RaftEntry
        BY <2>2, <4>2, ElementOfSeq
      <4>. QED
        BY <4>3 DEF RaftEntry, Index
    <3>2. log' = [log EXCEPT ![n] = new]
      BY <2>4 DEF AppendEntriesTruncate
    <3>3. /\ new \in Log /\ NumberedLog(new)
          /\ Promise!Begins(new.entries, EntriesOf(n))
      BY <1>1, <3>1, WriterTypes, TruncateNumbered DEF EntriesOf, Index
    <3>. HIDE DEF new, l, es
    <3>4. Promise!Begins(new.entries, EntriesOf(l))
      BY <1>1, <2>2, <2>3, <3>3, ReaderTypes, BeginsFacts DEF EntriesOf
    <3>. QED
      BY <2>2, <3>2, <3>3, <3>4
  <2>5. CASE AppendEntriesStore(n)
    <3>. DEFINE new == AppendBatch(log[n], es)
    <3>1. log' = [log EXCEPT ![n] = new]
      BY <2>5 DEF AppendEntriesStore
    <3>2. /\ new \in Log /\ NumberedLog(new)
          /\ Promise!Begins(new.entries, EntriesOf(l))
      BY <1>1, <2>2, <2>3, WriterTypes, BatchNumbered DEF EntriesOf
    <3>. HIDE DEF new
    <3>. QED
      BY <2>2, <3>1, <3>2
  <2>. QED
    BY <1>3, <2>4, <2>5
<1>. QED
  BY <1>2, <1>3, LogSteps

\* The log of the elected one only grows, and the others stay beginnings of it.
LEMMA LogResult ==
    ASSUME IndInv, Elections, Logs, NEW n \in Server, Steps(n), NEW l \in Server, Elected(l)
    PROVE  /\ Promise!Begins(EntriesOf(l), EntriesOf(l)')
           /\ \A m \in Server : Promise!Begins(EntriesOf(m)', EntriesOf(l)')
<1>1. /\ \A m \in Server : log[m] \in Log /\ log'[m] \in Log
      /\ log \in [Server -> Log]
      /\ \A m \in Server : Promise!Begins(EntriesOf(m), EntriesOf(l))
  BY NodesStep DEF Steps, IndInv, TypeOfNodes, Logs, Follows
<1>2. \A m \in Server : EntriesOf(m) \in Seq(RaftEntry) /\ EntriesOf(m)' \in Seq(RaftEntry)
  BY <1>1, ReaderTypes DEF EntriesOf
<1>3. CASE UNCHANGED log
  BY <1>1, <1>2, <1>3, BeginsFacts DEF EntriesOf
<1>4. ASSUME NEW new \in Log, log' = [log EXCEPT ![n] = new], n = l,
             Promise!Begins(EntriesOf(n), new.entries)
      PROVE  /\ Promise!Begins(EntriesOf(l), EntriesOf(l)')
             /\ \A m \in Server : Promise!Begins(EntriesOf(m)', EntriesOf(l)')
  <2>1. EntriesOf(l)' = new.entries /\ \A m \in Server \ {l} : EntriesOf(m)' = EntriesOf(m)
    BY <1>1, <1>4 DEF EntriesOf
  <2>. QED
    BY <1>1, <1>2, <1>4, <2>1, BeginsFacts
<1>5. ASSUME NEW new \in Log, log' = [log EXCEPT ![n] = new], n # l,
             Promise!Begins(new.entries, EntriesOf(l))
      PROVE  /\ Promise!Begins(EntriesOf(l), EntriesOf(l)')
             /\ \A m \in Server : Promise!Begins(EntriesOf(m)', EntriesOf(l)')
  <2>1. EntriesOf(n)' = new.entries /\ \A m \in Server \ {n} : EntriesOf(m)' = EntriesOf(m)
    BY <1>1, <1>5 DEF EntriesOf
  <2>. QED
    <3>1. Promise!Begins(EntriesOf(l), EntriesOf(l)) /\ EntriesOf(l)' = EntriesOf(l)
      BY <1>2, <1>5, <2>1, BeginsFacts
    <3>. QED
      BY <1>1, <1>5, <2>1, <3>1
<1>. QED
  BY <1>3, <1>4, <1>5, LogWrites, OneElected

-----------------------------------------------------------------------------
(* Every step keeps the requests sound and the votes counted *)

\* What was copied from a log is still in it when it has grown.
LEMMA CopiedGrows ==
    ASSUME NEW es, NEW l \in Log, NEW L \in Log, Copied(es, l),
           Promise!Begins(l.entries, L.entries)
    PROVE  Copied(es, L)
<1>1. Len(l.entries) \in Nat /\ Len(L.entries) \in Nat
  BY ReaderTypes
<1>2. SUFFICES ASSUME NEW i \in 1 .. Len(es)
               PROVE  /\ es[i].index = es[1].index + i - 1
                      /\ es[i].index \in 1 .. Len(L.entries)
                      /\ es[i] = L.entries[es[i].index]
  BY DEF Copied
<1>3. /\ es[i].index = es[1].index + i - 1
      /\ es[i].index \in 1 .. Len(l.entries)
      /\ es[i] = l.entries[es[i].index]
  BY DEF Copied
<1>4. L.entries[es[i].index] = l.entries[es[i].index]
  BY <1>3 DEF Promise!Begins
<1>. QED
  BY <1>1, <1>3, <1>4 DEF Promise!Begins

LEMMA RequestsStep ==
    ASSUME IndInv, Elections, Logs, NEW n \in Server, Steps(n), Lasting
    PROVE  Requests'
<1>. SUFFICES ASSUME NEW req \in InFlight' PROVE SoundRequest(req)'
  BY DEF Requests
<1>1. /\ \A m \in Server : log[m] \in Log /\ log'[m] \in Log /\ NumberedLog(log[m])
      /\ \A m \in Server : rpc_req[m] \in Request \cup {None}
  BY NodesStep DEF Steps, IndInv, TypeOfNodes, TypeOfThreads, Logs, Numbered, NumberedLog,
     EntriesOf
<1>2. CASE req \in InFlight
  <2>1. SoundRequest(req) /\ req \in Request
    BY <1>2 DEF Elections, Requests, InFlight, IndInv, TypeOfThreads
  <2>2. CASE req.kind # "AppendEntries"
    BY <2>1, <2>2 DEF SoundRequest
  <2>3. CASE req.kind = "AppendEntries"
    <3>1. req.from \in Server
      BY <2>1 DEF Request, VoteRequest, AppendRequest
    <3>2. Elected(req.from) /\ Elected(req.from)' /\ Copied(req.entries, log[req.from])
      BY <2>1, <2>3, <3>1 DEF SoundRequest, Lasting
    <3>3. Promise!Begins(log[req.from].entries, log'[req.from].entries)
      BY <3>1, <3>2, LogResult DEF EntriesOf
    <3>4. Copied(req.entries, log'[req.from])
      BY <1>1, <3>1, <3>2, <3>3, CopiedGrows
    <3>. QED
      BY <2>1, <3>2, <3>4 DEF SoundRequest, Copied
  <2>. QED
    BY <2>2, <2>3
<1>3. CASE req = rpc_req'[n] /\ SendRequestVote(n)
  <2>1. PICK p \in Peers(n) :
          rpc_req'[n] = [kind |-> "RequestVote", from |-> n, to |-> p,
                         term |-> ballot[n].term,
                         last_log_index |-> ballot[n].last_log_index,
                         last_log_term |-> ballot[n].last_log_term]
    BY <1>3 DEF SendRequestVote, Send, NextPeer, IndInv, TypeOfThreads
  <2>2. ballot[n].term = 1
    BY <1>3 DEF SendRequestVote, Elections, Counting
  <2>. QED
    BY <1>3, <2>1, <2>2 DEF SoundRequest, Peers
<1>4. CASE req = rpc_req'[n] /\ SendAppendEntries(n)
  <2>. DEFINE es == EntriesFrom(log[n], prev[n].index + 1)
              bs == SubSeq(es, 1, LesserOf(MaxEntriesPerMsg, Len(es)))
  <2>1. /\ req.kind = "AppendEntries" /\ req.from = n /\ req.to = peer[n]
        /\ req.term = current_term[n] /\ req.entries = bs
    BY <1>4 DEF SendAppendEntries, Send, IndInv, TypeOfThreads
  <2>2. Elected(n) /\ peer[n] # n
    BY <1>4 DEF SendAppendEntries, Elections, Leading, IndInv, PeerServed, Peers
  <2>3. Copied(bs, log[n])
    <3>1. prev[n].index + 1 \in Nat /\ MaxEntriesPerMsg \in Nat
      BY BatchAssumption DEF IndInv, TypeOfThreads, Index
    <3>. QED
      BY <1>1, <3>1, BatchCopied
  <2>4. UNCHANGED log
    BY <1>4 DEF SendAppendEntries, logVars
  <2>. HIDE DEF bs
  <2>5. Copied(req.entries, log'[req.from])
    BY <2>1, <2>3, <2>4
  <2>. QED
    BY <2>1, <2>2, <2>5 DEF SoundRequest, Lasting, Elected, Stood, Copied
<1>. QED
  BY <1>2, <1>3, <1>4, FlightSteps

\* A vote that reaches a candidate was given to it by the peer it asked.
LEMMA AnswerSteps ==
    ASSUME IndInv, Counting, NEW n \in Server, Steps(n), Lasting, NEW m \in Server,
           wpc'[m] = "vote"
    PROVE  /\ rpc_req'[m].to = peer'[m]
           /\ rpc_state'[m] = "done" /\ rpc_resp'[m].vote_granted => voted_for'[peer'[m]] = m
<1>1. /\ rpc_req \in [Server -> Request \cup {None}] /\ wpc \in [Server -> WorkerPc]
      /\ rpc_state \in [Server -> {"idle", "sent", "taken", "done"}]
      /\ rpc_resp \in [Server -> VoteResponse \cup AppendResponse \cup {None}]
      /\ peer \in [Server -> Server \cup {kNoNodeId}]
      /\ voted_for \in [Server -> Server \cup {kNoNodeId}]
  BY DEF IndInv, TypeOfThreads, TypeOfNodes
<1>2. ASSUME wpc[m] = "vote"
      PROVE  /\ rpc_req[m].to = peer[m] /\ peer[m] \in Server
             /\ rpc_req[m] \in VoteRequest /\ rpc_req[m].from = m
             /\ rpc_state[m] = "done" /\ rpc_resp[m].vote_granted => voted_for'[peer[m]] = m
  BY <1>2, WorkerRpc DEF Counting, Lasting, Peers, IndInv, RpcMatched, CallerMatched
<1>3. CASE SendRequestVote(n) /\ m = n
  BY <1>1, <1>3 DEF SendRequestVote, Send
<1>4. CASE UNCHANGED <<wpc, peer, rpc_req, rpc_state, rpc_resp>>
  BY <1>2, <1>4
<1>5. ASSUME wpc[m] = "vote", UNCHANGED <<wpc, peer, rpc_req>>,
             rpc_state' = [rpc_state EXCEPT ![m] = "done"],
             NEW resp, rpc_resp' = [rpc_resp EXCEPT ![m] = resp],
             resp.vote_granted => voted_for'[rpc_req[m].to] = m
      PROVE  /\ rpc_req'[m].to = peer'[m]
             /\ rpc_state'[m] = "done" /\ rpc_resp'[m].vote_granted => voted_for'[peer'[m]] = m
  BY <1>1, <1>2, <1>5
<1>6. CASE Worker(n)
  <2>1. CASE m # n
    <3>1. /\ wpc'[m] = wpc[m] /\ peer'[m] = peer[m] /\ rpc_req'[m] = rpc_req[m]
          /\ rpc_state'[m] = rpc_state[m] /\ rpc_resp'[m] = rpc_resp[m]
      BY <1>1, <1>6, <2>1
         DEF Worker, workerVars, rpcVars, WorkerAt, Send, EndLoop, EndRpc, BecomeCandidate,
             EnterElection, StartElection, SendRequestVote, VoteReply, EndElection,
             BroadcastHeartbeat, ReadPrev, SendAppendEntries, AppendReply, EndBroadcast,
             AdvanceCommitIndex, ApplyCommittedEntries
    <3>. QED
      BY <1>2, <3>1
  <2>2. CASE m = n
    BY <1>1, <1>3, <1>4, <1>6, <2>2
       DEF Worker, workerVars, rpcVars, WorkerAt, BecomeCandidate, EnterElection,
           StartElection, VoteReply, EndElection, BroadcastHeartbeat, ReadPrev,
           SendAppendEntries, AppendReply, EndBroadcast, AdvanceCommitIndex,
           ApplyCommittedEntries
  <2>. QED
    BY <2>1, <2>2
<1>7. CASE Client(n)
  BY <1>4, <1>7, ClientFrame DEF workerVars, rpcVars
<1>8. CASE RpcTimeout(n)
  <2>1. /\ UNCHANGED <<wpc, peer, rpc_req>>
        /\ rpc_state' = [rpc_state EXCEPT ![n] = "done"]
        /\ rpc_resp' = [rpc_resp EXCEPT ![n] = FailedResponse(rpc_req[n])]
    BY <1>8 DEF RpcTimeout, workerVars
  <2>2. CASE m = n
    <3>1. rpc_req[m].kind = "RequestVote"
      BY <1>2, <2>1 DEF VoteRequest
    <3>2. FailedResponse(rpc_req[m]).vote_granted = FALSE
      BY <3>1 DEF FailedResponse, NoVote
    <3>. QED
      BY <1>5, <2>1, <2>2, <3>2
  <2>3. CASE m # n
    BY <1>1, <1>2, <2>1, <2>3
  <2>. QED
    BY <2>2, <2>3
<1>9. CASE Handler(n)
  <2>1. UNCHANGED <<wpc, peer>>
    BY <1>9, HandlerFrame DEF workerVars
  <2>2. ASSUME NEW resp, Respond(n, resp), hpc[n] # "idle",
               hpc[n] \in {"rv_down", "rv_vote"} /\ resp.vote_granted
                  => voted_for'[n] = hreq[n].from
        PROVE  /\ rpc_req'[m].to = peer'[m]
               /\ rpc_state'[m] = "done" /\ rpc_resp'[m].vote_granted
                     => voted_for'[peer'[m]] = m
    <3>1. rpc_req' = rpc_req
      BY <2>2 DEF Respond
    <3>2. CASE hlive[n] /\ hreq[n].from = m
      <4>1. rpc_req[m] = hreq[n] /\ hreq[n].to = n
        BY <2>2, <3>2, HandlerRequest DEF IndInv, RpcMatched, HandlerMatched
      <4>2. hpc[n] \in {"rv_down", "rv_vote"}
        BY <1>2, <2>1, <2>2, <4>1, HandlerRequest DEF VoteRequest, AppendRequest
      <4>3. /\ rpc_state' = [rpc_state EXCEPT ![m] = "done"]
            /\ rpc_resp' = [rpc_resp EXCEPT ![m] = resp]
        BY <2>2, <3>2 DEF Respond
      <4>. QED
        <5>1. resp.vote_granted => voted_for'[rpc_req[m].to] = m
          BY <2>2, <3>2, <4>1, <4>2
        <5>. QED
          BY <1>5, <2>1, <3>1, <4>3, <5>1
    <3>3. CASE ~(hlive[n] /\ hreq[n].from = m)
      <4>1. rpc_state'[m] = rpc_state[m] /\ rpc_resp'[m] = rpc_resp[m]
        BY <1>1, <2>2, <3>3 DEF Respond
      <4>. QED
        BY <1>2, <2>1, <3>1, <4>1
    <3>. QED
      BY <3>2, <3>3
  <2>3. CASE Take(n)
    <3>1. rpc_req' = rpc_req /\ rpc_resp' = rpc_resp
      BY <2>3 DEF Take
    <3>2. rpc_state'[m] = "done" => rpc_state[m] = "done"
      BY <1>1, <2>3 DEF Take
    <3>. QED
      BY <1>2, <2>1, <3>1, <3>2
  <2>4. CASE Refuse(n)
    <3>1. PICK k \in Server :
            /\ rpc_state' = [rpc_state EXCEPT ![k] = "done"]
            /\ rpc_resp' = [rpc_resp EXCEPT ![k] = RefusalOf(n, rpc_req[k])]
      BY <2>4 DEF Refuse
    <3>2. rpc_req' = rpc_req
      BY <2>4 DEF Refuse
    <3>3. CASE k = m
      <4>1. rpc_req[m].kind = "RequestVote"
        BY <1>2, <2>1 DEF VoteRequest
      <4>2. RefusalOf(n, rpc_req[m]).vote_granted = FALSE
        BY <4>1 DEF RefusalOf, NoVote
      <4>. QED
        BY <1>5, <2>1, <3>1, <3>2, <3>3, <4>2
    <3>4. CASE k # m
      BY <1>1, <1>2, <2>1, <3>1, <3>2, <3>4
    <3>. QED
      BY <3>3, <3>4
  <2>5. CASE RequestVoteDecide(n)
    <3>. DEFINE granted == voted_for[n] \in {kNoNodeId, hreq[n].from} /\ LogOk(n, hreq[n])
                resp    == [term |-> hreq[n].term, vote_granted |-> granted]
    <3>1. /\ hpc[n] = "rv_vote" /\ Respond(n, resp)
          /\ voted_for' = [voted_for EXCEPT ![n] = IF granted THEN hreq[n].from ELSE @]
      BY <2>5 DEF RequestVoteDecide
    <3>2. resp.vote_granted => voted_for'[n] = hreq[n].from
      BY <1>1, <3>1
    <3>. HIDE DEF resp
    <3>. QED
      BY <2>2, <3>1, <3>2
  <2>6. CASE \E resp : Respond(n, resp) /\ hpc[n] \notin {"idle", "rv_down", "rv_vote"}
    BY <2>2, <2>6
  <2>7. CASE UNCHANGED rpcVars
    BY <1>4, <2>1, <2>7 DEF rpcVars
  <2>8. CASE AppendEntriesCheck(n) \/ AppendEntriesCommit(n) \/ AppendEntriesApply(n)
    BY <2>6, <2>7, <2>8
       DEF AppendEntriesCheck, AppendEntriesCommit, AppendEntriesApply, Succeed
  <2>. QED
    BY <1>9, <2>3, <2>4, <2>5, <2>7, <2>8
       DEF Handler, TakeOrphan, RequestVoteStepDown, AppendEntriesStepDown,
           AppendEntriesTruncate, AppendEntriesStore, AppendEntriesSetCommit
<1>. QED
  BY <1>6, <1>7, <1>8, <1>9 DEF Steps

\* Where the votes are counted.
LEMMA CountSteps ==
    ASSUME IndInv, NEW n \in Server, Steps(n), NEW m \in Server, wpc'[m] \in {"poll", "vote"}
    PROVE  \/ /\ wpc'[m] = wpc[m] /\ votes'[m] = votes[m] /\ peer'[m] = peer[m]
              /\ ballot'[m] = ballot[m]
           \/ m = n /\ (StartElection(n) \/ SendRequestVote(n) \/ VoteReply(n))
<1>1. wpc \in [Server -> WorkerPc] /\ votes \in [Server -> Nat]
  BY DEF IndInv, TypeOfThreads
<1>2. CASE UNCHANGED workerVars
  BY <1>2 DEF workerVars
<1>3. CASE Worker(n)
  <2>1. CASE m = n
    BY <1>1, <1>2, <1>3, <2>1
       DEF Worker, WorkerAt, BecomeCandidate, EnterElection, EndElection, BroadcastHeartbeat,
           ReadPrev, SendAppendEntries, AppendReply, EndBroadcast, AdvanceCommitIndex,
           ApplyCommittedEntries
  <2>2. CASE m # n
    BY <1>1, <1>3, <2>2
       DEF IndInv, TypeOfThreads, Worker, workerVars, WorkerAt, EndLoop, BecomeCandidate,
           EnterElection, StartElection, SendRequestVote, VoteReply, EndElection,
           BroadcastHeartbeat, ReadPrev, SendAppendEntries, AppendReply, EndBroadcast,
           AdvanceCommitIndex, ApplyCommittedEntries
  <2>. QED
    BY <2>1, <2>2
<1>4. CASE Handler(n) \/ Client(n) \/ RpcTimeout(n)
  BY <1>2, <1>4, HandlerFrame, ClientFrame DEF RpcTimeout
<1>. QED
  BY <1>3, <1>4 DEF Steps

\* The loop over peers_ passes each peer once, so no vote is counted twice.
LEMMA CountingStep ==
    ASSUME IndInv, Elections, NEW n \in Server, Steps(n), Lasting
    PROVE  Counting'
<1>1. /\ Server \subseteq Nat \ {0} /\ kNoNodeId = 0
      /\ wpc \in [Server -> WorkerPc] /\ votes \in [Server -> Nat]
      /\ peer \in [Server -> Server \cup {0}] /\ ballot \in [Server -> Ballot]
  BY ServerAssumption DEF IndInv, TypeOfThreads, kNoNodeId
<1>2. \A m \in Server : m \in Nat /\ peer[m] \in Nat
  <2>1. \A m \in Server : m \in Nat
    BY ServerAssumption
  <2>2. \A m \in Server : peer[m] \in Server \/ peer[m] = 0
    BY DEF IndInv, TypeOfThreads, kNoNodeId
  <2>. QED
    BY <2>1, <2>2
<1>. DEFINE now(m)  == Counted(m)
            next(m) == Counted(m)'
<1>3. ASSUME NEW m \in Server
      PROVE  /\ now(m) \in SUBSET Server /\ next(m) \in SUBSET Server
             /\ IsFiniteSet(now(m)) /\ IsFiniteSet(next(m))
             /\ Cardinality(now(m)) \in Nat /\ Cardinality(next(m)) \in Nat
             /\ now(m) \subseteq next(m) => Cardinality(now(m)) <= Cardinality(next(m))
  <2>1. now(m) \in SUBSET Server /\ next(m) \in SUBSET Server
    BY DEF Counted, Supporters
  <2>. HIDE DEF now, next
  <2>. QED
    BY <2>1, FiniteSupport, FS_Subset
<1>4. \A m \in Server : Supporters(m) \subseteq Supporters(m)'
  BY DEF Lasting, Supporters
<1>5. ASSUME NEW m \in Server, wpc'[m] \in {"poll", "vote"}
      PROVE  ballot'[m].term = 1 /\ votes'[m] <= Cardinality(next(m))
  <2>1. CASE /\ wpc'[m] = wpc[m] /\ votes'[m] = votes[m] /\ peer'[m] = peer[m]
             /\ ballot'[m] = ballot[m]
    <3>1. now(m) \subseteq next(m)
      BY <1>4, <2>1 DEF Counted
    <3>2. votes[m] <= Cardinality(now(m)) /\ ballot[m].term = 1
      BY <1>5, <2>1 DEF Elections, Counting
    <3>. HIDE DEF now, next
    <3>. QED
      BY <1>1, <1>3, <2>1, <3>1, <3>2
  <2>2. CASE m = n /\ StartElection(n)
    <3>1. Stood(n)
      BY <2>2 DEF StartElection, Elections, Standing
    <3>2. {n} \subseteq next(n)
      BY <3>1 DEF Counted, Supporters, Lasting, Stood
    <3>3. votes'[n] = 1 /\ ballot'[n].term = 1
      BY <1>1, <2>2, <3>1 DEF StartElection, Stood
    <3>. HIDE DEF next
    <3>4. Cardinality({n}) = 1 /\ IsFiniteSet({n}) /\ Cardinality({n}) <= Cardinality(next(n))
      BY <1>3, <3>2, FS_Singleton, FS_Subset
    <3>. QED
      BY <1>3, <2>2, <3>3, <3>4
  <2>3. CASE m = n /\ SendRequestVote(n)
    <3>1. PICK p \in Server : peer' = [peer EXCEPT ![n] = p] /\ p > peer[n]
      BY <2>3 DEF SendRequestVote, NextPeer
    <3>2. wpc[n] = "poll" /\ wpc'[n] = "vote" /\ UNCHANGED <<votes, ballot>>
      BY <1>1, <2>3 DEF SendRequestVote, WorkerAt
    <3>3. now(n) \subseteq next(n)
      <4>. SUFFICES ASSUME NEW k \in now(n) PROVE k \in next(n)
        OBVIOUS
      <4>1. k \in Server /\ (k = n \/ k < peer[n] \/ k = peer[n])
        BY DEF Counted, Supporters
      <4>2. peer'[n] = p
        BY <1>1, <3>1
      <4>3. k = n \/ k < p
        BY <1>2, <3>1, <4>1
      <4>4. k \in Supporters(n)'
        BY <1>4 DEF Counted
      <4>. QED
        BY <4>2, <4>3, <4>4 DEF Counted
    <3>4. votes[n] <= Cardinality(now(n)) /\ ballot[n].term = 1
      BY <3>2 DEF Elections, Counting
    <3>. HIDE DEF now, next
    <3>. QED
      BY <1>1, <1>3, <2>3, <3>2, <3>3, <3>4
  <2>4. CASE m = n /\ VoteReply(n)
    <3>1. /\ wpc[n] = "vote" /\ wpc'[n] = "poll" /\ UNCHANGED <<ballot, peer>>
          /\ votes' = [votes EXCEPT ![n] = IF rpc_resp[n].vote_granted THEN @ + 1 ELSE @]
          /\ rpc_state[n] = "done"
      BY <1>1, <1>5, <2>4 DEF VoteReply, WorkerAt
    <3>2. peer[n] \in Server /\ peer[n] # n
      BY <3>1, WorkerRpc DEF Peers
    <3>3. /\ votes[n] <= Cardinality(now(n)) /\ ballot[n].term = 1
          /\ rpc_resp[n].vote_granted => voted_for[peer[n]] = n
      BY <3>1 DEF Elections, Counting
    <3>4. now(n) \subseteq next(n)
      BY <1>4, <3>1 DEF Counted
    <3>5. CASE rpc_resp[n].vote_granted
      <4>1. peer[n] \notin now(n)
        <5>1. ~(peer[n] < peer[n])
          BY <1>2
        <5>. QED
          BY <3>1, <3>2, <5>1 DEF Counted
      <4>2. peer[n] \in next(n)
        BY <3>1, <3>2, <3>3, <3>5 DEF Counted, Supporters, Lasting
      <4>3. now(n) \cup {peer[n]} \subseteq next(n)
        BY <3>4, <4>2
      <4>4. votes'[n] = votes[n] + 1
        BY <1>1, <3>1, <3>5
      <4>. HIDE DEF now, next
      <4>5. /\ Cardinality(now(n) \cup {peer[n]}) = Cardinality(now(n)) + 1
            /\ Cardinality(now(n) \cup {peer[n]}) <= Cardinality(next(n))
        BY <1>3, <4>1, <4>3, FS_AddElement, FS_Subset
      <4>. QED
        BY <1>1, <1>3, <2>4, <3>1, <3>3, <4>4, <4>5
    <3>6. CASE ~rpc_resp[n].vote_granted
      <4>1. votes'[n] = votes[n]
        BY <1>1, <3>1, <3>6
      <4>. HIDE DEF now, next
      <4>. QED
        BY <1>1, <1>3, <2>4, <3>1, <3>3, <3>4, <4>1
    <3>. QED
      BY <3>5, <3>6
  <2>. QED
    BY <1>5, <2>1, <2>2, <2>3, <2>4, CountSteps
<1>6. \A m \in Server : wpc'[m] = "vote" =>
          /\ rpc_req'[m].to = peer'[m]
          /\ rpc_state'[m] = "done" /\ rpc_resp'[m].vote_granted => voted_for'[peer'[m]] = m
  BY AnswerSteps DEF Elections
<1>. HIDE DEF now
<1>. QED
  BY <1>5, <1>6 DEF Counting

-----------------------------------------------------------------------------
(* Every step keeps the part about logs *)

LEMMA ApplyCallers ==
    ASSUME NEW n \in Server, Steps(n)
    PROVE  \/ UNCHANGED <<applied, last_applied>>
           \/ /\ ApplyCommitted(n)
              /\ wpc[n] = "apply" \/ hpc[n] = "ae_apply"
              /\ UNCHANGED <<log, commit_index>>
<1>1. CASE Worker(n)
  BY <1>1
     DEF Worker, logVars, BecomeCandidate, EnterElection, StartElection, SendRequestVote,
         VoteReply, EndElection, BroadcastHeartbeat, ReadPrev, SendAppendEntries, AppendReply,
         EndBroadcast, AdvanceCommitIndex, ApplyCommittedEntries
<1>2. CASE Handler(n)
  BY <1>2
     DEF Handler, logVars, Take, TakeOrphan, Refuse, RequestVoteStepDown, RequestVoteDecide,
         AppendEntriesStepDown, AppendEntriesCheck, AppendEntriesTruncate, AppendEntriesStore,
         AppendEntriesCommit, AppendEntriesSetCommit, AppendEntriesApply
<1>3. CASE Client(n) \/ RpcTimeout(n)
  BY <1>3 DEF Client, logVars, ProposeEnter, ProposeLock, ProposeAppend, RpcTimeout
<1>. QED
  BY <1>1, <1>2, <1>3 DEF Steps

\* The entries handed over continue what the node was given, with what the elected one has.
LEMMA ApplyResult ==
    ASSUME IndInv, Elections, Logs, NEW n \in Server, Steps(n)
    PROVE  \/ UNCHANGED <<applied, last_applied>>
           \/ \E more \in Seq(RaftEntry) :
                 /\ applied' = [applied EXCEPT ![n] = more]
                 /\ last_applied' = [last_applied EXCEPT ![n] = Len(more)]
                 /\ Len(more) > Len(applied[n])
                 /\ Promise!Begins(applied[n], more)
                 /\ UNCHANGED log
                 /\ \E l \in Server : Elected(l)
                 /\ \A l \in Server : Elected(l) => Promise!Begins(more, EntriesOf(l))
<1>. SUFFICES ASSUME ApplyCommitted(n), UNCHANGED log, commit_index[n] > last_applied[n],
                     wpc[n] = "apply" \/ hpc[n] = "ae_apply"
              PROVE  \E more \in Seq(RaftEntry) :
                        /\ applied' = [applied EXCEPT ![n] = more]
                        /\ last_applied' = [last_applied EXCEPT ![n] = Len(more)]
                        /\ Len(more) > Len(applied[n])
                        /\ Promise!Begins(applied[n], more)
                        /\ UNCHANGED log
                        /\ \E l \in Server : Elected(l)
                        /\ \A l \in Server : Elected(l) => Promise!Begins(more, EntriesOf(l))
  BY ApplyCallers DEF ApplyCommitted
<1>. DEFINE la    == last_applied[n]
            ci    == commit_index[n]
            range == Slice(log[n], la + 1, ci + 1)
            more  == applied[n] \o range
<1>1. /\ la \in Nat /\ ci \in Nat /\ la < ci
      /\ applied[n] \in Seq(RaftEntry) /\ Len(applied[n]) = la
      /\ log[n] \in Log /\ NumberedLog(log[n])
      /\ EntriesOf(n) \in Seq(RaftEntry) /\ Len(EntriesOf(n)) \in Nat
  BY NodeTypes, ReaderTypes
     DEF IndInv, Index, Logs, Applying, Numbered, NumberedLog, EntriesOf
<1>2. ci <= Len(EntriesOf(n)) /\ \E l \in Server : Elected(l)
  <2>1. CASE wpc[n] = "apply"
    BY <2>1 DEF Elections, Leading, Logs, Applying
  <2>2. CASE hpc[n] = "ae_apply"
    BY <2>2, AppendHandler DEF Leads, Elections, Logs, Applying
  <2>. QED
    BY <2>1, <2>2
<1>5. /\ applied' = [applied EXCEPT ![n] = more]
      /\ last_applied' = [last_applied EXCEPT ![n] = ci]
  BY DEF ApplyCommitted
<1>. HIDE DEF la, ci
<1>3. /\ Len(range) = ci - la
      /\ \A i \in 1 .. ci - la : range[i] = EntriesOf(n)[la + i]
  <2>1. ci <= Len(log[n].entries)
    BY <1>2 DEF EntriesOf
  <2>2. /\ Len(Slice(log[n], la + 1, ci + 1)) = ci - la
        /\ \A i \in 1 .. ci - la : Slice(log[n], la + 1, ci + 1)[i] = log[n].entries[la + i]
    BY <1>1, <2>1, SliceNumbered
  <2>. QED
    BY <2>2 DEF EntriesOf
<1>4. range \in Seq(RaftEntry)
  <2>1. la + 1 \in Index /\ ci + 1 \in Index
    BY <1>1 DEF Index
  <2>. QED
    BY <1>1, <2>1, SliceType
<1>. HIDE DEF range
<1>6. /\ more \in Seq(RaftEntry) /\ Len(more) = Len(applied[n]) + Len(range)
      /\ \A i \in 1 .. Len(applied[n]) + Len(range) :
            more[i] = IF i <= Len(applied[n]) THEN applied[n][i] ELSE range[i - Len(applied[n])]
  BY <1>1, <1>4, ConcatProperties
<1>. HIDE DEF more
<1>7. /\ Len(more) = ci
      /\ \A i \in 1 .. la : more[i] = applied[n][i]
      /\ \A i \in la + 1 .. ci : more[i] = EntriesOf(n)[i]
  <2>1. Len(more) = ci /\ Len(applied[n]) + Len(range) = ci
    BY <1>1, <1>3, <1>6
  <2>2. ASSUME NEW i \in 1 .. la PROVE more[i] = applied[n][i]
    <3>1. i \in 1 .. ci /\ i <= la
      BY <1>1
    <3>. QED
      BY <1>1, <1>6, <2>1, <3>1
  <2>3. ASSUME NEW i \in la + 1 .. ci PROVE more[i] = EntriesOf(n)[i]
    <3>1. i \in 1 .. ci /\ ~(i <= la) /\ i - la \in 1 .. ci - la /\ la + (i - la) = i
      BY <1>1
    <3>2. more[i] = range[i - la]
      BY <1>1, <1>6, <2>1, <3>1
    <3>. QED
      BY <1>3, <3>1, <3>2
  <2>. QED
    BY <2>1, <2>2, <2>3
<1>8. Promise!Begins(applied[n], more)
  BY <1>1, <1>7 DEF Promise!Begins
<1>9. ASSUME NEW l \in Server, Elected(l) PROVE Promise!Begins(more, EntriesOf(l))
  <2>1. Promise!Begins(EntriesOf(n), EntriesOf(l)) /\ Promise!Begins(applied[n], EntriesOf(l))
    BY <1>9 DEF Logs, Follows
  <2>2. Len(EntriesOf(l)) \in Nat
    BY NodeTypes, ReaderTypes DEF IndInv, EntriesOf
  <2>3. Len(more) <= Len(EntriesOf(l))
    BY <1>1, <1>2, <1>7, <2>1, <2>2 DEF Promise!Begins
  <2>4. ASSUME NEW i \in 1 .. Len(more) PROVE more[i] = EntriesOf(l)[i]
    <3>1. CASE i <= la
      <4>1. i \in 1 .. la
        BY <1>1, <1>7, <3>1
      <4>. QED
        BY <1>1, <1>7, <2>1, <4>1 DEF Promise!Begins
    <3>2. CASE ~(i <= la)
      <4>1. i \in la + 1 .. ci /\ i \in 1 .. Len(EntriesOf(n))
        BY <1>1, <1>2, <1>7, <3>2
      <4>. QED
        BY <1>7, <2>1, <4>1 DEF Promise!Begins
    <3>. QED
      BY <3>1, <3>2
  <2>. QED
    BY <2>3, <2>4 DEF Promise!Begins
<1>10. Len(more) > Len(applied[n])
  BY <1>1, <1>7
<1>. QED
  BY <1>2, <1>5, <1>6, <1>7, <1>8, <1>9, <1>10

\* Only stored entries are committed, and only after an election.
LEMMA CommitSteps ==
    ASSUME IndInv, Elections, Logs, NEW n \in Server, Steps(n)
    PROVE  \/ UNCHANGED commit_index /\ (hpc'[n] = "ae_apply" => hpc[n] = "ae_apply")
           \/ \E c \in Nat :
                 /\ commit_index' = [commit_index EXCEPT ![n] = c]
                 /\ c <= Len(EntriesOf(n))
                 /\ UNCHANGED log
                 /\ \E l \in Server : Elected(l)
<1>1. /\ hpc \in [Server -> HandlerPc] /\ commit_index \in [Server -> Index]
      /\ log[n] \in Log /\ NumberedLog(log[n])
  BY DEF IndInv, TypeOfThreads, TypeOfNodes, Logs, Numbered, NumberedLog, EntriesOf
<1>2. CASE AdvanceCommitIndex(n)
  <2>1. Elected(n) /\ current_term[n] = 1 /\ UNCHANGED <<log, hpc>>
    BY <1>2 DEF AdvanceCommitIndex, Elections, Leading, Elected, Stood, handlerVars
  <2>2. PICK c : /\ c \in MatchIndices(n)
                 /\ commit_index' = [commit_index EXCEPT ![n] =
                       IF c > @ /\ TermAt(log[n], c) = current_term[n] THEN c ELSE @]
    BY <1>2 DEF AdvanceCommitIndex
  <2>3. c \in Nat
    BY <1>1, <2>2, ReaderTypes DEF MatchIndices, IndInv, TypeOfNodes, Index
  <2>4. CASE TermAt(log[n], c) = 1
    <3>1. Stored(log[n], c)
      BY <2>4 DEF TermAt, kNoTerm
    <3>2. c <= Len(EntriesOf(n))
      BY <1>1, <2>3, <3>1, NumberedReaders DEF Stored, EntriesOf
    <3>. QED
      BY <1>1, <2>1, <2>2, <2>3, <3>2
  <2>5. CASE TermAt(log[n], c) # 1
    BY <1>1, <2>1, <2>2, <2>5
  <2>. QED
    BY <2>4, <2>5
<1>3. CASE AppendEntriesSetCommit(n)
  <2>. DEFINE c == LesserOf(hreq[n].leader_commit, LastIndex(log[n]))
  <2>1. hpc[n] = "ae_set" /\ UNCHANGED log /\ commit_index' = [commit_index EXCEPT ![n] = c]
    BY <1>3 DEF AppendEntriesSetCommit
  <2>2. \E l \in Server : Elected(l)
    BY <2>1, AppendHandler DEF Leads, Elections
  <2>3. c \in Nat /\ c <= Len(EntriesOf(n))
    <3>1. /\ hreq[n].leader_commit \in Nat
          /\ LastIndex(log[n]) = Len(EntriesOf(n)) /\ Len(EntriesOf(n)) \in Nat
      BY <1>1, <2>1, HandlerRequest, NumberedReaders, ReaderTypes DEF EntriesOf, Index
    <3>. QED
      BY <3>1 DEF LesserOf
  <2>. HIDE DEF c
  <2>. QED
    BY <2>1, <2>2, <2>3
<1>4. CASE Handler(n) /\ ~AppendEntriesSetCommit(n)
  BY <1>1, <1>4
     DEF Handler, HandlerAt, handlerVars, logVars, Admit, Respond, Succeed, Take, TakeOrphan,
         Refuse, RequestVoteStepDown, RequestVoteDecide, AppendEntriesStepDown,
         AppendEntriesCheck, AppendEntriesTruncate, AppendEntriesStore, AppendEntriesCommit,
         AppendEntriesApply
<1>5. CASE Worker(n) /\ ~AdvanceCommitIndex(n)
  BY <1>5, WorkerFrame
     DEF Worker, handlerVars, logVars, BecomeCandidate, EnterElection, StartElection,
         SendRequestVote, VoteReply, EndElection, BroadcastHeartbeat, ReadPrev,
         SendAppendEntries, AppendReply, EndBroadcast, ApplyCommittedEntries
<1>6. CASE Client(n) \/ RpcTimeout(n)
  BY <1>6, ClientFrame
     DEF Client, handlerVars, logVars, ProposeEnter, ProposeLock, ProposeAppend, RpcTimeout
<1>. QED
  BY <1>2, <1>3, <1>4, <1>5, <1>6 DEF Steps

LEMMA NumberedStep ==
    ASSUME IndInv, Elections, Logs, NEW n \in Server, Steps(n), Lasting, OneTerm'
    PROVE  Numbered'
<1>1. /\ log \in [Server -> Log]
      /\ \A m \in Server : current_term[m] \in Nat /\ current_term'[m] \in Nat
      /\ \A m \in Server : current_term'[m] <= 1 /\ current_term[m] <= current_term'[m]
  BY NodesStep DEF Steps, IndInv, TypeOfNodes, Term, Lasting, OneTerm
<1>. SUFFICES ASSUME NEW m \in Server
              PROVE  /\ log'[m].first = 1
                     /\ \A i \in 1 .. Len(log'[m].entries) :
                           /\ log'[m].entries[i].index = i
                           /\ log'[m].entries[i].term = 1
                     /\ log'[m].entries # <<>> => current_term'[m] = 1
  BY DEF Numbered, EntriesOf
<1>2. /\ log[m].first = 1
      /\ \A i \in 1 .. Len(log[m].entries) :
            log[m].entries[i].index = i /\ log[m].entries[i].term = 1
      /\ log[m].entries # <<>> => current_term[m] = 1
  BY DEF Logs, Numbered, EntriesOf
<1>3. CASE log'[m] = log[m]
  BY <1>1, <1>2, <1>3
<1>4. CASE log'[m] # log[m]
  <2>1. PICK new \in Log :
          /\ log' = [log EXCEPT ![n] = new] /\ NumberedLog(new) /\ current_term[n] = 1
          /\ \/ /\ Elected(n)
                /\ Promise!Begins(EntriesOf(n), new.entries)
                /\ \A i \in 1 .. Len(new.entries) : new.entries[i].term = 1
             \/ /\ ~Elected(n)
                /\ \E l \in Server : Elected(l) /\ Promise!Begins(new.entries, EntriesOf(l))
    BY <1>4, LogWrites
  <2>2. m = n /\ log'[m] = new
    BY <1>1, <1>4, <2>1
  <2>3. \A i \in 1 .. Len(new.entries) : new.entries[i].term = 1
    <3>1. ASSUME NEW l \in Server, Promise!Begins(new.entries, EntriesOf(l)),
                 NEW i \in 1 .. Len(new.entries)
          PROVE  new.entries[i].term = 1
      <4>1. Len(EntriesOf(l)) \in Nat /\ Len(new.entries) \in Nat
        BY <1>1, ReaderTypes DEF EntriesOf
      <4>2. i \in 1 .. Len(EntriesOf(l)) /\ new.entries[i] = EntriesOf(l)[i]
        BY <3>1, <4>1 DEF Promise!Begins
      <4>. QED
        BY <4>2 DEF Logs, Numbered
    <3>. QED
      BY <2>1, <3>1
  <2>. QED
    BY <1>1, <2>1, <2>2, <2>3 DEF NumberedLog
<1>. QED
  BY <1>3, <1>4

LEMMA FollowsStep ==
    ASSUME IndInv, Elections, Logs, NEW n \in Server, Steps(n), Lasting
    PROVE  Follows' /\ Quiet'
<1>1. /\ \A m \in Server : EntriesOf(m) \in Seq(RaftEntry) /\ EntriesOf(m)' \in Seq(RaftEntry)
      /\ \A m \in Server : applied[m] \in Seq(RaftEntry) /\ applied'[m] \in Seq(RaftEntry)
      /\ applied \in [Server -> Seq(RaftEntry)]
  BY NodesStep, ReaderTypes DEF Steps, IndInv, TypeOfNodes, EntriesOf
<1>2. ASSUME \A l \in Server : ~Elected(l)
      PROVE  /\ UNCHANGED <<log, applied, commit_index>>
             /\ \A m \in Server :
                   EntriesOf(m) = <<>> /\ applied[m] = <<>> /\ commit_index[m] = 0
  <2>1. UNCHANGED log
    BY <1>2, LogWrites
  <2>2. UNCHANGED applied
    BY <1>2, ApplyResult
  <2>3. UNCHANGED commit_index
    BY <1>2, CommitSteps
  <2>. QED
    BY <1>2, <2>1, <2>2, <2>3 DEF Logs, Quiet
<1>3. ASSUME NEW m \in Server, NEW l \in Server, Elected(l)'
      PROVE  /\ Promise!Begins(EntriesOf(m)', EntriesOf(l)')
             /\ Promise!Begins(applied'[m], EntriesOf(l)')
  <2>1. CASE Elected(l)
    <3>1. /\ Promise!Begins(EntriesOf(l), EntriesOf(l)')
          /\ Promise!Begins(EntriesOf(m)', EntriesOf(l)')
      BY <2>1, LogResult
    <3>2. Promise!Begins(applied'[m], EntriesOf(l))
      <4>1. Promise!Begins(applied[m], EntriesOf(l))
        BY <2>1 DEF Logs, Follows
      <4>. QED
        <5>1. UNCHANGED applied \/
              \E more : /\ applied' = [applied EXCEPT ![n] = more]
                        /\ Promise!Begins(more, EntriesOf(l))
          BY <2>1, ApplyResult
        <5>. QED
          BY <1>1, <4>1, <5>1
    <3>. QED
      BY <1>1, <3>1, <3>2, BeginsFacts
  <2>2. CASE ~Elected(l)
    <3>1. \A k \in Server : ~Elected(k)
      BY <1>3, <2>2, OneElected DEF Lasting
    <3>2. EntriesOf(m)' = <<>> /\ applied'[m] = <<>>
      BY <1>2, <3>1 DEF EntriesOf
    <3>. QED
      BY <1>1, <3>2, BeginsFacts
  <2>. QED
    BY <2>1, <2>2
<1>4. ASSUME \A l \in Server : ~Elected(l)', NEW m \in Server
      PROVE  EntriesOf(m)' = <<>> /\ applied'[m] = <<>> /\ commit_index'[m] = 0
  <2>1. \A l \in Server : ~Elected(l)
    BY <1>4 DEF Lasting
  <2>. QED
    BY <1>2, <2>1 DEF EntriesOf
<1>5. Follows'
  BY <1>3 DEF Follows
<1>6. Quiet'
  BY <1>4 DEF Quiet
<1>. QED
  BY <1>5, <1>6

LEMMA ProposingStep ==
    ASSUME IndInv, Elections, Logs, NEW n \in Server, Steps(n)
    PROVE  Proposing'
<1>1. /\ cpc \in [Server -> {"idle", "lock", "append"}]
      /\ centry \in [Server -> RaftEntry \cup {NoEntry}]
      /\ log \in [Server -> Log]
  BY DEF IndInv, TypeOfThreads, TypeOfNodes
<1>. SUFFICES ASSUME NEW m \in Server, cpc'[m] = "append"
              PROVE  centry'[m].term = 1 /\ centry'[m].index = Len(log'[m].entries) + 1
  BY DEF Proposing, EntriesOf
<1>2. \/ cpc[m] = "append" /\ centry'[m] = centry[m]
      \/ m = n /\ ProposeLock(n)
  <2>1. CASE Client(n)
    BY <1>1, <2>1 DEF Client, ProposeEnter, ProposeLock, ProposeAppend
  <2>2. CASE Worker(n) \/ Handler(n) \/ RpcTimeout(n)
    BY <2>2, WorkerFrame, HandlerFrame DEF RpcTimeout, clientVars
  <2>. QED
    BY <2>1, <2>2 DEF Steps
<1>3. CASE cpc[m] = "append" /\ centry'[m] = centry[m]
  <2>1. Elected(m)
    BY <1>3 DEF Elections, Leading
  <2>2. log'[m] = log[m]
    <3>1. CASE ProposeAppend(n)
      BY <1>1, <3>1 DEF ProposeAppend
    <3>2. CASE AppendEntriesTruncate(n) \/ AppendEntriesStore(n)
      <4>1. /\ hpc[n] \notin {"idle", "rv_down", "rv_vote"}
            /\ \E new : log' = [log EXCEPT ![n] = new]
        BY <3>2 DEF AppendEntriesTruncate, AppendEntriesStore
      <4>2. m # n
        BY <2>1, <4>1, AppendHandler DEF Elections
      <4>. QED
        BY <1>1, <4>1, <4>2
    <3>. QED
      BY <3>1, <3>2, LogSteps
  <2>3. centry[m].term = 1 /\ centry[m].index = Len(log[m].entries) + 1
    BY <1>3 DEF Logs, Proposing, EntriesOf
  <2>. QED
    BY <1>3, <2>2, <2>3
<1>4. CASE m = n /\ ProposeLock(n)
  <2>1. Elected(n) /\ current_term[n] = 1
    BY <1>4 DEF ProposeLock, Elections, Leading, Elected, Stood
  <2>2. NumberedLog(log[n]) /\ log[n] \in Log
    BY <1>1 DEF Logs, Numbered, NumberedLog, EntriesOf
  <2>3. LastIndex(log[n]) = Len(log[n].entries)
    BY <2>2, NumberedReaders
  <2>4. UNCHANGED log
    BY <1>4 DEF ProposeLock, logVars
  <2>5. PICK v \in Value :
           centry' = [centry EXCEPT ![n] = [term |-> current_term[n],
                                            index |-> LastIndex(log[n]) + 1, value |-> v]]
    BY <1>4 DEF ProposeLock
  <2>. QED
    BY <1>1, <1>4, <2>1, <2>3, <2>4, <2>5
<1>. QED
  BY <1>2, <1>3, <1>4

LEMMA ApplyingStep ==
    ASSUME IndInv, Elections, Logs, NEW n \in Server, Steps(n), Lasting
    PROVE  Applying'
<1>1. /\ log \in [Server -> Log] /\ commit_index \in [Server -> Nat]
      /\ applied \in [Server -> Seq(RaftEntry)] /\ last_applied \in [Server -> Nat]
      /\ hpc \in [Server -> HandlerPc]
      /\ \A m \in Server : Len(EntriesOf(m)) \in Nat /\ Len(EntriesOf(m)') \in Nat
  BY NodesStep, ReaderTypes DEF Steps, IndInv, TypeOfNodes, TypeOfThreads, Index, EntriesOf
<1>2. ASSUME NEW m \in Server PROVE Len(applied'[m]) = last_applied'[m]
  <2>1. Len(applied[m]) = last_applied[m]
    BY DEF Logs, Applying
  <2>2. CASE UNCHANGED <<applied, last_applied>>
    BY <2>1, <2>2
  <2>3. ASSUME NEW more \in Seq(RaftEntry),
               applied' = [applied EXCEPT ![n] = more],
               last_applied' = [last_applied EXCEPT ![n] = Len(more)]
        PROVE  Len(applied'[m]) = last_applied'[m]
    BY <1>1, <2>1, <2>3
  <2>. QED
    BY <2>2, <2>3, ApplyResult
<1>3. \A m \in Server : m # n => hpc'[m] = hpc[m]
  <2>1. CASE Handler(n)
    BY <1>1, <2>1
       DEF Handler, HandlerAt, Admit, Respond, Succeed, Take, TakeOrphan, Refuse, handlerVars,
           RequestVoteStepDown, RequestVoteDecide, AppendEntriesStepDown, AppendEntriesCheck,
           AppendEntriesTruncate, AppendEntriesStore, AppendEntriesCommit,
           AppendEntriesSetCommit, AppendEntriesApply
  <2>2. CASE Worker(n) \/ Client(n) \/ RpcTimeout(n)
    BY <2>2, WorkerFrame, ClientFrame DEF RpcTimeout, handlerVars
  <2>. QED
    BY <2>1, <2>2 DEF Steps
<1>4. ASSUME NEW m \in Server, Elected(m)', ~Elected(m)
      PROVE  commit_index'[m] <= Len(EntriesOf(m)')
  <2>1. \A k \in Server : ~Elected(k)
    BY <1>4, OneElected DEF Lasting
  <2>2. commit_index[m] = 0
    BY <2>1 DEF Logs, Quiet
  <2>3. UNCHANGED commit_index
    BY <2>1, CommitSteps
  <2>. QED
    BY <1>1, <2>2, <2>3
<1>5. ASSUME NEW m \in Server, hpc[m] = "ae_apply" \/ Elected(m)
      PROVE  /\ commit_index[m] <= Len(EntriesOf(m))
             /\ Len(EntriesOf(m)) <= Len(EntriesOf(m)')
  <2>1. commit_index[m] <= Len(EntriesOf(m))
    BY <1>5 DEF Logs, Applying
  <2>2. CASE Elected(m)
    BY <2>1, <2>2, LogResult DEF Promise!Begins
  <2>3. CASE hpc[m] = "ae_apply"
    <3>1. ~Elected(m)
      BY <2>3, AppendHandler DEF Elections
    <3>2. cpc[m] = "idle"
      BY <3>1 DEF Elections, Leading
    <3>3. log'[m] = log[m]
      BY <1>1, <2>3, <3>2, LogSteps
         DEF ProposeAppend, AppendEntriesTruncate, AppendEntriesStore
    <3>. QED
      BY <1>1, <2>1, <3>3 DEF EntriesOf
  <2>. QED
    BY <1>5, <2>2, <2>3
<1>6. ASSUME NEW m \in Server, hpc'[m] = "ae_apply" \/ Elected(m)'
      PROVE  commit_index'[m] <= Len(EntriesOf(m)')
  <2>1. CASE UNCHANGED commit_index /\ (hpc'[n] = "ae_apply" => hpc[n] = "ae_apply")
    <3>1. CASE hpc[m] = "ae_apply" \/ Elected(m)
      <4>1. commit_index'[m] = commit_index[m] /\ commit_index[m] \in Nat
        BY <1>1, <2>1
      <4>. QED
        BY <1>1, <1>5, <3>1, <4>1
    <3>2. CASE ~(hpc[m] = "ae_apply" \/ Elected(m))
      BY <1>3, <1>4, <1>6, <2>1, <3>2
    <3>. QED
      BY <3>1, <3>2
  <2>2. ASSUME NEW c \in Nat, commit_index' = [commit_index EXCEPT ![n] = c],
               c <= Len(EntriesOf(n)), UNCHANGED log, NEW l \in Server, Elected(l)
        PROVE  commit_index'[m] <= Len(EntriesOf(m)')
    <3>1. EntriesOf(m)' = EntriesOf(m)
      BY <2>2 DEF EntriesOf
    <3>2. CASE m = n
      BY <1>1, <2>2, <3>1, <3>2
    <3>3. CASE m # n
      <4>1. hpc[m] = "ae_apply" \/ Elected(m)
        BY <1>3, <1>6, <2>2, <3>3, OneElected DEF Lasting
      <4>2. commit_index'[m] = commit_index[m]
        BY <1>1, <2>2, <3>3
      <4>. QED
        BY <1>5, <3>1, <4>1, <4>2
    <3>. QED
      BY <3>2, <3>3
  <2>. QED
    BY <2>1, <2>2, CommitSteps
<1>7. \A m \in Server :
         /\ Len(applied'[m]) = last_applied'[m]
         /\ hpc'[m] = "ae_apply" \/ Elected(m)' => commit_index'[m] <= Len(EntriesOf(m)')
  BY <1>2, <1>6
<1>. QED
  BY <1>7 DEF Applying

-----------------------------------------------------------------------------
(* The invariant holds *)

LEMMA InitOneTerm == Init => OneTermInv
<1>. SUFFICES ASSUME Init PROVE Elections /\ Logs
  BY DEF OneTermInv
<1>1. /\ \A n \in Server : /\ ~Stood(n) /\ ~Elected(n)
                           /\ log[n] = EmptyLog /\ applied[n] = <<>>
                           /\ commit_index[n] = 0 /\ last_applied[n] = 0
                           /\ state[n] = "Follower" /\ wpc[n] = "loop" /\ cpc[n] = "idle"
                           /\ hpc[n] = "idle" /\ rpc_req[n] = None /\ hreq[n] = None
                           /\ voted_for[n] = kNoNodeId
      /\ orphans = {}
  BY DEF Init, InitNode, Stood, Elected
<1>2. InFlight = {}
  BY <1>1 DEF InFlight
<1>3. Elections
  BY <1>1, <1>2 DEF Elections, Standing, Leading, Voting, Requests, Counting
<1>4. \A n \in Server : EntriesOf(n) = <<>> /\ log[n].first = 1
  BY <1>1 DEF EntriesOf, EmptyLog
<1>5. Numbered /\ Follows /\ Quiet /\ Proposing
  BY <1>1, <1>4 DEF Numbered, Follows, Quiet, Proposing
<1>6. Applying
  BY <1>1 DEF Applying
<1>. QED
  BY <1>3, <1>5, <1>6 DEF Logs

LEMMA StutterOneTerm ==
    ASSUME Elections, Logs, UNCHANGED vars
    PROVE  Elections' /\ Logs'
<1>1. UNCHANGED <<current_term, voted_for, state, log, commit_index, last_applied, applied,
                  wpc, ballot, votes, peer, rpc_state, rpc_req, rpc_resp, orphans, hpc, hreq,
                  cpc, centry>>
  BY DEF vars, logVars, termVars, workerVars, rpcVars, handlerVars, clientVars
<1>2. \A n \in Server : /\ Stood(n)' = Stood(n) /\ Elected(n)' = Elected(n)
                        /\ Supporters(n)' = Supporters(n) /\ Counted(n)' = Counted(n)
                        /\ EntriesOf(n)' = EntriesOf(n)
  BY <1>1 DEF Stood, Elected, Supporters, Counted, EntriesOf, Majority
<1>3. InFlight' = InFlight
  BY <1>1 DEF InFlight
<1>4. Standing' /\ Leading' /\ Voting'
  BY <1>1, <1>2 DEF Elections, Standing, Leading, Voting
<1>5. Requests'
  <2>. SUFFICES ASSUME NEW req \in InFlight PROVE SoundRequest(req)'
    BY <1>3 DEF Requests
  <2>1. SoundRequest(req)
    BY DEF Elections, Requests
  <2>. QED
    BY <1>1, <2>1 DEF SoundRequest, Elected, Stood, Supporters, Majority, Copied
<1>6. Counting'
  BY <1>1, <1>2 DEF Elections, Counting
<1>7. Numbered' /\ Quiet' /\ Proposing' /\ Applying'
  BY <1>1, <1>2 DEF Logs, Numbered, Quiet, Proposing, Applying
<1>8. Follows'
  BY <1>1, <1>2 DEF Logs, Follows
<1>. QED
  BY <1>4, <1>5, <1>6, <1>7, <1>8 DEF Elections, Logs

LEMMA StepOneTerm == IndInv /\ OneTermInv /\ [Next]_vars => OneTermInv'
<1>. SUFFICES ASSUME IndInv, OneTermInv, [Next]_vars, OneTerm' PROVE Elections' /\ Logs'
  BY DEF OneTermInv
<1>1. OneTerm /\ Elections /\ Logs
  BY OneTermBefore DEF OneTermInv
<1>2. ASSUME NEW n \in Server, Steps(n) PROVE Elections' /\ Logs'
  <2>1. Lasting
    BY <1>1, <1>2, StepLasting DEF Elections
  <2>2. Elections'
    BY <1>1, <1>2, <2>1, StandingStep, LeadingStep, VotingStep, RequestsStep, CountingStep
       DEF Elections
  <2>3. Logs'
    BY <1>1, <1>2, <2>1, NumberedStep, FollowsStep, ProposingStep, ApplyingStep DEF Logs
  <2>. QED
    BY <2>2, <2>3
<1>. QED
  BY <1>1, <1>2, OneTermBefore, StutterOneTerm

(***************************************************************************)
(* Every behaviour of the nodes keeps the invariant as long as nobody has  *)
(* crashed and nobody is past term 1, for any number of nodes, entries,    *)
(* timeouts and requests that arrive late.                                 *)
(***************************************************************************)
THEOREM OneTermInductive == Spec => []OneTermInv
<1>. QED
  BY Inductive, InitOneTerm, StepOneTerm, PTL DEF Spec

-----------------------------------------------------------------------------
(* What follows *)

\* Whoever leads was elected, and two elections share a voter.
LEMMA LeadersMeet == OneTermInv => (OneTerm => ElectionSafety)
<1>. SUFFICES ASSUME OneTermInv, OneTerm, NEW m \in Server, NEW n \in Server,
                     state[m] = "Leader", state[n] = "Leader"
              PROVE  m = n
  BY DEF ElectionSafety
<1>1. Elected(m) /\ Elected(n)
  BY DEF OneTermInv, Elections, Leading
<1>. QED
  BY <1>1, OneElected

\* What begins the same sequence agrees where both have an entry.
LEMMA BeginningsAgree ==
    ASSUME NEW a \in Seq(RaftEntry), NEW b \in Seq(RaftEntry), NEW c \in Seq(RaftEntry),
           Promise!Begins(a, c), Promise!Begins(b, c),
           NEW i \in 1 .. LesserOf(Len(a), Len(b))
    PROVE  a[i] = b[i]
<1>1. i \in 1 .. Len(a) /\ i \in 1 .. Len(b)
  BY DEF LesserOf
<1>. QED
  BY <1>1 DEF Promise!Begins

LEMMA NothingToCompare ==
    ASSUME NEW i \in 1 .. LesserOf(Len(<<>>), Len(<<>>))
    PROVE  FALSE
BY DEF LesserOf

LEMMA LogsMeet == IndInv /\ OneTermInv => (OneTerm => LogsAgree /\ AppliedAgree)
<1>. SUFFICES ASSUME IndInv, Logs PROVE LogsAgree /\ AppliedAgree
  BY DEF OneTermInv
<1>1. \A m \in Server : EntriesOf(m) \in Seq(RaftEntry) /\ applied[m] \in Seq(RaftEntry)
  BY ReaderTypes DEF IndInv, TypeOfNodes, EntriesOf
<1>2. CASE \E l \in Server : Elected(l)
  <2>1. PICK l \in Server : Elected(l)
    BY <1>2
  <2>2. \A m \in Server : /\ Promise!Begins(EntriesOf(m), EntriesOf(l))
                          /\ Promise!Begins(applied[m], EntriesOf(l))
    BY <2>1 DEF Logs, Follows
  <2>3. LogsAgree
    BY <1>1, <2>2, BeginningsAgree DEF LogsAgree
  <2>4. AppliedAgree
    BY <1>1, <2>2, BeginningsAgree DEF AppliedAgree
  <2>. QED
    BY <2>3, <2>4
<1>3. CASE \A l \in Server : ~Elected(l)
  BY <1>3, NothingToCompare DEF Logs, Quiet, LogsAgree, AppliedAgree
<1>. QED
  BY <1>2, <1>3

LEMMA TermsMeet == IndInv /\ OneTermInv => (OneTerm => LogTermsSorted)
<1>. SUFFICES ASSUME IndInv, Logs, NEW n \in Server
              PROVE  /\ \A i, j \in 1 .. Len(EntriesOf(n)) :
                           i <= j => EntriesOf(n)[i].term <= EntriesOf(n)[j].term
                     /\ \A i \in 1 .. Len(EntriesOf(n)) :
                           EntriesOf(n)[i].term <= current_term[n]
  BY DEF OneTermInv, LogTermsSorted
<1>1. EntriesOf(n) \in Seq(RaftEntry)
  BY ReaderTypes DEF IndInv, TypeOfNodes, EntriesOf
<1>2. \A i \in 1 .. Len(EntriesOf(n)) :
         EntriesOf(n)[i].term = 1 /\ current_term[n] = 1
  BY <1>1 DEF Logs, Numbered
<1>. QED
  BY <1>2

\* Within one term there is at most one leader: a candidate counts no vote twice, none it
\* was not given, and no voter gives two (StartElection, HandleRequestVote).
THEOREM OneLeader == Spec => [](OneTerm => ElectionSafety)
<1>. QED
  BY OneTermInductive, LeadersMeet, PTL

\* Within one term two logs agree wherever both have an entry, although a batch is copied
\* without mu_ and requests that were given up still arrive (HandleAppendEntries, Propose).
THEOREM OneLog == Spec => [](OneTerm => LogsAgree)
<1>1. IndInv /\ OneTermInv => (OneTerm => LogsAgree)
  BY LogsMeet
<1>. QED
  BY <1>1, Inductive, OneTermInductive, PTL

\* Within one term the entries of a log carry that term, on which the binary search of
\* FindConflictTermIndex relies.
THEOREM OneTermSorted == Spec => [](OneTerm => LogTermsSorted)
<1>. QED
  BY Inductive, OneTermInductive, TermsMeet, PTL

\* Within one term the state machines are fed the same entries in the same order
\* (ApplyCommittedEntries, called by the worker and by the handler).
THEOREM OneOrder == Spec => [](OneTerm => AppliedAgree)
<1>1. IndInv /\ OneTermInv => (OneTerm => AppliedAgree)
  BY LogsMeet
<1>. QED
  BY <1>1, Inductive, OneTermInductive, PTL

-----------------------------------------------------------------------------
(* The promise of Consensus is kept *)

\* Some sequence of finitely many bounded ones is the longest.
LEMMA LongestExists ==
    ASSUME Server # {}, NEW d \in [Server -> Seq(RaftEntry)],
           NEW b \in Nat, \A n \in Server : Len(d[n]) <= b
    PROVE  \E n \in Server : \A m \in Server : Len(d[m]) <= Len(d[n])
<1>. DEFINE S == {Len(d[n]) : n \in Server}
<1>1. S \in SUBSET Nat /\ S # {} /\ \A i \in S : i <= b
  <2>1. \A n \in Server : Len(d[n]) \in Nat
    OBVIOUS
  <2>2. PICK n \in Server : TRUE
    OBVIOUS
  <2>3. Len(d[n]) \in S
    BY <2>2
  <2>. QED
    BY <2>1, <2>3
<1>2. PICK i \in S : \A j \in S : j <= i
  BY <1>1, GreatestBelow
<1>3. PICK n \in Server : i = Len(d[n])
  BY <1>2
<1>. QED
  BY <1>2, <1>3

\* The length of what any node was given is bounded: by the log of the elected one.
LEMMA AppliedBounded ==
    ASSUME IndInv, Logs
    PROVE  \E b \in Nat : \A n \in Server : Len(applied[n]) <= b
<1>1. \A m \in Server : EntriesOf(m) \in Seq(RaftEntry)
  BY ReaderTypes DEF IndInv, TypeOfNodes, EntriesOf
<1>2. CASE \E l \in Server : Elected(l)
  <2>1. PICK l \in Server : Elected(l)
    BY <1>2
  <2>2. Len(EntriesOf(l)) \in Nat
    BY <1>1
  <2>3. \A n \in Server : Len(applied[n]) <= Len(EntriesOf(l))
    BY <2>1 DEF Logs, Follows, Promise!Begins
  <2>. QED
    BY <2>2, <2>3
<1>3. CASE \A l \in Server : ~Elected(l)
  <2>1. \A n \in Server : Len(applied[n]) <= 0
    BY <1>3 DEF Logs, Quiet
  <2>. QED
    BY <2>1
<1>. QED
  BY <1>2, <1>3

\* Decided is the longest of the sequences, before a step and after it.
LEMMA DecidedLongest ==
    ASSUME Server # {}, IndInv, Logs, NEW n \in Server,
           NEW more \in Seq(RaftEntry), applied' = [applied EXCEPT ![n] = more]
    PROVE  /\ \E k \in Server : Decided = applied[k]
           /\ \A m \in Server : Len(applied[m]) <= Len(Decided)
           /\ \E k \in Server : Decided' = applied'[k]
           /\ \A m \in Server : Len(applied'[m]) <= Len(Decided')
<1>1. /\ applied \in [Server -> Seq(RaftEntry)] /\ applied' \in [Server -> Seq(RaftEntry)]
  BY DEF IndInv, TypeOfNodes
<1>2. PICK b \in Nat : \A m \in Server : Len(applied[m]) <= b
  BY AppliedBounded
<1>3. PICK c \in Nat : b <= c /\ Len(more) <= c
  <2>1. Len(more) \in Nat
    OBVIOUS
  <2>. QED
    BY <2>1
<1>4. \A m \in Server : Len(applied'[m]) <= c
  <2>1. \A m \in Server : Len(applied[m]) \in Nat
    BY <1>1
  <2>. QED
    BY <1>1, <1>2, <1>3, <2>1
<1>5. \E k \in Server : \A m \in Server : Len(applied[m]) <= Len(applied[k])
  BY <1>1, <1>2, LongestExists
<1>6. \E k \in Server : \A m \in Server : Len(applied'[m]) <= Len(applied'[k])
  BY <1>1, <1>4, LongestExists
<1>7. /\ \E k \in Server : Decided = applied[k]
      /\ \A m \in Server : Len(applied[m]) <= Len(Decided)
  BY <1>5 DEF Decided
<1>8. /\ \E k \in Server : Decided' = applied'[k]
      /\ \A m \in Server : Len(applied'[m]) <= Len(Decided')
  BY <1>6 DEF Decided
<1>. QED
  BY <1>7, <1>8

\* Of two beginnings of equal length there is only one.
LEMMA BeginningsEqual ==
    ASSUME NEW a \in Seq(RaftEntry), NEW b \in Seq(RaftEntry), NEW c \in Seq(RaftEntry),
           Promise!Begins(a, c), Promise!Begins(b, c), Len(a) = Len(b)
    PROVE  a = b
<1>1. \A i \in 1 .. Len(a) : a[i] = b[i]
  BY DEF Promise!Begins
<1>. QED
  BY <1>1, SeqEqual

\* A call of a ready handler is a Deliver.
LEMMA DeliverStep ==
    ASSUME Server # {}, IndInv, Logs, NEW n \in Server, NEW l \in Server, Elected(l),
           NEW more \in Seq(RaftEntry), applied' = [applied EXCEPT ![n] = more],
           Len(more) > Len(applied[n]), Promise!Begins(more, EntriesOf(l))
    PROVE  Promise!Deliver(n)
<1>1. /\ applied \in [Server -> Seq(RaftEntry)] /\ applied'[n] = more
      /\ \A m \in Server : m # n => applied'[m] = applied[m]
      /\ EntriesOf(l) \in Seq(RaftEntry)
  BY ReaderTypes DEF IndInv, TypeOfNodes, EntriesOf
<1>2. \A m \in Server : /\ Promise!Begins(applied[m], EntriesOf(l))
                        /\ Promise!Begins(applied'[m], EntriesOf(l))
                        /\ applied[m] \in Seq(RaftEntry) /\ applied'[m] \in Seq(RaftEntry)
                        /\ Len(applied[m]) \in Nat /\ Len(applied'[m]) \in Nat
  <2>1. \A m \in Server : Promise!Begins(applied[m], EntriesOf(l))
    BY DEF Logs, Follows
  <2>. QED
    BY <1>1, <2>1
<1>3. PICK k \in Server : Decided = applied[k]
  BY DecidedLongest
<1>4. PICK j \in Server : Decided' = applied'[j]
  BY DecidedLongest
<1>5. /\ \A m \in Server : Len(applied[m]) <= Len(Decided)
      /\ \A m \in Server : Len(applied'[m]) <= Len(Decided')
  BY DecidedLongest
<1>6. /\ Decided \in Seq(RaftEntry) /\ Decided' \in Seq(RaftEntry)
      /\ Promise!Begins(Decided, EntriesOf(l)) /\ Promise!Begins(Decided', EntriesOf(l))
      /\ Len(Decided) \in Nat /\ Len(Decided') \in Nat /\ Len(more) \in Nat
  BY <1>2, <1>3, <1>4
<1>7. CASE Len(more) <= Len(Decided)
  <2>1. Promise!Begins(more, Decided)
    BY <1>1, <1>6, <1>7, BeginsFacts
  <2>2. Len(Decided') = Len(Decided)
    <3>1. k # n
      BY <1>3, <1>6, <1>7
    <3>2. Len(Decided) <= Len(Decided')
      BY <1>1, <1>3, <1>5, <3>1
    <3>3. Len(Decided') <= Len(Decided)
      BY <1>1, <1>4, <1>5, <1>7
    <3>. QED
      BY <1>6, <3>2, <3>3
  <2>3. Decided' = Decided
    BY <1>1, <1>6, <2>2, BeginningsEqual
  <2>. QED
    BY <1>1, <2>1, <2>3 DEF Promise!Deliver
<1>8. CASE ~(Len(more) <= Len(Decided))
  <2>1. Promise!Begins(Decided, more)
    <3>1. Len(Decided) <= Len(more)
      BY <1>6, <1>8
    <3>. QED
      BY <1>1, <1>6, <3>1, BeginsFacts
  <2>2. Len(Decided') = Len(more)
    <3>1. Len(more) <= Len(Decided')
      BY <1>1, <1>5
    <3>2. Len(Decided') <= Len(more)
      <4>1. CASE j = n
        BY <1>1, <1>4, <1>6, <4>1
      <4>2. CASE j # n
        <5>1. Decided' = applied[j] /\ Len(applied[j]) <= Len(Decided)
          BY <1>1, <1>4, <1>5, <4>2
        <5>. QED
          BY <1>6, <1>8, <5>1
      <4>. QED
        BY <4>1, <4>2
    <3>. QED
      BY <1>6, <3>1, <3>2
  <2>3. Decided' = more
    BY <1>1, <1>6, <2>2, BeginningsEqual
  <2>. QED
    BY <1>1, <2>1, <2>3 DEF Promise!Deliver
<1>. QED
  BY <1>7, <1>8

LEMMA StepPromise ==
    ASSUME Server # {}, IndInv, OneTermInv, OneTerm, OneTerm', [Next]_vars
    PROVE  [Promise!Next]_(Promise!vars)
<1>1. Elections /\ Logs
  BY DEF OneTermInv
<1>2. CASE UNCHANGED applied
  BY <1>2 DEF Promise!vars, Decided
<1>3. ASSUME NEW n \in Server, Steps(n), applied' # applied PROVE Promise!Next
  <2>1. PICK more \in Seq(RaftEntry) :
           /\ applied' = [applied EXCEPT ![n] = more]
           /\ Len(more) > Len(applied[n])
           /\ \E l \in Server : Elected(l)
           /\ \A l \in Server : Elected(l) => Promise!Begins(more, EntriesOf(l))
    BY <1>1, <1>3, ApplyResult
  <2>2. PICK l \in Server : Elected(l) /\ Promise!Begins(more, EntriesOf(l))
    BY <2>1
  <2>3. Promise!Deliver(n)
    BY <1>1, <2>1, <2>2, DeliverStep
  <2>. QED
    BY <2>3 DEF Promise!Next
<1>4. UNCHANGED vars => UNCHANGED applied
  BY DEF vars, logVars
<1>. QED
  BY <1>2, <1>3, <1>4, OneTermBefore

LEMMA InitPromise == Server # {} /\ Init => Promise!Init
<1>. SUFFICES ASSUME Server # {}, Init PROVE Promise!Init
  OBVIOUS
<1>1. applied = [n \in Server |-> <<>>] /\ \A n \in Server : applied[n] = <<>>
  BY DEF Init, InitNode
<1>2. \E n \in Server : \A m \in Server : Len(applied[m]) <= Len(applied[n])
  BY <1>1
<1>3. Decided = <<>>
  BY <1>1, <1>2 DEF Decided
<1>. QED
  BY <1>1, <1>3 DEF Promise!Init

(***************************************************************************)
(* As long as nobody crashes and nobody is past term 1, RaftNode keeps the *)
(* promise of Consensus: every call of a ready handler extends that node's *)
(* prefix of one sequence.  EtcdServer starts at least its own node.       *)
(***************************************************************************)
THEOREM OneTermImplements ==
    ASSUME Server # {}
    PROVE  Spec /\ []OneTerm => ImplementsConsensus
<1>1. Init => Promise!Init
  BY InitPromise
<1>2. IndInv /\ OneTermInv /\ OneTerm /\ OneTerm' /\ [Next]_vars
         => [Promise!Next]_(Promise!vars)
  BY StepPromise
<1>. QED
  BY <1>1, <1>2, Inductive, OneTermInductive, PTL DEF Spec, ImplementsConsensus, Promise!Spec

-----------------------------------------------------------------------------
(* What the server may conclude from the promise of Consensus *)

\* Every node was given the beginning of the one order.
Prefixes == \A n \in Server : Promise!Begins(applied[n], Decided)

LEMMA PromisedPrefixes ==
    /\ Promise!Init => Promise!TypeOK /\ Prefixes
    /\ Promise!TypeOK /\ Prefixes /\ [Promise!Next]_(Promise!vars) => (Promise!TypeOK /\ Prefixes)'
<1>1. ASSUME Promise!Init PROVE Promise!TypeOK /\ Prefixes
  <2>1. Decided = <<>> /\ applied = [n \in Server |-> <<>>] /\ <<>> \in Seq(RaftEntry)
    BY <1>1 DEF Promise!Init
  <2>2. \A n \in Server : applied[n] = Decided
    BY <2>1
  <2>3. Promise!Begins(Decided, Decided)
    BY <2>1, BeginsFacts
  <2>. QED
    BY <2>1, <2>2, <2>3 DEF Promise!TypeOK, Prefixes
<1>2. ASSUME Promise!TypeOK, Prefixes, NEW n \in Server, Promise!Deliver(n)
      PROVE  (Promise!TypeOK /\ Prefixes)'
  <2>. DEFINE more == applied'[n]
  <2>1. /\ Decided \in Seq(RaftEntry) /\ applied \in [Server -> Seq(RaftEntry)]
        /\ \A m \in Server : Promise!Begins(applied[m], Decided)
    BY <1>2 DEF Promise!TypeOK, Prefixes
  <2>2. /\ more \in Seq(RaftEntry)
        /\ applied' \in [Server -> Seq(RaftEntry)]
        /\ \A m \in Server : applied'[m] = IF m = n THEN more ELSE applied[m]
    BY <1>2, <2>1 DEF Promise!Deliver
  <2>3. CASE Promise!Begins(more, Decided) /\ Decided' = Decided
    <3>1. \A m \in Server : Promise!Begins(applied'[m], Decided')
      BY <2>1, <2>2, <2>3
    <3>. QED
      BY <2>1, <2>2, <2>3, <3>1 DEF Promise!TypeOK, Prefixes, Promise!Begins
  <2>4. CASE Promise!Begins(Decided, more) /\ Decided' = more
    <3>1. Promise!Begins(more, more)
      BY <2>2, BeginsFacts
    <3>2. \A m \in Server : Promise!Begins(applied[m], more)
      BY <2>1, <2>2, <2>4, BeginsFacts
    <3>3. \A m \in Server : Promise!Begins(applied'[m], Decided')
      BY <2>2, <2>4, <3>1, <3>2
    <3>. QED
      BY <2>2, <2>4, <3>3 DEF Promise!TypeOK, Prefixes, Promise!Begins
  <2>. QED
    BY <1>2, <2>3, <2>4 DEF Promise!Deliver
<1>3. ASSUME Promise!TypeOK, Prefixes, UNCHANGED Promise!vars
      PROVE  (Promise!TypeOK /\ Prefixes)'
  BY <1>3 DEF Promise!vars, Promise!TypeOK, Prefixes, Promise!Begins
<1>. QED
  BY <1>1, <1>2, <1>3 DEF Promise!Next

LEMMA PrefixesAgree == Promise!TypeOK /\ Prefixes => Promise!Agreement
<1>. SUFFICES ASSUME Promise!TypeOK, Prefixes, NEW m \in Server, NEW n \in Server
              PROVE  \/ Promise!Begins(applied[m], applied[n])
                     \/ Promise!Begins(applied[n], applied[m])
  BY DEF Promise!Agreement
<1>1. /\ Decided \in Seq(RaftEntry) /\ applied[m] \in Seq(RaftEntry)
      /\ applied[n] \in Seq(RaftEntry)
      /\ Promise!Begins(applied[m], Decided) /\ Promise!Begins(applied[n], Decided)
  BY DEF Promise!TypeOK, Prefixes
<1>2. Len(applied[m]) <= Len(applied[n]) \/ Len(applied[n]) <= Len(applied[m])
  BY <1>1
<1>. QED
  BY <1>1, <1>2, BeginsFacts

\* Servers whose ready handlers are fed as Consensus says (RaftNode::ApplyCommittedEntries)
\* apply the same entries in the same order, one further than the other at most.
THEOREM AgreementHolds == Promise!Spec => []Promise!Agreement
<1>. QED
  BY PromisedPrefixes, PrefixesAgree, PTL DEF Promise!Spec
=============================================================================
