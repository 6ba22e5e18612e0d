------------------------------ MODULE Requests ------------------------------
(***************************************************************************)
(* Client requests: EtcdServer::Put, Delete and Txn, one thread for each   *)
(* HTTP connection, beside the thread that applies entries and marks them  *)
(* in pending_commits_ (etcd_server.cpp), on all servers of a cluster.     *)
(*                                                                         *)
(* Raft is what the server sees of it: logs that a new leader overwrites,  *)
(* a leader that does not know yet it was replaced, an order of decided    *)
(* entries of which each server applies a prefix (Consensus; Raft.tla has  *)
(* the protocol and says when the code keeps that promise).  Each of these *)
(* actions stands for a whole exchange of messages.                        *)
(*                                                                         *)
(* A value is the request that wrote it.  An absent key and an empty value *)
(* are the same to a comparison, as in the code.                           *)
(***************************************************************************)
EXTENDS Naturals, Sequences, FiniteSets

CONSTANTS
    Server,
    Updater,        \* requests that may be a Put or a Delete
    Transactor,     \* requests that may be a Txn
    Key,
    Transaction,    \* the bodies of Txn requests
    NoValue,
    None,
    MaxElections,   \* bound: changes of leadership
    MaxStops        \* bound: servers that are stopped

Request   == Updater \cup Transactor    \* bound: one connection thread for each
Value     == Request \cup {NoValue}
Op        == [type : {"PUT", "DELETE"}, key : Key]
Compare   == [key : Key, op : {"equal", "notequal"}, value : Value]
Body      == [compare : Seq(Compare), success : Seq(Op), failure : Seq(Op)]
RaftEntry == [req : Request, op : Nat, type : {"PUT", "DELETE"}, key : Key]

ASSUME RequestsAssumption ==
    /\ IsFiniteSet(Server) /\ Server # {}
    /\ None \notin Server /\ NoValue \notin Request
    /\ Transaction \subseteq Body
    /\ MaxElections \in Nat /\ MaxStops \in Nat

VARIABLES
    (* Raft *)
    log,        \* of each server
    leader,     \* IsLeader()
    active,     \* history: the leader of the latest term, or None
    elections,  \* bound
    order,      \* history: the entries decided so far
    (* EtcdServer *)
    running,
    applied,    \* how many entries the store has taken
    batch,      \* the entries RaftReadyHandler has still to put into the store
    first,      \* the index of the first entry it was given
    apc,        \* where in RaftReadyHandler the applying thread is
    store,
    pending,    \* the keys of pending_commits_
    (* the thread of each request *)
    pc, at, body,
    met,        \* conditions_met
    pos,        \* the comparison or operation it is at
    index,      \* result.index
    answer,     \* "applied", "expired" and "stopped" are one and the same to the client
    epoch       \* history: the leadership under which its entry was appended, or 0

raftVars == <<log, leader, active, elections, order>>
applyVars == <<applied, batch, first, apc, store>>
serverVars == <<running, applyVars, pending>>
requestVars == <<pc, at, body, met, pos, index, answer, epoch>>
vars == <<raftVars, serverVars, requestVars>>

RaftInit ==
    /\ log = [s \in Server |-> <<>>]
    /\ leader = [s \in Server |-> FALSE] /\ active = None
    /\ elections = 0
    /\ order = <<>>

ServerInit ==
    /\ running = [s \in Server |-> TRUE]
    /\ applied = [s \in Server |-> 0]
    /\ batch = [s \in Server |-> <<>>] /\ first = [s \in Server |-> 1]
    /\ apc = [s \in Server |-> "idle"]
    /\ store = [s \in Server |-> [k \in Key |-> NoValue]]
    /\ pending = [s \in Server |-> {}]

RequestInit ==
    /\ pc = [r \in Request |-> "new"] /\ at = [r \in Request |-> None]
    /\ body = [r \in Request |-> None] /\ met = [r \in Request |-> TRUE]
    /\ pos = [r \in Request |-> 1] /\ index = [r \in Request |-> 0]
    /\ answer = [r \in Request |-> "none"] /\ epoch = [r \in Request |-> 0]

Init == RaftInit /\ ServerInit /\ RequestInit

\* l holds the first k of the decided entries.
Holds(l, k) == k <= Len(l) /\ \A i \in 1 .. k : l[i] = order[i]

-----------------------------------------------------------------------------
(* Raft, seen from the server *)

\* Only a log with all decided entries wins; the old leader does not know yet.
BecomeLeader(s) ==
    /\ running[s] /\ s # active /\ elections < MaxElections
    /\ Holds(log[s], Len(order))
    /\ active' = s
    /\ leader' = [leader EXCEPT ![s] = TRUE]
    /\ elections' = elections + 1
    /\ UNCHANGED <<log, order, serverVars, requestVars>>

\* A server that hears of a later term.
BecomeFollower(s) ==
    /\ running[s] /\ leader[s] /\ s # active
    /\ leader' = [leader EXCEPT ![s] = FALSE]
    /\ UNCHANGED <<log, active, elections, order, serverVars, requestVars>>

\* The leader's log replaces whatever the follower holds beyond it.
HandleAppendEntries(s) ==
    /\ active # None /\ s # active /\ running[s] /\ running[active]
    /\ log[s] # log[active] \/ leader[s]
    /\ log' = [log EXCEPT ![s] = log[active]]
    /\ leader' = [leader EXCEPT ![s] = FALSE]
    /\ UNCHANGED <<active, elections, order, serverVars, requestVars>>

Stored(k) == {s \in Server : k <= Len(log[s]) /\ SubSeq(log[s], 1, k) = SubSeq(log[active], 1, k)}

AdvanceCommitIndex ==
    /\ active # None /\ running[active]
    /\ \E k \in Len(order) + 1 .. Len(log[active]) :
          /\ 2 * Cardinality(Stored(k)) > Cardinality(Server)
          /\ order' = SubSeq(log[active], 1, k)
    /\ UNCHANGED <<log, leader, active, elections, serverVars, requestVars>>

-----------------------------------------------------------------------------
(* The applying thread of a server, worker or handler, under mu_ and server_mu_ *)

\* Mutant: the range begins with the last entry applied.
MutantRangeOverlaps(s, k) == SubSeq(log[s], IF applied[s] = 0 THEN 1 ELSE applied[s], k)

Unapplied(s, k) == SubSeq(log[s], applied[s] + 1, k)

\* ApplyCommittedEntries: the entries between last_applied_ and the commit index go to the
\* ready handler together.
ApplyCommittedEntries(s) ==
    /\ running[s] /\ apc[s] = "idle"
    /\ \E k \in applied[s] + 1 .. Len(order) :
          /\ Holds(log[s], k)
          /\ batch' = [batch EXCEPT ![s] = Unapplied(s, k)]
    /\ first' = [first EXCEPT ![s] = applied[s] + 1]
    /\ apc' = [apc EXCEPT ![s] = "apply"]
    /\ UNCHANGED <<raftVars, running, applied, store, pending, requestVars>>

StoreAfter(st, e) == [st EXCEPT ![e.key] = IF e.type = "PUT" THEN e.req ELSE NoValue]

\* One entry into the store, which has a lock of its own.
ProcessRaftEntry(s) ==
    /\ apc[s] = "apply" /\ batch[s] # <<>>
    /\ store' = [store EXCEPT ![s] = StoreAfter(@, Head(batch[s]))]
    /\ applied' = [applied EXCEPT ![s] = @ + 1]
    /\ batch' = [batch EXCEPT ![s] = Tail(@)]
    /\ UNCHANGED <<raftVars, running, first, apc, pending, requestVars>>

\* Mutant: an index too many at the lower end.
MutantMarkedBelow(s) == first[s] - 1 .. applied[s]

\* Mutant: whatever is committed by now.
MutantMarkedCommitted(s) == first[s] .. Len(order)

\* The indices of the entries that were applied.
Marked(s) == first[s] .. applied[s]

\* After WAL and hard state, under commit_mu_.
MarkCommits(s) ==
    /\ apc[s] = "apply" /\ batch[s] = <<>>
    /\ pending' = [pending EXCEPT ![s] = @ \cup Marked(s)]
    /\ apc' = [apc EXCEPT ![s] = "notify"]
    /\ UNCHANGED <<raftVars, running, applied, batch, first, store, requestVars>>

Asleep(s) == {r \in Request : pc[r] = "asleep" /\ at[r] = s}

\* Mutant: notify_one.
MutantWokenOne(s) == IF Asleep(s) = {} THEN {} ELSE {CHOOSE r \in Asleep(s) : TRUE}

Woken(s) == Asleep(s)

\* commit_cv_.notify_all(), without commit_mu_.
NotifyAll(s) ==
    /\ apc[s] = "notify"
    /\ pc' = [r \in Request |-> IF r \in Woken(s) THEN "wait" ELSE pc[r]]
    /\ apc' = [apc EXCEPT ![s] = "idle"]
    /\ first' = [first EXCEPT ![s] = 1]
    /\ UNCHANGED <<raftVars, running, applied, batch, store, pending,
                   at, body, met, pos, index, answer, epoch>>

\* EtcdServer::Stop waits until the applying thread is done with its batch, and nobody is
\* notified.  (running_ is cleared as it begins to wait: a request that looks in between is
\* answered that much earlier.)
Stop(s) ==
    /\ running[s] /\ apc[s] = "idle"
    /\ Cardinality({t \in Server : ~running[t]}) < MaxStops
    /\ running' = [running EXCEPT ![s] = FALSE]
    /\ UNCHANGED <<raftVars, applyVars, pending, requestVars>>

-----------------------------------------------------------------------------
(* The thread of a request *)

\* The thread ends, and its locals with it.
Finish(r, result) ==
    /\ pc' = [pc EXCEPT ![r] = "done"]
    /\ answer' = [answer EXCEPT ![r] = result]
    /\ body' = [body EXCEPT ![r] = None]
    /\ met' = [met EXCEPT ![r] = TRUE]
    /\ pos' = [pos EXCEPT ![r] = 1]

\* Put and Delete: one operation and no comparison.  Their own check of IsLeader and that
\* of Propose follow on each other.
Update(r, s, type) ==
    /\ pc[r] = "new" /\ running[s]
    /\ at' = [at EXCEPT ![r] = s]
    /\ \/ /\ leader[s]
          /\ pc' = [pc EXCEPT ![r] = "put_append"]
          /\ \E k \in Key : body' = [body EXCEPT ![r] =
                [compare |-> <<>>, success |-> <<[type |-> type, key |-> k]>>,
                 failure |-> <<>>]]
          /\ UNCHANGED <<met, pos, answer>>
       \/ ~leader[s] /\ Finish(r, "error")
    /\ UNCHANGED <<raftVars, serverVars, index, epoch>>

Put(r) == r \in Updater /\ \E s \in Server : Update(r, s, "PUT")
Delete(r) == r \in Updater /\ \E s \in Server : Update(r, s, "DELETE")

\* Txn asks for no leader.
Txn(r) ==
    /\ r \in Transactor /\ pc[r] = "new"
    /\ \E s \in Server, t \in Transaction :
          /\ running[s]
          /\ at' = [at EXCEPT ![r] = s]
          /\ body' = [body EXCEPT ![r] = t]
          /\ pc' = [pc EXCEPT ![r] = IF t.compare = <<>> THEN "execute" ELSE "compare"]
    /\ UNCHANGED <<raftVars, serverVars, met, pos, index, answer, epoch>>

\* Each comparison reads the store of this server for itself; all are made.
TxnCompare(r) ==
    /\ pc[r] = "compare"
    /\ LET c == body[r].compare[pos[r]]
           holds == (store[at[r]][c.key] = c.value) = (c.op = "equal")
       IN met' = [met EXCEPT ![r] = @ /\ holds]
    /\ IF pos[r] < Len(body[r].compare)
       THEN pos' = [pos EXCEPT ![r] = @ + 1] /\ UNCHANGED pc
       ELSE pos' = [pos EXCEPT ![r] = 1] /\ pc' = [pc EXCEPT ![r] = "execute"]
    /\ UNCHANGED <<raftVars, serverVars, at, body, index, answer, epoch>>

Ops(r) == IF met[r] THEN body[r].success ELSE body[r].failure

\* Propose for each operation of the branch; whether it is accepted is not looked at.
TxnExecute(r) ==
    /\ pc[r] = "execute"
    /\ \/ /\ pos[r] <= Len(Ops(r)) /\ leader[at[r]]
          /\ pc' = [pc EXCEPT ![r] = "txn_append"]
          /\ UNCHANGED <<body, met, pos, answer>>
       \/ /\ pos[r] <= Len(Ops(r)) /\ ~leader[at[r]]
          /\ pos' = [pos EXCEPT ![r] = @ + 1]
          /\ UNCHANGED <<pc, body, met, answer>>
       \/ pos[r] > Len(Ops(r)) /\ Finish(r, "txn")
    /\ UNCHANGED <<raftVars, serverVars, at, index, epoch>>

\* mu_ is held while entries are applied.
MuFree(s) == apc[s] = "idle"

\* Mutant: the index is read before the entry is appended.
MutantIndexBehind(s) == Len(log[s])

ProposedIndex(s) == Len(log[s]) + 1

\* Mutant: the operations of a branch are taken from its end.
MutantRankFromEnd(r) == Len(Ops(r)) + 1 - pos[r]

Rank(r) == pos[r]

CurrentOp(r) == Ops(r)[Rank(r)]

\* Propose under mu_: leadership is not looked at again.
Propose(r) ==
    LET s == at[r]
        e == [req |-> r, op |-> Rank(r), type |-> CurrentOp(r).type, key |-> CurrentOp(r).key]
    IN /\ MuFree(s)
       /\ log' = [log EXCEPT ![s] = Append(@, e)]
       /\ index' = [index EXCEPT ![r] = ProposedIndex(s)]
       /\ epoch' = [epoch EXCEPT ![r] = IF s = active THEN elections ELSE 0]

PutAppend(r) ==
    /\ pc[r] = "put_append"
    /\ Propose(r)
    /\ pc' = [pc EXCEPT ![r] = "wait"]
    /\ UNCHANGED <<leader, active, elections, order, serverVars, at, body, met, pos, answer>>

TxnAppend(r) ==
    /\ pc[r] = "txn_append"
    /\ Propose(r)
    /\ pos' = [pos EXCEPT ![r] = @ + 1]
    /\ pc' = [pc EXCEPT ![r] = "execute"]
    /\ UNCHANGED <<leader, active, elections, order, serverVars, at, body, met, answer>>

\* wait_for tests its predicate under commit_mu_, and again whenever it is notified.
WaitCheck(r) ==
    /\ pc[r] = "wait"
    /\ IF index[r] \in pending[at[r]] \/ ~running[at[r]]
       THEN /\ Finish(r, IF index[r] \in pending[at[r]] THEN "applied" ELSE "stopped")
            /\ pending' = [pending EXCEPT ![at[r]] = @ \ {index[r]}]
       ELSE /\ pc' = [pc EXCEPT ![r] = "asleep"]
            /\ UNCHANGED <<answer, body, met, pos, pending>>
    /\ UNCHANGED <<raftVars, running, applyVars, at, index, epoch>>

\* Five seconds have passed: the same answer, whatever the predicate says.
WaitTimeout(r) ==
    /\ pc[r] = "asleep"
    /\ Finish(r, IF index[r] \in pending[at[r]] THEN "applied" ELSE "expired")
    /\ pending' = [pending EXCEPT ![at[r]] = @ \ {index[r]}]
    /\ UNCHANGED <<raftVars, running, applyVars, at, index, epoch>>

-----------------------------------------------------------------------------
Raft == \/ AdvanceCommitIndex
        \/ \E s \in Server : BecomeLeader(s) \/ BecomeFollower(s) \/ HandleAppendEntries(s)

Apply(s) ==
    ApplyCommittedEntries(s) \/ ProcessRaftEntry(s) \/ MarkCommits(s) \/ NotifyAll(s)

Serve(r) ==
    TxnCompare(r) \/ TxnExecute(r) \/ PutAppend(r) \/ TxnAppend(r) \/ WaitCheck(r)

Next == \/ Raft
        \/ \E s \in Server : Apply(s) \/ Stop(s)
        \/ \E r \in Request : Put(r) \/ Delete(r) \/ Txn(r) \/ Serve(r) \/ WaitTimeout(r)

Spec == Init /\ [][Next]_vars

\* The threads run and messages arrive; a request ends before its five seconds are over
\* only if something wakes it.
Fairness ==
    /\ WF_vars(AdvanceCommitIndex)
    /\ \A s \in Server : WF_vars(HandleAppendEntries(s)) /\ WF_vars(Apply(s))
    /\ \A r \in Request : WF_vars(Serve(r))

FairSpec == Spec /\ Fairness

-----------------------------------------------------------------------------
TypeOK ==
    /\ log \in [Server -> Seq(RaftEntry)] /\ order \in Seq(RaftEntry)
    /\ leader \in [Server -> BOOLEAN] /\ active \in Server \cup {None}
    /\ elections \in Nat
    /\ running \in [Server -> BOOLEAN]
    /\ applied \in [Server -> Nat] /\ first \in [Server -> Nat \ {0}]
    /\ batch \in [Server -> Seq(RaftEntry)]
    /\ apc \in [Server -> {"idle", "apply", "notify"}]
    /\ store \in [Server -> [Key -> Value]]
    /\ pending \in [Server -> SUBSET (Nat \ {0})]
    /\ pc \in [Request -> {"new", "compare", "execute", "put_append", "txn_append", "wait",
                           "asleep", "done"}]
    /\ at \in [Request -> Server \cup {None}]
    /\ body \in [Request -> Body \cup {None}] /\ met \in [Request -> BOOLEAN]
    /\ pos \in [Request -> Nat \ {0}] /\ index \in [Request -> Nat]
    /\ answer \in [Request -> {"none", "error", "applied", "expired", "stopped", "txn"}]
    /\ epoch \in [Request -> Nat]

\* Put and Delete answer after the wait only when the store of their server has taken the
\* entry at their index: a Range on that server reads what was written, or something later.
AppliedBeforeAnswer ==
    \A r \in Request : answer[r] = "applied" => index[r] <= applied[at[r]]

\* As long as leadership has not changed, the entry whose application ends the wait of a Put
\* or Delete is its own: no mark of pending_commits_ left from another request, no index
\* taken by another entry.
AnswerIsOwn ==
    \A r \in Request :
        answer[r] = "applied" /\ epoch[r] = elections /\ at[r] = active =>
            index[r] \in 1 .. Len(order) /\ order[index[r]].req = r

\* The places of the first n entries of l that write the key.
Writes(l, k, n) == {i \in 1 .. n : l[i].key = k}

Latest(places) == CHOOSE i \in places : \A j \in places : j <= i

\* The last of them decides the value.
LastWrite(l, k, n) ==
    IF Writes(l, k, n) = {} THEN NoValue
    ELSE LET last == l[Latest(Writes(l, k, n))]
         IN IF last.type = "PUT" THEN last.req ELSE NoValue

\* Every store is the replay of the decided entries its server has applied, so two servers
\* that have applied as many hold the same, whatever leaders and requests did meanwhile.
StoresReplayOrder ==
    \A s \in Server :
        /\ applied[s] <= Len(order)
        /\ \A k \in Key : store[s][k] = LastWrite(order, k, applied[s])

\* The operations of a Txn are decided at most once each and in the order of its branch,
\* though they are proposed one by one while leadership may change and others write.
DecidedInOrder ==
    \A i, j \in 1 .. Len(order) :
        i < j /\ order[i].req = order[j].req => order[i].op < order[j].op

Waiting(r) == pc[r] \in {"wait", "asleep"}

Stable(r) == epoch[r] = elections /\ at[r] = active /\ \A s \in Server : running[s]

Alone(r) == \A q \in Request \ {r} :
    ~(Waiting(q) /\ at[q] = at[r] /\ index[q] = index[r])

\* What the answer of Put and Delete says: succeeded, so the entry is decided.  The code does
\* not keep it: the answer is the same when the wait timed out, when the server stops, and
\* when another leader's entry took the index.
SuccessMeansDecided ==
    \A r \in Request :
        answer[r] \in {"applied", "expired", "stopped"} =>
            \E i \in 1 .. Len(order) : order[i].req = r

\* A Put or Delete whose leader stays is answered without the timeout: commit, application,
\* mark and notification reach it.  Unless another request waits at the same index, one
\* whose entry was overwritten: that one may take the mark.
PutAnswered ==
    \A r \in Request : Waiting(r) /\ Stable(r) /\ Alone(r) ~> pc[r] = "done" \/ ~Stable(r)

\* The same for every Put and Delete.  The code does not keep it: two requests wait at one
\* index of one server if that lost and regained leadership, and the first takes the mark.
EveryPutAnswered ==
    \A r \in Request : Waiting(r) /\ Stable(r) ~> pc[r] = "done" \/ ~Stable(r)
=============================================================================
