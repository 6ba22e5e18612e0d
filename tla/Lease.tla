-------------------------------- MODULE Lease --------------------------------
(***************************************************************************)
(* Leases on one node: LeaseManager (lease.cpp) with the callers it has in *)
(* EtcdServer (etcd_server.cpp).  Leases live in the memory of the node    *)
(* that granted them; the keys live in the replicated store, and between   *)
(* the two lies the log: a put names its lease when it is proposed and is  *)
(* attached when it is applied, and what expires is proposed as a          *)
(* deletion.                                                               *)
(*                                                                         *)
(* Threads: the expiry thread, the worker that applies entries, the        *)
(* clients' requests.  LeaseManager::mu_ makes each of its methods one     *)
(* step; callbacks run outside it, one step each.  Of the store a key's    *)
(* lease is kept, of an entry its key and lease; every proposed entry is   *)
(* committed, sooner or later; time counts in units of the shortest TTL.   *)
(***************************************************************************)
EXTENDS Naturals, Sequences, FiniteSets

CONSTANTS
    Key,          \* a set of numbers: attached_keys is ordered
    TTL,          \* the values a client asks for
    MaxLeases,    \* bound: leases granted
    MaxRequests,  \* bound: entries that clients, or another leader, propose
    MaxTime,      \* bound on the clock
    MaxChanges    \* bound: times the node gains or loses the leadership

ASSUME LeaseAssumption ==
    /\ Key \subseteq Nat /\ TTL \subseteq Nat \ {0}
    /\ {MaxLeases, MaxRequests, MaxTime, MaxChanges} \subseteq Nat

LeaseId == 1 .. MaxLeases
NoLease == 0            \* a put without a lease
Absent  == MaxLeases + 1   \* no such key

Lease == [ttl : TTL, expiry : Nat, keys : SUBSET Key]
Put    == [type : {"PUT"}, key : Key, lease : LeaseId \cup {NoLease}]
Delete == [type : {"DELETE"}, key : Key]

VARIABLES
    now,          \* steady_clock
    leader,       \* RaftNode::IsLeader
    leases,       \* leases_, a function on the ids of the leases there are
    next_id,
    expired,      \* expired_keys of CheckExpiry, each with its lease
    revoked,      \* keys_to_notify of each Revoke in progress, with its lease
    renewing,     \* the leases of LeaseRenews between Get and Renew
    log,          \* entries proposed and not yet applied
    pc,           \* of the worker in ProcessRaftEntries
    kv,           \* the lease of each key in the store, or Absent
    stray,        \* history: keys whose last put named a lease the node did not have
    requests,     \* bound
    changes       \* bound

vars == <<now, leader, leases, next_id, expired, revoked, renewing, log, pc, kv,
          stray, requests, changes>>

clientVars == <<revoked, renewing, requests>>
storeVars  == <<pc, kv, stray>>

Init ==
    /\ now = 0 /\ leader \in BOOLEAN
    /\ leases = [i \in {} |-> 0]
    /\ next_id = 1
    /\ expired = {} /\ revoked = {} /\ renewing = {}
    /\ log = <<>> /\ pc = "ready"
    /\ kv = [k \in Key |-> Absent]
    /\ stray = {} /\ requests = 0 /\ changes = 0

-----------------------------------------------------------------------------
(* LeaseManager: the map after a call *)

Granted == DOMAIN leases

Without(ids) == [i \in Granted \ ids |-> leases[i]]

\* Mutant: a key that has a lease is not given another.
MutantAttachNew(id, k) ==
    IF id \in Granted /\ \A i \in Granted : k \notin leases[i].keys
    THEN [leases EXCEPT ![id].keys = @ \cup {k}] ELSE leases

\* Mutant: leases_[id] in place of find, which makes a lease without a time to live.
MutantAttachCreates(id, k) ==
    [i \in Granted \cup {id} |->
        IF i # id THEN leases[i]
        ELSE IF id \in Granted THEN [leases[id] EXCEPT !.keys = @ \cup {k}]
        ELSE [ttl |-> 0, expiry |-> now, keys |-> {k}]]

Attach(id, k) ==
    IF id \in Granted THEN [leases EXCEPT ![id].keys = @ \cup {k}] ELSE leases

Detach(id, k) ==
    IF id \in Granted THEN [leases EXCEPT ![id].keys = @ \ {k}] ELSE leases

\* Mutant: the lease is renewed from when it was to expire.
MutantRenewLonger(id) ==
    IF id \in Granted THEN [leases EXCEPT ![id].expiry = @ + leases[id].ttl] ELSE leases

Renew(id) ==
    IF id \in Granted THEN [leases EXCEPT ![id].expiry = now + leases[id].ttl] ELSE leases

Dead == {id \in Granted : now >= leases[id].expiry}

\* Mutant: the keys of a lease replace those collected so far.
MutantLastCollected(ids) ==
    UNION {{id} \X leases[id].keys : id \in {i \in ids : \A j \in ids : j <= i}}

\* The keys to notify, with their leases.
Attached(ids) == UNION {{id} \X leases[id].keys : id \in ids}

-----------------------------------------------------------------------------
(* Requests *)

LeaseGrant(ttl) ==
    /\ next_id <= MaxLeases
    /\ leases' = [i \in Granted \cup {next_id} |->
                    IF i = next_id THEN [ttl |-> ttl, expiry |-> now + ttl, keys |-> {}]
                    ELSE leases[i]]
    /\ next_id' = next_id + 1
    /\ UNCHANGED <<now, leader, expired, clientVars, log, storeVars, changes>>

\* Put and Delete as far as the proposal; what the client waits for is not seen here.
Request(e) ==
    /\ leader /\ requests < MaxRequests
    /\ log' = Append(log, e)
    /\ requests' = requests + 1
    /\ UNCHANGED <<now, leader, leases, next_id, expired, revoked, renewing, storeVars, changes>>

\* Revoke under mu_: no other finds the lease again.
LeaseRevoke(id) ==
    /\ id \in Granted
    /\ revoked' = revoked \cup Attached({id})
    /\ leases' = Without({id})
    /\ UNCHANGED <<now, leader, next_id, expired, renewing, requests, log, storeVars, changes>>

\* LeaseRenew: Get has found the lease,
LeaseRenew(id) ==
    /\ id \in Granted
    /\ renewing' = renewing \cup {id}
    /\ UNCHANGED <<now, leader, leases, next_id, expired, revoked, requests, log, storeVars, changes>>

\* and Renew renews it, if it is still there.
FinishRenew(id) ==
    /\ id \in renewing
    /\ leases' = Renew(id)
    /\ renewing' = renewing \ {id}
    /\ UNCHANGED <<now, leader, next_id, expired, revoked, requests, log, storeVars, changes>>

-----------------------------------------------------------------------------
(* Expiry *)

\* CheckExpiry under mu_, once the callbacks of the round before have returned.
CheckExpiry ==
    /\ expired = {} /\ Dead # {}
    /\ expired' = Attached(Dead)
    /\ leases' = Without(Dead)
    /\ UNCHANGED <<now, leader, next_id, clientVars, log, storeVars, changes>>

Proposed(k) == IF leader THEN Append(log, [type |-> "DELETE", key |-> k]) ELSE log

\* OnLeaseExpired: the deletion is proposed, or, without the leadership, forgotten.
OnLeaseExpired(k) ==
    /\ log' = Proposed(k)
    /\ UNCHANGED <<now, leader, leases, next_id, renewing, requests, storeVars, changes>>

Before(p, q) == p[1] < q[1] \/ (p[1] = q[1] /\ p[2] < q[2])

ExpireCallback ==
    \E p \in expired :
        /\ \A q \in expired \ {p} : Before(p, q)
        /\ expired' = expired \ {p}
        /\ OnLeaseExpired(p[2])
        /\ UNCHANGED revoked

\* Each Revoke goes through the keys of its own lease.
RevokeCallback(id) ==
    \E k \in Key :
        /\ <<id, k>> \in revoked /\ \A j \in Key : <<id, j>> \in revoked => k <= j
        /\ revoked' = revoked \ {<<id, k>>}
        /\ OnLeaseExpired(k)
        /\ UNCHANGED expired

-----------------------------------------------------------------------------
(* ProcessRaftEntries: the entry at the head of the log is committed at any time. *)

ApplyPut ==
    /\ pc = "ready" /\ log # <<>> /\ Head(log).type = "PUT"
    /\ kv' = [kv EXCEPT ![Head(log).key] = Head(log).lease]
    /\ pc' = "attach"
    /\ UNCHANGED <<now, leader, leases, next_id, expired, clientVars, log, stray, changes>>

\* The lease a key had before is not told.
AttachLease ==
    /\ pc = "attach"
    /\ leases' = IF Head(log).lease = NoLease THEN leases
                 ELSE Attach(Head(log).lease, Head(log).key)
    /\ stray' = IF Head(log).lease \in Granted THEN stray \ {Head(log).key}
                ELSE stray \cup {Head(log).key}
    /\ log' = Tail(log)
    /\ pc' = "ready"
    /\ UNCHANGED <<now, leader, next_id, expired, clientVars, kv, changes>>

\* Of the leases a key is attached to, the one of its last put loses it.
DetachLease ==
    /\ pc = "ready" /\ log # <<>> /\ Head(log).type = "DELETE"
    /\ leases' = Detach(kv[Head(log).key], Head(log).key)
    /\ pc' = "delete"
    /\ UNCHANGED <<now, leader, next_id, expired, clientVars, log, kv, stray, changes>>

ApplyDelete ==
    /\ pc = "delete"
    /\ kv' = [kv EXCEPT ![Head(log).key] = Absent]
    /\ log' = Tail(log)
    /\ pc' = "ready"
    /\ UNCHANGED <<now, leader, leases, next_id, expired, clientVars, stray, changes>>

Apply == ApplyPut \/ AttachLease \/ DetachLease \/ ApplyDelete

-----------------------------------------------------------------------------
(* The cluster around the node, and time *)

\* Another leader's entries, with lease ids it gave out itself.
Replicate(e) ==
    /\ ~leader /\ requests < MaxRequests
    /\ log' = Append(log, e)
    /\ requests' = requests + 1
    /\ UNCHANGED <<now, leader, leases, next_id, expired, revoked, renewing, storeVars, changes>>

ChangeLeader ==
    /\ changes < MaxChanges
    /\ leader' = ~leader
    /\ changes' = changes + 1
    /\ UNCHANGED <<now, leases, next_id, expired, clientVars, log, storeVars>>

Tick ==
    /\ now < MaxTime
    /\ now' = now + 1
    /\ UNCHANGED <<leader, leases, next_id, expired, clientVars, log, storeVars, changes>>

Next ==
    \/ \E ttl \in TTL : LeaseGrant(ttl)
    \/ \E e \in Put \cup Delete : Request(e) \/ Replicate(e)
    \/ \E id \in LeaseId : \/ LeaseRevoke(id) \/ RevokeCallback(id)
                           \/ LeaseRenew(id) \/ FinishRenew(id)
    \/ CheckExpiry \/ ExpireCallback
    \/ Apply \/ ChangeLeader \/ Tick

Spec == Init /\ [][Next]_vars

\* Threads run; time passes; nothing makes clients ask or the leadership change.
FairSpec ==
    /\ Spec
    /\ WF_vars(CheckExpiry) /\ WF_vars(ExpireCallback)
    /\ \A id \in LeaseId : WF_vars(RevokeCallback(id)) /\ WF_vars(FinishRenew(id))
    /\ WF_vars(Apply) /\ WF_vars(Tick)

-----------------------------------------------------------------------------
TypeOK ==
    /\ now \in 0 .. MaxTime /\ leader \in BOOLEAN
    /\ Granted \subseteq LeaseId /\ \A id \in Granted : leases[id] \in Lease
    /\ next_id \in 1 .. MaxLeases + 1
    /\ expired \subseteq LeaseId \X Key /\ revoked \subseteq LeaseId \X Key
    /\ renewing \subseteq LeaseId
    /\ log \in Seq(Put \cup Delete)
    /\ pc \in {"ready", "attach", "delete"} /\ (pc # "ready" => log # <<>>)
    /\ kv \in [Key -> LeaseId \cup {NoLease, Absent}] /\ stray \subseteq Key

(***************************************************************************)
(* A key that belongs to a living lease is attached to it, so that it goes *)
(* when the lease goes, however puts, deletions and expiries of several    *)
(* leases follow: outside the two steps in which the worker has written    *)
(* one side and not the other, and unless the put came before the lease (a *)
(* put is never refused for its lease, and ids count from 1 on each node). *)
(***************************************************************************)
OwnedKeysAttached ==
    \A k \in Key \ stray : kv[k] \in Granted /\ ~(pc # "ready" /\ Head(log).key = k)
                              => k \in leases[kv[k]].keys

(***************************************************************************)
(* However often and when it is renewed, a lease never has more than its   *)
(* time to live ahead of it.                                               *)
(***************************************************************************)
NeverTooLong == \A id \in Granted : leases[id].expiry <= now + leases[id].ttl

(***************************************************************************)
(* What is attached to a lease that has run out is deleted, or the lease   *)
(* is renewed first, if the node leads from then on (DESIGN.md: expired    *)
(* leases are checked periodically and their keys deleted).                *)
(***************************************************************************)
DeadKeysGo ==
    \A id \in LeaseId, k \in Key :
        []( id \in Dead /\ k \in leases[id].keys /\ []leader
              => <>(kv[k] = Absent \/ id \in Granted \ Dead) )

\* An expired lease deletes the keys that belong to it, no others (the code does not promise
\* it: a key put again without a lease, or with another, stays attached to the first).
OnlyOwnKeys == \A p \in expired : kv[p[2]] # NoLease

\* A key does not outlive its lease for ever, if the node leads (the code does not promise it:
\* a put may be applied after its lease has gone, and no one looks for such a key again).
NoOrphans ==
    \A id \in LeaseId, k \in Key :
        [](kv[k] = id /\ id < next_id /\ id \notin Granted /\ []leader => <>(kv[k] # id))
=============================================================================
