----------------------------- MODULE LeaseProofs -----------------------------
(***************************************************************************)
(* Why a key that belongs to a living lease goes with it: proofs about     *)
(* LeaseManager and its callers, for every set of keys and times to live.  *)
(***************************************************************************)
EXTENDS Lease, SequenceTheorems, TLAPS

\* Only ids that were given out are on record.
IdsGivenOut == \A id \in Granted : id < next_id

\* The worker is in the middle of the entry at the head of the log, and a put has reached
\* the store by the time its lease is looked up.
EntryInHand ==
    /\ pc = "attach" => /\ Head(log).type = "PUT"
                        /\ kv[Head(log).key] = Head(log).lease
    /\ pc = "delete" => Head(log).type = "DELETE"

InHand(k) == pc # "ready" /\ Head(log).key = k

\* A key put with a lease that was not there yet is known as stray once that was noticed.
\* A lease that is granted later under that id therefore owes it nothing.
EarlyPutsStray ==
    \A k \in Key \ stray : kv[k] \in LeaseId /\ ~InHand(k) => kv[k] < next_id

IndInv == TypeOK /\ IdsGivenOut /\ EntryInHand /\ EarlyPutsStray /\ OwnedKeysAttached

-----------------------------------------------------------------------------
(* The map of leases after a call *)

\* What LeaseManager knows of a lease, and that it does not take ids from elsewhere.
LEMMA LeaseTypes ==
    ASSUME TypeOK
    PROVE  /\ \A id \in Granted :
                 /\ id \in LeaseId /\ id \in Nat /\ id # NoLease /\ id # Absent
                 /\ leases[id].ttl \in TTL /\ leases[id].ttl \in Nat
                 /\ leases[id].expiry \in Nat
                 /\ leases[id].keys \subseteq Key
           /\ now \in Nat /\ next_id \in Nat
<1>1. MaxLeases \in Nat /\ MaxTime \in Nat /\ TTL \subseteq Nat
  BY LeaseAssumption
<1>2. /\ now \in Nat /\ next_id \in Nat
      /\ Granted \subseteq LeaseId /\ \A id \in Granted : leases[id] \in Lease
  BY <1>1 DEF TypeOK
<1>3. \A id \in LeaseId : id \in Nat /\ id # NoLease /\ id # Absent
  BY <1>1 DEF LeaseId, NoLease, Absent
<1>. QED
  BY <1>1, <1>2, <1>3 DEF Lease

\* The leases there were, on the terms they had.
SameTerms(after) ==
    /\ DOMAIN after = Granted
    /\ \A i \in Granted : /\ after[i] \in Lease
                          /\ after[i].ttl = leases[i].ttl
                          /\ after[i].expiry = leases[i].expiry

\* Of the keys attached only k's place may have changed, and only at the lease id.
OthersKept(after, id, k) ==
    \A i \in Granted : \A j \in leases[i].keys : i # id \/ j # k => j \in after[i].keys

LEMMA AttachResult ==
    ASSUME TypeOK, NEW id, NEW k \in Key
    PROVE  /\ SameTerms(Attach(id, k)) /\ OthersKept(Attach(id, k), id, k)
           /\ id \in Granted => k \in Attach(id, k)[id].keys
BY DEF TypeOK, Attach, Granted, Lease, SameTerms, OthersKept

LEMMA DetachResult ==
    ASSUME TypeOK, NEW id, NEW k \in Key
    PROVE  SameTerms(Detach(id, k)) /\ OthersKept(Detach(id, k), id, k)
BY DEF TypeOK, Detach, Granted, Lease, SameTerms, OthersKept

LEMMA RenewResult ==
    ASSUME TypeOK, NEW id
    PROVE  /\ DOMAIN Renew(id) = Granted
           /\ \A i \in Granted :
                 /\ Renew(id)[i] \in Lease
                 /\ Renew(id)[i].ttl = leases[i].ttl /\ Renew(id)[i].keys = leases[i].keys
                 /\ Renew(id)[i].expiry = IF i = id THEN now + leases[i].ttl
                                      ELSE leases[i].expiry
<1>1. \A i \in Granted : leases[i] \in Lease /\ now + leases[i].ttl \in Nat
  BY LeaseTypes DEF TypeOK
<1>. QED
  BY <1>1 DEF Renew, Granted, Lease

LEMMA WithoutResult ==
    ASSUME TypeOK, NEW ids
    PROVE  /\ DOMAIN Without(ids) = Granted \ ids
           /\ \A i \in Granted \ ids : Without(ids)[i] = leases[i]
BY DEF Without

LEMMA GrantResult ==
    ASSUME TypeOK, NEW ttl \in TTL, LeaseGrant(ttl)
    PROVE  /\ DOMAIN leases' = Granted \cup {next_id}
           /\ next_id \in LeaseId /\ next_id' = next_id + 1
           /\ leases'[next_id] = [ttl |-> ttl, expiry |-> now + ttl, keys |-> {}]
           /\ leases'[next_id] \in Lease
           /\ \A i \in Granted \ {next_id} : leases'[i] = leases[i]
<1>1. now + ttl \in Nat /\ next_id \in LeaseId
  BY LeaseAssumption, LeaseTypes DEF LeaseGrant, LeaseId, TypeOK
<1>2. leases' = [i \in Granted \cup {next_id} |->
                    IF i = next_id THEN [ttl |-> ttl, expiry |-> now + ttl, keys |-> {}]
                    ELSE leases[i]]
  BY DEF LeaseGrant
<1>. QED
  BY <1>1, <1>2 DEF LeaseGrant, Lease

-----------------------------------------------------------------------------
(* Every step keeps the types *)

\* What is appended is an entry, and leaves the head of a log in use where it is.
LEMMA Proposing ==
    ASSUME TypeOK, NEW e \in Put \cup Delete
    PROVE  /\ Append(log, e) \in Seq(Put \cup Delete)
           /\ Append(log, e) # <<>>
           /\ log # <<>> => Head(Append(log, e)) = Head(log)
<1>1. log \in Seq(Put \cup Delete) /\ Len(log) \in Nat
  BY DEF TypeOK
<1>2. /\ Append(log, e) \in Seq(Put \cup Delete)
      /\ Len(Append(log, e)) = Len(log) + 1
      /\ \A i \in 1 .. Len(log) : Append(log, e)[i] = log[i]
  BY <1>1, AppendProperties
<1>3. Append(log, e) # <<>>
  BY <1>1, <1>2
<1>4. ASSUME log # <<>> PROVE Head(Append(log, e)) = Head(log)
  <2>1. 1 \in 1 .. Len(log)
    BY <1>1, <1>4, EmptySeq
  <2>2. Head(Append(log, e)) = Append(log, e)[1] /\ Head(log) = log[1]
    BY <1>1, <1>2, <1>3, <1>4
  <2>. QED
    BY <1>2, <2>1, <2>2
<1>. QED
  BY <1>2, <1>3, <1>4

LEMMA HeadOfLog ==
    ASSUME TypeOK, log # <<>>
    PROVE  /\ Head(log) \in Put \cup Delete
           /\ Head(log).key \in Key
           /\ Head(log).type = "PUT" => Head(log).lease \in LeaseId \cup {NoLease}
           /\ Tail(log) \in Seq(Put \cup Delete)
<1>1. Head(log) \in Put \cup Delete /\ Tail(log) \in Seq(Put \cup Delete)
  BY HeadTailProperties DEF TypeOK
<1>. QED
  BY <1>1 DEF Put, Delete

\* Entries are appended by clients, by another leader and by callbacks.
LEMMA LogSteps ==
    ASSUME TypeOK, [Next]_vars
    PROVE  \/ UNCHANGED log
           \/ AttachLease \/ ApplyDelete
           \/ UNCHANGED <<leases, next_id, storeVars>>
              /\ \E e \in Put \cup Delete : log' = Append(log, e)
<1>1. ASSUME NEW k \in Key, OnLeaseExpired(k)
      PROVE  \/ UNCHANGED log
             \/ UNCHANGED <<leases, next_id, storeVars>>
                /\ \E e \in Put \cup Delete : log' = Append(log, e)
  BY <1>1 DEF OnLeaseExpired, Proposed, Delete
<1>2. \A p \in expired : p[2] \in Key
  BY DEF TypeOK
<1>4. CASE \E id \in LeaseId : RevokeCallback(id)
  BY <1>1, <1>4 DEF RevokeCallback
<1>5. CASE ExpireCallback
  BY <1>1, <1>2, <1>5 DEF ExpireCallback
<1>. QED
  BY <1>4, <1>5
     DEF Next, LeaseGrant, Request, Replicate, LeaseRevoke, LeaseRenew, FinishRenew,
         CheckExpiry, Apply, ApplyPut, DetachLease, ChangeLeader, Tick, vars, clientVars
\* Only the worker writes the store.
LEMMA OtherSteps ==
    ASSUME [Next]_vars, ~Apply
    PROVE  UNCHANGED storeVars
BY DEF storeVars, Next, LeaseGrant, Request, Replicate, LeaseRevoke, LeaseRenew, FinishRenew,
       RevokeCallback, CheckExpiry, ExpireCallback, OnLeaseExpired, ChangeLeader, Tick, vars

LEMMA ClockSteps ==
    ASSUME [Next]_vars
    PROVE  UNCHANGED now \/ Tick
BY DEF Next, LeaseGrant, Request, Replicate, LeaseRevoke, LeaseRenew, FinishRenew,
       RevokeCallback, CheckExpiry, ExpireCallback, OnLeaseExpired, Apply, ApplyPut,
       AttachLease, DetachLease, ApplyDelete, ChangeLeader, vars

\* The entry in hand stays at the head of the log until the worker is done with it.
LEMMA HeadKept ==
    ASSUME TypeOK, [Next]_vars, ~Apply, pc # "ready"
    PROVE  Head(log') = Head(log)
<1>1. log # <<>>
  BY DEF TypeOK
<1>2. UNCHANGED log \/ \E e \in Put \cup Delete : log' = Append(log, e)
  BY LogSteps DEF Apply
<1>3. \A e \in Put \cup Delete : Head(Append(log, e)) = Head(log)
  BY <1>1, Proposing
<1>. QED
  BY <1>2, <1>3

\* The methods of LeaseManager are the only writers of the map.
LEMMA LeasesSteps ==
    ASSUME [Next]_vars
    PROVE  \/ UNCHANGED <<leases, next_id>>
           \/ \E ttl \in TTL : LeaseGrant(ttl)
           \/ UNCHANGED <<next_id, now, log, storeVars>>
              /\ \E ids \in SUBSET Granted : leases' = Without(ids)
           \/ UNCHANGED <<next_id, now, log, storeVars>>
              /\ \E id \in LeaseId : leases' = Renew(id)
           \/ AttachLease \/ DetachLease
<1>1. CASE CheckExpiry
  BY <1>1 DEF CheckExpiry, Dead
<1>2. CASE \E id \in LeaseId : LeaseRevoke(id)
  BY <1>2 DEF LeaseRevoke
<1>3. CASE \E id \in LeaseId : FinishRenew(id)
  BY <1>3 DEF FinishRenew
<1>4. CASE ExpireCallback \/ \E id \in LeaseId : RevokeCallback(id)
  BY <1>4 DEF RevokeCallback, ExpireCallback, OnLeaseExpired
<1>. QED
  BY <1>1, <1>2, <1>3, <1>4
     DEF Next, Request, Replicate, LeaseRenew, Apply, ApplyPut, ApplyDelete, ChangeLeader,
         Tick, vars, clientVars

\* What a step does to the map, whichever method it called.
LEMMA LeasesResult ==
    ASSUME TypeOK, IdsGivenOut, [Next]_vars
    PROVE  /\ next_id' \in 1 .. MaxLeases + 1 /\ next_id' >= next_id
           /\ \A id \in DOMAIN leases' :
                 /\ leases'[id] \in Lease
                 /\ id \in LeaseId /\ id < next_id'
                 /\ \/ id \in Granted /\ leases'[id].ttl = leases[id].ttl
                                      /\ \/ leases'[id].expiry = leases[id].expiry
                                         \/ leases'[id].expiry = now + leases[id].ttl
                    \/ id = next_id /\ next_id' = next_id + 1 /\ id \notin Granted
                       /\ leases'[id].expiry = now + leases'[id].ttl
<1>1. /\ next_id \in 1 .. MaxLeases + 1 /\ next_id \in Nat /\ MaxLeases \in Nat
      /\ \A id \in Granted : leases[id] \in Lease /\ id \in LeaseId /\ id < next_id
      /\ \A id \in LeaseId : id \in Nat
  BY LeaseAssumption DEF TypeOK, IdsGivenOut, LeaseId
<1>2. CASE UNCHANGED <<leases, next_id>>
  BY <1>1, <1>2 DEF Granted
<1>3. ASSUME NEW ttl \in TTL, LeaseGrant(ttl)
      PROVE  /\ next_id' = next_id + 1 /\ next_id \in LeaseId
             /\ DOMAIN leases' = Granted \cup {next_id}
             /\ leases'[next_id] \in Lease
             /\ leases'[next_id].expiry = now + leases'[next_id].ttl
             /\ \A i \in Granted \ {next_id} : leases'[i] = leases[i]
  <2>1. /\ DOMAIN leases' = Granted \cup {next_id}
        /\ next_id \in LeaseId /\ next_id' = next_id + 1
        /\ leases'[next_id] = [ttl |-> ttl, expiry |-> now + ttl, keys |-> {}]
        /\ leases'[next_id] \in Lease
        /\ \A i \in Granted \ {next_id} : leases'[i] = leases[i]
    BY <1>3, GrantResult
  <2>2. leases'[next_id].ttl = ttl /\ leases'[next_id].expiry = now + ttl
    BY <2>1
  <2>. QED
    BY <2>1, <2>2
<1>4. ASSUME NEW ids \in SUBSET Granted, leases' = Without(ids), UNCHANGED next_id
      PROVE  /\ DOMAIN leases' \subseteq Granted
             /\ \A i \in DOMAIN leases' : leases'[i] = leases[i]
  BY <1>4, WithoutResult
<1>5. ASSUME NEW id \in LeaseId, leases' = Renew(id)
      PROVE  /\ DOMAIN leases' = Granted
             /\ \A i \in Granted : /\ leases'[i] \in Lease /\ leases'[i].ttl = leases[i].ttl
                                   /\ \/ leases'[i].expiry = leases[i].expiry
                                      \/ leases'[i].expiry = now + leases[i].ttl
  BY <1>5, RenewResult
<1>6. CASE AttachLease
  <2>1. log # <<>> /\ UNCHANGED next_id
    BY <1>6 DEF AttachLease, TypeOK
  <2>2. \/ leases' = leases
        \/ leases' = Attach(Head(log).lease, Head(log).key)
    BY <1>6 DEF AttachLease
  <2>3. Head(log).key \in Key
    BY <2>1, HeadOfLog
  <2>4. SameTerms(Attach(Head(log).lease, Head(log).key))
    BY <2>3, AttachResult
  <2>5. CASE leases' = leases
    BY <1>1, <2>1, <2>5 DEF Granted
  <2>6. CASE leases' = Attach(Head(log).lease, Head(log).key)
    BY <1>1, <2>1, <2>4, <2>6 DEF SameTerms
  <2>. QED
    BY <2>2, <2>5, <2>6
<1>7. CASE DetachLease
  <2>1. /\ log # <<>> /\ UNCHANGED next_id
        /\ leases' = Detach(kv[Head(log).key], Head(log).key)
    BY <1>7 DEF DetachLease
  <2>2. Head(log).key \in Key
    BY <2>1, HeadOfLog
  <2>3. SameTerms(leases')
    BY <2>1, <2>2, DetachResult
  <2>. QED
    BY <1>1, <2>1, <2>3 DEF SameTerms
<1>8. CASE \E ttl \in TTL : LeaseGrant(ttl)
  <2>1. /\ next_id' = next_id + 1 /\ next_id \in LeaseId
        /\ DOMAIN leases' = Granted \cup {next_id}
        /\ leases'[next_id] \in Lease
        /\ leases'[next_id].expiry = now + leases'[next_id].ttl
        /\ \A i \in Granted \ {next_id} : leases'[i] = leases[i]
    BY <1>3, <1>8
  <2>2. next_id \notin Granted /\ next_id <= MaxLeases
    BY <1>1, <2>1 DEF LeaseId
  <2>3. next_id' \in 1 .. MaxLeases + 1 /\ next_id' >= next_id /\ next_id < next_id'
    BY <1>1, <2>1, <2>2
  <2>4. ASSUME NEW i \in Granted
        PROVE  i < next_id' /\ i # next_id /\ leases'[i] = leases[i]
    <3>1. i < next_id /\ i \in Nat /\ next_id \in Nat
      BY <1>1
    <3>2. i # next_id
      BY <3>1
    <3>. QED
      BY <2>1, <3>1, <3>2
  <2>. QED
    BY <1>1, <2>1, <2>2, <2>3, <2>4
<1>9. CASE UNCHANGED next_id /\ \E ids \in SUBSET Granted : leases' = Without(ids)
  BY <1>1, <1>4, <1>9
<1>10. CASE UNCHANGED next_id /\ \E id \in LeaseId : leases' = Renew(id)
  BY <1>1, <1>5, <1>10
<1>. QED
  BY <1>2, <1>6, <1>7, <1>8, <1>9, <1>10, LeasesSteps

LEMMA IdsStep ==
    ASSUME TypeOK, IdsGivenOut, [Next]_vars
    PROVE  IdsGivenOut'
BY LeasesResult DEF IdsGivenOut, Granted

LEMMA TypeStep ==
    ASSUME TypeOK, IdsGivenOut, EntryInHand, [Next]_vars
    PROVE  TypeOK'
<1>1. /\ Granted' \subseteq LeaseId /\ \A id \in Granted' : leases'[id] \in Lease
      /\ next_id' \in 1 .. MaxLeases + 1
  BY LeasesResult DEF Granted
<1>2. now' \in 0 .. MaxTime /\ leader' \in BOOLEAN
  <2>1. now' \in 0 .. MaxTime
    BY LeaseAssumption, ClockSteps DEF TypeOK, Tick
  <2>2. leader' \in BOOLEAN
    BY DEF TypeOK, Next, LeaseGrant, Request, Replicate, LeaseRevoke, LeaseRenew, FinishRenew,
           RevokeCallback, CheckExpiry, ExpireCallback, OnLeaseExpired, Apply, ApplyPut,
           AttachLease, DetachLease, ApplyDelete, ChangeLeader, Tick, vars
  <2>. QED
    BY <2>1, <2>2
<1>3. expired' \subseteq LeaseId \X Key /\ revoked' \subseteq LeaseId \X Key
  <2>1. Attached(Dead) \subseteq LeaseId \X Key
    <3>1. \A id \in Dead : id \in LeaseId /\ leases[id].keys \subseteq Key
      BY LeaseTypes DEF Dead
    <3>. QED
      BY <3>1 DEF Attached
  <2>2. CASE CheckExpiry
    BY <2>1, <2>2 DEF CheckExpiry, clientVars, TypeOK
  <2>3. CASE \E id \in LeaseId : LeaseRevoke(id)
    <3>1. PICK id \in LeaseId : LeaseRevoke(id)
      BY <2>3
    <3>2. Attached({id}) \subseteq LeaseId \X Key
      BY <3>1, LeaseTypes DEF Attached, LeaseRevoke
    <3>. QED
      BY <3>1, <3>2 DEF LeaseRevoke, TypeOK
  <2>. QED
    BY <2>2, <2>3
       DEF TypeOK, Next, LeaseGrant, Request, Replicate, LeaseRenew, FinishRenew,
           RevokeCallback, ExpireCallback, Apply, ApplyPut, AttachLease, DetachLease,
           ApplyDelete, ChangeLeader, Tick, vars, clientVars
<1>4. renewing' \subseteq LeaseId
  BY DEF TypeOK, Next, LeaseGrant, Request, Replicate, LeaseRevoke, LeaseRenew, FinishRenew,
         RevokeCallback, CheckExpiry, ExpireCallback, OnLeaseExpired, Apply, ApplyPut,
         AttachLease, DetachLease, ApplyDelete, ChangeLeader, Tick, vars, clientVars
<1>5. log' \in Seq(Put \cup Delete)
  <2>1. CASE AttachLease \/ ApplyDelete
    <3>1. log # <<>> /\ log' = Tail(log)
      BY <2>1 DEF AttachLease, ApplyDelete, TypeOK
    <3>. QED
      BY <3>1, HeadOfLog
  <2>. QED
    BY <2>1, LogSteps, Proposing DEF TypeOK
<1>6. CASE Apply
  <2>1. log # <<>>
    BY <1>6 DEF Apply, ApplyPut, AttachLease, DetachLease, ApplyDelete, TypeOK
  <2>2. /\ Head(log).key \in Key
        /\ Head(log).type = "PUT" => Head(log).lease \in LeaseId \cup {NoLease}
    BY <2>1, HeadOfLog
  <2>3. /\ pc' \in {"ready", "attach", "delete"}
        /\ kv' \in [Key -> LeaseId \cup {NoLease, Absent}] /\ stray' \subseteq Key
    BY <1>6, <2>2
       DEF Apply, ApplyPut, AttachLease, DetachLease, ApplyDelete, TypeOK
  <2>4. pc' # "ready" => log' # <<>>
    BY <1>6, <2>1 DEF Apply, ApplyPut, AttachLease, DetachLease, ApplyDelete
  <2>. QED
    BY <1>1, <1>2, <1>3, <1>4, <1>5, <2>3, <2>4 DEF TypeOK
<1>7. CASE ~Apply
  <2>1. UNCHANGED storeVars
    BY <1>7, OtherSteps
  <2>2. log # <<>> => log' # <<>>
    BY <1>7, LogSteps, Proposing DEF Apply
  <2>. QED
    BY <1>1, <1>2, <1>3, <1>4, <1>5, <2>1, <2>2 DEF TypeOK, storeVars
<1>. QED
  BY <1>6, <1>7
-----------------------------------------------------------------------------
(* Every step keeps the rest *)

\* A lease is renewed from now on, and time only adds to what has passed.
LEMMA TooLongStep ==
    ASSUME TypeOK, IdsGivenOut, NeverTooLong, [Next]_vars
    PROVE  NeverTooLong'
<1>1. now' \in Nat /\ now \in Nat /\ now <= now'
  BY LeaseTypes, ClockSteps DEF Tick
<1>. SUFFICES ASSUME NEW id \in DOMAIN leases'
              PROVE  leases'[id].expiry <= now' + leases'[id].ttl
  BY DEF NeverTooLong, Granted
<1>2. leases'[id].ttl \in Nat /\ leases'[id].expiry \in Nat
  <2>1. leases'[id] \in Lease
    BY LeasesResult
  <2>. QED
    BY <2>1, LeaseAssumption DEF Lease
<1>3. leases'[id].expiry <= now + leases'[id].ttl
  <2>1. CASE id \in Granted /\ leases'[id].ttl = leases[id].ttl
    <3>1. leases[id].expiry <= now + leases[id].ttl /\ leases[id].ttl \in Nat
      BY <2>1, LeaseTypes DEF NeverTooLong
    <3>2. leases'[id].expiry = leases[id].expiry \/ leases'[id].expiry = now + leases[id].ttl
             \/ leases'[id].expiry = now + leases'[id].ttl
      BY LeasesResult
    <3>. QED
      BY <1>1, <1>2, <2>1, <3>1, <3>2
  <2>2. CASE leases'[id].expiry = now + leases'[id].ttl
    BY <1>1, <1>2, <2>2
  <2>. QED
    BY <2>1, <2>2, LeasesResult
<1>. QED
  BY <1>1, <1>2, <1>3

LEMMA HandStep ==
    ASSUME TypeOK, EntryInHand, [Next]_vars
    PROVE  EntryInHand'
<1>1. CASE Apply
  <2>1. CASE ApplyPut
    <3>1. /\ pc' = "attach" /\ UNCHANGED log /\ log # <<>> /\ Head(log).type = "PUT"
          /\ kv' = [kv EXCEPT ![Head(log).key] = Head(log).lease]
      BY <2>1 DEF ApplyPut
    <3>2. kv'[Head(log).key] = Head(log).lease
      BY <3>1, HeadOfLog DEF TypeOK
    <3>. QED
      BY <3>1, <3>2 DEF EntryInHand
  <2>2. CASE DetachLease
    BY <2>2 DEF DetachLease, EntryInHand
  <2>3. CASE AttachLease \/ ApplyDelete
    BY <2>3 DEF AttachLease, ApplyDelete, EntryInHand
  <2>. QED
    BY <1>1, <2>1, <2>2, <2>3 DEF Apply
<1>2. CASE ~Apply
  <2>1. UNCHANGED storeVars
    BY <1>2, OtherSteps
  <2>2. pc # "ready" => Head(log') = Head(log)
    BY <1>2, HeadKept
  <2>. QED
    BY <2>1, <2>2 DEF EntryInHand, storeVars
<1>. QED
  BY <1>1, <1>2

\* An id handed out now is one that no put counted on, except those known as stray.
LEMMA StrayStep ==
    ASSUME TypeOK, IdsGivenOut, EntryInHand, EarlyPutsStray, [Next]_vars
    PROVE  EarlyPutsStray'
<1>1. next_id' >= next_id /\ next_id' \in Nat /\ next_id \in Nat
  BY LeasesResult, LeaseTypes, LeaseAssumption
<1>. SUFFICES ASSUME NEW k \in Key, k \notin stray', kv'[k] \in LeaseId, ~InHand(k)'
              PROVE  kv'[k] < next_id'
  BY DEF EarlyPutsStray
<1>2. kv'[k] \in Nat
  BY LeaseAssumption DEF LeaseId
<1>3. CASE ApplyPut
  <2>1. /\ pc' = "attach" /\ UNCHANGED <<log, stray, next_id>> /\ pc = "ready"
        /\ kv' = [kv EXCEPT ![Head(log).key] = Head(log).lease]
    BY <1>3 DEF ApplyPut
  <2>2. k # Head(log).key /\ kv'[k] = kv[k]
    BY <2>1 DEF InHand, TypeOK
  <2>. QED
    BY <1>1, <1>2, <2>1, <2>2 DEF EarlyPutsStray, InHand
<1>4. CASE AttachLease
  <2>1. /\ pc = "attach" /\ UNCHANGED <<kv, next_id>>
        /\ stray' = IF Head(log).lease \in Granted THEN stray \ {Head(log).key}
                    ELSE stray \cup {Head(log).key}
    BY <1>4 DEF AttachLease
  <2>2. CASE k = Head(log).key
    BY <2>1, <2>2 DEF EntryInHand, IdsGivenOut
  <2>3. CASE k # Head(log).key
    BY <2>1, <2>3 DEF EarlyPutsStray, InHand
  <2>. QED
    BY <2>2, <2>3
<1>5. CASE DetachLease
  BY <1>5 DEF DetachLease, EarlyPutsStray, InHand
<1>6. CASE ApplyDelete
  <2>1. /\ pc = "delete" /\ UNCHANGED <<stray, next_id>>
        /\ kv' = [kv EXCEPT ![Head(log).key] = Absent]
    BY <1>6 DEF ApplyDelete
  <2>2. k # Head(log).key /\ kv'[k] = kv[k]
    BY <2>1, LeaseAssumption DEF TypeOK, Absent, LeaseId
  <2>. QED
    BY <2>1, <2>2 DEF EarlyPutsStray, InHand
<1>7. CASE ~Apply
  <2>1. UNCHANGED storeVars
    BY <1>7, OtherSteps
  <2>2. pc # "ready" => Head(log') = Head(log)
    BY <1>7, HeadKept
  <2>3. ~InHand(k)
    BY <2>1, <2>2 DEF InHand, storeVars
  <2>. QED
    BY <1>1, <1>2, <2>1, <2>3 DEF EarlyPutsStray, storeVars
<1>. QED
  BY <1>3, <1>4, <1>5, <1>6, <1>7 DEF Apply

LEMMA OwnedStep ==
    ASSUME TypeOK, IdsGivenOut, EntryInHand, EarlyPutsStray, OwnedKeysAttached, [Next]_vars
    PROVE  OwnedKeysAttached'
<1>. SUFFICES ASSUME NEW k \in Key, k \notin stray', kv'[k] \in DOMAIN leases', ~InHand(k)'
              PROVE  k \in leases'[kv'[k]].keys
  BY DEF OwnedKeysAttached, InHand, Granted
<1>1. \A j \in Key : j \notin stray /\ kv[j] \in Granted /\ ~InHand(j) => j \in leases[kv[j]].keys
  BY DEF OwnedKeysAttached, InHand
<1>2. CASE ApplyPut
  <2>1. /\ pc' = "attach" /\ UNCHANGED <<log, stray, leases>> /\ pc = "ready"
        /\ kv' = [kv EXCEPT ![Head(log).key] = Head(log).lease]
    BY <1>2 DEF ApplyPut
  <2>2. k # Head(log).key /\ kv'[k] = kv[k]
    BY <2>1 DEF InHand, TypeOK
  <2>. QED
    BY <1>1, <2>1, <2>2 DEF InHand, Granted
<1>3. CASE AttachLease
  <2>1. /\ pc = "attach" /\ UNCHANGED kv /\ log # <<>>
        /\ stray' = IF Head(log).lease \in Granted THEN stray \ {Head(log).key}
                    ELSE stray \cup {Head(log).key}
        /\ leases' = IF Head(log).lease = NoLease THEN leases
                     ELSE Attach(Head(log).lease, Head(log).key)
    BY <1>3 DEF AttachLease, TypeOK
  <2>2. Head(log).key \in Key /\ NoLease \notin Granted
    BY <2>1, HeadOfLog, LeaseTypes
  <2>3. /\ SameTerms(Attach(Head(log).lease, Head(log).key))
        /\ OthersKept(Attach(Head(log).lease, Head(log).key), Head(log).lease, Head(log).key)
        /\ Head(log).lease \in Granted =>
              Head(log).key \in Attach(Head(log).lease, Head(log).key)[Head(log).lease].keys
    BY <2>2, AttachResult
  <2>4. CASE k = Head(log).key
    <3>1. Head(log).lease \in Granted /\ kv[k] = Head(log).lease
      BY <2>1, <2>4 DEF EntryInHand
    <3>2. leases' = Attach(Head(log).lease, Head(log).key)
      BY <2>1, <2>2, <3>1
    <3>. QED
      BY <2>1, <2>3, <2>4, <3>1, <3>2
  <2>5. CASE k # Head(log).key
    <3>1. k \notin stray /\ ~InHand(k) /\ kv'[k] = kv[k]
      BY <2>1, <2>5 DEF InHand
    <3>2. CASE leases' = leases
      BY <1>1, <3>1, <3>2 DEF Granted
    <3>3. CASE leases' = Attach(Head(log).lease, Head(log).key)
      <4>1. kv[k] \in Granted
        BY <2>3, <3>1, <3>3 DEF SameTerms
      <4>2. k \in leases[kv[k]].keys
        BY <1>1, <3>1, <4>1
      <4>. QED
        BY <2>3, <2>5, <3>1, <3>3, <4>1, <4>2 DEF OthersKept
    <3>. QED
      BY <2>1, <3>2, <3>3
  <2>. QED
    BY <2>4, <2>5
<1>4. CASE DetachLease
  <2>1. /\ pc = "ready" /\ pc' = "delete" /\ UNCHANGED <<kv, stray, log>> /\ log # <<>>
        /\ leases' = Detach(kv[Head(log).key], Head(log).key)
    BY <1>4 DEF DetachLease
  <2>2. Head(log).key \in Key
    BY <2>1, HeadOfLog
  <2>3. /\ SameTerms(leases')
        /\ OthersKept(leases', kv[Head(log).key], Head(log).key)
    BY <2>1, <2>2, DetachResult
  <2>4. k # Head(log).key /\ ~InHand(k) /\ kv'[k] = kv[k] /\ k \notin stray
    BY <2>1 DEF InHand
  <2>5. kv[k] \in Granted /\ k \in leases[kv[k]].keys
    BY <1>1, <2>3, <2>4 DEF SameTerms
  <2>. QED
    BY <2>3, <2>4, <2>5 DEF OthersKept
<1>5. CASE ApplyDelete
  <2>1. /\ pc = "delete" /\ UNCHANGED <<stray, leases>>
        /\ kv' = [kv EXCEPT ![Head(log).key] = Absent]
    BY <1>5 DEF ApplyDelete
  <2>2. k # Head(log).key /\ kv'[k] = kv[k]
    BY <2>1, LeaseTypes DEF TypeOK, Granted
  <2>. QED
    BY <1>1, <2>1, <2>2 DEF InHand, Granted
<1>6. CASE ~Apply
  <2>1. UNCHANGED storeVars
    BY <1>6, OtherSteps
  <2>2. pc # "ready" => Head(log') = Head(log)
    BY <1>6, HeadKept
  <2>3. ~InHand(k) /\ kv'[k] = kv[k] /\ k \notin stray
    BY <2>1, <2>2 DEF InHand, storeVars
  <2>4. CASE UNCHANGED leases
    BY <1>1, <2>3, <2>4 DEF Granted
  <2>5. ASSUME NEW ttl \in TTL, LeaseGrant(ttl) PROVE k \in leases'[kv'[k]].keys
    <3>1. /\ DOMAIN leases' = Granted \cup {next_id} /\ next_id \in LeaseId /\ next_id \in Nat
          /\ \A i \in Granted \ {next_id} : leases'[i] = leases[i]
      BY <2>5, GrantResult, LeaseTypes
    <3>2. kv[k] \in LeaseId => kv[k] < next_id
      BY <2>3 DEF EarlyPutsStray
    <3>3. kv[k] # next_id
      BY <3>1, <3>2
    <3>4. kv[k] \in Granted /\ leases'[kv[k]] = leases[kv[k]]
      BY <2>3, <3>1, <3>3
    <3>. QED
      BY <1>1, <2>3, <3>4
  <2>6. ASSUME NEW ids \in SUBSET Granted, leases' = Without(ids)
        PROVE  k \in leases'[kv'[k]].keys
    <3>1. DOMAIN leases' = Granted \ ids /\ \A i \in Granted \ ids : leases'[i] = leases[i]
      BY <2>6, WithoutResult
    <3>. QED
      BY <1>1, <2>3, <3>1
  <2>7. CASE \E id \in LeaseId : leases' = Renew(id)
    <3>1. DOMAIN leases' = Granted /\ \A i \in Granted : leases'[i].keys = leases[i].keys
      BY <2>7, RenewResult
    <3>. QED
      BY <1>1, <2>3, <3>1
  <2>. QED
    BY <1>6, <2>4, <2>5, <2>6, <2>7, LeasesSteps DEF Apply
<1>. QED
  BY <1>2, <1>3, <1>4, <1>5, <1>6 DEF Apply

-----------------------------------------------------------------------------
(* The theorems *)

LEMMA InitIndInv == Init => IndInv /\ NeverTooLong
<1>. SUFFICES ASSUME Init PROVE IndInv /\ NeverTooLong
  OBVIOUS
<1>1. Granted = {} /\ MaxLeases \in Nat /\ MaxTime \in Nat
  BY LeaseAssumption DEF Init, Granted
<1>2. \A k \in Key : kv[k] = Absent /\ Absent \notin LeaseId
  BY <1>1 DEF Init, Absent, LeaseId
<1>3. TypeOK
  BY <1>1 DEF Init, TypeOK
<1>. QED
  BY <1>1, <1>2, <1>3
     DEF IndInv, IdsGivenOut, EntryInHand, EarlyPutsStray, OwnedKeysAttached, NeverTooLong,
         Init

LEMMA StepIndInv == IndInv /\ [Next]_vars => IndInv'
BY TypeStep, IdsStep, HandStep, StrayStep, OwnedStep DEF IndInv

\* What is known of leases, of the entry the worker is at and of puts that came before their
\* lease is kept by every call of LeaseManager and every step of its callers.
THEOREM Inductive == Spec => []IndInv
<1>. QED
  BY InitIndInv, StepIndInv, PTL DEF Spec

\* The types of LeaseManager's map, of the log and of the callbacks' lists.
THEOREM TypeCorrect == Spec => []TypeOK
<1>1. IndInv => TypeOK
  BY DEF IndInv
<1>. QED
  BY <1>1, Inductive, PTL

\* AttachLease and DetachLease keep what a lease holds in step with the store: a key that
\* belongs to a living lease goes with it.
THEOREM OwnedKeysGoAlong == Spec => []OwnedKeysAttached
<1>1. IndInv => OwnedKeysAttached
  BY DEF IndInv
<1>. QED
  BY <1>1, Inductive, PTL

\* Renew counts from now, however late it comes: no lease has more than its time to live.
THEOREM LeaseNeverTooLong == Spec => []NeverTooLong
<1>1. IndInv /\ NeverTooLong /\ [Next]_vars => NeverTooLong'
  BY TooLongStep DEF IndInv
<1>. QED
  BY <1>1, InitIndInv, Inductive, PTL DEF Spec
=============================================================================
