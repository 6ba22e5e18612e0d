-------------------------------- MODULE Watch --------------------------------
(***************************************************************************)
(* Watchers on one node: WatchManager and Watcher (watcher.cpp) with their *)
(* callers in EtcdServer (etcd_server.cpp).                                *)
(*                                                                         *)
(* Threads: the one that applies entries (one at a time, under RaftNode's  *)
(* mu_), the clients' watch requests, and those that cancel watchers.      *)
(* Each critical section of WatchManager::mu_ or Watcher::event_mu is a    *)
(* step; so is each notification of event_cv, which follows the release of *)
(* event_mu.  Of an event its type, key and revision are kept; a key or a  *)
(* prefix to watch is the set of keys that match it.                       *)
(***************************************************************************)
EXTENDS Naturals, Sequences, FiniteSets, Functions

CONSTANTS
    Key,
    Pattern,            \* sets of keys
    StartRev,           \* the values a request may carry
    Client,             \* threads that serve watch requests
    kMaxEventQueueSize,
    MaxBatch,           \* events of one answer
    MaxWatches,         \* bound: watch requests
    MaxEvents           \* bound: entries applied

ASSUME WatchAssumption ==
    /\ Pattern \subseteq SUBSET Key /\ StartRev \subseteq Nat
    /\ kMaxEventQueueSize \in Nat \ {0} /\ MaxBatch \in Nat \ {0, 1}
    /\ {MaxWatches, MaxEvents} \subseteq Nat

WatchId == 1 .. MaxWatches
NoId    == 0
Event   == [type : {"PUT", "DELETE"}, key : Key, mod_revision : 0 .. MaxEvents]
Watcher == [keys : Pattern, start_rev : StartRev]

\* Of a watcher: before Watch; in watchers_; in a Cancel before and after the flag is set;
\* and once that has notified.
Status == {"none", "registered", "erased", "marked", "cancelled"}

VARIABLES
    revision,   \* the last one AllocateRevision gave
    pending,    \* the event ProcessRaftEntries has made and not yet notified: <<>> or one
    event,      \* the event Notify is pushing: <<>> or one
    matched,    \* the watchers it has still to push it to
    waking,     \* the watcher whose event_cv PushEvent is to notify, or NoId
    watcher,    \* watchers_, with those that were erased
    status,
    queue,      \* Watcher::events
    pc, id,     \* of each client: where in EtcdServer::Watch, and its watcher
    batch,      \* number of events collected for the client's answer
    history,    \* history: the events notified so far
    span,       \* history: what of it each watcher was registered for
    got,        \* history: the events each watcher's request has taken
    dropped     \* history: how many each watcher's queue has dropped

applier == <<pending, event, matched>>
clients == <<pc, id, batch>>
vars == <<revision, applier, waking, watcher, status, queue, clients, history, span, got, dropped>>

Init ==
    /\ revision = 0
    /\ pending = <<>> /\ event = <<>> /\ matched = {} /\ waking = NoId
    /\ watcher = [i \in {} |-> 0]
    /\ status = [i \in WatchId |-> "none"]
    /\ queue = [i \in WatchId |-> <<>>]
    /\ pc = [c \in Client |-> "idle"] /\ id = [c \in Client |-> NoId]
    /\ batch = [c \in Client |-> 0]
    /\ history = <<>>
    /\ span = [i \in WatchId |-> [from |-> MaxEvents, to |-> MaxEvents]]
    /\ got = [i \in WatchId |-> <<>>] /\ dropped = [i \in WatchId |-> 0]

Registered == {i \in WatchId : status[i] = "registered"}
Cancelled  == {i \in WatchId : status[i] \in {"marked", "cancelled"}}

-----------------------------------------------------------------------------
(* The applying thread: ProcessRaftEntries *)

Applying == pending = <<>> /\ event = <<>> /\ waking = NoId /\ Len(history) < MaxEvents

ApplyPut(k) ==
    /\ Applying
    /\ revision' = revision + 1
    /\ pending' = <<[type |-> "PUT", key |-> k, mod_revision |-> revision + 1]>>
    /\ UNCHANGED <<event, matched, waking, watcher, status, queue, clients, history, span, got, dropped>>

\* A deletion has a revision, whether or not the key was there, and its event has none.
ApplyDelete(k) ==
    /\ Applying
    /\ revision' = revision + 1
    /\ pending' = <<[type |-> "DELETE", key |-> k, mod_revision |-> 0]>>
    /\ UNCHANGED <<event, matched, waking, watcher, status, queue, clients, history, span, got, dropped>>

Matches(w, e) == e.key \in w.keys /\ e.mod_revision > w.start_rev

\* Notify under mu_: the matching watchers are collected (one that is cancelled has left
\* watchers_ before its flag is set),
Notify ==
    /\ pending # <<>>
    /\ matched' = {i \in Registered : Matches(watcher[i], pending[1])}
    /\ event' = IF matched' = {} THEN <<>> ELSE pending
    /\ pending' = <<>>
    /\ history' = history \o pending
    /\ UNCHANGED <<revision, waking, watcher, status, queue, clients, span, got, dropped>>

\* Mutant: room is made only when the limit is exceeded.
MutantRoomLate(q) == IF Len(q) > kMaxEventQueueSize THEN Tail(q) ELSE q

Room(q) == IF Len(q) >= kMaxEventQueueSize THEN Tail(q) ELSE q

\* Mutant: a full queue takes no more.
MutantPushedIfRoom(q, e) == IF Len(q) >= kMaxEventQueueSize THEN q ELSE Append(q, e)

Pushed(q, e) == Append(Room(q), e)

\* and without mu_ the event is pushed to each of them,
PushEvent ==
    /\ waking = NoId
    /\ \E i \in matched :
        /\ \A j \in matched : i <= j
        /\ queue' = [queue EXCEPT ![i] = Pushed(@, event[1])]
        /\ dropped' = [dropped EXCEPT ![i] = @ + Len(queue[i]) + 1 - Len(queue'[i])]
        /\ matched' = matched \ {i}
        /\ event' = IF matched' = {} THEN <<>> ELSE event
        /\ waking' = i
    /\ UNCHANGED <<revision, pending, watcher, status, clients, history, span, got>>

\* The thread that waits for watcher i, if there is one, is to look again.
Woken(i) == [c \in Client |-> IF pc[c] = "asleep" /\ id[c] = i THEN "look" ELSE pc[c]]

\* each time with a notification of its own.
NotifyOne ==
    /\ waking # NoId
    /\ pc' = Woken(waking)
    /\ waking' = NoId
    /\ UNCHANGED <<revision, applier, watcher, status, queue, id, batch, history, span, got, dropped>>

-----------------------------------------------------------------------------
(* WatchCancel *)

\* Cancel under mu_,
CancelErase(i) ==
    /\ i \in Registered
    /\ status' = [status EXCEPT ![i] = "erased"]
    /\ span' = [span EXCEPT ![i].to = Len(history)]
    /\ UNCHANGED <<revision, applier, waking, watcher, queue, clients, history, got, dropped>>

\* then under event_mu,
CancelMark(i) ==
    /\ status[i] = "erased"
    /\ status' = [status EXCEPT ![i] = "marked"]
    /\ UNCHANGED <<revision, applier, waking, watcher, queue, clients, history, span, got, dropped>>

\* Mutant: whoever waits is not told of the cancellation.
MutantToldOfCancel(i) == pc

ToldOfCancel(i) == Woken(i)

\* then without either.
CancelNotify(i) ==
    /\ status[i] = "marked"
    /\ pc' = ToldOfCancel(i)
    /\ status' = [status EXCEPT ![i] = "cancelled"]
    /\ UNCHANGED <<revision, applier, waking, watcher, queue, id, batch, history, span, got, dropped>>

-----------------------------------------------------------------------------
(* EtcdServer::Watch *)

\* WatchManager::Watch
Register(c, keys, start_rev) ==
    /\ pc[c] = "idle"
    /\ \E i \in WatchId :
        /\ status[i] = "none" /\ \A j \in 1 .. i - 1 : status[j] # "none"
        /\ watcher' = [j \in DOMAIN watcher \cup {i} |->
                          IF j = i THEN [keys |-> keys, start_rev |-> start_rev] ELSE watcher[j]]
        /\ status' = [status EXCEPT ![i] = "registered"]
        /\ span' = [span EXCEPT ![i].from = Len(history)]
        /\ id' = [id EXCEPT ![c] = i]
    /\ pc' = [pc EXCEPT ![c] = "registered"]
    /\ UNCHANGED <<revision, applier, waking, queue, batch, history, got, dropped>>

\* GetWatcher, which finds nothing after a Cancel: the answer is an error.
GetWatcher(c) ==
    /\ pc[c] = "registered"
    /\ pc' = [pc EXCEPT ![c] = IF id[c] \in Registered THEN "look" ELSE "idle"]
    /\ UNCHANGED <<revision, applier, waking, watcher, status, queue, id, batch, history, span, got, dropped>>

Take(c) ==
    /\ queue[id[c]] # <<>>
    /\ queue' = [queue EXCEPT ![id[c]] = Tail(@)]
    /\ got' = [got EXCEPT ![id[c]] = Append(@, Head(queue[id[c]]))]

Answer(c) ==
    /\ pc' = [pc EXCEPT ![c] = "idle"]
    /\ batch' = [batch EXCEPT ![c] = 0]
    /\ UNCHANGED <<queue, got>>

\* One event more, and the answer when it is full.
Collect(c) ==
    /\ Take(c)
    /\ IF batch[c] + 1 >= MaxBatch
       THEN /\ pc' = [pc EXCEPT ![c] = "idle"] /\ batch' = [batch EXCEPT ![c] = 0]
       ELSE /\ pc' = [pc EXCEPT ![c] = "drain"] /\ batch' = [batch EXCEPT ![c] = @ + 1]

\* WaitForEvent under event_mu: an event, or the answer without one, or sleep.
Look(c) ==
    /\ pc[c] = "look"
    /\ \/ Collect(c)
       \/ queue[id[c]] = <<>> /\ id[c] \in Cancelled /\ Answer(c)
       \/ /\ queue[id[c]] = <<>> /\ id[c] \notin Cancelled
          /\ pc' = [pc EXCEPT ![c] = "asleep"]
          /\ UNCHANGED <<queue, got, batch>>
    /\ UNCHANGED <<revision, applier, waking, watcher, status, id, history, span, dropped>>

\* The 30 seconds are over: whatever there is now.
Timeout(c) ==
    /\ pc[c] = "asleep"
    /\ Collect(c) \/ (queue[id[c]] = <<>> /\ Answer(c))
    /\ UNCHANGED <<revision, applier, waking, watcher, status, id, history, span, dropped>>

\* WaitForEvent(0), as long as there are events. The watcher stays registered.
Drain(c) ==
    /\ pc[c] = "drain"
    /\ Collect(c) \/ (queue[id[c]] = <<>> /\ Answer(c))
    /\ UNCHANGED <<revision, applier, waking, watcher, status, id, history, span, dropped>>

-----------------------------------------------------------------------------
ApplierStep == Notify \/ PushEvent \/ NotifyOne
CancelStep(i) == CancelMark(i) \/ CancelNotify(i)
ClientStep(c) == GetWatcher(c) \/ Look(c) \/ Drain(c)

Next ==
    \/ \E k \in Key : ApplyPut(k) \/ ApplyDelete(k)
    \/ ApplierStep
    \/ \E i \in WatchId : CancelErase(i) \/ CancelStep(i)
    \/ \E c \in Client : ClientStep(c) \/ Timeout(c)
    \/ \E c \in Client, keys \in Pattern, start_rev \in StartRev : Register(c, keys, start_rev)

Spec == Init /\ [][Next]_vars

\* Threads run; no entry need come, no client ask or cancel, and no wait need time out.
FairSpec ==
    /\ Spec /\ WF_vars(ApplierStep)
    /\ \A i \in WatchId : WF_vars(CancelStep(i))
    /\ \A c \in Client : WF_vars(ClientStep(c))

-----------------------------------------------------------------------------
TypeOK ==
    /\ revision \in 0 .. MaxEvents
    /\ {pending, event} \subseteq {<<>>} \cup {<<e>> : e \in Event}
    /\ matched \subseteq WatchId /\ (matched = {} <=> event = <<>>)
    /\ waking \in WatchId \cup {NoId}
    /\ status \in [WatchId -> Status]
    /\ DOMAIN watcher = {i \in WatchId : status[i] # "none"}
    /\ \A i \in DOMAIN watcher : watcher[i] \in Watcher
    /\ queue \in [WatchId -> Seq(Event)]
    /\ \A i \in WatchId : Len(queue[i]) <= kMaxEventQueueSize
    /\ pc \in [Client -> {"idle", "registered", "look", "asleep", "drain"}]
    /\ id \in [Client -> WatchId \cup {NoId}]
    /\ batch \in [Client -> 0 .. MaxBatch - 1]

(***************************************************************************)
(* What a watcher is due: the puts of its keys above its start revision,   *)
(* from its registration to its cancellation, whatever else was notified,  *)
(* registered or cancelled meanwhile.  All of it has been taken by the     *)
(* request, or dropped, or is in the queue, which holds the latest, or is  *)
(* about to be pushed; nothing twice and nothing out of order.             *)
(***************************************************************************)
IsDue(i, e) ==
    e.type = "PUT" /\ e.key \in watcher[i].keys /\ e.mod_revision > watcher[i].start_rev

Span(i) == span[i].from + 1 .. IF i \in Registered THEN Len(history) ELSE span[i].to
Due(i)  == {history[j] : j \in {j \in Span(i) : IsDue(i, history[j])}}

Coming(i) == IF i \in matched THEN event ELSE <<>>
Held(i)   == queue[i] \o Coming(i)

InOrder(s) == \A m, n \in DOMAIN s : m < n => s[m].mod_revision < s[n].mod_revision

DueDelivered ==
    \A i \in DOMAIN watcher :
        /\ Range(got[i] \o Held(i)) \subseteq Due(i) /\ InOrder(got[i] \o Held(i))
        /\ Len(got[i] \o Held(i)) + dropped[i] = Cardinality(Due(i))
        /\ \A e \in Due(i), n \in DOMAIN Held(i) :
              e.mod_revision > Held(i)[n].mod_revision => e \in Range(Held(i))

\* A deletion of a watched key, notified after the first event since the registration, is
\* taken or in the queue like any other event, if the queue has dropped nothing (DESIGN.md
\* lists PUT and DELETE as the types of events).
DeletionsDelivered ==
    \A i \in Registered, j \in 1 .. Len(history) :
        /\ j > span[i].from + 1 /\ history[j].type = "DELETE" /\ history[j].key \in watcher[i].keys
        /\ i \notin matched /\ dropped[i] = 0
        => \E n \in 1 .. Len(got[i] \o queue[i]) : (got[i] \o queue[i])[n] = history[j]

(***************************************************************************)
(* An event or a cancellation ends the wait of the request, not only its   *)
(* time-out: between the look at queue and flag and the sleep no           *)
(* notification is lost.                                                   *)
(***************************************************************************)
EventEndsWait ==
    \A c \in Client :
        (pc[c] = "asleep" /\ (queue[id[c]] # <<>> \/ id[c] \in Cancelled)) ~> pc[c] # "asleep"
=============================================================================
