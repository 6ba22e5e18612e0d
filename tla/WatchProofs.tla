----------------------------- MODULE WatchProofs -----------------------------
(***************************************************************************)
(* That a watcher gets what it is due: proofs about WatchManager, Watcher  *)
(* and their callers, for every set of keys, patterns and clients and all  *)
(* sizes of queues and answers.                                            *)
(***************************************************************************)
EXTENDS Watch, SequenceTheorems, FiniteSetTheorems, TLAPS

GhostTypes ==
    /\ history \in Seq(Event)
    /\ span \in [WatchId -> [from : 0 .. MaxEvents, to : 0 .. MaxEvents]]
    /\ got \in [WatchId -> Seq(Event)] /\ dropped \in [WatchId -> Nat]

\* A put has the number of its entry for its revision, a deletion none.
Numbered(e, j) == e.mod_revision = IF e.type = "PUT" THEN j ELSE 0

\* Entries are numbered one by one, and notified one by one: there is no other while one
\* is being pushed.
EntriesNumbered ==
    /\ revision = Len(history) + Len(pending)
    /\ \A j \in 1 .. Len(history) : Numbered(history[j], j)
    /\ pending # <<>> => Numbered(pending[1], revision) /\ event = <<>>
    /\ matched # {} => history # <<>> /\ event = <<history[Len(history)]>>

\* What a watcher was registered for is a stretch of what was notified, up to the event
\* that is on its way to it.
SpansHeld ==
    \A i \in DOMAIN watcher :
        /\ span[i].from <= Len(history)
        /\ status[i] # "registered" => span[i].from <= span[i].to /\ span[i].to <= Len(history)
        /\ i \in matched => Len(history) \in Span(i) /\ IsDue(i, history[Len(history)])
        /\ IsFiniteSet(Due(i))

\* A watcher that is not there yet has nothing.
UnusedEmpty ==
    \A i \in WatchId \ DOMAIN watcher :
        i \notin matched /\ queue[i] = <<>> /\ got[i] = <<>> /\ dropped[i] = 0

\* A request that is at work has a watcher.
RequestsKnown == \A c \in Client : pc[c] # "idle" => id[c] \in DOMAIN watcher

\* For every request that sleeps while its watcher has an event, or is about to be marked
\* as cancelled for it, a notification is still to come.
SleeperIsWoken ==
    \A c \in Client : pc[c] = "asleep" =>
        /\ queue[id[c]] # <<>> => waking = id[c]
        /\ status[id[c]] # "cancelled"

\* What DueDelivered says of one watcher, with what was taken and what is held apart.
Delivered(taken, held, due, lost) ==
    /\ \A m \in 1 .. Len(taken) : taken[m] \in due
    /\ \A n \in 1 .. Len(held) : held[n] \in due
    /\ \A m, n \in 1 .. Len(taken) :
          m < n => taken[m].mod_revision < taken[n].mod_revision
    /\ \A m, n \in 1 .. Len(held) : m < n => held[m].mod_revision < held[n].mod_revision
    /\ \A m \in 1 .. Len(taken) : \A n \in 1 .. Len(held) :
          taken[m].mod_revision < held[n].mod_revision
    /\ Len(taken) + Len(held) + lost = Cardinality(due)
    /\ \A e \in due : \A n \in 1 .. Len(held) :
          e.mod_revision > held[n].mod_revision => \E m \in 1 .. Len(held) : held[m] = e

Accounted == \A i \in DOMAIN watcher : Delivered(got[i], Held(i), Due(i), dropped[i])

IndInv ==
    /\ TypeOK /\ GhostTypes /\ EntriesNumbered /\ SpansHeld /\ UnusedEmpty /\ RequestsKnown
    /\ SleeperIsWoken /\ Accounted

-----------------------------------------------------------------------------
(* What was taken and what is held, of what is due *)

\* The same, said of the two sequences in one.
LEMMA DeliveredJoined ==
    ASSUME NEW g \in Seq(Event), NEW h \in Seq(Event), NEW due, NEW lost \in Nat
    PROVE  Delivered(g, h, due, lost) <=>
              /\ Range(g \o h) \subseteq due /\ InOrder(g \o h)
              /\ Len(g \o h) + lost = Cardinality(due)
              /\ \A e \in due, n \in DOMAIN h :
                    e.mod_revision > h[n].mod_revision => e \in Range(h)
<1>1. /\ Len(g) \in Nat /\ Len(h) \in Nat /\ g \o h \in Seq(Event)
      /\ Len(g \o h) = Len(g) + Len(h)
      /\ DOMAIN h = 1 .. Len(h) /\ DOMAIN (g \o h) = 1 .. Len(g) + Len(h)
      /\ \A i \in 1 .. Len(g) + Len(h) :
            (g \o h)[i] = IF i <= Len(g) THEN g[i] ELSE h[i - Len(g)]
  BY ConcatProperties, LenProperties
<1>2. /\ \A m \in 1 .. Len(g) : m \in 1 .. Len(g) + Len(h) /\ (g \o h)[m] = g[m]
      /\ \A n \in 1 .. Len(h) :
            n + Len(g) \in 1 .. Len(g) + Len(h) /\ (g \o h)[n + Len(g)] = h[n]
      /\ \A i \in 1 .. Len(g) + Len(h) : i \in 1 .. Len(g) \/ i - Len(g) \in 1 .. Len(h)
  BY <1>1
<1>3. Range(g \o h) \subseteq due <=>
        /\ \A m \in 1 .. Len(g) : g[m] \in due
        /\ \A n \in 1 .. Len(h) : h[n] \in due
  <2>1. Range(g \o h) \subseteq due <=> \A i \in 1 .. Len(g) + Len(h) : (g \o h)[i] \in due
    BY <1>1 DEF Range
  <2>2. ASSUME \A i \in 1 .. Len(g) + Len(h) : (g \o h)[i] \in due
        PROVE  /\ \A m \in 1 .. Len(g) : g[m] \in due
               /\ \A n \in 1 .. Len(h) : h[n] \in due
    BY <1>2, <2>2
  <2>3. ASSUME \A m \in 1 .. Len(g) : g[m] \in due, \A n \in 1 .. Len(h) : h[n] \in due,
               NEW i \in 1 .. Len(g) + Len(h)
        PROVE  (g \o h)[i] \in due
    BY <1>1, <1>2, <2>3
  <2>. QED
    BY <2>1, <2>2, <2>3
<1>4. InOrder(g \o h) <=>
        /\ \A m, n \in 1 .. Len(g) : m < n => g[m].mod_revision < g[n].mod_revision
        /\ \A m, n \in 1 .. Len(h) : m < n => h[m].mod_revision < h[n].mod_revision
        /\ \A m \in 1 .. Len(g) : \A n \in 1 .. Len(h) : g[m].mod_revision < h[n].mod_revision
  <2>1. InOrder(g \o h) <=> \A i, j \in 1 .. Len(g) + Len(h) :
           i < j => (g \o h)[i].mod_revision < (g \o h)[j].mod_revision
    BY <1>1 DEF InOrder
  <2>2. ASSUME \A i, j \in 1 .. Len(g) + Len(h) :
                  i < j => (g \o h)[i].mod_revision < (g \o h)[j].mod_revision
        PROVE  /\ \A m, n \in 1 .. Len(g) : m < n => g[m].mod_revision < g[n].mod_revision
               /\ \A m, n \in 1 .. Len(h) : m < n => h[m].mod_revision < h[n].mod_revision
               /\ \A m \in 1 .. Len(g) : \A n \in 1 .. Len(h) :
                     g[m].mod_revision < h[n].mod_revision
    <3>1. ASSUME NEW m \in 1 .. Len(g), NEW n \in 1 .. Len(g), m < n
          PROVE  g[m].mod_revision < g[n].mod_revision
      BY <1>2, <2>2, <3>1
    <3>2. ASSUME NEW m \in 1 .. Len(h), NEW n \in 1 .. Len(h), m < n
          PROVE  h[m].mod_revision < h[n].mod_revision
      <4>1. m + Len(g) < n + Len(g)
        BY <1>1, <3>2
      <4>. QED
        BY <1>2, <2>2, <4>1
    <3>3. ASSUME NEW m \in 1 .. Len(g), NEW n \in 1 .. Len(h)
          PROVE  g[m].mod_revision < h[n].mod_revision
      <4>1. m < n + Len(g)
        BY <1>1
      <4>. QED
        BY <1>2, <2>2, <4>1
    <3>. QED
      BY <3>1, <3>2, <3>3
  <2>3. ASSUME \A m, n \in 1 .. Len(g) : m < n => g[m].mod_revision < g[n].mod_revision,
               \A m, n \in 1 .. Len(h) : m < n => h[m].mod_revision < h[n].mod_revision,
               \A m \in 1 .. Len(g) : \A n \in 1 .. Len(h) :
                  g[m].mod_revision < h[n].mod_revision,
               NEW i \in 1 .. Len(g) + Len(h), NEW j \in 1 .. Len(g) + Len(h), i < j
        PROVE  (g \o h)[i].mod_revision < (g \o h)[j].mod_revision
    <3>1. CASE j <= Len(g)
      <4>1. i \in 1 .. Len(g) /\ j \in 1 .. Len(g)
        BY <1>1, <2>3, <3>1
      <4>. QED
        BY <1>2, <2>3, <4>1
    <3>2. CASE ~(j <= Len(g)) /\ i <= Len(g)
      <4>1. i \in 1 .. Len(g) /\ j - Len(g) \in 1 .. Len(h)
        BY <1>1, <3>2
      <4>. QED
        BY <1>1, <2>3, <3>2, <4>1
    <3>3. CASE ~(j <= Len(g)) /\ ~(i <= Len(g))
      <4>1. /\ i - Len(g) \in 1 .. Len(h) /\ j - Len(g) \in 1 .. Len(h)
            /\ i - Len(g) < j - Len(g)
        BY <1>1, <2>3, <3>3
      <4>. QED
        BY <1>1, <2>3, <3>3, <4>1
    <3>. QED
      BY <3>1, <3>2, <3>3
  <2>. QED
    BY <2>1, <2>2, <2>3
<1>5. \A e : e \in Range(h) <=> \E m \in 1 .. Len(h) : h[m] = e
  BY <1>1 DEF Range
<1>6. Len(g \o h) + lost = Len(g) + Len(h) + lost
  BY <1>1
<1>. QED
  BY <1>1, <1>3, <1>4, <1>5, <1>6 DEF Delivered

\* Revisions are numbers, and the head of a sequence is followed by its tail.
LEMMA HeadThenTail ==
    ASSUME NEW h \in Seq(Event), h # <<>>
    PROVE  /\ 1 \in 1 .. Len(h) /\ Head(h) = h[1] /\ h[1] \in Event
           /\ Tail(h) \in Seq(Event) /\ Len(Tail(h)) = Len(h) - 1
           /\ \A n \in 1 .. Len(Tail(h)) : n + 1 \in 1 .. Len(h) /\ Tail(h)[n] = h[n + 1]
           /\ \A m \in 1 .. Len(h) : m = 1 \/ (m - 1 \in 1 .. Len(Tail(h)) /\ Tail(h)[m - 1] = h[m])
<1>1. Len(h) \in Nat \ {0}
  BY EmptySeq
<1>2. 1 \in 1 .. Len(h) /\ Head(h) = h[1] /\ h[1] \in Event
  BY <1>1, ElementOfSeq
<1>3. /\ Tail(h) \in Seq(Event) /\ Len(Tail(h)) = Len(h) - 1
      /\ \A n \in 1 .. Len(Tail(h)) : Tail(h)[n] = h[n + 1]
  BY HeadTailProperties
<1>4. \A n \in 1 .. Len(Tail(h)) : n + 1 \in 1 .. Len(h)
  BY <1>1, <1>3
<1>5. ASSUME NEW m \in 1 .. Len(h), m # 1
      PROVE  m - 1 \in 1 .. Len(Tail(h)) /\ Tail(h)[m - 1] = h[m]
  <2>1. m - 1 \in 1 .. Len(Tail(h)) /\ (m - 1) + 1 = m
    BY <1>1, <1>3, <1>5
  <2>. QED
    BY <1>3, <2>1
<1>6. \A m \in 1 .. Len(h) : m = 1 \/ (m - 1 \in 1 .. Len(Tail(h)) /\ Tail(h)[m - 1] = h[m])
  BY <1>5
<1>. QED
  BY <1>2, <1>3, <1>4, <1>6

LEMMA RevisionType ==
    ASSUME NEW s \in Seq(Event), NEW i \in 1 .. Len(s)
    PROVE  s[i].mod_revision \in Nat
<1>1. s[i] \in Event /\ MaxEvents \in Nat
  BY ElementOfSeq, WatchAssumption
<1>. QED
  BY <1>1 DEF Event

\* An event that leaves the front of the queue is the oldest of what is held: what stays is
\* still in order, and still the latest.
LEMMA FrontLeaves ==
    ASSUME NEW g \in Seq(Event), NEW h \in Seq(Event), NEW due, NEW lost \in Nat,
           h # <<>>, Delivered(g, h, due, lost)
    PROVE  Delivered(g, Tail(h), due, lost + 1)
<1>. DEFINE t == Tail(h)
<1>1. /\ Tail(h) \in Seq(Event) /\ Len(t) = Len(h) - 1 /\ 1 \in 1 .. Len(h)
      /\ \A n \in 1 .. Len(t) : n + 1 \in 1 .. Len(h) /\ t[n] = h[n + 1]
      /\ \A m \in 1 .. Len(h) : m = 1 \/ (m - 1 \in 1 .. Len(t) /\ t[m - 1] = h[m])
  BY HeadThenTail
<1>. HIDE DEF t
<1>2. Len(g) \in Nat /\ Len(h) \in Nat /\ Len(t) \in Nat
  BY <1>1 DEF t
<1>3. /\ \A m \in 1 .. Len(g) : g[m] \in due
      /\ \A n \in 1 .. Len(t) : t[n] \in due
      /\ \A m, n \in 1 .. Len(g) : m < n => g[m].mod_revision < g[n].mod_revision
      /\ \A m \in 1 .. Len(g) : \A n \in 1 .. Len(t) : g[m].mod_revision < t[n].mod_revision
  BY <1>1 DEF Delivered
<1>4. ASSUME NEW m \in 1 .. Len(t), NEW n \in 1 .. Len(t), m < n
      PROVE  t[m].mod_revision < t[n].mod_revision
  <2>1. m + 1 < n + 1
    BY <1>4
  <2>. QED
    BY <1>1, <2>1 DEF Delivered
<1>5. Len(g) + Len(t) + (lost + 1) = Cardinality(due)
  <2>1. Len(g) + Len(h) + lost = Cardinality(due)
    BY DEF Delivered
  <2>. QED
    BY <1>1, <1>2, <2>1
<1>6. ASSUME NEW e \in due, NEW n \in 1 .. Len(t), e.mod_revision > t[n].mod_revision
      PROVE  \E m \in 1 .. Len(t) : t[m] = e
  <2>1. n + 1 \in 1 .. Len(h) /\ t[n] = h[n + 1] /\ 1 < n + 1
    BY <1>1
  <2>2. PICK m \in 1 .. Len(h) : h[m] = e
    BY <1>6, <2>1 DEF Delivered
  <2>3. h[1].mod_revision < h[n + 1].mod_revision
    BY <1>1, <2>1 DEF Delivered
  <2>4. h[1].mod_revision \in Nat /\ h[n + 1].mod_revision \in Nat
    BY <1>1, <2>1, RevisionType
  <2>5. m # 1
    BY <1>6, <2>1, <2>2, <2>3, <2>4
  <2>. QED
    BY <1>1, <2>2, <2>5
<1>. QED
  BY <1>3, <1>4, <1>5, <1>6 DEF Delivered, t

\* The event the request takes is the oldest held, and later than all it took before.
LEMMA FrontTaken ==
    ASSUME NEW g \in Seq(Event), NEW h \in Seq(Event), NEW due, NEW lost \in Nat,
           h # <<>>, Delivered(g, h, due, lost)
    PROVE  Delivered(Append(g, Head(h)), Tail(h), due, lost)
<1>. DEFINE t == Tail(h)
            k == Append(g, Head(h))
<1>1. /\ 1 \in 1 .. Len(h) /\ Head(h) = h[1] /\ h[1] \in Event
      /\ t \in Seq(Event) /\ Len(t) = Len(h) - 1
      /\ \A n \in 1 .. Len(t) : n + 1 \in 1 .. Len(h) /\ t[n] = h[n + 1]
  BY HeadThenTail
<1>2. /\ k \in Seq(Event) /\ Len(k) = Len(g) + 1
      /\ \A m \in 1 .. Len(g) : k[m] = g[m]
      /\ k[Len(g) + 1] = h[1]
  BY <1>1, AppendProperties
<1>3. Delivered(g, t, due, lost + 1)
  BY FrontLeaves
<1>. HIDE DEF t, k
<1>4. Len(g) \in Nat /\ Len(h) \in Nat
  OBVIOUS
<1>5. \A m \in 1 .. Len(k) : (m \in 1 .. Len(g) /\ k[m] = g[m]) \/ (m = Len(g) + 1 /\ k[m] = h[1])
  BY <1>2, <1>4
<1>6. \A m \in 1 .. Len(k) : k[m] \in due
  BY <1>1, <1>5 DEF Delivered
<1>7. ASSUME NEW m \in 1 .. Len(k), NEW n \in 1 .. Len(k), m < n
      PROVE  k[m].mod_revision < k[n].mod_revision
  <2>1. m \in 1 .. Len(g) /\ k[m] = g[m]
    BY <1>2, <1>4, <1>5, <1>7
  <2>2. CASE n \in 1 .. Len(g) /\ k[n] = g[n]
    BY <1>7, <2>1, <2>2 DEF Delivered
  <2>3. CASE k[n] = h[1]
    BY <1>1, <2>1, <2>3 DEF Delivered
  <2>. QED
    BY <1>5, <2>2, <2>3
<1>8. ASSUME NEW m \in 1 .. Len(k), NEW n \in 1 .. Len(t)
      PROVE  k[m].mod_revision < t[n].mod_revision
  <2>1. CASE m \in 1 .. Len(g) /\ k[m] = g[m]
    BY <1>3, <2>1 DEF Delivered
  <2>2. CASE k[m] = h[1]
    <3>1. n + 1 \in 1 .. Len(h) /\ t[n] = h[n + 1] /\ 1 < n + 1
      BY <1>1
    <3>. QED
      BY <1>1, <2>2, <3>1 DEF Delivered
  <2>. QED
    BY <1>5, <2>1, <2>2
<1>9. Len(k) + Len(t) + lost = Cardinality(due)
  <2>1. Len(g) + Len(h) + lost = Cardinality(due)
    BY DEF Delivered
  <2>. QED
    BY <1>1, <1>2, <1>4, <2>1
<1>. QED
  BY <1>3, <1>6, <1>7, <1>8, <1>9 DEF Delivered, t, k

\* An event that is notified is later than all that were.
LEMMA LatestComes ==
    ASSUME NEW g \in Seq(Event), NEW h \in Seq(Event), NEW due, NEW lost \in Nat,
           NEW e \in Event, IsFiniteSet(due), Delivered(g, h, due, lost),
           \A d \in due : d.mod_revision \in Nat /\ d.mod_revision < e.mod_revision
    PROVE  Delivered(g, Append(h, e), due \cup {e}, lost)
<1>. DEFINE k == Append(h, e)
<1>1. /\ k \in Seq(Event) /\ Len(k) = Len(h) + 1
      /\ \A m \in 1 .. Len(h) : k[m] = h[m]
      /\ k[Len(h) + 1] = e
  BY AppendProperties
<1>. HIDE DEF k
<1>2. Len(g) \in Nat /\ Len(h) \in Nat /\ e.mod_revision \in Nat
  BY WatchAssumption DEF Event
<1>3. /\ \A m \in 1 .. Len(k) : (m \in 1 .. Len(h) /\ k[m] = h[m]) \/ (m = Len(h) + 1 /\ k[m] = e)
      /\ \A m \in 1 .. Len(h) : m \in 1 .. Len(k) /\ k[m] = h[m]
      /\ Len(h) + 1 \in 1 .. Len(k)
  BY <1>1, <1>2
<1>4. \A m \in 1 .. Len(g) : g[m] \in due /\ g[m].mod_revision < e.mod_revision
  BY DEF Delivered
<1>5. \A m \in 1 .. Len(h) : h[m] \in due /\ h[m].mod_revision < e.mod_revision
  BY DEF Delivered
<1>6. \A m \in 1 .. Len(k) : k[m] \in due \cup {e}
  BY <1>3, <1>5
<1>7. ASSUME NEW m \in 1 .. Len(k), NEW n \in 1 .. Len(k), m < n
      PROVE  k[m].mod_revision < k[n].mod_revision
  <2>1. m \in 1 .. Len(h) /\ k[m] = h[m]
    BY <1>1, <1>2, <1>3, <1>7
  <2>. QED
    BY <1>3, <1>5, <1>7, <2>1 DEF Delivered
<1>8. ASSUME NEW m \in 1 .. Len(g), NEW n \in 1 .. Len(k)
      PROVE  g[m].mod_revision < k[n].mod_revision
  BY <1>3, <1>4 DEF Delivered
<1>9. Len(g) + Len(k) + lost = Cardinality(due \cup {e})
  <2>1. Len(g) + Len(h) + lost = Cardinality(due)
    BY DEF Delivered
  <2>2. e \notin due
    BY <1>2
  <2>3. Cardinality(due \cup {e}) = Cardinality(due) + 1 /\ Cardinality(due) \in Nat
    BY <2>2, FS_AddElement, FS_CardinalityType
  <2>. QED
    BY <1>1, <1>2, <2>1, <2>3
<1>10. ASSUME NEW d \in due \cup {e}, NEW n \in 1 .. Len(k),
              d.mod_revision > k[n].mod_revision
       PROVE  \E m \in 1 .. Len(k) : k[m] = d
  <2>1. CASE d = e
    BY <1>1, <1>3, <2>1
  <2>2. CASE d \in due /\ d # e
    <3>1. n \in 1 .. Len(h) /\ k[n] = h[n]
      BY <1>2, <1>3, <1>10, <2>2
    <3>2. PICK m \in 1 .. Len(h) : h[m] = d
      BY <1>10, <2>2, <3>1 DEF Delivered
    <3>. QED
      BY <1>3, <3>2
  <2>. QED
    BY <2>1, <2>2
<1>. QED
  BY <1>4, <1>6, <1>7, <1>8, <1>9, <1>10 DEF Delivered, k

\* A queue has room for one more, and never more than kMaxEventQueueSize.
LEMMA PushedType ==
    ASSUME NEW q \in Seq(Event), NEW e \in Event, Len(q) <= kMaxEventQueueSize
    PROVE  /\ Room(q) \in Seq(Event) /\ Pushed(q, e) \in Seq(Event)
           /\ Len(Pushed(q, e)) = Len(Room(q)) + 1 /\ Len(Room(q)) \in Nat
           /\ Len(Pushed(q, e)) <= kMaxEventQueueSize
           /\ Pushed(q, e) # <<>>
           /\ \/ Room(q) = q
              \/ q # <<>> /\ Room(q) = Tail(q) /\ Len(Room(q)) = Len(q) - 1
<1>1. Len(q) \in Nat /\ kMaxEventQueueSize \in Nat \ {0}
  BY WatchAssumption
<1>2. CASE Len(q) >= kMaxEventQueueSize
  <2>1. q # <<>> /\ Room(q) = Tail(q)
    BY <1>1, <1>2, EmptySeq DEF Room
  <2>2. Room(q) \in Seq(Event) /\ Len(Room(q)) = Len(q) - 1
    BY <2>1, HeadThenTail
  <2>3. Pushed(q, e) \in Seq(Event) /\ Len(Pushed(q, e)) = Len(Room(q)) + 1
    BY <2>2, AppendProperties DEF Pushed
  <2>4. Pushed(q, e) # <<>>
    BY <2>2, AppendProperties DEF Pushed
  <2>5. Len(Room(q)) \in Nat /\ Len(Room(q)) + 1 = Len(q)
    BY <1>1, <1>2, <2>2
  <2>. QED
    BY <2>1, <2>2, <2>3, <2>4, <2>5
<1>3. CASE ~(Len(q) >= kMaxEventQueueSize)
  <2>1. Room(q) = q
    BY <1>3 DEF Room
  <2>2. Pushed(q, e) \in Seq(Event) /\ Len(Pushed(q, e)) = Len(q) + 1 /\ Pushed(q, e) # <<>>
    BY <2>1, AppendProperties DEF Pushed
  <2>. QED
    BY <1>1, <1>3, <2>1, <2>2
<1>. QED
  BY <1>2, <1>3

\* PushEvent drops the oldest of a full queue, and counts it.
LEMMA RoomMade ==
    ASSUME NEW g \in Seq(Event), NEW q \in Seq(Event), NEW due, NEW lost \in Nat,
           NEW e \in Event, Len(q) <= kMaxEventQueueSize,
           Delivered(g, Append(q, e), due, lost)
    PROVE  /\ lost + Len(q) + 1 - Len(Pushed(q, e)) \in Nat
           /\ Delivered(g, Pushed(q, e), due, lost + Len(q) + 1 - Len(Pushed(q, e)))
<1>1. Len(q) \in Nat /\ Len(Pushed(q, e)) = Len(Room(q)) + 1 /\ Len(Room(q)) \in Nat
  BY PushedType
<1>2. CASE Room(q) = q
  <2>1. lost + Len(q) + 1 - Len(Pushed(q, e)) = lost
    BY <1>1, <1>2
  <2>. QED
    BY <1>2, <2>1 DEF Pushed
<1>3. CASE q # <<>> /\ Room(q) = Tail(q) /\ Len(Room(q)) = Len(q) - 1
  <2>1. Append(q, e) \in Seq(Event) /\ Append(q, e) # <<>>
    BY AppendProperties
  <2>2. Tail(Append(q, e)) = Pushed(q, e)
    BY <1>3, HeadTailAppend DEF Pushed
  <2>3. Delivered(g, Pushed(q, e), due, lost + 1)
    BY <2>1, <2>2, FrontLeaves
  <2>4. lost + Len(q) + 1 - Len(Pushed(q, e)) = lost + 1
    BY <1>1, <1>3
  <2>. QED
    BY <2>3, <2>4
<1>. QED
  BY <1>2, <1>3, PushedType

-----------------------------------------------------------------------------
(* What the invariant says of a watcher and of a request *)

LEMMA WatcherTypes ==
    ASSUME TypeOK, GhostTypes, NEW i \in WatchId
    PROVE  /\ queue[i] \in Seq(Event) /\ Len(queue[i]) <= kMaxEventQueueSize
           /\ got[i] \in Seq(Event) /\ dropped[i] \in Nat
           /\ span[i].from \in Nat /\ span[i].to \in Nat /\ span[i].from <= MaxEvents
           /\ Len(history) \in Nat /\ MaxEvents \in Nat
<1>1. MaxEvents \in Nat
  BY WatchAssumption
<1>2. span[i].from \in 0 .. MaxEvents /\ span[i].to \in 0 .. MaxEvents
  BY DEF GhostTypes
<1>3. /\ queue[i] \in Seq(Event) /\ Len(queue[i]) <= kMaxEventQueueSize
      /\ got[i] \in Seq(Event) /\ dropped[i] \in Nat /\ Len(history) \in Nat
  BY DEF TypeOK, GhostTypes
<1>. QED
  BY <1>1, <1>2, <1>3

\* There is one event in pending and in event, or none.
LEMMA OneEvent ==
    ASSUME TypeOK
    PROVE  /\ pending # <<>> => pending[1] \in Event /\ pending = <<pending[1]>> /\ Len(pending) = 1
           /\ event # <<>> => event[1] \in Event /\ event = <<event[1]>>
           /\ pending = <<>> => Len(pending) = 0
           /\ pending \in Seq(Event) /\ event \in Seq(Event)
<1>1. ASSUME NEW s \in {<<>>} \cup {<<e>> : e \in Event}
      PROVE  /\ s # <<>> => s[1] \in Event /\ s = <<s[1]>> /\ Len(s) = 1
             /\ s \in Seq(Event)
  <2>1. CASE s = <<>>
    BY <2>1, EmptySeq
  <2>2. ASSUME NEW e \in Event, s = <<e>>
        PROVE  s[1] = e /\ Len(s) = 1 /\ s \in Seq(Event)
    BY <2>2
  <2>. QED
    BY <2>1, <2>2
<1>2. pending \in {<<>>} \cup {<<e>> : e \in Event} /\ event \in {<<>>} \cup {<<e>> : e \in Event}
  BY DEF TypeOK
<1>. QED
  BY <1>1, <1>2

\* A watcher holds its queue, and the event that is still to be pushed to it.
LEMMA HeldIs ==
    ASSUME TypeOK, NEW i \in WatchId
    PROVE  /\ Held(i) \in Seq(Event) /\ Coming(i) \in Seq(Event)
           /\ i \notin matched => Held(i) = queue[i]
           /\ i \in matched => /\ event[1] \in Event /\ event = <<event[1]>>
                               /\ Held(i) = Append(queue[i], event[1])
<1>1. queue[i] \in Seq(Event)
  BY DEF TypeOK
<1>2. CASE i \notin matched
  <2>1. Coming(i) = <<>> /\ queue[i] \o <<>> = queue[i]
    BY <1>1, <1>2, ConcatEmptySeq DEF Coming
  <2>. QED
    BY <1>1, <1>2, <2>1, EmptySeq DEF Held
<1>3. CASE i \in matched
  <2>1. event # <<>>
    BY <1>3 DEF TypeOK
  <2>2. event[1] \in Event /\ event = <<event[1]>> /\ event \in Seq(Event)
    BY <2>1, OneEvent
  <2>3. Append(queue[i], event[1]) = queue[i] \o <<event[1]>>
    BY <1>1, <2>2, AppendIsConcat
  <2>4. Held(i) = queue[i] \o event /\ Coming(i) = event
    BY <1>3 DEF Held, Coming
  <2>5. Append(queue[i], event[1]) \in Seq(Event)
    BY <1>1, <2>2, AppendProperties
  <2>. QED
    BY <1>3, <2>2, <2>3, <2>4, <2>5
<1>. QED
  BY <1>2, <1>3

\* Matches, which looks at the revision only, finds puts only: a deletion has revision 0.
LEMMA MatchesDue ==
    ASSUME TypeOK, NEW i \in DOMAIN watcher, NEW e \in Event, NEW j \in Nat, Numbered(e, j)
    PROVE  Matches(watcher[i], e) <=> IsDue(i, e)
<1>1. watcher[i] \in Watcher
  BY DEF TypeOK
<1>2. watcher[i].start_rev \in Nat
  BY <1>1, WatchAssumption DEF Watcher
<1>3. ~(0 > watcher[i].start_rev)
  BY <1>2
<1>. QED
  BY <1>3 DEF Matches, IsDue, Numbered

\* What is due was notified, so its revision is no greater than the number of events.
LEMMA DueEarlier ==
    ASSUME TypeOK, GhostTypes, EntriesNumbered, SpansHeld,
           NEW i \in DOMAIN watcher, NEW e \in Due(i)
    PROVE  e.mod_revision \in Nat /\ e.mod_revision <= Len(history)
<1>1. PICK j \in Span(i) : e = history[j] /\ IsDue(i, history[j])
  BY DEF Due
<1>2. i \in WatchId
  BY DEF TypeOK
<1>3. /\ span[i].from \in Nat /\ span[i].to \in Nat /\ Len(history) \in Nat
      /\ i \notin Registered => span[i].to <= Len(history)
  BY <1>2, WatcherTypes DEF SpansHeld, Registered
<1>4. j \in 1 .. Len(history)
  BY <1>1, <1>3 DEF Span
<1>5. Numbered(e, j) /\ e.type = "PUT"
  BY <1>1, <1>4 DEF EntriesNumbered, IsDue
<1>6. e.mod_revision = j
  BY <1>5 DEF Numbered
<1>. QED
  BY <1>3, <1>4, <1>6

-----------------------------------------------------------------------------
(* The steps of a request, seen alike *)

\* The request answers without an event, or goes to sleep after it found none.
Idles(c) ==
    /\ UNCHANGED <<queue, got>>
    /\ batch' \in {batch, [batch EXCEPT ![c] = 0]}
    /\ \/ pc' = [pc EXCEPT ![c] = "idle"]
       \/ /\ pc' = [pc EXCEPT ![c] = "asleep"]
          /\ queue[id[c]] = <<>> /\ id[c] \notin Cancelled

RequestStep(c) ==
    /\ pc[c] \in {"look", "asleep", "drain"}
    /\ Collect(c) \/ Idles(c)
    /\ UNCHANGED <<revision, applier, waking, watcher, status, id, history, span, dropped>>

LEMMA RequestSteps ==
    ASSUME NEW c \in Client, Look(c) \/ Timeout(c) \/ Drain(c)
    PROVE  RequestStep(c)
<1>1. ASSUME Answer(c) PROVE Idles(c)
  BY <1>1 DEF Answer, Idles
<1>2. CASE Look(c)
  BY <1>1, <1>2 DEF Look, RequestStep, Idles
<1>3. CASE Timeout(c) \/ Drain(c)
  BY <1>1, <1>3 DEF Timeout, Drain, RequestStep
<1>. QED
  BY <1>2, <1>3

\* One event more: where it comes from and where it goes.
LEMMA CollectResult ==
    ASSUME TypeOK, GhostTypes, RequestsKnown, NEW c \in Client, pc[c] # "idle", Collect(c)
    PROVE  /\ id[c] \in DOMAIN watcher /\ id[c] \in WatchId
           /\ queue[id[c]] # <<>>
           /\ queue' = [queue EXCEPT ![id[c]] = Tail(queue[id[c]])]
           /\ got' = [got EXCEPT ![id[c]] = Append(got[id[c]], Head(queue[id[c]]))]
           /\ \E s \in {"idle", "drain"} : pc' = [pc EXCEPT ![c] = s]
           /\ batch' \in [Client -> 0 .. MaxBatch - 1]
<1>1. id[c] \in DOMAIN watcher /\ id[c] \in WatchId
  BY DEF RequestsKnown, TypeOK
<1>2. Take(c)
  BY DEF Collect
<1>3. /\ queue[id[c]] # <<>>
      /\ queue' = [queue EXCEPT ![id[c]] = Tail(queue[id[c]])]
      /\ got' = [got EXCEPT ![id[c]] = Append(got[id[c]], Head(queue[id[c]]))]
  BY <1>1, <1>2 DEF Take, TypeOK, GhostTypes
<1>4. MaxBatch \in Nat \ {0, 1} /\ batch[c] \in 0 .. MaxBatch - 1
  BY WatchAssumption DEF TypeOK
<1>5. CASE batch[c] + 1 >= MaxBatch
  BY <1>1, <1>3, <1>4, <1>5 DEF Collect, TypeOK
<1>6. CASE ~(batch[c] + 1 >= MaxBatch)
  <2>1. batch[c] + 1 \in 0 .. MaxBatch - 1
    BY <1>4, <1>6
  <2>2. pc' = [pc EXCEPT ![c] = "drain"] /\ batch' = [batch EXCEPT ![c] = @ + 1]
    BY <1>6 DEF Collect
  <2>. QED
    BY <1>1, <1>3, <2>1, <2>2 DEF TypeOK
<1>. QED
  BY <1>5, <1>6

-----------------------------------------------------------------------------
(* Types *)

LEMMA InitIndInv == Init => IndInv
<1>. SUFFICES ASSUME Init PROVE IndInv
  OBVIOUS
<1>1. <<>> \in Seq(Event) /\ Len(<<>>) = 0 /\ MaxEvents \in Nat /\ MaxBatch \in Nat \ {0, 1}
      /\ kMaxEventQueueSize \in Nat \ {0}
  BY EmptySeq, WatchAssumption
<1>2. 0 \in 0 .. MaxEvents /\ MaxEvents \in 0 .. MaxEvents /\ 0 \in 0 .. MaxBatch - 1
  BY <1>1
<1>3. DOMAIN watcher = {}
  BY DEF Init
<1>4. TypeOK
  BY <1>1, <1>2, <1>3 DEF Init, TypeOK, Status
<1>5. GhostTypes
  BY <1>1, <1>2 DEF Init, GhostTypes
<1>6. EntriesNumbered
  BY <1>1 DEF Init, EntriesNumbered
<1>7. SpansHeld /\ UnusedEmpty /\ Accounted
  BY <1>3 DEF Init, SpansHeld, UnusedEmpty, Accounted
<1>8. RequestsKnown /\ SleeperIsWoken
  BY DEF Init, RequestsKnown, SleeperIsWoken
<1>. QED
  BY <1>4, <1>5, <1>6, <1>7, <1>8 DEF IndInv

LEMMA ApplyTypes ==
    ASSUME IndInv, NEW k \in Key, ApplyPut(k) \/ ApplyDelete(k)
    PROVE  /\ TypeOK' /\ GhostTypes' /\ EntriesNumbered'
           /\ UNCHANGED <<event, matched, waking, watcher, status, queue, clients, history, span,
                          got, dropped>>
<1>0. TypeOK /\ GhostTypes /\ EntriesNumbered
  BY DEF IndInv
<1>1. /\ pending = <<>> /\ event = <<>> /\ Len(history) < MaxEvents /\ revision' = revision + 1
      /\ UNCHANGED <<event, matched, waking, watcher, status, queue, clients, history, span,
                     got, dropped>>
  BY DEF ApplyPut, ApplyDelete, Applying
<1>2. PICK e : /\ pending' = <<e>>
               /\ \/ e = [type |-> "PUT", key |-> k, mod_revision |-> revision + 1]
                  \/ e = [type |-> "DELETE", key |-> k, mod_revision |-> 0]
  BY DEF ApplyPut, ApplyDelete
<1>3. /\ revision = Len(history) /\ Len(history) \in Nat /\ MaxEvents \in Nat
      /\ revision + 1 \in 0 .. MaxEvents /\ 0 \in 0 .. MaxEvents
  BY <1>0, <1>1, OneEvent, WatchAssumption DEF EntriesNumbered, GhostTypes
<1>4. e \in Event /\ Numbered(e, revision + 1) /\ Len(<<e>>) = 1 /\ <<e>>[1] = e /\ <<e>> # <<>>
  BY <1>2, <1>3 DEF Event, Numbered
<1>5. TypeOK'
  BY <1>0, <1>1, <1>2, <1>3, <1>4 DEF TypeOK, clients
<1>6. GhostTypes'
  BY <1>0, <1>1 DEF GhostTypes
<1>7. EntriesNumbered'
  <2>1. matched = {}
    BY <1>0, <1>1 DEF TypeOK
  <2>2. revision' = Len(history') + Len(pending')
    BY <1>1, <1>2, <1>3, <1>4
  <2>. QED
    BY <1>0, <1>1, <1>2, <1>4, <2>1, <2>2 DEF EntriesNumbered, Numbered
<1>. QED
  BY <1>1, <1>5, <1>6, <1>7

LEMMA NotifyTypes ==
    ASSUME IndInv, Notify
    PROVE  TypeOK' /\ GhostTypes' /\ EntriesNumbered'
<1>0. TypeOK /\ GhostTypes /\ EntriesNumbered
  BY DEF IndInv
<1>1. /\ pending # <<>> /\ pending' = <<>> /\ history' = history \o pending
      /\ matched' = {i \in Registered : Matches(watcher[i], pending[1])}
      /\ event' = IF matched' = {} THEN <<>> ELSE pending
      /\ UNCHANGED <<revision, waking, watcher, status, queue, clients, span, got, dropped>>
  BY DEF Notify
<1>2. /\ pending[1] \in Event /\ pending = <<pending[1]>> /\ Len(pending) = 1
  BY <1>0, <1>1, OneEvent
<1>3. history \in Seq(Event) /\ Len(history) \in Nat /\ <<>> \in Seq(Event) /\ Len(<<>>) = 0
  BY <1>0, EmptySeq DEF GhostTypes
<1>4. history' = Append(history, pending[1])
  BY <1>1, <1>2, <1>3, AppendIsConcat
<1>5. /\ history' \in Seq(Event) /\ Len(history') = Len(history) + 1 /\ history' # <<>>
      /\ \A j \in 1 .. Len(history) : history'[j] = history[j]
      /\ history'[Len(history) + 1] = pending[1]
  BY <1>2, <1>3, <1>4, AppendProperties
<1>6. TypeOK'
  BY <1>0, <1>1 DEF TypeOK, clients, Registered
<1>7. GhostTypes'
  BY <1>0, <1>1, <1>5 DEF GhostTypes
<1>8. EntriesNumbered'
  <2>1. revision = Len(history) + 1 /\ Numbered(pending[1], revision)
    BY <1>0, <1>1, <1>2 DEF EntriesNumbered
  <2>2. revision' = Len(history') + Len(pending')
    BY <1>1, <1>3, <1>5, <2>1
  <2>3. ASSUME NEW j \in 1 .. Len(history') PROVE Numbered(history'[j], j)
    <3>1. j \in 1 .. Len(history) \/ j = Len(history) + 1
      BY <1>3, <1>5
    <3>. QED
      BY <1>0, <1>5, <2>1, <3>1 DEF EntriesNumbered
  <2>4. matched' # {} => event' = <<history'[Len(history')]>>
    BY <1>1, <1>2, <1>5
  <2>. QED
    BY <1>1, <1>5, <2>2, <2>3, <2>4 DEF EntriesNumbered, Numbered
<1>. QED
  BY <1>6, <1>7, <1>8

\* The watcher PushEvent is at, and what it leaves there.
LEMMA PushResult ==
    ASSUME IndInv, PushEvent
    PROVE  \E i \in matched :
              /\ i \in WatchId /\ waking = NoId /\ waking' = i
              /\ event[1] \in Event /\ event = <<event[1]>>
              /\ queue' = [queue EXCEPT ![i] = Pushed(queue[i], event[1])]
              /\ dropped' = [dropped EXCEPT
                    ![i] = dropped[i] + Len(queue[i]) + 1 - Len(Pushed(queue[i], event[1]))]
              /\ matched' = matched \ {i}
              /\ event' = IF matched' = {} THEN <<>> ELSE event
              /\ UNCHANGED <<revision, pending, watcher, status, clients, history, span, got>>
<1>0. TypeOK /\ GhostTypes
  BY DEF IndInv
<1>1. PICK i \in matched :
        /\ queue' = [queue EXCEPT ![i] = Pushed(@, event[1])]
        /\ dropped' = [dropped EXCEPT ![i] = @ + Len(queue[i]) + 1 - Len(queue'[i])]
        /\ matched' = matched \ {i}
        /\ event' = IF matched' = {} THEN <<>> ELSE event
        /\ waking' = i
  BY DEF PushEvent
<1>2. i \in WatchId /\ event # <<>>
  BY <1>0 DEF TypeOK
<1>3. queue'[i] = Pushed(queue[i], event[1])
  BY <1>0, <1>1, <1>2 DEF TypeOK
<1>4. event[1] \in Event /\ event = <<event[1]>>
  BY <1>0, <1>2, OneEvent
<1>5. /\ waking = NoId
      /\ UNCHANGED <<revision, pending, watcher, status, clients, history, span, got>>
  BY DEF PushEvent
<1>. QED
  BY <1>1, <1>2, <1>3, <1>4, <1>5

\* A full queue makes room before it takes the event, and what it lost is counted.
LEMMA PushTypes ==
    ASSUME IndInv, PushEvent
    PROVE  TypeOK' /\ GhostTypes' /\ EntriesNumbered'
<1>0. TypeOK /\ GhostTypes /\ EntriesNumbered /\ Accounted /\ UnusedEmpty
  BY DEF IndInv
<1>1. PICK i \in matched :
        /\ i \in WatchId /\ waking = NoId /\ waking' = i
        /\ event[1] \in Event /\ event = <<event[1]>>
        /\ queue' = [queue EXCEPT ![i] = Pushed(queue[i], event[1])]
        /\ dropped' = [dropped EXCEPT
              ![i] = dropped[i] + Len(queue[i]) + 1 - Len(Pushed(queue[i], event[1]))]
        /\ matched' = matched \ {i}
        /\ event' = IF matched' = {} THEN <<>> ELSE event
        /\ UNCHANGED <<revision, pending, watcher, status, clients, history, span, got>>
  BY PushResult
<1>2. /\ queue[i] \in Seq(Event) /\ Len(queue[i]) <= kMaxEventQueueSize /\ dropped[i] \in Nat
  BY <1>0, <1>1, WatcherTypes
<1>3. /\ Pushed(queue[i], event[1]) \in Seq(Event)
      /\ Len(Pushed(queue[i], event[1])) <= kMaxEventQueueSize
      /\ dropped[i] + Len(queue[i]) + 1 - Len(Pushed(queue[i], event[1])) \in Nat
  <2>1. /\ Pushed(queue[i], event[1]) \in Seq(Event)
        /\ Len(Pushed(queue[i], event[1])) <= kMaxEventQueueSize
        /\ Len(Pushed(queue[i], event[1])) = Len(Room(queue[i])) + 1
        /\ Len(Room(queue[i])) \in Nat
        /\ Room(queue[i]) = queue[i] \/ Len(Room(queue[i])) = Len(queue[i]) - 1
    BY <1>1, <1>2, PushedType
  <2>2. Len(queue[i]) \in Nat
    BY <1>2
  <2>. QED
    BY <1>2, <2>1, <2>2
<1>4. event' \in {<<>>} \cup {<<e>> : e \in Event}
  BY <1>0, <1>1 DEF TypeOK
<1>5. TypeOK'
  <2>1. /\ queue' \in [WatchId -> Seq(Event)]
        /\ \A j \in WatchId : Len(queue'[j]) <= kMaxEventQueueSize
    BY <1>0, <1>1, <1>3 DEF TypeOK
  <2>2. matched' \subseteq WatchId /\ (matched' = {} <=> event' = <<>>)
    BY <1>0, <1>1 DEF TypeOK
  <2>. QED
    BY <1>0, <1>1, <1>4, <2>1, <2>2 DEF TypeOK, clients
<1>6. GhostTypes'
  BY <1>0, <1>1, <1>3 DEF GhostTypes
<1>7. EntriesNumbered'
  <2>1. pending = <<>> \/ event = <<>>
    BY <1>0 DEF EntriesNumbered
  <2>. QED
    BY <1>0, <1>1, <2>1 DEF EntriesNumbered, Numbered
<1>. QED
  BY <1>5, <1>6, <1>7

LEMMA RegisterTypes ==
    ASSUME IndInv, NEW c \in Client, NEW keys \in Pattern, NEW start_rev \in StartRev,
           Register(c, keys, start_rev)
    PROVE  TypeOK' /\ GhostTypes' /\ EntriesNumbered'
<1>0. TypeOK /\ GhostTypes /\ EntriesNumbered
  BY DEF IndInv
<1>1. PICK i \in WatchId :
        /\ status[i] = "none"
        /\ watcher' = [j \in DOMAIN watcher \cup {i} |->
              IF j = i THEN [keys |-> keys, start_rev |-> start_rev] ELSE watcher[j]]
        /\ status' = [status EXCEPT ![i] = "registered"]
        /\ span' = [span EXCEPT ![i].from = Len(history)]
        /\ id' = [id EXCEPT ![c] = i]
  BY DEF Register
<1>2. /\ pc' = [pc EXCEPT ![c] = "registered"]
      /\ UNCHANGED <<revision, applier, waking, queue, batch, history, got, dropped>>
  BY DEF Register
<1>3. Len(history) \in 0 .. MaxEvents
  <2>1. Len(history) + Len(pending) \in 0 .. MaxEvents /\ Len(pending) \in Nat
    BY <1>0, OneEvent DEF EntriesNumbered, TypeOK
  <2>2. Len(history) \in Nat /\ MaxEvents \in Nat
    BY <1>0, WatchAssumption DEF GhostTypes
  <2>. QED
    BY <2>1, <2>2
<1>4. DOMAIN watcher' = {j \in WatchId : status'[j] # "none"}
  BY <1>0, <1>1 DEF TypeOK
<1>5. \A j \in DOMAIN watcher' : watcher'[j] \in Watcher
  BY <1>0, <1>1 DEF TypeOK, Watcher
<1>6. TypeOK'
  BY <1>0, <1>1, <1>2, <1>4, <1>5 DEF TypeOK, applier, Status
<1>7. span' \in [WatchId -> [from : 0 .. MaxEvents, to : 0 .. MaxEvents]]
  BY <1>0, <1>1, <1>3 DEF GhostTypes
<1>8. GhostTypes'
  BY <1>0, <1>2, <1>7 DEF GhostTypes
<1>9. EntriesNumbered'
  BY <1>0, <1>2 DEF EntriesNumbered, Numbered, applier
<1>. QED
  BY <1>6, <1>8, <1>9

LEMMA EraseTypes ==
    ASSUME IndInv, NEW i \in WatchId, CancelErase(i)
    PROVE  TypeOK' /\ GhostTypes' /\ EntriesNumbered'
<1>0. TypeOK /\ GhostTypes /\ EntriesNumbered
  BY DEF IndInv
<1>1. /\ status[i] = "registered"
      /\ status' = [status EXCEPT ![i] = "erased"]
      /\ span' = [span EXCEPT ![i].to = Len(history)]
      /\ UNCHANGED <<revision, applier, waking, watcher, queue, clients, history, got, dropped>>
  BY DEF CancelErase, Registered
<1>2. Len(history) \in 0 .. MaxEvents
  <2>1. Len(history) + Len(pending) \in 0 .. MaxEvents /\ Len(pending) \in Nat
    BY <1>0, OneEvent DEF EntriesNumbered, TypeOK
  <2>2. Len(history) \in Nat /\ MaxEvents \in Nat
    BY <1>0, WatchAssumption DEF GhostTypes
  <2>. QED
    BY <2>1, <2>2
<1>3. TypeOK'
  BY <1>0, <1>1 DEF TypeOK, applier, clients, Status
<1>4. span' \in [WatchId -> [from : 0 .. MaxEvents, to : 0 .. MaxEvents]]
  BY <1>0, <1>1, <1>2 DEF GhostTypes
<1>5. GhostTypes'
  BY <1>0, <1>1, <1>4 DEF GhostTypes
<1>6. EntriesNumbered'
  BY <1>0, <1>1 DEF EntriesNumbered, Numbered, applier
<1>. QED
  BY <1>3, <1>5, <1>6

LEMMA RequestTypes ==
    ASSUME IndInv, NEW c \in Client, RequestStep(c)
    PROVE  TypeOK' /\ GhostTypes' /\ EntriesNumbered'
<1>0. TypeOK /\ GhostTypes /\ EntriesNumbered /\ RequestsKnown
  BY DEF IndInv
<1>1. /\ pc[c] # "idle"
      /\ UNCHANGED <<revision, applier, waking, watcher, status, id, history, span, dropped>>
  BY DEF RequestStep
<1>2. EntriesNumbered'
  BY <1>0, <1>1 DEF EntriesNumbered, Numbered, applier
<1>3. CASE Collect(c)
  <2>1. /\ id[c] \in WatchId /\ queue[id[c]] # <<>>
        /\ queue' = [queue EXCEPT ![id[c]] = Tail(queue[id[c]])]
        /\ got' = [got EXCEPT ![id[c]] = Append(got[id[c]], Head(queue[id[c]]))]
        /\ \E s \in {"idle", "drain"} : pc' = [pc EXCEPT ![c] = s]
        /\ batch' \in [Client -> 0 .. MaxBatch - 1]
    BY <1>0, <1>1, <1>3, CollectResult
  <2>2. queue[id[c]] \in Seq(Event) /\ got[id[c]] \in Seq(Event)
        /\ Len(queue[id[c]]) <= kMaxEventQueueSize
    BY <1>0, <2>1, WatcherTypes
  <2>3. /\ Tail(queue[id[c]]) \in Seq(Event) /\ Head(queue[id[c]]) \in Event
        /\ Len(Tail(queue[id[c]])) = Len(queue[id[c]]) - 1
    BY <2>1, <2>2, HeadTailProperties
  <2>4. Len(Tail(queue[id[c]])) <= kMaxEventQueueSize
    BY <2>2, <2>3, WatchAssumption
  <2>5. Append(got[id[c]], Head(queue[id[c]])) \in Seq(Event)
    BY <2>2, <2>3, AppendProperties
  <2>6. TypeOK'
    BY <1>0, <1>1, <2>1, <2>3, <2>4 DEF TypeOK, applier
  <2>7. GhostTypes'
    BY <1>0, <1>1, <2>1, <2>5 DEF GhostTypes
  <2>. QED
    BY <1>2, <2>6, <2>7
<1>4. CASE Idles(c)
  <2>1. 0 \in 0 .. MaxBatch - 1
    BY WatchAssumption
  <2>2. batch' \in [Client -> 0 .. MaxBatch - 1] /\ UNCHANGED <<queue, got>>
    <3>1. batch \in [Client -> 0 .. MaxBatch - 1]
      BY <1>0 DEF TypeOK
    <3>2. UNCHANGED <<queue, got>> /\ batch' \in {batch, [batch EXCEPT ![c] = 0]}
      BY <1>4 DEF Idles
    <3>. QED
      BY <2>1, <3>1, <3>2
  <2>3. pc' \in [Client -> {"idle", "registered", "look", "asleep", "drain"}]
    <3>1. pc \in [Client -> {"idle", "registered", "look", "asleep", "drain"}]
      BY <1>0 DEF TypeOK
    <3>2. pc' = [pc EXCEPT ![c] = "idle"] \/ pc' = [pc EXCEPT ![c] = "asleep"]
      BY <1>4 DEF Idles
    <3>. QED
      BY <3>1, <3>2
  <2>4. TypeOK'
    BY <1>0, <1>1, <2>2, <2>3 DEF TypeOK, applier
  <2>5. GhostTypes'
    BY <1>0, <1>1, <2>2 DEF GhostTypes
  <2>. QED
    BY <1>2, <2>4, <2>5
<1>. QED
  BY <1>3, <1>4 DEF RequestStep

-----------------------------------------------------------------------------
(* What is due, and what became of it *)

\* Steps that notify, register and cancel nothing leave everybody what was due to them.
LEMMA DueKept ==
    ASSUME UNCHANGED <<history, span, watcher>>, Registered' = Registered, NEW i \in WatchId
    PROVE  Span(i)' = Span(i) /\ Due(i)' = Due(i)
<1>1. Span(i)' = Span(i)
  BY DEF Span
<1>. QED
  BY <1>1 DEF Due, IsDue

\* The stretches are kept by whatever notifies, registers and cancels nothing.
LEMMA SpansKept ==
    ASSUME IndInv, UNCHANGED <<history, span, watcher>>, Registered' = Registered,
           matched' \subseteq matched
    PROVE  SpansHeld'
<1>1. SpansHeld /\ TypeOK
  BY DEF IndInv
<1>2. ASSUME NEW i \in DOMAIN watcher'
      PROVE  /\ span'[i].from <= Len(history')
             /\ status'[i] # "registered" =>
                   span'[i].from <= span'[i].to /\ span'[i].to <= Len(history')
             /\ i \in matched' => Len(history') \in Span(i)' /\ IsDue(i, history[Len(history)])'
             /\ IsFiniteSet(Due(i)')
  <2>1. i \in DOMAIN watcher /\ i \in WatchId
    BY <1>1, <1>2 DEF TypeOK
  <2>2. Span(i)' = Span(i) /\ Due(i)' = Due(i)
    BY <2>1, DueKept
  <2>3. status'[i] # "registered" => status[i] # "registered"
    BY <2>1 DEF Registered
  <2>. QED
    BY <1>1, <2>1, <2>2, <2>3 DEF SpansHeld, IsDue
<1>. QED
  BY <1>2 DEF SpansHeld

LEMMA AccountsKept ==
    ASSUME IndInv, UNCHANGED <<history, span, watcher, event, matched, queue, got, dropped>>,
           Registered' = Registered
    PROVE  SpansHeld' /\ UnusedEmpty' /\ Accounted'
<1>1. Accounted /\ UnusedEmpty /\ TypeOK
  BY DEF IndInv
<1>2. SpansHeld'
  BY SpansKept
<1>3. UnusedEmpty'
  BY <1>1 DEF UnusedEmpty
<1>4. ASSUME NEW i \in DOMAIN watcher'
      PROVE  Delivered(got'[i], Held(i)', Due(i)', dropped'[i])
  <2>1. i \in DOMAIN watcher /\ i \in WatchId
    BY <1>1, <1>4 DEF TypeOK
  <2>2. Due(i)' = Due(i) /\ Held(i)' = Held(i)
    BY <2>1, DueKept DEF Held, Coming
  <2>. QED
    BY <1>1, <2>1, <2>2 DEF Accounted
<1>. QED
  BY <1>2, <1>3, <1>4 DEF Accounted

\* The front of the queue is the front of what is held, with or without an event to come.
LEMMA FrontOfHeld ==
    ASSUME TypeOK, NEW i \in WatchId, queue[i] # <<>>
    PROVE  /\ Held(i) # <<>> /\ Head(Held(i)) = Head(queue[i])
           /\ Tail(Held(i)) = Tail(queue[i]) \o Coming(i)
<1>1. queue[i] \in Seq(Event)
  BY DEF TypeOK
<1>2. Tail(queue[i]) \in Seq(Event)
  BY <1>1, HeadTailProperties
<1>3. CASE i \notin matched
  <2>1. Held(i) = queue[i] /\ Coming(i) = <<>> /\ Tail(queue[i]) \o <<>> = Tail(queue[i])
    BY <1>2, <1>3, HeldIs, ConcatEmptySeq DEF Coming
  <2>. QED
    BY <2>1
<1>4. CASE i \in matched
  <2>1. /\ event[1] \in Event /\ event = <<event[1]>>
        /\ Held(i) = Append(queue[i], event[1]) /\ Coming(i) = event
    BY <1>4, HeldIs DEF Coming
  <2>2. Held(i) # <<>>
    BY <1>1, <2>1, AppendProperties
  <2>3. /\ Head(Held(i)) = Head(queue[i])
        /\ Tail(Held(i)) = Append(Tail(queue[i]), event[1])
    BY <1>1, <2>1, HeadTailAppend
  <2>4. Append(Tail(queue[i]), event[1]) = Tail(queue[i]) \o <<event[1]>>
    BY <1>2, <2>1, AppendIsConcat
  <2>. QED
    BY <2>1, <2>2, <2>3, <2>4
<1>. QED
  BY <1>3, <1>4

\* What a request takes, it has.
LEMMA RequestAccounts ==
    ASSUME IndInv, NEW c \in Client, RequestStep(c)
    PROVE  SpansHeld' /\ UnusedEmpty' /\ Accounted'
<1>0. TypeOK /\ GhostTypes /\ RequestsKnown /\ UnusedEmpty /\ Accounted
  BY DEF IndInv
<1>1. /\ pc[c] # "idle"
      /\ UNCHANGED <<history, span, watcher, event, matched, dropped, status>>
  BY DEF RequestStep, applier
<1>2. Registered' = Registered
  BY <1>1 DEF Registered
<1>3. CASE Idles(c)
  BY <1>1, <1>2, <1>3, AccountsKept DEF Idles
<1>4. CASE Collect(c)
  <2>1. /\ id[c] \in DOMAIN watcher /\ id[c] \in WatchId /\ queue[id[c]] # <<>>
        /\ queue' = [queue EXCEPT ![id[c]] = Tail(queue[id[c]])]
        /\ got' = [got EXCEPT ![id[c]] = Append(got[id[c]], Head(queue[id[c]]))]
    BY <1>0, <1>1, <1>4, CollectResult
  <2>2. SpansHeld'
    BY <1>1, <1>2, SpansKept
  <2>3. UnusedEmpty'
    BY <1>0, <1>1, <2>1 DEF UnusedEmpty, TypeOK, GhostTypes
  <2>4. ASSUME NEW i \in DOMAIN watcher'
        PROVE  Delivered(got'[i], Held(i)', Due(i)', dropped'[i])
    <3>1. i \in DOMAIN watcher /\ i \in WatchId /\ Due(i)' = Due(i) /\ Coming(i)' = Coming(i)
      BY <1>0, <1>1, <1>2, <2>4, DueKept DEF TypeOK, Coming
    <3>2. Delivered(got[i], Held(i), Due(i), dropped[i])
      BY <1>0, <3>1 DEF Accounted
    <3>3. CASE i # id[c]
      <4>1. got'[i] = got[i] /\ queue'[i] = queue[i]
        BY <1>0, <2>1, <3>1, <3>3 DEF TypeOK, GhostTypes
      <4>. QED
        BY <1>1, <3>1, <3>2, <4>1 DEF Held
    <3>4. CASE i = id[c]
      <4>1. got'[i] = Append(got[i], Head(queue[i])) /\ queue'[i] = Tail(queue[i])
        BY <1>0, <2>1, <3>1, <3>4 DEF TypeOK, GhostTypes
      <4>2. /\ Held(i) # <<>> /\ Head(Held(i)) = Head(queue[i])
            /\ Tail(Held(i)) = Tail(queue[i]) \o Coming(i)
        BY <1>0, <2>1, <3>1, <3>4, FrontOfHeld
      <4>3. Held(i) \in Seq(Event) /\ got[i] \in Seq(Event) /\ dropped[i] \in Nat
        BY <1>0, <3>1, HeldIs, WatcherTypes
      <4>4. Delivered(Append(got[i], Head(Held(i))), Tail(Held(i)), Due(i), dropped[i])
        BY <3>2, <4>2, <4>3, FrontTaken
      <4>5. Held(i)' = Tail(Held(i))
        BY <3>1, <4>1, <4>2 DEF Held
      <4>. QED
        BY <1>1, <3>1, <4>1, <4>2, <4>4, <4>5
    <3>. QED
      BY <3>3, <3>4
  <2>. QED
    BY <2>2, <2>3, <2>4 DEF Accounted
<1>. QED
  BY <1>3, <1>4 DEF RequestStep

\* PushEvent makes an event that was to come one that is held, and drops the oldest if it
\* must.
LEMMA PushAccounts ==
    ASSUME IndInv, PushEvent
    PROVE  SpansHeld' /\ UnusedEmpty' /\ Accounted'
<1>0. TypeOK /\ GhostTypes /\ UnusedEmpty /\ Accounted
  BY DEF IndInv
<1>1. PICK p \in matched :
        /\ p \in WatchId
        /\ event[1] \in Event /\ event = <<event[1]>>
        /\ queue' = [queue EXCEPT ![p] = Pushed(queue[p], event[1])]
        /\ dropped' = [dropped EXCEPT
              ![p] = dropped[p] + Len(queue[p]) + 1 - Len(Pushed(queue[p], event[1]))]
        /\ matched' = matched \ {p}
        /\ event' = IF matched' = {} THEN <<>> ELSE event
        /\ UNCHANGED <<watcher, status, history, span, got>>
  BY PushResult
<1>2. Registered' = Registered
  BY <1>1 DEF Registered
<1>3. SpansHeld'
  BY <1>1, <1>2, SpansKept
<1>4. UnusedEmpty'
  <2>1. p \in DOMAIN watcher
    BY <1>0, <1>1 DEF UnusedEmpty
  <2>. QED
    BY <1>0, <1>1, <2>1 DEF UnusedEmpty, TypeOK, GhostTypes
<1>5. ASSUME NEW i \in DOMAIN watcher'
      PROVE  Delivered(got'[i], Held(i)', Due(i)', dropped'[i])
  <2>1. i \in DOMAIN watcher /\ i \in WatchId /\ Due(i)' = Due(i)
    BY <1>0, <1>1, <1>2, <1>5, DueKept DEF TypeOK
  <2>2. Delivered(got[i], Held(i), Due(i), dropped[i])
    BY <1>0, <2>1 DEF Accounted
  <2>3. CASE i # p
    <3>1. /\ got'[i] = got[i] /\ queue'[i] = queue[i] /\ dropped'[i] = dropped[i]
          /\ i \in matched' <=> i \in matched
      BY <1>0, <1>1, <2>1, <2>3 DEF TypeOK, GhostTypes
    <3>2. Coming(i)' = Coming(i)
      BY <1>1, <3>1 DEF Coming
    <3>. QED
      BY <2>1, <2>2, <3>1, <3>2 DEF Held
  <2>4. CASE i = p
    <3>1. /\ got'[i] = got[i] /\ queue'[i] = Pushed(queue[i], event[1])
          /\ dropped'[i] = dropped[i] + Len(queue[i]) + 1 - Len(Pushed(queue[i], event[1]))
      BY <1>0, <1>1, <2>1, <2>4 DEF TypeOK, GhostTypes
    <3>2. Held(i) = Append(queue[i], event[1])
      BY <1>0, <1>1, <2>1, <2>4, HeldIs
    <3>3. /\ queue[i] \in Seq(Event) /\ Len(queue[i]) <= kMaxEventQueueSize
          /\ got[i] \in Seq(Event) /\ dropped[i] \in Nat
      BY <1>0, <2>1, WatcherTypes
    <3>4. Delivered(got[i], Pushed(queue[i], event[1]), Due(i),
                    dropped[i] + Len(queue[i]) + 1 - Len(Pushed(queue[i], event[1])))
      BY <1>1, <2>2, <3>2, <3>3, RoomMade
    <3>5. Held(i)' = Pushed(queue[i], event[1])
      <4>1. Coming(i)' = <<>>
        BY <1>1, <2>4 DEF Coming
      <4>2. Pushed(queue[i], event[1]) \in Seq(Event)
        BY <1>1, <3>3, PushedType
      <4>. QED
        BY <3>1, <4>1, <4>2, ConcatEmptySeq DEF Held
    <3>. QED
      BY <2>1, <3>1, <3>4, <3>5
  <2>. QED
    BY <2>3, <2>4
<1>. QED
  BY <1>3, <1>4, <1>5 DEF Accounted

\* An event that is notified is due to the watchers it matches, and on its way to them; to
\* the others nothing changes.
LEMMA NotifyDue ==
    ASSUME IndInv, Notify, NEW i \in DOMAIN watcher
    PROVE  /\ i \in WatchId /\ i \notin matched /\ pending[1] \in Event
           /\ pending[1].mod_revision = Len(history) + 1 \/ ~IsDue(i, pending[1])
           /\ Len(history') = Len(history) + 1 /\ history'[Len(history')] = pending[1]
           /\ i \in matched' <=> (i \in Registered /\ IsDue(i, pending[1]))
           /\ i \in matched' => Len(history') \in Span(i)' /\ event' = <<pending[1]>>
           /\ Due(i)' = IF i \in matched' THEN Due(i) \cup {pending[1]} ELSE Due(i)
<1>0. TypeOK /\ GhostTypes /\ EntriesNumbered /\ SpansHeld
  BY DEF IndInv
<1>1. /\ pending # <<>> /\ history' = history \o pending
      /\ matched' = {k \in Registered : Matches(watcher[k], pending[1])}
      /\ event' = IF matched' = {} THEN <<>> ELSE pending
      /\ UNCHANGED <<watcher, status, span>>
  BY DEF Notify
<1>2. /\ pending[1] \in Event /\ pending = <<pending[1]>> /\ Len(pending) = 1
  BY <1>0, <1>1, OneEvent
<1>3. i \in WatchId /\ i \notin matched
  BY <1>0, <1>1 DEF TypeOK, EntriesNumbered
<1>4. history \in Seq(Event) /\ Len(history) \in Nat
  BY <1>0 DEF GhostTypes
<1>5. history' = Append(history, pending[1])
  BY <1>1, <1>2, <1>4, AppendIsConcat
<1>6. /\ Len(history') = Len(history) + 1
      /\ \A j \in 1 .. Len(history) : history'[j] = history[j]
      /\ history'[Len(history) + 1] = pending[1]
  BY <1>2, <1>4, <1>5, AppendProperties
<1>7. revision = Len(history) + 1 /\ Numbered(pending[1], Len(history) + 1)
  BY <1>0, <1>1, <1>2 DEF EntriesNumbered
<1>8. pending[1].mod_revision = Len(history) + 1 \/ ~IsDue(i, pending[1])
  BY <1>7 DEF IsDue, Numbered
<1>9. Matches(watcher[i], pending[1]) <=> IsDue(i, pending[1])
  <2>1. Len(history) + 1 \in Nat
    BY <1>4
  <2>. QED
    BY <1>0, <1>2, <1>7, <2>1, MatchesDue
<1>10. i \in matched' <=> (i \in Registered /\ IsDue(i, pending[1]))
  BY <1>1, <1>9
<1>11. i \in matched' => event' = <<pending[1]>>
  BY <1>1, <1>2
<1>12. /\ span[i].from \in Nat /\ span[i].to \in Nat /\ span[i].from <= Len(history)
       /\ i \notin Registered => span[i].to <= Len(history)
  BY <1>0, <1>3, WatcherTypes DEF SpansHeld, Registered
<1>13. Registered' = Registered
  BY <1>1 DEF Registered
<1>14. Span(i)' = span[i].from + 1 .. IF i \in Registered THEN Len(history) + 1 ELSE span[i].to
  BY <1>1, <1>6, <1>13 DEF Span
<1>15. Span(i) \subseteq 1 .. Len(history)
  BY <1>4, <1>12 DEF Span
<1>16. i \in Registered => Len(history) + 1 \in Span(i)'
  BY <1>4, <1>12, <1>14
<1>17. \A j : j \in Span(i)' <=> j \in Span(i) \/ (i \in Registered /\ j = Len(history) + 1)
  <2>1. CASE i \in Registered
    <3>1. /\ Span(i) = span[i].from + 1 .. Len(history)
          /\ Span(i)' = span[i].from + 1 .. Len(history) + 1
      BY <1>14, <2>1 DEF Span
    <3>2. \A a, b \in Nat : a <= b =>
             \A j : j \in a + 1 .. b + 1 <=> j \in a + 1 .. b \/ j = b + 1
      OBVIOUS
    <3>. QED
      BY <1>4, <1>12, <2>1, <3>1, <3>2
  <2>2. CASE i \notin Registered
    BY <1>14, <2>2 DEF Span
  <2>. QED
    BY <2>1, <2>2
<1>18. Due(i)' = {history'[j] : j \in {j \in Span(i)' : IsDue(i, history'[j])}}
  BY <1>1 DEF Due, IsDue
<1>19. \A x : x \in Due(i)' <=> \E j \in Span(i)' : x = history'[j] /\ IsDue(i, history'[j])
  BY <1>18
<1>20. \A x : x \in Due(i) <=> \E j \in Span(i) : x = history[j] /\ IsDue(i, history[j])
  BY DEF Due
<1>21. ASSUME NEW x
       PROVE  x \in Due(i)' <=> x \in Due(i) \/ (i \in matched' /\ x = pending[1])
  <2>1. ASSUME x \in Due(i)' PROVE x \in Due(i) \/ (i \in matched' /\ x = pending[1])
    <3>1. PICK j \in Span(i)' : x = history'[j] /\ IsDue(i, history'[j])
      BY <1>19, <2>1
    <3>2. CASE j \in Span(i)
      <4>1. history'[j] = history[j]
        BY <1>6, <1>15, <3>2
      <4>. QED
        BY <1>20, <3>1, <3>2, <4>1
    <3>3. CASE i \in Registered /\ j = Len(history) + 1
      BY <1>6, <1>10, <3>1, <3>3
    <3>. QED
      BY <1>17, <3>2, <3>3
  <2>2. ASSUME x \in Due(i) PROVE x \in Due(i)'
    <3>1. PICK j \in Span(i) : x = history[j] /\ IsDue(i, history[j])
      BY <1>20, <2>2
    <3>2. history'[j] = history[j] /\ j \in Span(i)'
      BY <1>6, <1>15, <1>17
    <3>. QED
      BY <1>19, <3>1, <3>2
  <2>3. ASSUME i \in matched', x = pending[1] PROVE x \in Due(i)'
    BY <1>6, <1>10, <1>16, <1>19, <2>3
  <2>. QED
    BY <2>1, <2>2, <2>3
<1>22. Due(i)' = IF i \in matched' THEN Due(i) \cup {pending[1]} ELSE Due(i)
  BY <1>21
<1>23. i \in matched' => Len(history') \in Span(i)'
  BY <1>6, <1>10, <1>16
<1>. QED
  BY <1>2, <1>3, <1>6, <1>8, <1>10, <1>11, <1>22, <1>23

LEMMA NotifyAccounts ==
    ASSUME IndInv, Notify
    PROVE  SpansHeld' /\ UnusedEmpty' /\ Accounted'
<1>0. TypeOK /\ GhostTypes /\ EntriesNumbered /\ SpansHeld /\ UnusedEmpty /\ Accounted
  BY DEF IndInv
<1>1. /\ matched' = {k \in Registered : Matches(watcher[k], pending[1])}
      /\ UNCHANGED <<watcher, status, queue, span, got, dropped>>
  BY DEF Notify
<1>2. Registered \subseteq DOMAIN watcher
  BY <1>0 DEF Registered, TypeOK
<1>3. UnusedEmpty'
  BY <1>0, <1>1, <1>2 DEF UnusedEmpty
<1>4. Len(history) \in Nat
  BY <1>0 DEF GhostTypes
<1>5. ASSUME NEW i \in DOMAIN watcher'
      PROVE  /\ span'[i].from <= Len(history')
             /\ status'[i] # "registered" =>
                   span'[i].from <= span'[i].to /\ span'[i].to <= Len(history')
             /\ i \in matched' => Len(history') \in Span(i)' /\ IsDue(i, history[Len(history)])'
             /\ IsFiniteSet(Due(i)')
  <2>1. i \in DOMAIN watcher
    BY <1>1, <1>5
  <2>2. /\ i \in WatchId /\ Len(history') = Len(history) + 1
        /\ history'[Len(history')] = pending[1]
        /\ i \in matched' => IsDue(i, pending[1]) /\ Len(history') \in Span(i)'
        /\ Due(i)' = IF i \in matched' THEN Due(i) \cup {pending[1]} ELSE Due(i)
    BY <2>1, NotifyDue
  <2>3. /\ span[i].from \in Nat /\ span[i].to \in Nat /\ span[i].from <= Len(history)
        /\ status[i] # "registered" => span[i].from <= span[i].to /\ span[i].to <= Len(history)
        /\ IsFiniteSet(Due(i))
    BY <1>0, <2>1, <2>2, WatcherTypes DEF SpansHeld
  <2>4. span'[i].from <= Len(history')
    BY <1>1, <1>4, <2>2, <2>3
  <2>5. status'[i] # "registered" => span'[i].from <= span'[i].to /\ span'[i].to <= Len(history')
    BY <1>1, <1>4, <2>2, <2>3
  <2>6. IsFiniteSet(Due(i)')
    <3>1. IsFiniteSet(Due(i) \cup {pending[1]})
      BY <2>3, FS_AddElement
    <3>. QED
      BY <2>2, <2>3, <3>1
  <2>7. i \in matched' => IsDue(i, history[Len(history)])'
    BY <1>1, <2>2 DEF IsDue
  <2>. QED
    BY <2>2, <2>4, <2>5, <2>6, <2>7
<1>6. ASSUME NEW i \in DOMAIN watcher'
      PROVE  Delivered(got'[i], Held(i)', Due(i)', dropped'[i])
  <2>1. i \in DOMAIN watcher
    BY <1>1, <1>6
  <2>2. /\ i \in WatchId /\ i \notin matched /\ pending[1] \in Event
        /\ pending[1].mod_revision = Len(history) + 1 \/ ~IsDue(i, pending[1])
        /\ i \in matched' <=> (i \in Registered /\ IsDue(i, pending[1]))
        /\ i \in matched' => event' = <<pending[1]>>
        /\ Due(i)' = IF i \in matched' THEN Due(i) \cup {pending[1]} ELSE Due(i)
    BY <2>1, NotifyDue
  <2>3. Held(i) = queue[i] /\ queue[i] \in Seq(Event) /\ got[i] \in Seq(Event) /\ dropped[i] \in Nat
    BY <1>0, <2>2, HeldIs, WatcherTypes
  <2>4. Delivered(got[i], queue[i], Due(i), dropped[i]) /\ IsFiniteSet(Due(i))
    BY <1>0, <2>1, <2>3 DEF Accounted, SpansHeld
  <2>5. CASE i \notin matched'
    <3>1. Held(i)' = queue[i] \o <<>>
      BY <1>1, <2>5 DEF Held, Coming
    <3>2. queue[i] \o <<>> = queue[i]
      BY <2>3, ConcatEmptySeq
    <3>. QED
      BY <1>1, <2>2, <2>4, <2>5, <3>1, <3>2
  <2>6. CASE i \in matched'
    <3>1. Held(i)' = queue[i] \o <<pending[1]>>
      BY <1>1, <2>2, <2>6 DEF Held, Coming
    <3>2. queue[i] \o <<pending[1]>> = Append(queue[i], pending[1])
      BY <2>2, <2>3, AppendIsConcat
    <3>3. ASSUME NEW d \in Due(i)
          PROVE  d.mod_revision \in Nat /\ d.mod_revision < pending[1].mod_revision
      <4>1. d.mod_revision \in Nat /\ d.mod_revision <= Len(history)
        BY <1>0, <2>1, DueEarlier
      <4>2. pending[1].mod_revision = Len(history) + 1
        BY <2>2, <2>6
      <4>. QED
        BY <1>4, <4>1, <4>2
    <3>4. Delivered(got[i], Append(queue[i], pending[1]), Due(i) \cup {pending[1]}, dropped[i])
      BY <2>2, <2>3, <2>4, <3>3, LatestComes
    <3>. QED
      BY <1>1, <2>2, <2>6, <3>1, <3>2, <3>4
  <2>. QED
    BY <2>5, <2>6
<1>7. SpansHeld'
  BY <1>5 DEF SpansHeld
<1>. QED
  BY <1>3, <1>6, <1>7 DEF Accounted

\* A watcher that is cancelled is due nothing more, and loses nothing of what it was due.
LEMMA EraseAccounts ==
    ASSUME IndInv, NEW p \in WatchId, CancelErase(p)
    PROVE  SpansHeld' /\ UnusedEmpty' /\ Accounted'
<1>0. TypeOK /\ GhostTypes /\ SpansHeld /\ UnusedEmpty /\ Accounted
  BY DEF IndInv
<1>1. /\ status[p] = "registered"
      /\ status' = [status EXCEPT ![p] = "erased"]
      /\ span' = [span EXCEPT ![p].to = Len(history)]
      /\ UNCHANGED <<event, matched, watcher, queue, history, got, dropped>>
  BY DEF CancelErase, Registered, applier
<1>2. UnusedEmpty'
  BY <1>0, <1>1 DEF UnusedEmpty
<1>3. ASSUME NEW i \in DOMAIN watcher
      PROVE  /\ i \in WatchId /\ Span(i)' = Span(i) /\ Due(i)' = Due(i) /\ Held(i)' = Held(i)
             /\ span'[i].from = span[i].from
             /\ i = p => span'[i].to = Len(history)
             /\ i # p => span'[i].to = span[i].to /\ status'[i] = status[i]
  <2>1. i \in WatchId
    BY <1>0, <1>3 DEF TypeOK
  <2>2. /\ span'[i].from = span[i].from
        /\ i = p => span'[i].to = Len(history) /\ status'[i] = "erased"
        /\ i # p => span'[i].to = span[i].to /\ status'[i] = status[i]
    BY <1>0, <1>1, <2>1 DEF TypeOK, GhostTypes
  <2>3. Span(i)' = Span(i)
    <3>1. CASE i = p
      BY <1>1, <2>1, <2>2, <3>1 DEF Span, Registered
    <3>2. CASE i # p
      BY <1>1, <2>1, <2>2, <3>2 DEF Span, Registered
    <3>. QED
      BY <3>1, <3>2
  <2>4. Due(i)' = Due(i)
    BY <1>1, <2>3 DEF Due, IsDue
  <2>5. Held(i)' = Held(i)
    BY <1>1 DEF Held, Coming
  <2>. QED
    BY <2>1, <2>2, <2>3, <2>4, <2>5
<1>4. ASSUME NEW i \in DOMAIN watcher'
      PROVE  /\ span'[i].from <= Len(history')
             /\ status'[i] # "registered" =>
                   span'[i].from <= span'[i].to /\ span'[i].to <= Len(history')
             /\ i \in matched' => Len(history') \in Span(i)' /\ IsDue(i, history[Len(history)])'
             /\ IsFiniteSet(Due(i)')
  <2>1. i \in DOMAIN watcher
    BY <1>1, <1>4
  <2>2. /\ Span(i)' = Span(i) /\ Due(i)' = Due(i) /\ span'[i].from = span[i].from
        /\ i = p => span'[i].to = Len(history)
        /\ i # p => span'[i].to = span[i].to /\ status'[i] = status[i]
    BY <1>3, <2>1
  <2>3. /\ span[i].from <= Len(history)
        /\ status[i] # "registered" => span[i].from <= span[i].to /\ span[i].to <= Len(history)
        /\ i \in matched => Len(history) \in Span(i) /\ IsDue(i, history[Len(history)])
        /\ IsFiniteSet(Due(i))
    BY <1>0, <2>1 DEF SpansHeld
  <2>4. i \in matched' => IsDue(i, history[Len(history)])'
    BY <1>1, <2>3 DEF IsDue
  <2>5. Len(history) \in Nat
    BY <1>0 DEF GhostTypes
  <2>6. CASE i = p
    BY <1>1, <2>2, <2>3, <2>4, <2>5, <2>6
  <2>7. CASE i # p
    BY <1>1, <2>2, <2>3, <2>4, <2>7
  <2>. QED
    BY <2>6, <2>7
<1>5. ASSUME NEW i \in DOMAIN watcher'
      PROVE  Delivered(got'[i], Held(i)', Due(i)', dropped'[i])
  BY <1>0, <1>1, <1>3, <1>5 DEF Accounted
<1>6. SpansHeld'
  BY <1>4 DEF SpansHeld
<1>. QED
  BY <1>2, <1>5, <1>6 DEF Accounted

LEMMA NothingDelivered == Delivered(<<>>, <<>>, {}, 0)
<1>1. Len(<<>>) = 0 /\ Cardinality({}) = 0
  BY EmptySeq, FS_EmptySet
<1>2. \A m \in 1 .. Len(<<>>) : FALSE
  BY <1>1
<1>3. Len(<<>>) + Len(<<>>) + 0 = Cardinality({})
  BY <1>1
<1>. QED
  BY <1>2, <1>3 DEF Delivered

\* A new watcher is due nothing of what was notified before.
LEMMA RegisterAccounts ==
    ASSUME IndInv, NEW c \in Client, NEW keys \in Pattern, NEW start_rev \in StartRev,
           Register(c, keys, start_rev)
    PROVE  SpansHeld' /\ UnusedEmpty' /\ Accounted'
<1>0. TypeOK /\ GhostTypes /\ SpansHeld /\ UnusedEmpty /\ Accounted
  BY DEF IndInv
<1>1. PICK p \in WatchId :
        /\ status[p] = "none"
        /\ watcher' = [j \in DOMAIN watcher \cup {p} |->
              IF j = p THEN [keys |-> keys, start_rev |-> start_rev] ELSE watcher[j]]
        /\ status' = [status EXCEPT ![p] = "registered"]
        /\ span' = [span EXCEPT ![p].from = Len(history)]
  BY DEF Register
<1>2. UNCHANGED <<event, matched, queue, history, got, dropped>>
  BY DEF Register, applier
<1>3. p \notin DOMAIN watcher /\ DOMAIN watcher' = DOMAIN watcher \cup {p}
  BY <1>0, <1>1 DEF TypeOK
<1>4. UnusedEmpty'
  BY <1>0, <1>2, <1>3 DEF UnusedEmpty
<1>5. Len(history) \in Nat
  BY <1>0 DEF GhostTypes
<1>6. ASSUME NEW i \in DOMAIN watcher
      PROVE  /\ i \in WatchId /\ i # p /\ span'[i] = span[i] /\ status'[i] = status[i]
             /\ watcher'[i] = watcher[i]
             /\ Span(i)' = Span(i) /\ Due(i)' = Due(i)
  <2>1. i \in WatchId /\ i # p
    BY <1>0, <1>3, <1>6 DEF TypeOK
  <2>2. span'[i] = span[i] /\ status'[i] = status[i] /\ watcher'[i] = watcher[i]
    BY <1>0, <1>1, <1>6, <2>1 DEF TypeOK, GhostTypes
  <2>3. i \in Registered' <=> i \in Registered
    BY <2>1, <2>2 DEF Registered
  <2>4. Span(i)' = Span(i)
    BY <1>2, <2>2, <2>3 DEF Span
  <2>5. Due(i)' = Due(i)
    BY <1>2, <2>2, <2>4 DEF Due, IsDue
  <2>. QED
    BY <2>1, <2>2, <2>4, <2>5
<1>7. span'[p].from = Len(history) /\ status'[p] = "registered" /\ p \notin matched
  BY <1>0, <1>1, <1>3 DEF TypeOK, GhostTypes, UnusedEmpty
<1>8. Due(p)' = {}
  <2>1. Span(p)' = Len(history) + 1 .. Len(history)
    BY <1>2, <1>7 DEF Span, Registered
  <2>2. Span(p)' = {}
    BY <1>5, <2>1
  <2>. QED
    BY <2>2 DEF Due
<1>9. ASSUME NEW i \in DOMAIN watcher'
      PROVE  /\ span'[i].from <= Len(history')
             /\ status'[i] # "registered" =>
                   span'[i].from <= span'[i].to /\ span'[i].to <= Len(history')
             /\ i \in matched' => Len(history') \in Span(i)' /\ IsDue(i, history[Len(history)])'
             /\ IsFiniteSet(Due(i)')
  <2>1. CASE i = p
    <3>1. span'[i].from <= Len(history')
      BY <1>2, <1>5, <1>7, <2>1
    <3>3. IsFiniteSet(Due(i)')
      BY <1>8, <2>1, FS_EmptySet
    <3>2. status'[i] = "registered" /\ i \notin matched'
      BY <1>2, <1>7, <2>1
    <3>. QED
      BY <3>1, <3>2, <3>3
  <2>2. CASE i \in DOMAIN watcher
    <3>1. /\ span'[i] = span[i] /\ status'[i] = status[i] /\ watcher'[i] = watcher[i]
          /\ Span(i)' = Span(i) /\ Due(i)' = Due(i)
      BY <1>6, <2>2
    <3>2. /\ span[i].from <= Len(history)
          /\ status[i] # "registered" => span[i].from <= span[i].to /\ span[i].to <= Len(history)
          /\ i \in matched => Len(history) \in Span(i) /\ IsDue(i, history[Len(history)])
          /\ IsFiniteSet(Due(i))
      BY <1>0, <2>2 DEF SpansHeld
    <3>3. i \in matched' => IsDue(i, history[Len(history)])'
      BY <1>2, <3>1, <3>2 DEF IsDue
    <3>. QED
      BY <1>2, <3>1, <3>2, <3>3
  <2>. QED
    BY <1>3, <1>9, <2>1, <2>2
<1>10. ASSUME NEW i \in DOMAIN watcher'
       PROVE  Delivered(got'[i], Held(i)', Due(i)', dropped'[i])
  <2>1. Held(i)' = Held(i)
    BY <1>2 DEF Held, Coming
  <2>2. CASE i = p
    <3>1. queue[p] = <<>> /\ got[p] = <<>> /\ dropped[p] = 0
      BY <1>0, <1>3 DEF UnusedEmpty
    <3>2. Held(p) = <<>>
      BY <1>0, <1>7, <3>1, HeldIs
    <3>. QED
      BY <1>2, <1>8, <2>1, <2>2, <3>1, <3>2, NothingDelivered
  <2>3. CASE i \in DOMAIN watcher
    BY <1>0, <1>2, <1>6, <2>1, <2>3 DEF Accounted
  <2>. QED
    BY <1>3, <1>10, <2>2, <2>3
<1>11. SpansHeld'
  BY <1>9 DEF SpansHeld
<1>. QED
  BY <1>4, <1>10, <1>11 DEF Accounted

-----------------------------------------------------------------------------
(* Who sleeps, and who is woken *)

\* A notification leaves nobody asleep for its watcher, and the others as they were.
LEMMA WokenResult ==
    ASSUME TypeOK, NEW i, NEW c \in Client
    PROVE  /\ Woken(i) \in [Client -> {"idle", "registered", "look", "asleep", "drain"}]
           /\ Woken(i)[c] = "asleep" => pc[c] = "asleep" /\ id[c] # i
           /\ Woken(i)[c] # "idle" => pc[c] # "idle"
BY DEF Woken, TypeOK

\* Steps that only notify, mark or look the watcher up keep all but the requests' places.
LEMMA PlaceTypes ==
    ASSUME IndInv,
           pc' \in [Client -> {"idle", "registered", "look", "asleep", "drain"}],
           waking' \in {waking, NoId},
           status' \in [WatchId -> Status], Registered' = Registered,
           \A i \in WatchId : status'[i] = "none" <=> status[i] = "none",
           UNCHANGED <<revision, applier, watcher, queue, id, batch, history, span, got, dropped>>
    PROVE  /\ TypeOK' /\ GhostTypes' /\ EntriesNumbered'
           /\ SpansHeld' /\ UnusedEmpty' /\ Accounted'
<1>0. TypeOK /\ GhostTypes /\ EntriesNumbered
  BY DEF IndInv
<1>1. DOMAIN watcher' = {i \in WatchId : status'[i] # "none"}
  BY <1>0 DEF TypeOK
<1>2. TypeOK'
  BY <1>0, <1>1 DEF TypeOK, applier
<1>3. GhostTypes'
  BY <1>0 DEF GhostTypes
<1>4. EntriesNumbered'
  BY <1>0 DEF EntriesNumbered, Numbered, applier
<1>5. SpansHeld' /\ UnusedEmpty' /\ Accounted'
  BY AccountsKept DEF applier
<1>. QED
  BY <1>2, <1>3, <1>4, <1>5

LEMMA NotifyOneKeeps == ASSUME IndInv, NotifyOne PROVE IndInv'
<1>0. TypeOK /\ RequestsKnown /\ SleeperIsWoken
  BY DEF IndInv
<1>1. /\ pc' = Woken(waking) /\ waking' = NoId
      /\ UNCHANGED <<revision, applier, watcher, status, queue, id, batch, history, span, got,
                     dropped>>
  BY DEF NotifyOne
<1>2. pc' \in [Client -> {"idle", "registered", "look", "asleep", "drain"}]
  BY <1>0, <1>1, WokenResult DEF Woken, TypeOK
<1>3. status' \in [WatchId -> Status] /\ Registered' = Registered
  BY <1>0, <1>1 DEF TypeOK, Registered
<1>4. /\ TypeOK' /\ GhostTypes' /\ EntriesNumbered'
      /\ SpansHeld' /\ UnusedEmpty' /\ Accounted'
  BY <1>1, <1>2, <1>3, PlaceTypes
<1>5. RequestsKnown'
  BY <1>0, <1>1, WokenResult DEF RequestsKnown
<1>6. SleeperIsWoken'
  BY <1>0, <1>1, WokenResult DEF SleeperIsWoken
<1>. QED
  BY <1>4, <1>5, <1>6 DEF IndInv

LEMMA CancelMarkKeeps == ASSUME IndInv, NEW i \in WatchId, CancelMark(i) PROVE IndInv'
<1>0. TypeOK /\ RequestsKnown /\ SleeperIsWoken
  BY DEF IndInv
<1>1. /\ status[i] = "erased" /\ status' = [status EXCEPT ![i] = "marked"]
      /\ UNCHANGED <<revision, applier, waking, watcher, queue, clients, history, span, got,
                     dropped>>
  BY DEF CancelMark
<1>2. pc' \in [Client -> {"idle", "registered", "look", "asleep", "drain"}]
  BY <1>0, <1>1 DEF TypeOK, clients
<1>3. /\ status' \in [WatchId -> Status] /\ Registered' = Registered
      /\ \A j \in WatchId : status'[j] = "none" <=> status[j] = "none"
      /\ \A j \in WatchId : status'[j] = "cancelled" => status[j] = "cancelled"
  BY <1>0, <1>1 DEF TypeOK, Registered, Status
<1>4. /\ TypeOK' /\ GhostTypes' /\ EntriesNumbered'
      /\ SpansHeld' /\ UnusedEmpty' /\ Accounted'
  BY <1>1, <1>2, <1>3, PlaceTypes DEF clients
<1>5. RequestsKnown'
  BY <1>0, <1>1 DEF RequestsKnown, clients
<1>6. SleeperIsWoken'
  <2>1. \A c \in Client : pc[c] = "asleep" => id[c] \in WatchId
    BY <1>0 DEF RequestsKnown, TypeOK
  <2>. QED
    BY <1>0, <1>1, <1>3, <2>1 DEF SleeperIsWoken, clients
<1>. QED
  BY <1>4, <1>5, <1>6 DEF IndInv

LEMMA CancelNotifyKeeps == ASSUME IndInv, NEW i \in WatchId, CancelNotify(i) PROVE IndInv'
<1>0. TypeOK /\ RequestsKnown /\ SleeperIsWoken
  BY DEF IndInv
<1>1. /\ status[i] = "marked" /\ status' = [status EXCEPT ![i] = "cancelled"]
      /\ pc' = Woken(i)
      /\ UNCHANGED <<revision, applier, waking, watcher, queue, id, batch, history, span, got,
                     dropped>>
  BY DEF CancelNotify, ToldOfCancel
<1>2. pc' \in [Client -> {"idle", "registered", "look", "asleep", "drain"}]
  BY <1>0, <1>1 DEF Woken, TypeOK
<1>3. /\ status' \in [WatchId -> Status] /\ Registered' = Registered
      /\ \A j \in WatchId : status'[j] = "none" <=> status[j] = "none"
      /\ \A j \in WatchId : j # i => status'[j] = status[j]
  BY <1>0, <1>1 DEF TypeOK, Registered, Status
<1>4. /\ TypeOK' /\ GhostTypes' /\ EntriesNumbered'
      /\ SpansHeld' /\ UnusedEmpty' /\ Accounted'
  BY <1>1, <1>2, <1>3, PlaceTypes
<1>5. RequestsKnown'
  BY <1>0, <1>1, WokenResult DEF RequestsKnown
<1>6. ASSUME NEW c \in Client, pc'[c] = "asleep"
      PROVE  (queue'[id'[c]] # <<>> => waking' = id'[c]) /\ status'[id'[c]] # "cancelled"
  <2>1. pc[c] = "asleep" /\ id[c] # i /\ id[c] \in WatchId
    BY <1>0, <1>1, <1>6, WokenResult DEF RequestsKnown, TypeOK
  <2>. QED
    BY <1>0, <1>1, <1>3, <2>1 DEF SleeperIsWoken
<1>. QED
  BY <1>4, <1>5, <1>6 DEF IndInv, SleeperIsWoken

LEMMA GetWatcherKeeps == ASSUME IndInv, NEW c \in Client, GetWatcher(c) PROVE IndInv'
<1>0. TypeOK /\ RequestsKnown /\ SleeperIsWoken
  BY DEF IndInv
<1>1. /\ pc[c] = "registered"
      /\ pc' = [pc EXCEPT ![c] = IF id[c] \in Registered THEN "look" ELSE "idle"]
      /\ UNCHANGED <<revision, applier, waking, watcher, status, queue, id, batch, history, span,
                     got, dropped>>
  BY DEF GetWatcher
<1>2. /\ pc' \in [Client -> {"idle", "registered", "look", "asleep", "drain"}]
      /\ \A d \in Client : /\ pc'[d] = "asleep" => pc[d] = "asleep"
                           /\ pc'[d] # "idle" => pc[d] # "idle"
  BY <1>0, <1>1 DEF TypeOK
<1>3. status' \in [WatchId -> Status] /\ Registered' = Registered
  BY <1>0, <1>1 DEF TypeOK, Registered
<1>4. /\ TypeOK' /\ GhostTypes' /\ EntriesNumbered'
      /\ SpansHeld' /\ UnusedEmpty' /\ Accounted'
  BY <1>1, <1>2, <1>3, PlaceTypes
<1>5. RequestsKnown' /\ SleeperIsWoken'
  BY <1>0, <1>1, <1>2 DEF RequestsKnown, SleeperIsWoken
<1>. QED
  BY <1>4, <1>5 DEF IndInv

LEMMA ApplyKeeps ==
    ASSUME IndInv, NEW k \in Key, ApplyPut(k) \/ ApplyDelete(k) PROVE IndInv'
<1>1. /\ TypeOK' /\ GhostTypes' /\ EntriesNumbered'
      /\ UNCHANGED <<event, matched, waking, watcher, status, queue, clients, history, span,
                     got, dropped>>
  BY ApplyTypes
<1>2. SpansHeld' /\ UnusedEmpty' /\ Accounted'
  BY <1>1, AccountsKept DEF Registered
<1>3. RequestsKnown' /\ SleeperIsWoken'
  BY <1>1 DEF IndInv, RequestsKnown, SleeperIsWoken, clients
<1>. QED
  BY <1>1, <1>2, <1>3 DEF IndInv

LEMMA NotifyKeeps == ASSUME IndInv, Notify PROVE IndInv'
<1>1. UNCHANGED <<waking, watcher, status, queue, clients>>
  BY DEF Notify
<1>2. RequestsKnown' /\ SleeperIsWoken'
  BY <1>1 DEF IndInv, RequestsKnown, SleeperIsWoken, clients
<1>. QED
  BY <1>2, NotifyTypes, NotifyAccounts DEF IndInv

\* While one watcher is to be notified, no other has got an event that was not told.
LEMMA PushKeeps == ASSUME IndInv, PushEvent PROVE IndInv'
<1>0. TypeOK /\ RequestsKnown /\ SleeperIsWoken
  BY DEF IndInv
<1>1. PICK i \in matched :
        /\ i \in WatchId /\ waking = NoId /\ waking' = i
        /\ queue' = [queue EXCEPT ![i] = Pushed(queue[i], event[1])]
        /\ UNCHANGED <<watcher, status, clients>>
  BY PushResult
<1>2. RequestsKnown'
  BY <1>0, <1>1 DEF RequestsKnown, clients
<1>3. ASSUME NEW c \in Client, pc[c] = "asleep"
      PROVE  (queue'[id[c]] # <<>> => waking' = id[c]) /\ status[id[c]] # "cancelled"
  <2>1. id[c] \in WatchId
    BY <1>0, <1>3 DEF RequestsKnown, TypeOK
  <2>2. id[c] # NoId
    BY <2>1 DEF WatchId, NoId
  <2>3. queue[id[c]] = <<>> /\ status[id[c]] # "cancelled"
    BY <1>0, <1>1, <1>3, <2>2 DEF SleeperIsWoken
  <2>4. id[c] # i => queue'[id[c]] = queue[id[c]]
    BY <1>0, <1>1, <2>1 DEF TypeOK
  <2>. QED
    BY <1>1, <2>3, <2>4
<1>4. SleeperIsWoken'
  BY <1>1, <1>3 DEF SleeperIsWoken, clients
<1>. QED
  BY <1>2, <1>4, PushTypes, PushAccounts DEF IndInv

LEMMA EraseKeeps == ASSUME IndInv, NEW i \in WatchId, CancelErase(i) PROVE IndInv'
<1>0. TypeOK /\ RequestsKnown /\ SleeperIsWoken
  BY DEF IndInv
<1>1. /\ status' = [status EXCEPT ![i] = "erased"]
      /\ UNCHANGED <<waking, watcher, queue, clients>>
  BY DEF CancelErase
<1>2. \A c \in Client : pc[c] = "asleep" => id[c] \in WatchId
  BY <1>0 DEF RequestsKnown, TypeOK
<1>3. \A j \in WatchId : status'[j] = "cancelled" => status[j] = "cancelled"
  BY <1>0, <1>1 DEF TypeOK
<1>4. RequestsKnown' /\ SleeperIsWoken'
  BY <1>0, <1>1, <1>2, <1>3 DEF RequestsKnown, SleeperIsWoken, clients
<1>. QED
  BY <1>4, EraseTypes, EraseAccounts DEF IndInv

LEMMA RegisterKeeps ==
    ASSUME IndInv, NEW c \in Client, NEW keys \in Pattern, NEW start_rev \in StartRev,
           Register(c, keys, start_rev)
    PROVE  IndInv'
<1>0. TypeOK /\ RequestsKnown /\ SleeperIsWoken
  BY DEF IndInv
<1>1. PICK i \in WatchId :
        /\ status[i] = "none"
        /\ watcher' = [j \in DOMAIN watcher \cup {i} |->
              IF j = i THEN [keys |-> keys, start_rev |-> start_rev] ELSE watcher[j]]
        /\ status' = [status EXCEPT ![i] = "registered"]
        /\ id' = [id EXCEPT ![c] = i]
  BY DEF Register
<1>2. pc' = [pc EXCEPT ![c] = "registered"] /\ UNCHANGED <<waking, queue>>
  BY DEF Register
<1>3. ASSUME NEW d \in Client
      PROVE  /\ pc'[d] # "idle" => id'[d] \in DOMAIN watcher'
             /\ pc'[d] = "asleep" => /\ queue'[id'[d]] # <<>> => waking' = id'[d]
                                     /\ status'[id'[d]] # "cancelled"
  <2>1. CASE d = c
    BY <1>0, <1>1, <1>2, <2>1 DEF TypeOK
  <2>2. CASE d # c
    <3>1. pc'[d] = pc[d] /\ id'[d] = id[d]
      BY <1>0, <1>1, <1>2, <2>2 DEF TypeOK
    <3>2. pc[d] # "idle" => id[d] \in WatchId /\ id[d] \in DOMAIN watcher /\ id[d] # i
      BY <1>0, <1>1 DEF RequestsKnown, TypeOK
    <3>3. pc[d] # "idle" => status'[id[d]] = status[id[d]]
      BY <1>0, <1>1, <3>2 DEF TypeOK
    <3>4. pc'[d] # "idle" => id'[d] \in DOMAIN watcher'
      BY <1>1, <3>1, <3>2
    <3>5. pc[d] = "asleep" => /\ queue[id[d]] # <<>> => waking = id[d]
                              /\ status[id[d]] # "cancelled"
      BY <1>0 DEF SleeperIsWoken
    <3>. QED
      BY <1>2, <3>1, <3>3, <3>4, <3>5
  <2>. QED
    BY <2>1, <2>2
<1>4. RequestsKnown' /\ SleeperIsWoken'
  BY <1>3 DEF RequestsKnown, SleeperIsWoken
<1>. QED
  BY <1>4, RegisterTypes, RegisterAccounts DEF IndInv

\* A request falls asleep only with an empty queue and before the flag is set.
LEMMA RequestKeeps == ASSUME IndInv, NEW c \in Client, RequestStep(c) PROVE IndInv'
<1>0. TypeOK /\ GhostTypes /\ RequestsKnown /\ SleeperIsWoken
  BY DEF IndInv
<1>1. pc[c] # "idle" /\ UNCHANGED <<waking, watcher, status, id>>
  BY DEF RequestStep
<1>2. id[c] \in WatchId
  BY <1>0, <1>1 DEF RequestsKnown, TypeOK
<1>3. \A d \in Client : d # c => pc'[d] = pc[d]
  <2>1. \E s : pc' = [pc EXCEPT ![c] = s]
    <3>1. CASE Collect(c)
      BY <1>0, <1>1, <3>1, CollectResult
    <3>2. CASE Idles(c)
      BY <3>2 DEF Idles
    <3>. QED
      BY <3>1, <3>2 DEF RequestStep
  <2>2. DOMAIN pc = Client
    BY <1>0 DEF TypeOK
  <2>. QED
    BY <2>1, <2>2
<1>4. RequestsKnown'
  BY <1>0, <1>1, <1>3 DEF RequestsKnown
<1>5. \A i \in WatchId : queue[i] = <<>> => queue'[i] = <<>>
  <2>1. CASE Collect(c)
    <3>1. queue[id[c]] # <<>> /\ queue' = [queue EXCEPT ![id[c]] = Tail(queue[id[c]])]
      BY <1>0, <1>1, <2>1, CollectResult
    <3>. QED
      BY <1>0, <3>1 DEF TypeOK
  <2>2. CASE Idles(c)
    BY <2>2 DEF Idles
  <2>. QED
    BY <2>1, <2>2 DEF RequestStep
<1>6. pc'[c] = "asleep" => queue[id[c]] = <<>> /\ status[id[c]] # "cancelled"
  <2>1. CASE Collect(c)
    <3>1. PICK s \in {"idle", "drain"} : pc' = [pc EXCEPT ![c] = s]
      BY <1>0, <1>1, <2>1, CollectResult
    <3>. QED
      BY <1>0, <3>1 DEF TypeOK
  <2>2. CASE Idles(c)
    <3>1. CASE pc' = [pc EXCEPT ![c] = "idle"]
      BY <1>0, <3>1 DEF TypeOK
    <3>2. CASE queue[id[c]] = <<>> /\ id[c] \notin Cancelled
      BY <1>2, <3>2 DEF Cancelled
    <3>. QED
      BY <2>2, <3>1, <3>2 DEF Idles
  <2>. QED
    BY <2>1, <2>2 DEF RequestStep
<1>7. ASSUME NEW d \in Client, pc'[d] = "asleep"
      PROVE  (queue'[id[d]] # <<>> => waking = id[d]) /\ status[id[d]] # "cancelled"
  <2>1. CASE d = c
    BY <1>2, <1>5, <1>6, <1>7, <2>1
  <2>2. CASE d # c
    <3>1. pc[d] = "asleep" /\ id[d] \in WatchId
      BY <1>0, <1>3, <1>7, <2>2 DEF RequestsKnown, TypeOK
    <3>. QED
      BY <1>0, <1>5, <3>1 DEF SleeperIsWoken
  <2>. QED
    BY <2>1, <2>2
<1>8. SleeperIsWoken'
  BY <1>1, <1>7 DEF SleeperIsWoken
<1>. QED
  BY <1>4, <1>8, RequestTypes, RequestAccounts DEF IndInv

LEMMA StutterKeeps == ASSUME IndInv, UNCHANGED vars PROVE IndInv'
<1>0. TypeOK /\ GhostTypes /\ EntriesNumbered /\ RequestsKnown /\ SleeperIsWoken
  BY DEF IndInv
<1>1. SpansHeld' /\ UnusedEmpty' /\ Accounted'
  BY AccountsKept DEF vars, applier, Registered
<1>2. TypeOK'
  BY <1>0 DEF TypeOK, vars, applier, clients
<1>3. GhostTypes' /\ EntriesNumbered'
  BY <1>0 DEF GhostTypes, EntriesNumbered, Numbered, vars, applier
<1>4. RequestsKnown' /\ SleeperIsWoken'
  BY <1>0 DEF RequestsKnown, SleeperIsWoken, vars, clients
<1>. QED
  BY <1>1, <1>2, <1>3, <1>4 DEF IndInv

-----------------------------------------------------------------------------
(* The theorems *)

LEMMA StepIndInv == IndInv /\ [Next]_vars => IndInv'
<1>. SUFFICES ASSUME IndInv, [Next]_vars PROVE IndInv'
  OBVIOUS
<1>1. CASE \E k \in Key : ApplyPut(k) \/ ApplyDelete(k)
  BY <1>1, ApplyKeeps
<1>2. CASE Notify
  BY <1>2, NotifyKeeps
<1>3. CASE PushEvent
  BY <1>3, PushKeeps
<1>4. CASE NotifyOne
  BY <1>4, NotifyOneKeeps
<1>5. ASSUME NEW i \in WatchId, CancelErase(i) \/ CancelMark(i) \/ CancelNotify(i)
      PROVE  IndInv'
  BY <1>5, EraseKeeps, CancelMarkKeeps, CancelNotifyKeeps
<1>6. ASSUME NEW c \in Client, GetWatcher(c) \/ Look(c) \/ Drain(c) \/ Timeout(c)
      PROVE  IndInv'
  BY <1>6, GetWatcherKeeps, RequestSteps, RequestKeeps
<1>7. ASSUME NEW c \in Client, NEW keys \in Pattern, NEW start_rev \in StartRev,
             Register(c, keys, start_rev)
      PROVE  IndInv'
  BY <1>7, RegisterKeeps
<1>8. CASE UNCHANGED vars
  BY <1>8, StutterKeeps
<1>. QED
  BY <1>1, <1>2, <1>3, <1>4, <1>5, <1>6, <1>7, <1>8
     DEF Next, ApplierStep, CancelStep, ClientStep

\* The inductive invariant of WatchManager and the requests it serves.
THEOREM Inductive == Spec => []IndInv
<1>. QED
  BY InitIndInv, StepIndInv, PTL DEF Spec

\* In every reachable state the queues of the watchers hold events, no more than
\* kMaxEventQueueSize (PushEvent), the batch of an answer stays below its limit
\* (EtcdServer::Watch), and the ids of the requests are those of watchers.
THEOREM TypeCorrect == Spec => []TypeOK
<1>1. IndInv => TypeOK
  BY DEF IndInv
<1>. QED
  BY <1>1, Inductive, PTL

\* Whatever is notified, registered, cancelled and dropped meanwhile (Notify, PushEvent,
\* WatchCancel), all a watcher is due was taken by its request (WaitForEvent), or dropped
\* with the queue full, or is held for it, the latest of it; nothing else is, nothing
\* twice, and nothing out of order.
THEOREM AllDelivered == Spec => []DueDelivered
<1>1. IndInv => DueDelivered
  <2>. SUFFICES ASSUME IndInv, NEW i \in DOMAIN watcher
                PROVE  /\ Range(got[i] \o Held(i)) \subseteq Due(i)
                       /\ InOrder(got[i] \o Held(i))
                       /\ Len(got[i] \o Held(i)) + dropped[i] = Cardinality(Due(i))
                       /\ \A e \in Due(i), n \in DOMAIN Held(i) :
                             e.mod_revision > Held(i)[n].mod_revision => e \in Range(Held(i))
    BY DEF DueDelivered
  <2>1. i \in WatchId /\ TypeOK /\ GhostTypes
    BY DEF IndInv, TypeOK
  <2>. DEFINE taken == got[i]
              held == Held(i)
              due == Due(i)
              lost == dropped[i]
  <2>2. taken \in Seq(Event) /\ lost \in Nat /\ held \in Seq(Event)
    BY <2>1, WatcherTypes, HeldIs
  <2>3. Delivered(taken, held, due, lost)
    BY DEF IndInv, Accounted
  <2>. HIDE DEF taken, held, due, lost
  <2>4. /\ Range(taken \o held) \subseteq due /\ InOrder(taken \o held)
        /\ Len(taken \o held) + lost = Cardinality(due)
        /\ \A e \in due, n \in DOMAIN held :
              e.mod_revision > held[n].mod_revision => e \in Range(held)
    BY <2>2, <2>3, DeliveredJoined
  <2>. QED
    BY <2>4 DEF taken, held, due, lost
<1>. QED
  BY <1>1, Inductive, PTL

\* No wake-up is lost between the look at queue and flag and the sleep on event_cv
\* (WaitForEvent, PushEvent, WatchCancel): while a request sleeps with an event in its
\* queue the applying thread has still to notify its watcher, and when its watcher was
\* cancelled and that was notified, it does not sleep.
THEOREM NoLostWakeup == Spec => []SleeperIsWoken
<1>1. IndInv => SleeperIsWoken
  BY DEF IndInv
<1>. QED
  BY <1>1, Inductive, PTL
=============================================================================
