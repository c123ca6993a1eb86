---------------------------- MODULE ServicesProofs ----------------------------
(***************************************************************************)
(* Proofs about the parts that work beside the requests: the event bus,    *)
(* the pool of Redis connections, the rotation of the master key, the      *)
(* shadow engine and the tracer; about the hedged call, whose threads      *)
(* outlive the request; and about the LRU map under the caches.  They      *)
(* share nothing; each has its own inductive invariant.                    *)
(***************************************************************************)
EXTENDS EventBus, Shadow, Tracer, RedisPool, KeyRotation, HedgedCall, Lru, FiniteSetTheorems,
        SequenceTheorems, WellFoundedInduction, NaturalsInduction, TLAPS

(***************************************************************************)
(* The event bus.                                                          *)
(*                                                                         *)
(* BusAccounted is not inductive: two streams could share a slot, a queue  *)
(* could hold an event that is still to be published.  The invariant adds  *)
(* that subscription ids are unique among slots and among streams, and     *)
(* that no event of a queue is newer than the last one published.          *)
(***************************************************************************)
-----------------------------------------------------------------------------
(* Queues                                                                    *)

LEMMA TailFacts ==
    ASSUME NEW S, NEW q \in Seq(S), q # <<>>
    PROVE  /\ Tail(q) \in Seq(S) /\ Len(q) \in Nat \ {0} /\ Len(Tail(q)) = Len(q) - 1
           /\ DOMAIN q = 1 .. Len(q) /\ DOMAIN Tail(q) = 1 .. Len(q) - 1
           /\ \A i \in 1 .. Len(q) - 1 : Tail(q)[i] = q[i + 1]
           /\ Head(q) = q[1] /\ Head(q) \in S
<1>1. Len(q) \in Nat \ {0}
  BY EmptySeq, LenProperties
<1>2. Tail(q) \in Seq(S) /\ Len(Tail(q)) = Len(q) - 1 /\ \A i \in 1 .. Len(q) - 1 : Tail(q)[i] = q[i + 1]
  BY <1>1, HeadTailProperties
<1>3. DOMAIN Tail(q) = 1 .. Len(Tail(q)) /\ DOMAIN q = 1 .. Len(q)
  BY <1>2, LenProperties
<1>4. Head(q) = q[1] /\ Head(q) \in S
  BY <1>1, <1>3, HeadTailProperties
<1> QED
  BY <1>1, <1>2, <1>3, <1>4

LEMMA AppendFacts ==
    ASSUME NEW S, NEW q \in Seq(S), NEW e \in S
    PROVE  /\ Append(q, e) \in Seq(S) /\ Len(q) \in Nat /\ Len(Append(q, e)) = Len(q) + 1
           /\ DOMAIN q = 1 .. Len(q) /\ DOMAIN Append(q, e) = 1 .. Len(q) + 1
           /\ \A i \in 1 .. Len(q) : Append(q, e)[i] = q[i]
           /\ Append(q, e)[Len(q) + 1] = e
<1>1. Append(q, e) \in Seq(S) /\ Len(Append(q, e)) = Len(q) + 1 /\ Len(q) \in Nat /\ DOMAIN q = 1 .. Len(q)
  BY AppendProperties, LenProperties
<1>2. DOMAIN Append(q, e) = 1 .. Len(Append(q, e))
  BY <1>1, LenProperties
<1> QED
  BY <1>1, <1>2, AppendProperties

Increasing(q) == \A a, b \in DOMAIN q : a < b => q[a] < q[b]
Within(q, low, high) == \A a \in DOMAIN q : low < q[a] /\ q[a] <= high
Before(p, q) == \A a \in DOMAIN p : \A b \in DOMAIN q : p[a] < q[b]

LEMMA TailKeeps ==
    ASSUME NEW q \in Seq(Nat), q # <<>>, Increasing(q), NEW low \in Nat, NEW high \in Nat, Within(q, low, high)
    PROVE  /\ Increasing(Tail(q)) /\ Within(Tail(q), low, high)
           /\ \A b \in DOMAIN Tail(q) : Head(q) < Tail(q)[b]
<1>1. /\ Len(q) \in Nat \ {0} /\ DOMAIN q = 1 .. Len(q) /\ DOMAIN Tail(q) = 1 .. Len(q) - 1
      /\ \A i \in 1 .. Len(q) - 1 : Tail(q)[i] = q[i + 1]
      /\ Head(q) = q[1]
  BY TailFacts
<1>2. \A i \in 1 .. Len(q) - 1 : i + 1 \in 1 .. Len(q) /\ 1 \in 1 .. Len(q) /\ 1 < i + 1
  BY <1>1
<1>3. Increasing(Tail(q))
  <2> SUFFICES ASSUME NEW a \in 1 .. Len(q) - 1, NEW b \in 1 .. Len(q) - 1, a < b
               PROVE  Tail(q)[a] < Tail(q)[b]
    BY <1>1, Zenon DEF Increasing
  <2>1. a + 1 < b + 1
    OBVIOUS
  <2>2. q[a + 1] < q[b + 1]
    BY <1>1, <1>2, <2>1, Zenon DEF Increasing
  <2> QED
    BY <1>1, <2>2, Zenon
<1>4. Within(Tail(q), low, high)
  BY <1>1, <1>2, Zenon DEF Within
<1>5. \A b \in DOMAIN Tail(q) : Head(q) < Tail(q)[b]
  BY <1>1, <1>2, Zenon DEF Increasing
<1> QED
  BY <1>3, <1>4, <1>5

LEMMA AppendKeeps ==
    ASSUME NEW q \in Seq(Nat), Increasing(q), NEW low \in Nat, NEW high \in Nat, Within(q, low, high),
           NEW e \in Nat, low < e, \A a \in DOMAIN q : q[a] < e
    PROVE  /\ Increasing(Append(q, e))
           /\ \A h \in Nat : high <= h /\ e <= h => Within(Append(q, e), low, h)
<1>1. /\ Len(q) \in Nat /\ DOMAIN q = 1 .. Len(q) /\ DOMAIN Append(q, e) = 1 .. Len(q) + 1
      /\ \A i \in 1 .. Len(q) : Append(q, e)[i] = q[i] /\ q[i] \in Nat
      /\ Append(q, e)[Len(q) + 1] = e
  BY AppendFacts, ElementOfSeq
<1>2. Increasing(Append(q, e))
  BY <1>1 DEF Increasing
<1> QED
  BY <1>1, <1>2 DEF Within

LEMMA Joined ==
    ASSUME NEW p \in Seq(Nat), NEW q \in Seq(Nat), NEW low \in Nat, NEW high \in Nat,
           Increasing(p), Increasing(q), Before(p, q), Within(p, low, high), Within(q, low, high)
    PROVE  Increasing(p \o q) /\ Within(p \o q, low, high) /\ Len(p \o q) = Len(p) + Len(q)
<1> DEFINE r == p \o q
           m == Len(p)
           n == Len(q)
<1>1. /\ r \in Seq(Nat) /\ Len(r) = m + n /\ m \in Nat /\ n \in Nat
      /\ DOMAIN p = 1 .. m /\ DOMAIN q = 1 .. n
  BY ConcatProperties, LenProperties
<1>2. DOMAIN r = 1 .. m + n
  BY <1>1, LenProperties
<1>3. \A i \in 1 .. m + n : r[i] = IF i <= m THEN p[i] ELSE q[i - m]
  BY ConcatProperties
<1> HIDE DEF r, m, n
<1>4. Within(r, low, high)
  <2> SUFFICES ASSUME NEW i \in 1 .. m + n PROVE low < r[i] /\ r[i] <= high
    BY <1>2 DEF Within
  <2>1. CASE i <= m
    <3>1. r[i] = p[i] /\ i \in DOMAIN p
      BY <1>1, <1>3, <2>1
    <3> QED
      BY <3>1 DEF Within
  <2>2. CASE ~(i <= m)
    <3>1. r[i] = q[i - m] /\ i - m \in DOMAIN q
      BY <1>1, <1>3, <2>2
    <3> QED
      BY <3>1 DEF Within
  <2> QED
    BY <2>1, <2>2
<1>5. ASSUME NEW a \in 1 .. m + n, NEW b \in 1 .. m + n, a < b
      PROVE  r[a] < r[b]
  <2>1. CASE b <= m
    <3>1. r[a] = p[a] /\ r[b] = p[b] /\ a \in 1 .. m /\ b \in 1 .. m
      BY <1>1, <1>3, <1>5, <2>1
    <3> QED
      BY <1>1, <1>5, <3>1 DEF Increasing
  <2>2. CASE a <= m /\ b > m
    <3>1. r[a] = p[a] /\ r[b] = q[b - m] /\ a \in 1 .. m /\ b - m \in 1 .. n
      BY <1>1, <1>3, <1>5, <2>2
    <3> QED
      BY <1>1, <3>1 DEF Before
  <2>3. CASE a > m
    <3>1. r[a] = q[a - m] /\ r[b] = q[b - m] /\ a - m \in 1 .. n /\ b - m \in 1 .. n /\ a - m < b - m
      BY <1>1, <1>3, <1>5, <2>3
    <3> QED
      BY <1>1, <3>1 DEF Increasing
  <2> QED
    BY <1>1, <1>5, <2>1, <2>2, <2>3
<1>6. Increasing(r)
  BY <1>2, <1>5 DEF Increasing
<1> QED
  BY <1>1, <1>4, <1>6 DEF r, m, n

-----------------------------------------------------------------------------
(* The event bus                                                             *)

Subs == [active : BOOLEAN, id : Nat, queue : Seq(Nat), dropped : Nat]

BusTypes ==
    /\ slots \in [Indexes -> Subs]
    /\ stream \in [Streams -> [id : Nat, since : Nat, sent : Seq(Nat)]]
    /\ nextSub \in Nat /\ published \in Nat

\* An id in use is one that was given out, to one slot and one stream.
BusIds ==
    /\ \A i \in Indexes : slots[i].active => slots[i].id \in 1 .. nextSub
    /\ \A i, j \in Indexes : slots[i].active /\ slots[j].active /\ slots[i].id = slots[j].id => i = j
    /\ \A s \in Streams : stream[s].id \in 0 .. nextSub
    /\ \A s, t \in Streams : stream[s].id # 0 /\ stream[s].id = stream[t].id => s = t

\* Subscription u of a stream is well served by slot b, when there have been n events.
Served(u, b, n) ==
    /\ b.active /\ b.id = u.id
    /\ Increasing(u.sent) /\ Increasing(b.queue) /\ Before(u.sent, b.queue)
    /\ Within(u.sent, u.since, n) /\ Within(b.queue, u.since, n)
    /\ u.since <= n /\ Len(u.sent) + Len(b.queue) + b.dropped = n - u.since

BusServed == \A s \in Streams : stream[s].id # 0 => \E i \in Indexes : Served(stream[s], slots[i], published)

BusInv == BusTypes /\ BusIds /\ BusServed

LEMMA BusInitInv == BusInit => BusInv
<1> SUFFICES ASSUME BusInit PROVE BusInv
  OBVIOUS
<1>1. BusTypes
  BY EmptySeq DEF BusInit, BusTypes, NoSub, Closed, Subs
<1> QED
  BY <1>1 DEF BusInit, BusInv, BusIds, BusServed, NoSub, Closed

LEMMA SubscribeInv ==
    ASSUME BusInv, NEW s \in Streams, event_bus_subscribe(s)
    PROVE  BusInv'
<1> DEFINE b == [active |-> TRUE, id |-> nextSub + 1, queue |-> <<>>, dropped |-> 0]
           u == [id |-> nextSub + 1, since |-> published, sent |-> <<>>]
<1>1. PICK i \in Indexes : ~slots[i].active /\ slots' = [slots EXCEPT ![i] = b]
  BY DEF event_bus_subscribe, Taken
<1>2. nextSub' = nextSub + 1 /\ published' = published /\ stream' = [stream EXCEPT ![s] = u] /\ stream[s].id = 0
  BY DEF event_bus_subscribe, Closed
<1>3. /\ b \in Subs /\ u \in [id : Nat, since : Nat, sent : Seq(Nat)]
      /\ b.active /\ b.id = nextSub + 1 /\ u.id = nextSub + 1
  BY EmptySeq DEF BusInv, BusTypes, Subs
<1>4. Served(u, b, published)
  BY DEF Served, Increasing, Within, Before, BusInv, BusTypes
<1> HIDE DEF b, u
<1>5. BusTypes'
  BY <1>1, <1>2, <1>3 DEF BusInv, BusTypes
<1>6. /\ slots'[i] = b /\ \A j \in Indexes \ {i} : slots'[j] = slots[j]
      /\ stream'[s] = u /\ \A t \in Streams \ {s} : stream'[t] = stream[t]
      /\ nextSub \in Nat
  BY <1>1, <1>2 DEF BusInv, BusTypes
<1>7. BusIds'
  <2>1. \A j \in Indexes : slots'[j].active /\ j # i => slots'[j].id \in 1 .. nextSub
    BY <1>6 DEF BusInv, BusIds
  <2>2. \A t \in Streams : t # s => stream'[t].id \in 0 .. nextSub
    BY <1>6 DEF BusInv, BusIds
  <2>3. /\ slots'[i].id = nextSub + 1 /\ stream'[s].id = nextSub + 1
    BY <1>3, <1>6
  <2>4. \A j \in Indexes : slots'[j].active => slots'[j].id \in 1 .. nextSub'
    BY <1>2, <1>6, <2>1, <2>3
  <2>5. \A t \in Streams : stream'[t].id \in 0 .. nextSub'
    BY <1>2, <1>6, <2>2, <2>3
  <2>6. \A j, k \in Indexes : slots'[j].active /\ slots'[k].active /\ slots'[j].id = slots'[k].id => j = k
    <3> SUFFICES ASSUME NEW j \in Indexes, NEW k \in Indexes, slots'[j].active, slots'[k].active,
                        slots'[j].id = slots'[k].id, j # k
                 PROVE  FALSE
      OBVIOUS
    <3>1. CASE j # i /\ k # i
      BY <1>6, <3>1 DEF BusInv, BusIds
    <3>2. CASE j = i \/ k = i
      BY <1>6, <2>1, <2>3, <3>2
    <3> QED
      BY <3>1, <3>2
  <2>7. \A t, w \in Streams : stream'[t].id # 0 /\ stream'[t].id = stream'[w].id => t = w
    <3> SUFFICES ASSUME NEW t \in Streams, NEW w \in Streams, stream'[t].id # 0,
                        stream'[t].id = stream'[w].id, t # w
                 PROVE  FALSE
      OBVIOUS
    <3>1. CASE t # s /\ w # s
      BY <1>6, <3>1 DEF BusInv, BusIds
    <3>2. CASE t = s \/ w = s
      BY <1>6, <2>2, <2>3, <3>2
    <3> QED
      BY <3>1, <3>2
  <2> QED
    BY <2>4, <2>5, <2>6, <2>7 DEF BusIds
<1>8. ASSUME NEW t \in Streams, stream'[t].id # 0
      PROVE  \E j \in Indexes : Served(stream'[t], slots'[j], published')
  <2>1. CASE t = s
    BY <1>2, <1>4, <1>6, <2>1
  <2>2. CASE t # s
    <3>1. PICK j \in Indexes : Served(stream[t], slots[j], published)
      BY <1>6, <1>8, <2>2 DEF BusInv, BusServed
    <3>2. j # i
      BY <1>1, <3>1 DEF Served
    <3> QED
      BY <1>2, <1>6, <2>2, <3>1, <3>2
  <2> QED
    BY <2>1, <2>2
<1> QED
  BY <1>5, <1>7, <1>8 DEF BusInv, BusServed

LEMMA PopInv ==
    ASSUME BusInv, NEW s \in Streams, event_bus_pop(s)
    PROVE  BusInv'
<1>1. PICK i \in SlotOf(stream[s].id) :
        /\ slots[i].queue # <<>>
        /\ slots' = [slots EXCEPT ![i].queue = Tail(slots[i].queue)]
        /\ stream' = [stream EXCEPT ![s].sent = Append(stream[s].sent, Head(slots[i].queue))]
        /\ UNCHANGED <<nextSub, published>>
  BY DEF event_bus_pop
<1> DEFINE q == slots[i].queue
           p == stream[s].sent
           b == [slots[i] EXCEPT !.queue = Tail(q)]
           u == [stream[s] EXCEPT !.sent = Append(p, Head(q))]
<1>2. i \in Indexes /\ slots[i].active /\ slots[i].id = stream[s].id /\ stream[s].id # 0
  BY DEF SlotOf, BusInv, BusIds
<1>3. slots[i] \in Subs /\ stream[s] \in [id : Nat, since : Nat, sent : Seq(Nat)] /\ q \in Seq(Nat) /\ p \in Seq(Nat)
  BY <1>2 DEF BusInv, BusTypes, Subs
<1>4. slots' = [slots EXCEPT ![i] = b] /\ stream' = [stream EXCEPT ![s] = u]
  BY <1>1
<1>5. Tail(q) \in Seq(Nat) /\ Head(q) \in Nat /\ Append(p, Head(q)) \in Seq(Nat)
  BY <1>1, <1>3, TailFacts, AppendFacts
<1>6. /\ b \in Subs /\ u \in [id : Nat, since : Nat, sent : Seq(Nat)]
      /\ b.active = slots[i].active /\ b.id = slots[i].id /\ b.queue = Tail(q) /\ b.dropped = slots[i].dropped
      /\ u.id = stream[s].id /\ u.since = stream[s].since /\ u.sent = Append(p, Head(q))
  BY <1>3, <1>5 DEF Subs
<1>7. Served(stream[s], slots[i], published)
  BY <1>2 DEF BusInv, BusServed, Served, BusIds
<1>8. Served(u, b, published)
  <2>1. /\ Increasing(Tail(q)) /\ Within(Tail(q), stream[s].since, published)
        /\ \A k \in DOMAIN Tail(q) : Head(q) < Tail(q)[k]
    BY <1>1, <1>3, <1>7, TailKeeps DEF Served, BusInv, BusTypes
  <2>2. /\ Len(q) \in Nat \ {0} /\ Len(Tail(q)) = Len(q) - 1 /\ Head(q) = q[1]
        /\ DOMAIN q = 1 .. Len(q) /\ DOMAIN Tail(q) = 1 .. Len(q) - 1
        /\ \A k \in 1 .. Len(q) - 1 : Tail(q)[k] = q[k + 1]
    BY <1>1, <1>3, TailFacts
  <2>3. /\ Len(p) \in Nat /\ Len(Append(p, Head(q))) = Len(p) + 1
        /\ DOMAIN p = 1 .. Len(p) /\ DOMAIN Append(p, Head(q)) = 1 .. Len(p) + 1
        /\ \A k \in 1 .. Len(p) : Append(p, Head(q))[k] = p[k]
        /\ Append(p, Head(q))[Len(p) + 1] = Head(q)
    BY <1>3, <1>5, AppendFacts
  <2>4. (\A k \in DOMAIN p : p[k] < Head(q)) /\ stream[s].since < Head(q) /\ Head(q) <= published
    BY <1>7, <2>2 DEF Served, Before, Within
  <2>5. Increasing(Append(p, Head(q))) /\ Within(Append(p, Head(q)), stream[s].since, published)
    <3>1. /\ stream[s].since \in Nat /\ published \in Nat /\ published <= published
          /\ Increasing(p) /\ Within(p, stream[s].since, published)
      BY <1>3, <1>7 DEF Served, BusInv, BusTypes
    <3> HIDE DEF p, q
    <3> QED
      BY <1>3, <1>5, <2>4, <3>1, AppendKeeps
  <2>6. Before(Append(p, Head(q)), Tail(q))
    <3> SUFFICES ASSUME NEW k \in 1 .. Len(p) + 1, NEW l \in 1 .. Len(q) - 1
                 PROVE  Append(p, Head(q))[k] < Tail(q)[l]
      BY <2>2, <2>3 DEF Before
    <3>1. CASE k = Len(p) + 1
      BY <2>1, <2>2, <2>3, <3>1
    <3>2. CASE k # Len(p) + 1
      <4>1. k \in DOMAIN p /\ l + 1 \in DOMAIN q
        BY <2>2, <2>3, <3>2
      <4> QED
        BY <1>7, <2>2, <2>3, <4>1 DEF Served, Before
    <3> QED
      BY <3>1, <3>2
  <2>7. Len(Append(p, Head(q))) + Len(Tail(q)) + slots[i].dropped = published - stream[s].since
    <3>1. /\ stream[s].since \in Nat /\ published \in Nat /\ slots[i].dropped \in Nat
          /\ Len(p) + Len(q) + slots[i].dropped = published - stream[s].since
      BY <1>3, <1>7 DEF Served, BusInv, BusTypes, Subs
    <3> HIDE DEF p, q
    <3> QED
      BY <2>2, <2>3, <3>1
  <2> HIDE DEF b, u, p, q
  <2> QED
    BY <1>6, <1>7, <2>1, <2>5, <2>6, <2>7 DEF Served, p, q
<1> HIDE DEF b, u, p, q
<1>9. /\ slots'[i] = b /\ \A j \in Indexes \ {i} : slots'[j] = slots[j]
      /\ stream'[s] = u /\ \A t \in Streams \ {s} : stream'[t] = stream[t]
  BY <1>2, <1>4 DEF BusInv, BusTypes
<1>10. BusTypes'
  BY <1>1, <1>4, <1>6 DEF BusInv, BusTypes
<1>11. /\ \A j \in Indexes : slots'[j].active = slots[j].active /\ slots'[j].id = slots[j].id
       /\ \A t \in Streams : stream'[t].id = stream[t].id
  BY <1>6, <1>9
<1>12. BusIds'
  BY <1>1, <1>11 DEF BusInv, BusIds
<1>13. ASSUME NEW t \in Streams, stream'[t].id # 0
       PROVE  \E j \in Indexes : Served(stream'[t], slots'[j], published')
  <2>1. CASE t = s
    BY <1>1, <1>2, <1>8, <1>9, <2>1
  <2>2. CASE t # s
    <3>1. PICK j \in Indexes : Served(stream[t], slots[j], published)
      BY <1>11, <1>13 DEF BusInv, BusServed
    <3>2. j # i
      BY <1>2, <1>11, <1>13, <2>2, <3>1 DEF Served, BusInv, BusIds
    <3> QED
      BY <1>1, <1>9, <2>2, <3>1, <3>2
  <2> QED
    BY <2>1, <2>2
<1> QED
  BY <1>10, <1>12, <1>13 DEF BusInv, BusServed

LEMMA UnsubscribeInv ==
    ASSUME BusInv, NEW s \in Streams, event_bus_unsubscribe(s)
    PROVE  BusInv'
<1>1. /\ stream[s].id # 0 /\ UNCHANGED <<nextSub, published>>
      /\ slots' = [i \in Indexes |-> IF i \in SlotOf(stream[s].id) THEN [slots[i] EXCEPT !.active = FALSE]
                                     ELSE slots[i]]
      /\ stream' = [stream EXCEPT ![s] = Closed]
  BY DEF event_bus_unsubscribe
<1>2. Closed \in [id : Nat, since : Nat, sent : Seq(Nat)] /\ Closed.id = 0
  BY EmptySeq DEF Closed
<1>3. \A i \in Indexes : [slots[i] EXCEPT !.active = FALSE] \in Subs
  BY DEF BusInv, BusTypes, Subs
<1>4. BusTypes'
  BY <1>1, <1>2, <1>3 DEF BusInv, BusTypes
<1>5. /\ stream'[s].id = 0 /\ \A t \in Streams \ {s} : stream'[t] = stream[t]
      /\ \A i \in Indexes : /\ slots'[i].active => slots[i].active /\ slots'[i] = slots[i]
                            /\ slots[i].active /\ slots[i].id # stream[s].id => slots'[i] = slots[i]
  BY <1>1, <1>2 DEF BusInv, BusTypes, SlotOf, Subs
<1>6. BusIds'
  <2>1. \A i \in Indexes : slots'[i].active => slots'[i].id \in 1 .. nextSub'
    BY <1>1, <1>5 DEF BusInv, BusIds
  <2>2. \A i, j \in Indexes : slots'[i].active /\ slots'[j].active /\ slots'[i].id = slots'[j].id => i = j
    BY <1>5 DEF BusInv, BusIds
  <2>3. \A t \in Streams : stream'[t].id \in 0 .. nextSub'
    BY <1>1, <1>5 DEF BusInv, BusIds, BusTypes
  <2>4. \A t, w \in Streams : stream'[t].id # 0 /\ stream'[t].id = stream'[w].id => t = w
    BY <1>5 DEF BusInv, BusIds
  <2> QED
    BY <2>1, <2>2, <2>3, <2>4 DEF BusIds
<1>7. ASSUME NEW t \in Streams, stream'[t].id # 0
      PROVE  \E i \in Indexes : Served(stream'[t], slots'[i], published')
  <2>1. t # s /\ stream'[t] = stream[t] /\ stream[t].id # stream[s].id
    BY <1>5, <1>7 DEF BusInv, BusIds
  <2>2. PICK i \in Indexes : Served(stream[t], slots[i], published)
    BY <1>7, <2>1 DEF BusInv, BusServed
  <2> QED
    BY <1>1, <1>5, <2>1, <2>2 DEF Served
<1> QED
  BY <1>4, <1>6, <1>7 DEF BusInv, BusServed

\* A queue that takes event n + 1 serves its stream as before.
LEMMA DeliveredServes ==
    ASSUME NEW n \in Nat, NEW u \in [id : Nat, since : Nat, sent : Seq(Nat)], NEW b \in Subs, NEW c \in Subs,
           Served(u, b, n), c.active = b.active, c.id = b.id, c.queue = Delivered(b.queue, n + 1),
           c.dropped = IF Len(b.queue) = QueueCap THEN b.dropped + 1 ELSE b.dropped
    PROVE  Served(u, c, n + 1)
<1> DEFINE q == b.queue
           p == u.sent
           r == IF Len(q) = QueueCap THEN Tail(q) ELSE q
<1>1. /\ q \in Seq(Nat) /\ p \in Seq(Nat) /\ u.since \in Nat /\ b.dropped \in Nat
      /\ Increasing(q) /\ Increasing(p) /\ Before(p, q) /\ Within(p, u.since, n) /\ Within(q, u.since, n)
      /\ Len(p) + Len(q) + b.dropped = n - u.since /\ Len(q) \in Nat /\ Len(p) \in Nat /\ u.since <= n
  BY LenProperties DEF Served, Subs
<1>2. c.queue = Append(r, n + 1) /\ c.active /\ c.id = u.id
      /\ c.dropped = IF Len(q) = QueueCap THEN b.dropped + 1 ELSE b.dropped
  BY DEF Delivered, Served
<1> HIDE DEF p, q
<1>3. /\ r \in Seq(Nat) /\ Increasing(r) /\ Within(r, u.since, n) /\ Before(p, r)
      /\ Len(p) + Len(r) + c.dropped = n - u.since
  <2>1. CASE Len(q) = QueueCap
    <3>1. q # <<>>
      BY <1>1, <2>1, EmptySeq, BusAssumption
    <3> DEFINE l == Len(q)
               v == Tail(q)
    <3>2. /\ v \in Seq(Nat) /\ Len(v) = l - 1 /\ l \in Nat \ {0}
          /\ DOMAIN q = 1 .. l /\ DOMAIN v = 1 .. l - 1
          /\ \A i \in 1 .. l - 1 : v[i] = q[i + 1]
      BY <1>1, <3>1, TailFacts
    <3>3. Increasing(v) /\ Within(v, u.since, n)
      BY <1>1, <3>1, TailKeeps
    <3>4. r = v /\ c.dropped = b.dropped + 1 /\ Len(p) + l + b.dropped = n - u.since
      BY <1>1, <1>2, <2>1
    <3> HIDE DEF l, v, r
    <3>5. Before(p, v)
      <4>1. \A i \in DOMAIN v : i + 1 \in DOMAIN q /\ v[i] = q[i + 1]
        BY <3>2
      <4> QED
        BY <1>1, <4>1 DEF Before
    <3>6. Len(p) + Len(v) + c.dropped = n - u.since
      <4>1. Len(p) \in Nat /\ l \in Nat /\ b.dropped \in Nat
        BY <1>1, <3>2
      <4>2. Len(v) = l - 1 /\ c.dropped = b.dropped + 1
        BY <3>2, <3>4
      <4>3. Len(p) + Len(v) + c.dropped = Len(p) + l + b.dropped
        BY <4>1, <4>2
      <4> QED
        BY <3>4, <4>3
    <3> QED
      BY <3>2, <3>3, <3>4, <3>5, <3>6
  <2>2. CASE Len(q) # QueueCap
    BY <1>1, <1>2, <2>2
  <2> QED
    BY <2>1, <2>2
<1> HIDE DEF r
<1>4. n + 1 \in Nat /\ u.since < n + 1 /\ u.since <= n + 1 /\ n <= n + 1 /\ n + 1 <= n + 1 /\ c.dropped \in Nat
  BY <1>1 DEF Subs
<1> DEFINE w == Append(r, n + 1)
           k == Len(r)
<1>5. /\ k \in Nat /\ Len(w) = k + 1 /\ DOMAIN r = 1 .. k /\ DOMAIN w = 1 .. k + 1
      /\ \A i \in 1 .. k : w[i] = r[i]
      /\ w[k + 1] = n + 1
  BY <1>3, <1>4, AppendFacts
<1>6. ASSUME NEW s \in Seq(Nat), Within(s, u.since, n), NEW a \in DOMAIN s
      PROVE  u.since < s[a] /\ s[a] < n + 1 /\ s[a] <= n + 1
  <2>1. s[a] \in Nat
    BY <1>6, ElementOfSeq, LenProperties
  <2>2. u.since < s[a] /\ s[a] <= n
    BY <1>6 DEF Within
  <2> QED
    BY <2>1, <2>2
<1>7. Increasing(w) /\ Within(w, u.since, n + 1)
  BY <1>1, <1>3, <1>4, <1>6, AppendKeeps
<1>8. Within(p, u.since, n + 1)
  BY <1>1, <1>6 DEF Within
<1> HIDE DEF w, k
<1>9. Before(p, w)
  <2> SUFFICES ASSUME NEW a \in DOMAIN p, NEW i \in 1 .. k + 1 PROVE p[a] < w[i]
    BY <1>5 DEF Before
  <2>1. CASE i = k + 1
    BY <1>1, <1>5, <1>6, <2>1
  <2>2. CASE i # k + 1
    <3>1. i \in DOMAIN r /\ w[i] = r[i]
      BY <1>5, <2>2
    <3> QED
      BY <1>3, <3>1 DEF Before
  <2> QED
    BY <2>1, <2>2
<1>10. Len(p) + Len(w) + c.dropped = (n + 1) - u.since /\ u.since <= n + 1
  <2> DEFINE a == Len(p)
             d == c.dropped
             f == u.since
             l == Len(w)
  <2>1. /\ a + k + d = n - f /\ a \in Nat /\ k \in Nat /\ l = k + 1 /\ d \in Nat /\ f \in Nat /\ f <= n
    BY <1>1, <1>3, <1>4, <1>5 DEF k
  <2> HIDE DEF a, d, f, l
  <2>2. a + l + d = (n + 1) - f
    BY <2>1
  <2> QED
    BY <1>4, <2>2 DEF a, d, f, l
<1>11. u.sent = p /\ c.queue = w
  BY <1>2 DEF p, w
<1> QED
  BY <1>1, <1>2, <1>7, <1>8, <1>9, <1>10, <1>11, Zenon DEF Served

LEMMA PublishInv == BusInv /\ event_bus_publish => BusInv'
<1> SUFFICES ASSUME BusInv, event_bus_publish PROVE BusInv'
  OBVIOUS
<1>1. published \in Nat /\ published' = published + 1 /\ UNCHANGED <<nextSub, stream>>
  BY DEF event_bus_publish, BusInv, BusTypes
<1> DEFINE Missed(i) == IF Len(slots[i].queue) = QueueCap THEN slots[i].dropped + 1 ELSE slots[i].dropped
           New(i) == [slots[i] EXCEPT !.queue = Delivered(slots[i].queue, published + 1), !.dropped = Missed(i)]
<1>2. slots' = [i \in Indexes |-> IF slots[i].active THEN New(i) ELSE slots[i]]
  BY DEF event_bus_publish
<1>3. ASSUME NEW i \in Indexes
      PROVE  /\ New(i) \in Subs /\ New(i).active = slots[i].active /\ New(i).id = slots[i].id
             /\ New(i).queue = Delivered(slots[i].queue, published + 1) /\ New(i).dropped = Missed(i)
  <2>1. slots[i] \in Subs /\ slots[i].queue \in Seq(Nat) /\ Len(slots[i].queue) \in Nat /\ slots[i].dropped \in Nat
    BY LenProperties DEF BusInv, BusTypes, Subs
  <2>2. Delivered(slots[i].queue, published + 1) \in Seq(Nat)
    <3> DEFINE q == slots[i].queue
    <3>1. published + 1 \in Nat
      BY <1>1
    <3>2. CASE Len(q) = QueueCap
      <4>1. q # <<>>
        BY <2>1, <3>2, EmptySeq, BusAssumption
      <4>2. Tail(q) \in Seq(Nat)
        BY <2>1, <4>1, TailFacts
      <4> QED
        BY <3>1, <3>2, <4>2, AppendFacts DEF Delivered
    <3>3. CASE Len(q) # QueueCap
      BY <2>1, <3>1, <3>3, AppendFacts DEF Delivered
    <3> QED
      BY <3>2, <3>3
  <2>3. Missed(i) \in Nat
    BY <2>1
  <2> HIDE DEF Missed
  <2> QED
    BY <2>1, <2>2, <2>3 DEF Subs
<1>4. /\ \A i \in Indexes : slots'[i].active = slots[i].active /\ slots'[i].id = slots[i].id
      /\ \A i \in Indexes : slots[i].active => slots'[i] = New(i)
  BY <1>2, <1>3
<1>5. BusTypes'
  <2> HIDE DEF New
  <2> QED
    BY <1>1, <1>2, <1>3 DEF BusInv, BusTypes
<1>6. BusIds'
  BY <1>1, <1>4 DEF BusInv, BusIds
<1>7. ASSUME NEW s \in Streams, stream'[s].id # 0
      PROVE  \E i \in Indexes : Served(stream'[s], slots'[i], published')
  <2>1. PICK i \in Indexes : Served(stream[s], slots[i], published)
    BY <1>1, <1>7 DEF BusInv, BusServed
  <2>2. slots[i] \in Subs /\ stream[s] \in [id : Nat, since : Nat, sent : Seq(Nat)] /\ slots[i].active
    BY <2>1 DEF BusInv, BusTypes, Served
  <2>3. Served(stream[s], New(i), published + 1)
    BY <1>1, <1>3, <2>1, <2>2, DeliveredServes
  <2> QED
    BY <1>1, <1>4, <2>2, <2>3
<1> QED
  BY <1>5, <1>6, <1>7 DEF BusInv, BusServed

LEMMA BusNextInv == BusInv /\ [BusNext]_busVars => BusInv'
<1> SUFFICES ASSUME BusInv, [BusNext]_busVars PROVE BusInv'
  OBVIOUS
<1>1. CASE UNCHANGED busVars
  BY <1>1 DEF busVars, BusInv, BusTypes, BusIds, BusServed
<1>2. CASE event_bus_free
  <2>1. NoSub \in Subs /\ ~NoSub.active
    BY EmptySeq DEF NoSub, Subs
  <2>2. BusTypes'
    BY <1>2, <2>1 DEF event_bus_free, BusInv, BusTypes
  <2>3. \A s \in Streams : stream'[s].id = 0
    BY <1>2 DEF event_bus_free, Closed
  <2> QED
    BY <1>2, <2>1, <2>2, <2>3 DEF event_bus_free, BusInv, BusIds, BusServed, BusTypes
<1> QED
  BY <1>1, <1>2, SubscribeInv, PopInv, UnsubscribeInv, PublishInv DEF BusNext

\* A stream gets every event published since it subscribed, once and in order, but for those that its
\* own full queue dropped and counted, for any number of streams, slots and events (event_bus_subscribe,
\* event_bus_publish, event_bus_pop, event_bus_unsubscribe).
THEOREM BusIsAccounted == BusSpec => []BusAccounted
<1>1. BusInv => BusAccounted
  <2> SUFFICES ASSUME BusInv, NEW s \in Streams, stream[s].id # 0
               PROVE  \E i \in SlotOf(stream[s].id) :
                        LET due == stream[s].sent \o slots[i].queue
                        IN  /\ \A a, b \in DOMAIN due : a < b => due[a] < due[b]
                            /\ \A a \in DOMAIN due : due[a] > stream[s].since
                            /\ Len(due) + slots[i].dropped = published - stream[s].since
    BY DEF BusAccounted
  <2>1. PICK i \in Indexes : Served(stream[s], slots[i], published)
    BY DEF BusInv, BusServed
  <2> DEFINE due == stream[s].sent \o slots[i].queue
  <2>2. /\ stream[s].sent \in Seq(Nat) /\ slots[i].queue \in Seq(Nat)
        /\ stream[s].since \in Nat /\ published \in Nat
    BY DEF BusInv, BusTypes, Subs
  <2>3. Increasing(due) /\ Within(due, stream[s].since, published)
        /\ Len(due) = Len(stream[s].sent) + Len(slots[i].queue)
    BY <2>1, <2>2, Joined DEF Served
  <2>4. i \in SlotOf(stream[s].id) /\ Len(due) + slots[i].dropped = published - stream[s].since
    BY <2>1, <2>3 DEF Served, SlotOf
  <2> HIDE DEF due
  <2>5. /\ \A a, b \in DOMAIN due : a < b => due[a] < due[b]
        /\ \A a \in DOMAIN due : due[a] > stream[s].since
    BY <2>3 DEF Increasing, Within
  <2> QED
    BY <2>4, <2>5 DEF due
<1> QED
  BY <1>1, BusInitInv, BusNextInv, PTL DEF BusSpec

(***************************************************************************)
(* The pool of Redis connections, for any number of threads, any capacity  *)
(* and any number of faults.                                               *)
(*                                                                         *)
(* PoolCounted is not inductive.  A connection with an error on the stack  *)
(* would send its caller through the health check of redis_pool_acquire,   *)
(* which gives the slot up and then dials without one; so the invariant    *)
(* adds that no thread is ever there.                                      *)
(***************************************************************************)
Conns == [err : BOOLEAN, ready : BOOLEAN]
Counting == {"new", "uses", "back", "check"}
Pcs == Counting \cup {"out", "waits", "redial"}

PoolTypes ==
    /\ pool \in [count : Int, idle : Seq(Conns), open : BOOLEAN]
    /\ caller \in [PoolThreads -> [pc : Pcs, c : Conns]]

\* No thread has been lent a connection with an error.
NoHealthCheck == \A t \in PoolThreads : caller[t].pc \notin {"check", "redial"}

PoolInv == PoolTypes /\ PoolCounted /\ NoHealthCheck

-----------------------------------------------------------------------------
LEMMA OutFinite == IsFiniteSet(OutOfPool) /\ Cardinality(OutOfPool) \in Nat
<1>1. OutOfPool \subseteq PoolThreads
  BY DEF OutOfPool
<1> QED
  BY <1>1, FS_Subset, FS_CardinalityType, PoolAssumption

Here(pc) == IF pc \in Counting THEN 1 ELSE 0

\* A thread that moves on changes the number of threads with a slot by at most one.
LEMMA MoveCounts ==
    ASSUME PoolInv, NEW t \in PoolThreads, NEW pc \in Pcs \ {"check", "redial"}, NEW c \in Conns,
           Moves(t, pc, c)
    PROVE  /\ caller' \in [PoolThreads -> [pc : Pcs, c : Conns]]
           /\ NoHealthCheck'
           /\ Cardinality(OutOfPool') = Cardinality(OutOfPool) - Here(caller[t].pc) + Here(pc)
<1>1. caller' \in [PoolThreads -> [pc : Pcs, c : Conns]] /\ NoHealthCheck'
  BY DEF PoolInv, PoolTypes, NoHealthCheck, Moves
<1>2. OutOfPool' = IF pc \in Counting THEN OutOfPool \cup {t} ELSE OutOfPool \ {t}
  BY DEF PoolInv, PoolTypes, OutOfPool, Moves, Counting
<1>3. t \in OutOfPool <=> caller[t].pc \in Counting
  BY DEF OutOfPool, Counting
<1>4. CASE pc \in Counting
  <2>1. Cardinality(OutOfPool \cup {t}) = IF t \in OutOfPool THEN Cardinality(OutOfPool) ELSE Cardinality(OutOfPool) + 1
    BY OutFinite, FS_AddElement
  <2> QED
    BY <1>1, <1>2, <1>3, <1>4, <2>1, OutFinite DEF Here
<1>5. CASE pc \notin Counting
  <2>1. Cardinality(OutOfPool \ {t}) = IF t \in OutOfPool THEN Cardinality(OutOfPool) - 1 ELSE Cardinality(OutOfPool)
    BY OutFinite, FS_RemoveElement
  <2> QED
    BY <1>1, <1>2, <1>3, <1>5, <2>1, OutFinite DEF Here
<1> QED
  BY <1>4, <1>5

\* The steps that threads go to, and whether they hold a slot there.
LEMMA PcFacts ==
    /\ Here("out") = 0 /\ Here("waits") = 0 /\ Here("new") = 1 /\ Here("uses") = 1 /\ Here("back") = 1
    /\ {"out", "waits", "new", "uses", "back"} \subseteq Pcs \ {"check", "redial"}
    /\ NoConn \in Conns /\ Dialled \in Conns
  BY DEF Here, Counting, Pcs, NoConn, Dialled, Conns

\* The stack without its top.
LEMMA Popped ==
    ASSUME NEW S, NEW s \in Seq(S), Len(s) > 0
    PROVE  LET r == SubSeq(s, 1, Len(s) - 1)
           IN  r \in Seq(S) /\ Len(r) = Len(s) - 1 /\ \A i \in DOMAIN r : i \in DOMAIN s /\ r[i] = s[i]
<1>1. Len(s) \in Nat /\ DOMAIN s = 1 .. Len(s) /\ \A i \in 1 .. Len(s) - 1 : s[i] \in S
  BY LenProperties
<1>2. /\ SubSeq(s, 1, Len(s) - 1) \in Seq(S)
      /\ Len(SubSeq(s, 1, Len(s) - 1)) = Len(s) - 1
      /\ \A i \in 1 .. Len(s) - 1 : SubSeq(s, 1, Len(s) - 1)[i] = s[i]
  BY <1>1
<1> QED
  BY <1>1, <1>2, LenProperties

LEMMA LendsInv ==
    ASSUME PoolInv, NEW t \in PoolThreads, caller[t].pc \in {"out", "waits"}, Lends(t)
    PROVE  PoolInv'
<1>1. Here(caller[t].pc) = 0
  BY PcFacts
<1>2. CASE Len(pool.idle) > 0
  <2> DEFINE k == Len(pool.idle)
             c == pool.idle[k]
  <2>1. k \in Nat \ {0} /\ c \in Conns /\ ~c.err
    BY <1>2, LenProperties DEF PoolInv, PoolTypes, PoolCounted
  <2>2. Moves(t, "uses", c) /\ pool' = [pool EXCEPT !.idle = SubSeq(pool.idle, 1, k - 1)]
    BY <1>2, <2>1 DEF Lends
  <2> DEFINE rest == SubSeq(pool.idle, 1, k - 1)
  <2>3. rest \in Seq(Conns) /\ Len(rest) = k - 1 /\ \A i \in DOMAIN rest : ~rest[i].err
    <3>1. rest \in Seq(Conns) /\ Len(rest) = k - 1
          /\ \A i \in DOMAIN rest : i \in DOMAIN pool.idle /\ rest[i] = pool.idle[i]
      BY <1>2, Popped DEF PoolInv, PoolTypes
    <3> QED
      BY <3>1 DEF PoolInv, PoolCounted
  <2>4. /\ Cardinality(OutOfPool') = Cardinality(OutOfPool) + 1
        /\ NoHealthCheck' /\ caller' \in [PoolThreads -> [pc : Pcs, c : Conns]]
    BY <1>1, <2>1, <2>2, MoveCounts, PcFacts, OutFinite
  <2>5. pool'.count = pool.count /\ pool'.idle = rest /\ pool' \in [count : Int, idle : Seq(Conns), open : BOOLEAN]
    BY <2>2, <2>3 DEF PoolInv, PoolTypes
  <2>6. pool.count = k + Cardinality(OutOfPool) /\ pool.count \in 0 .. PoolSize
    BY DEF PoolInv, PoolCounted
  <2> HIDE DEF rest, k
  <2>7. pool'.count = Len(pool'.idle) + Cardinality(OutOfPool') /\ pool'.count \in 0 .. PoolSize
    BY <2>1, <2>3, <2>4, <2>5, <2>6, OutFinite
  <2>8. \A i \in DOMAIN pool'.idle : ~pool'.idle[i].err
    BY <2>3, <2>5, Zenon
  <2> QED
    BY <2>4, <2>5, <2>7, <2>8, Zenon DEF PoolInv, PoolTypes, PoolCounted
<1>3. CASE ~(Len(pool.idle) > 0) /\ pool.count < PoolSize
  <2>1. Moves(t, "new", NoConn) /\ pool' = [pool EXCEPT !.count = pool.count + 1]
    BY <1>3 DEF Lends
  <2>2. Cardinality(OutOfPool') = Cardinality(OutOfPool) + 1 /\ NoHealthCheck'
        /\ caller' \in [PoolThreads -> [pc : Pcs, c : Conns]]
    BY <1>1, <2>1, MoveCounts, PcFacts, OutFinite
  <2> QED
    BY <1>3, <2>1, <2>2, OutFinite, PoolAssumption, LenProperties DEF PoolInv, PoolTypes, PoolCounted
<1>4. CASE ~(Len(pool.idle) > 0) /\ ~(pool.count < PoolSize)
  <2>1. Moves(t, "waits", NoConn) /\ pool' = pool
    BY <1>4 DEF Lends
  <2>2. Cardinality(OutOfPool') = Cardinality(OutOfPool) /\ NoHealthCheck'
        /\ caller' \in [PoolThreads -> [pc : Pcs, c : Conns]]
    BY <1>1, <2>1, MoveCounts, PcFacts, OutFinite
  <2> QED
    BY <2>1, <2>2 DEF PoolInv, PoolTypes, PoolCounted
<1> QED
  BY <1>2, <1>3, <1>4

LEMMA PoolInitInv == PoolInit => PoolInv
<1> SUFFICES ASSUME PoolInit PROVE PoolInv
  OBVIOUS
<1>1. PoolTypes /\ NoHealthCheck
  BY PcFacts DEF PoolInit, PoolTypes, NoHealthCheck, Out, Pcs
<1>2. OutOfPool = {}
  BY DEF PoolInit, OutOfPool, Out
<1>3. Len(pool.idle) = 1 /\ pool.idle[1] = Dialled /\ DOMAIN pool.idle = {1}
  BY DEF PoolInit
<1> QED
  BY <1>1, <1>2, <1>3, FS_EmptySet, PoolAssumption DEF PoolInv, PoolInit, PoolCounted, Dialled

LEMMA TimesOutInv ==
    ASSUME PoolInv, NEW t \in PoolThreads, TimesOut(t)
    PROVE  PoolInv'
<1>1. /\ Cardinality(OutOfPool') = Cardinality(OutOfPool)
      /\ NoHealthCheck' /\ caller' \in [PoolThreads -> [pc : Pcs, c : Conns]]
  BY MoveCounts, PcFacts, OutFinite DEF TimesOut
<1> QED
  BY <1>1 DEF TimesOut, PoolInv, PoolTypes, PoolCounted

\* The thread that gives up dialling, or gives up a connection it cannot mend, gives up its slot.
LEMMA SlotGivenUp ==
    ASSUME PoolInv, NEW t \in PoolThreads, caller[t].pc \in {"new", "back"}, Moves(t, "out", NoConn),
           pool' = [pool EXCEPT !.count = pool.count - 1]
    PROVE  PoolInv'
<1>1. /\ Cardinality(OutOfPool') = Cardinality(OutOfPool) - 1 /\ Cardinality(OutOfPool') \in Nat
      /\ NoHealthCheck' /\ caller' \in [PoolThreads -> [pc : Pcs, c : Conns]]
  <2>1. Here(caller[t].pc) = 1 /\ t \in OutOfPool
    BY PcFacts DEF OutOfPool
  <2>2. Cardinality(OutOfPool) # 0
    BY <2>1, OutFinite, FS_EmptySet
  <2> QED
    BY <2>1, <2>2, MoveCounts, PcFacts, OutFinite
<1>2. pool'.count = pool.count - 1 /\ pool'.idle = pool.idle /\ pool' \in [count : Int, idle : Seq(Conns), open : BOOLEAN]
  BY DEF PoolInv, PoolTypes
<1>3. Len(pool.idle) \in Nat
  BY LenProperties DEF PoolInv, PoolTypes
<1> QED
  BY <1>1, <1>2, <1>3, OutFinite, PoolAssumption DEF PoolInv, PoolTypes, PoolCounted

\* The thread keeps its slot.
LEMMA SlotKept ==
    ASSUME PoolInv, NEW t \in PoolThreads, caller[t].pc \in {"new", "uses", "back"},
           NEW pc \in {"uses", "back"}, NEW c \in Conns, Moves(t, pc, c), pool' = pool
    PROVE  PoolInv'
<1>1. /\ Cardinality(OutOfPool') = Cardinality(OutOfPool)
      /\ NoHealthCheck' /\ caller' \in [PoolThreads -> [pc : Pcs, c : Conns]]
  <2>1. Here(caller[t].pc) = 1 /\ Here(pc) = 1 /\ pc \in Pcs \ {"check", "redial"}
    BY PcFacts
  <2> QED
    BY <2>1, MoveCounts, OutFinite
<1> QED
  BY <1>1 DEF PoolInv, PoolTypes, PoolCounted

LEMMA DialInv ==
    ASSUME PoolInv, NEW t \in PoolThreads, Dial(t)
    PROVE  PoolInv'
<1>1. caller[t].pc = "new"
  BY DEF Dial, PoolInv, NoHealthCheck
<1>2. CASE Moves(t, "uses", Dialled) /\ UNCHANGED pool
  BY <1>1, <1>2, PcFacts, SlotKept
<1>3. CASE Moves(t, "out", NoConn) /\ pool' = [pool EXCEPT !.count = pool.count - 1]
  BY <1>1, <1>3, SlotGivenUp
<1> QED
  BY <1>1, <1>2, <1>3 DEF Dial

LEMMA UseInv ==
    ASSUME PoolInv, NEW t \in PoolThreads, Use(t)
    PROVE  PoolInv'
<1>1. caller[t].pc = "uses" /\ caller[t].c \in Conns /\ [caller[t].c EXCEPT !.err = TRUE] \in Conns /\ pool' = pool
  BY DEF Use, PoolInv, PoolTypes, Conns
<1>2. PICK c \in Conns : Moves(t, "back", c)
  BY <1>1 DEF Use
<1> QED
  BY <1>1, <1>2, SlotKept

LEMMA ReconnectInv ==
    ASSUME PoolInv, NEW t \in PoolThreads, Reconnect(t)
    PROVE  PoolInv'
<1>1. caller[t].pc = "back"
  BY DEF Reconnect, PoolInv, NoHealthCheck
<1>2. CASE Moves(t, "back", [err |-> FALSE, ready |-> FALSE]) /\ UNCHANGED pool
  BY <1>1, <1>2, PcFacts, SlotKept DEF NoConn
<1>3. CASE Moves(t, "out", NoConn) /\ pool' = [pool EXCEPT !.count = pool.count - 1]
  BY <1>1, <1>3, SlotGivenUp
<1> QED
  BY <1>1, <1>2, <1>3 DEF Reconnect

LEMMA ReleaseInv ==
    ASSUME PoolInv, NEW t \in PoolThreads, redis_pool_release(t)
    PROVE  PoolInv'
<1> DEFINE c == caller[t].c
           idle == Append(pool.idle, c)
<1>1. caller[t].pc = "back" /\ c \in Conns /\ ~c.err /\ Moves(t, "out", NoConn)
  BY DEF redis_pool_release, PoolInv, PoolTypes
<1>2. CASE Len(pool.idle) < PoolSize
  <2>1. /\ Cardinality(OutOfPool') = Cardinality(OutOfPool) - 1
        /\ NoHealthCheck' /\ caller' \in [PoolThreads -> [pc : Pcs, c : Conns]]
    BY <1>1, MoveCounts, PcFacts, OutFinite
  <2>2. idle \in Seq(Conns) /\ Len(idle) = Len(pool.idle) + 1 /\ \A i \in DOMAIN idle : ~idle[i].err
    <3>1. pool.idle \in Seq(Conns) /\ Len(pool.idle) \in Nat /\ DOMAIN pool.idle = 1 .. Len(pool.idle)
      BY LenProperties DEF PoolInv, PoolTypes
    <3>2. /\ idle \in Seq(Conns) /\ Len(idle) = Len(pool.idle) + 1 /\ DOMAIN idle = 1 .. Len(pool.idle) + 1
          /\ \A i \in 1 .. Len(pool.idle) : idle[i] = pool.idle[i]
          /\ idle[Len(pool.idle) + 1] = c
      BY <1>1, <3>1, AppendProperties, LenProperties
    <3> QED
      BY <1>1, <3>1, <3>2 DEF PoolInv, PoolCounted
  <2>3. pool'.count = pool.count /\ pool'.idle = idle /\ pool' \in [count : Int, idle : Seq(Conns), open : BOOLEAN]
    BY <1>2, <2>2 DEF redis_pool_release, PoolInv, PoolTypes
  <2>4. Len(pool.idle) \in Nat
    BY LenProperties DEF PoolInv, PoolTypes
  <2>5. pool.count = Len(pool.idle) + Cardinality(OutOfPool) /\ pool.count \in 0 .. PoolSize
    BY DEF PoolInv, PoolCounted
  <2> HIDE DEF idle
  <2>6. pool'.count = Len(pool'.idle) + Cardinality(OutOfPool') /\ pool'.count \in 0 .. PoolSize
    BY <2>1, <2>2, <2>3, <2>4, <2>5, OutFinite
  <2>7. \A i \in DOMAIN pool'.idle : ~pool'.idle[i].err
    BY <2>2, <2>3, Zenon
  <2> QED
    BY <2>1, <2>3, <2>6, <2>7, Zenon DEF PoolInv, PoolTypes, PoolCounted
<1>3. CASE ~(Len(pool.idle) < PoolSize)
  BY <1>1, <1>3, SlotGivenUp DEF redis_pool_release
<1> QED
  BY <1>2, <1>3

LEMMA DestroyInv ==
    ASSUME PoolInv, redis_pool_destroy
    PROVE  PoolInv'
<1>1. OutOfPool' = {}
  BY DEF redis_pool_destroy, OutOfPool
<1> QED
  BY <1>1, FS_EmptySet, PoolAssumption DEF redis_pool_destroy, PoolInv, PoolTypes, PoolCounted, NoHealthCheck

LEMMA PoolNextInv == PoolInv /\ [PoolNext]_poolVars => PoolInv'
<1> SUFFICES ASSUME PoolInv, [PoolNext]_poolVars PROVE PoolInv'
  OBVIOUS
<1>1. CASE UNCHANGED poolVars
  BY <1>1 DEF poolVars, PoolInv, PoolTypes, PoolCounted, NoHealthCheck, OutOfPool
<1>2. ASSUME NEW t \in PoolThreads, redis_pool_acquire(t) \/ Wakes(t) PROVE PoolInv'
  BY <1>2, LendsInv DEF redis_pool_acquire, Wakes
<1>3. ASSUME NEW t \in PoolThreads, TimesOut(t) \/ Dial(t) \/ Use(t) \/ Reconnect(t) \/ redis_pool_release(t)
      PROVE  PoolInv'
  BY <1>3, TimesOutInv, DialInv, UseInv, ReconnectInv, ReleaseInv
<1> QED
  BY <1>1, <1>2, <1>3, DestroyInv DEF PoolNext

-----------------------------------------------------------------------------
\* Through every failed dial, failed reconnect, timeout and wake-up of any number of threads, the
\* pool's count is the number of connections there are, and within the capacity (redis_pool_acquire,
\* redis_pool_release).
THEOREM PoolIsCounted == PoolSpec => []PoolCounted
<1>1. PoolInv => PoolCounted
  BY DEF PoolInv
<1> QED
  BY <1>1, PoolInitInv, PoolNextInv, PTL DEF PoolSpec

\* The health check of redis_pool_acquire never runs: the stack holds no connection with an error,
\* so no thread ever dials without a slot.
THEOREM PoolNoHealthCheck == PoolSpec => []NoHealthCheck
<1>1. PoolInv => NoHealthCheck
  BY DEF PoolInv
<1> QED
  BY <1>1, PoolInitInv, PoolNextInv, PTL DEF PoolSpec

(***************************************************************************)
(* The rotation of the master key, for any number of models and providers, *)
(* runs of the command and keys that a gateway stores meanwhile.           *)
(*                                                                         *)
(* RotationAtomic is not inductive.  The invariant adds what a run knows   *)
(* at each step: which rows it has read, that what it read of a row nobody *)
(* else wrote is still what is stored, that every key it read is readable  *)
(* once it updates, and that the transaction holds what it read, rotated.  *)
(***************************************************************************)
StoredKeys == [v : Nat, m : {"none", "old", "bad", "new"}]

RotTypes ==
    /\ DOMAIN rows = KeyRows /\ \A r \in KeyRows : rows[r] \in [Places(r) -> StoredKeys]
    /\ \A r \in KeyRows : first[r] \in [Places(r) -> [v : Nat, m : KeyStates]]
    /\ writes \in Nat /\ applied \in BOOLEAN
    /\ cmd = [pc |-> cmd.pc, read |-> cmd.read]
    /\ cmd.pc \in {"models", "providers", "verify", "update", "ok", "failed"}

\* The rows the command has read so far.
RowsRead ==
    /\ cmd.pc = "models" => DOMAIN cmd.read = {}
    /\ cmd.pc = "providers" => DOMAIN cmd.read = ModelRows
    /\ cmd.pc \in {"verify", "update"} => DOMAIN cmd.read = KeyRows

Running == cmd.pc \in {"models", "providers", "verify", "update"}

\* What was read is what is stored, save for the gateway's writes.
ReadIsCurrent == Running => \A r \in DOMAIN cmd.read \ touched : cmd.read[r] = rows[r]

ReadTyped == Running => \A r \in DOMAIN cmd.read : cmd.read[r] \in [Places(r) -> StoredKeys]

\* The transaction is open during the updates only, and holds the keys that were read, rotated.
TxRotates ==
    /\ DOMAIN tx \subseteq KeyRows
    /\ cmd.pc # "update" => DOMAIN tx = {}
    /\ \A r \in DOMAIN tx : tx[r] = [p \in Places(r) |-> secret_rotate(cmd.read[r][p])]

RotInv ==
    /\ RotTypes /\ RowsRead /\ ReadIsCurrent /\ ReadTyped /\ TxRotates
    /\ cmd.pc = "update" => Verified
    /\ RotationAtomic

-----------------------------------------------------------------------------
LEMMA RotInitInv == RotInit => RotInv
<1> SUFFICES ASSUME RotInit PROVE RotInv
  OBVIOUS
<1>1. ASSUME NEW r \in KeyRows
      PROVE  rows[r] \in [Places(r) -> [v : Nat, m : KeyStates]]
  <2>1. PICK q \in KeyRows : rows[r] \in [Places(q) -> {[v |-> 1, m |-> m] : m \in KeyStates}]
    BY DEF RotInit
  <2>2. DOMAIN rows[r] = Places(r) /\ DOMAIN rows[r] = Places(q)
    BY <2>1 DEF RotInit
  <2>3. {[v |-> 1, m |-> m] : m \in KeyStates} \subseteq [v : Nat, m : KeyStates]
    OBVIOUS
  <2> HIDE DEF Places, KeyStates
  <2> QED
    BY <2>1, <2>2, <2>3
<1>2. [v : Nat, m : KeyStates] \subseteq StoredKeys
  BY DEF StoredKeys, KeyStates
<1>3. \A r \in KeyRows : rows[r] \in [Places(r) -> StoredKeys]
  BY <1>1, <1>2
<1>4. DOMAIN NoRead = {}
  BY DEF NoRead
<1>5. RotTypes
  BY <1>1, <1>3 DEF RotTypes, RotInit, NewCmd
<1> QED
  BY <1>4, <1>5 DEF RotInit, NewCmd, RotInv, RowsRead, ReadIsCurrent, ReadTyped, TxRotates, RotationAtomic

\* A step that only moves the command on, to its end.
LEMMA FailsInv == RotInv /\ Fails => RotInv'
<1> SUFFICES ASSUME RotInv, Fails PROVE RotInv'
  OBVIOUS
<1>1. cmd'.pc = "failed" /\ cmd'.read = cmd.read /\ cmd' = [pc |-> cmd'.pc, read |-> cmd'.read] /\ DOMAIN tx' = {}
  BY DEF Fails, Goes, RotInv, RotTypes, NoRead
<1> QED
  BY <1>1 DEF Fails, RotInv, RotTypes, RowsRead, Running, ReadIsCurrent, ReadTyped, TxRotates, RotationAtomic

LEMMA RunAgainInv == RotInv /\ RunAgain => RotInv'
<1> SUFFICES ASSUME RotInv, RunAgain PROVE RotInv'
  OBVIOUS
<1>1. cmd'.pc = "models" /\ DOMAIN cmd'.read = {} /\ cmd' = [pc |-> cmd'.pc, read |-> cmd'.read] /\ DOMAIN tx = {}
  BY DEF RunAgain, NewCmd, NoRead, RotInv, TxRotates
<1> QED
  BY <1>1 DEF RunAgain, RotInv, RotTypes, RowsRead, Running, ReadIsCurrent, ReadTyped, TxRotates, RotationAtomic

\* The SELECT of the models or of the providers reads what is stored.
LEMMA SelectInv ==
    ASSUME RotInv, NEW rs \in SUBSET KeyRows, NEW pc \in {"providers", "verify"},
           cmd.pc \in {"models", "providers"},
           cmd' = [pc |-> pc, read |-> Read(rs, cmd.read)],
           pc = "providers" => DOMAIN cmd.read \cup rs = ModelRows,
           pc = "verify" => DOMAIN cmd.read \cup rs = KeyRows,
           UNCHANGED <<rows, tx, first, touched, applied, writes, commands>>
    PROVE  RotInv'
<1>1. /\ cmd'.pc = pc /\ cmd' = [pc |-> cmd'.pc, read |-> cmd'.read]
      /\ DOMAIN cmd'.read = DOMAIN cmd.read \cup rs
      /\ \A r \in DOMAIN cmd'.read : cmd'.read[r] = IF r \in rs THEN rows[r] ELSE cmd.read[r]
  BY DEF Read
<1>2. RotTypes' /\ RowsRead' /\ RotationAtomic'
  <2>1. RotTypes'
    BY <1>1 DEF RotInv, RotTypes
  <2>2. RowsRead'
    BY <1>1 DEF RowsRead
  <2>3. RotationAtomic'
    BY <1>1 DEF RotInv, RotationAtomic
  <2> QED
    BY <2>1, <2>2, <2>3
<1>3. ReadIsCurrent' /\ ReadTyped'
  <2>1. \A r \in DOMAIN cmd.read : /\ r \notin touched => cmd.read[r] = rows[r]
                                  /\ cmd.read[r] \in [Places(r) -> StoredKeys]
    BY DEF RotInv, Running, ReadIsCurrent, ReadTyped
  <2>2. \A r \in rs : rows[r] \in [Places(r) -> StoredKeys]
    BY DEF RotInv, RotTypes
  <2>3. \A r \in DOMAIN cmd'.read : /\ r \notin touched => cmd'.read[r] = rows[r]
                                   /\ cmd'.read[r] \in [Places(r) -> StoredKeys]
    BY <1>1, <2>1, <2>2, Zenon
  <2> QED
    BY <2>3 DEF ReadIsCurrent, ReadTyped
<1>4. DOMAIN tx = {}
  BY DEF RotInv, TxRotates
<1> QED
  BY <1>1, <1>2, <1>3, <1>4 DEF RotInv, TxRotates

LEMMA BeginInv == RotInv /\ Begin => RotInv'
<1> SUFFICES ASSUME RotInv, Begin PROVE RotInv'
  OBVIOUS
<1>1. /\ cmd'.pc = IF Verified THEN "update" ELSE "failed"
      /\ cmd'.read = cmd.read /\ cmd' = [pc |-> cmd'.pc, read |-> cmd'.read] /\ cmd.pc = "verify"
  BY DEF Begin, Goes, RotInv, RotTypes
<1>2. Verified' <=> Verified
  BY <1>1 DEF Verified
<1>3. DOMAIN tx = {} /\ tx' = tx
  BY <1>1 DEF Begin, RotInv, TxRotates
<1> QED
  BY <1>1, <1>2, <1>3
  DEF Begin, RotInv, RotTypes, RowsRead, Running, ReadIsCurrent, ReadTyped, TxRotates, RotationAtomic

LEMMA UpdateRowInv ==
    ASSUME RotInv, NEW r \in KeyRows, UpdateRow(r)
    PROVE  RotInv'
<1>1. /\ DOMAIN tx' = DOMAIN tx \cup {r}
      /\ \A x \in DOMAIN tx' : tx'[x] = IF x = r THEN [p \in Places(r) |-> secret_rotate(cmd.read[r][p])] ELSE tx[x]
      /\ cmd.pc = "update"
      /\ UNCHANGED <<rows, cmd, first, touched, applied, writes, commands>>
  BY DEF UpdateRow
<1>2. TxRotates'
  BY <1>1 DEF RotInv, TxRotates
<1>3. Verified' <=> Verified
  BY <1>1 DEF Verified
<1> QED
  BY <1>1, <1>2, <1>3 DEF RotInv, RotTypes, RowsRead, Running, ReadIsCurrent, ReadTyped, RotationAtomic

LEMMA GatewayInv ==
    ASSUME RotInv, NEW r \in KeyRows, NEW p \in Places(r), GatewayStores(r, p)
    PROVE  RotInv'
<1> DEFINE k == [v |-> 1 + writes', m |-> "old"]
<1>1. /\ k \in StoredKeys /\ writes' \in Nat
      /\ rows' = [rows EXCEPT ![r] = [rows[r] EXCEPT ![p] = k]]
      /\ touched' = touched \cup {r}
      /\ UNCHANGED <<cmd, tx, first, applied, commands>>
  BY DEF GatewayStores, RotInv, RotTypes, StoredKeys
<1> HIDE DEF k
<1>2. RotTypes'
  BY <1>1 DEF RotInv, RotTypes
<1>3. /\ \A x \in KeyRows \ touched' : x # r /\ x \notin touched /\ rows'[x] = rows[x]
      /\ DOMAIN rows' = KeyRows
  BY <1>1 DEF RotInv, RotTypes
<1>4. ReadIsCurrent'
  <2> SUFFICES ASSUME Running', NEW x \in DOMAIN cmd.read \ touched' PROVE cmd.read[x] = rows'[x]
    BY <1>1 DEF ReadIsCurrent
  <2>1. Running /\ x \in KeyRows
    BY <1>1 DEF Running, RotInv, RowsRead, KeyRows
  <2> QED
    BY <1>1, <1>3, <2>1 DEF RotInv, ReadIsCurrent
<1>5. RotationAtomic'
  <2>1. applied => \A x \in KeyRows \ touched' : \A q \in Places(x) :
                     rows'[x][q] = secret_rotate(first[x][q]) /\ rows'[x][q].m # "bad"
    BY <1>3 DEF RotInv, RotationAtomic
  <2>2. ~applied => \A x \in KeyRows \ touched' : rows'[x] = first[x]
    BY <1>3 DEF RotInv, RotationAtomic
  <2> QED
    BY <1>1, <2>1, <2>2 DEF RotInv, RotationAtomic
<1>6. Verified' <=> Verified
  BY <1>1 DEF Verified
<1> QED
  BY <1>1, <1>2, <1>4, <1>5, <1>6 DEF RotInv, RowsRead, Running, ReadTyped, TxRotates

\* What rotating a key gives.
LEMMA Rotated ==
    ASSUME NEW k \in StoredKeys
    PROVE  /\ secret_rotate(k) \in StoredKeys /\ secret_rotate(k).m # "old"
           /\ k.m # "old" => secret_rotate(k) = k
           /\ Readable(k) => secret_rotate(k).m # "bad"
  BY DEF StoredKeys, secret_rotate, Readable

\* The commit stores the rotated keys of every row that nobody else wrote: of a row left out of the
\* transaction, no key is under the old master.
LEMMA CommittedRow ==
    ASSUME RotInv, TxCommit, NEW r \in KeyRows \ touched, NEW p \in Places(r)
    PROVE  /\ rows'[r][p] = secret_rotate(rows[r][p]) /\ Readable(rows[r][p])
           /\ rows[r][p] \in StoredKeys
<1>1. cmd.pc = "update" /\ DOMAIN cmd.read = KeyRows /\ cmd.read[r] = rows[r]
  BY DEF TxCommit, RotInv, RowsRead, ReadIsCurrent, Running
<1>2. rows[r][p] \in StoredKeys /\ Readable(rows[r][p])
  BY <1>1 DEF RotInv, RotTypes, Verified
<1>3. rows'[r] = IF r \in DOMAIN tx THEN tx[r] ELSE rows[r]
  BY DEF TxCommit
<1>4. CASE r \in DOMAIN tx
  BY <1>1, <1>2, <1>3, <1>4 DEF RotInv, TxRotates
<1>5. CASE r \notin DOMAIN tx
  <2>1. rows[r][p].m # "old"
    BY <1>1, <1>5 DEF TxCommit, Changed
  <2> QED
    BY <1>2, <1>3, <1>5, <2>1, Rotated
<1> QED
  BY <1>4, <1>5

LEMMA CommitInv == RotInv /\ TxCommit => RotInv'
<1> SUFFICES ASSUME RotInv, TxCommit PROVE RotInv'
  OBVIOUS
<1>1. /\ cmd'.pc \in {"ok", "failed"} /\ cmd'.read = cmd.read /\ cmd' = [pc |-> cmd'.pc, read |-> cmd'.read]
      /\ DOMAIN tx' = {} /\ applied' = TRUE
      /\ UNCHANGED <<first, touched, writes, commands>>
  BY DEF TxCommit, Goes, RotInv, RotTypes, NoRead
<1>2. RotTypes'
  <2>1. ASSUME NEW r \in KeyRows PROVE rows'[r] \in [Places(r) -> StoredKeys]
    <3>1. rows'[r] = IF r \in DOMAIN tx THEN tx[r] ELSE rows[r]
      BY DEF TxCommit
    <3>2. ASSUME r \in DOMAIN tx PROVE tx[r] \in [Places(r) -> StoredKeys]
      <4>1. tx[r] = [p \in Places(r) |-> secret_rotate(cmd.read[r][p])]
        BY <3>2 DEF RotInv, TxRotates
      <4>2. cmd.read[r] \in [Places(r) -> StoredKeys]
        BY DEF TxCommit, RotInv, RowsRead, ReadTyped, Running
      <4> QED
        BY <4>1, <4>2, Rotated
    <3> QED
      BY <3>1, <3>2 DEF RotInv, RotTypes
  <2>2. DOMAIN rows' = KeyRows
    BY DEF TxCommit
  <2> QED
    BY <1>1, <2>1, <2>2 DEF RotInv, RotTypes
<1>3. ASSUME NEW r \in KeyRows \ touched, NEW p \in Places(r)
      PROVE  rows'[r][p] = secret_rotate(first[r][p]) /\ rows'[r][p].m # "bad"
  <2>1. /\ rows'[r][p] = secret_rotate(rows[r][p]) /\ Readable(rows[r][p]) /\ rows[r][p] \in StoredKeys
    BY CommittedRow
  <2>2. CASE ~applied
    BY <2>1, <2>2, Rotated DEF RotInv, RotationAtomic
  <2>3. CASE applied
    <3>1. rows[r][p] = secret_rotate(first[r][p])
      BY <2>3 DEF RotInv, RotationAtomic
    <3>2. first[r][p] \in StoredKeys
      BY DEF RotInv, RotTypes, StoredKeys, KeyStates
    <3>3. rows[r][p].m # "old"
      BY <3>1, <3>2, Rotated
    <3> QED
      BY <2>1, <3>1, <3>3, Rotated
  <2> QED
    BY <2>2, <2>3
<1>4. RotationAtomic'
  BY <1>1, <1>3 DEF RotationAtomic
<1> QED
  BY <1>1, <1>2, <1>4 DEF RotInv, RowsRead, Running, ReadIsCurrent, ReadTyped, TxRotates

LEMMA RotNextInv == RotInv /\ [RotNext]_rotVars => RotInv'
<1> SUFFICES ASSUME RotInv, [RotNext]_rotVars PROVE RotInv'
  OBVIOUS
<1>1. CASE UNCHANGED rotVars
  BY <1>1 DEF rotVars, RotInv, RotTypes, RowsRead, Running, ReadIsCurrent, ReadTyped, TxRotates, Verified, RotationAtomic
<1>2. CASE SelectModels
  BY <1>2, SelectInv DEF SelectModels, RotInv, RowsRead, KeyRows
<1>3. CASE SelectProviders
  BY <1>3, SelectInv DEF SelectProviders, RotInv, RowsRead, KeyRows
<1> QED
  BY <1>1, <1>2, <1>3, BeginInv, CommitInv, FailsInv, RunAgainInv, UpdateRowInv, GatewayInv DEF RotNext

-----------------------------------------------------------------------------
\* The keys that nobody else writes are rotated together or not at all and keep their values, through
\* any failure, lost answer to COMMIT, killed command and second run (pg_store_rotate_master_key).
THEOREM RotationIsAtomic == RotSpec => []RotationAtomic
<1>1. RotInv => RotationAtomic
  BY DEF RotInv
<1> QED
  BY <1>1, RotInitInv, RotNextInv, PTL DEF RotSpec

(***************************************************************************)
(* The shadow engine.                                                      *)
(*                                                                         *)
(* PairsSettle is not inductive: it says nothing of which report a slot    *)
(* still waits for.  The invariant adds that an evaluation has one request *)
(* and one task, that a slot without the report of the task belongs to a   *)
(* task that is due, one without the report of the request to a request    *)
(* that is open, that no slot holds both reports, and that a commit has    *)
(* nothing due and no answer to come.                                      *)
(***************************************************************************)
-----------------------------------------------------------------------------
Ids == Nat \ {0}
Sources == {"answer", "cleanup"}
Pairs == [id : Nat, primary : {"none"} \cup Sources, shadow : BOOLEAN]
Pairings == [id : Nat, by : Sources]
ReqSteps == [pc : {"idle", "submit", "called", "answered"}, id : Nat]

\* The evaluations whose task has not reported, or never will because the queue refused it; those
\* whose request is under way; those whose request has not reported an answer and still may.
DueIds(sr, tk, w, un) ==
    {x \in Ids : \/ \E r \in ShadowReqs : sr[r].pc = "submit" /\ sr[r].id = x
                 \/ \E t \in 1 .. Len(tk) : tk[t] = x
                 \/ x = w \/ x \in un}
OpenIds(sr) == {x \in Ids : \E r \in ShadowReqs : sr[r].id = x}
SilentIds(sr) == {x \in Ids : \E r \in ShadowReqs : sr[r].pc \in {"submit", "called"} /\ sr[r].id = x}

\* A request has an evaluation of its own.
ReqShape(sr, n) ==
    /\ sr \in [ShadowReqs -> ReqSteps]
    /\ \A r \in ShadowReqs : sr[r].id <= n /\ (sr[r].pc = "idle" <=> sr[r].id = 0)
    /\ \A r, q \in ShadowReqs : sr[r].id = sr[q].id /\ sr[r].id # 0 => r = q

\* An evaluation has one task, which is in one place.
TaskShape(sr, tk, w, un, n) ==
    /\ tk \in Seq(Ids) /\ w \in Nat /\ w <= n /\ un \subseteq Ids
    /\ \A a \in 1 .. Len(tk) : tk[a] <= n /\ tk[a] # w /\ tk[a] \notin un
    /\ \A a, b \in 1 .. Len(tk) : tk[a] = tk[b] => a = b
    /\ \A x \in un : x <= n /\ x # w
    /\ \A r \in ShadowReqs : sr[r].pc = "submit" =>
         sr[r].id # w /\ sr[r].id \notin un /\ \A a \in 1 .. Len(tk) : tk[a] # sr[r].id

\* A slot in use, with the evaluations that are due, open and silent, and those answered.
PairOk(p, due, open, silent, answered, on) ==
    p.id # 0 =>
      /\ p.shadow => p.id \notin due
      /\ on # "off" /\ ~p.shadow => p.id \in due
      /\ p.primary = "none" => p.id \in open
      /\ p.primary # "none" => p.id \notin silent /\ ~p.shadow
      /\ p.id \in answered => p.primary = "answer"

PairShape(ps, n) ==
    /\ ps \in [PairIdx -> Pairs]
    /\ \A i \in PairIdx : ps[i].id <= n /\ (ps[i].id = 0 => ps[i] = NoPair)
    /\ \A i, j \in PairIdx : ps[i].id = ps[j].id /\ ps[i].id # 0 => i = j

CommitOk(c, due, silent, answered) ==
    c.id \notin due /\ c.id \notin silent /\ (c.id \in answered => c.by = "answer")

CommitShape(cs, ps, n) ==
    /\ cs \in Seq(Pairings)
    /\ \A a \in 1 .. Len(cs) : cs[a].id # 0 /\ cs[a].id <= n /\ \A i \in PairIdx : ps[i].id # cs[a].id
    /\ \A a, b \in 1 .. Len(cs) : cs[a].id = cs[b].id => a = b

\* The ring of evaluations shows the last commits.
RingOf(ev, cs) ==
    /\ ev \in Seq(Nat) /\ Len(ev) <= EvalCap /\ Len(ev) <= Len(cs)
    /\ Len(ev) = Len(cs) \/ Len(ev) = EvalCap
    /\ \A i \in 1 .. Len(ev) : ev[i] = cs[Len(cs) - Len(ev) + i].id

Core(ps, cs, ev, due, open, silent, answered, on, n) ==
    /\ PairShape(ps, n) /\ CommitShape(cs, ps, n) /\ RingOf(ev, cs)
    /\ \A i \in PairIdx : PairOk(ps[i], due, open, silent, answered, on)
    /\ \A a \in 1 .. Len(cs) : CommitOk(cs[a], due, silent, answered)

Totals ==
    /\ sdone = [n |-> sdone.n, commits |-> sdone.commits, answered |-> sdone.answered]
    /\ sdone.n \in Nat /\ \A x \in sdone.answered : x \in Ids /\ x <= sdone.n

ShadowInv ==
    /\ Totals /\ shadowOn \in {"on", "stopping", "off"}
    /\ ReqShape(sreq, sdone.n) /\ TaskShape(sreq, tasks, worker, unqueued, sdone.n)
    /\ Core(pairs, sdone.commits, evals, DueIds(sreq, tasks, worker, unqueued), OpenIds(sreq),
            SilentIds(sreq), sdone.answered, shadowOn, sdone.n)

LEMMA Settles == ShadowInv => PairsSettle
<1> SUFFICES ASSUME ShadowInv PROVE PairsSettle
  OBVIOUS
<1>1. ASSUME shadowOn = "on", NEW i \in PairIdx, pairs[i].id # 0
      PROVE  \/ \E r \in ShadowReqs : sreq[r].id = pairs[i].id
             \/ pairs[i].id = worker \/ \E t \in DOMAIN tasks : tasks[t] = pairs[i].id
             \/ pairs[i].id \in unqueued
  <2>1. PairOk(pairs[i], DueIds(sreq, tasks, worker, unqueued), OpenIds(sreq), SilentIds(sreq), sdone.answered, shadowOn)
    BY DEF ShadowInv, Core
  <2>2. DOMAIN tasks = 1 .. Len(tasks)
    BY LenProperties DEF ShadowInv, TaskShape
  <2>3. CASE pairs[i].shadow
    <3>1. pairs[i].id \in OpenIds(sreq)
      BY <1>1, <2>1, <2>3 DEF PairOk
    <3> QED
      BY <3>1 DEF OpenIds
  <2>4. CASE ~pairs[i].shadow
    <3>1. pairs[i].id \in DueIds(sreq, tasks, worker, unqueued)
      BY <1>1, <2>1, <2>4 DEF PairOk
    <3> QED
      BY <2>2, <3>1 DEF DueIds
  <2> QED
    BY <2>3, <2>4
<1>2. DOMAIN sdone.commits = 1 .. Len(sdone.commits)
  BY LenProperties DEF ShadowInv, Core, CommitShape
<1>3. \A a, b \in DOMAIN sdone.commits : sdone.commits[a].id = sdone.commits[b].id => a = b
  BY <1>2 DEF ShadowInv, Core, CommitShape
<1>4. ASSUME NEW a \in DOMAIN sdone.commits
      PROVE  /\ sdone.commits[a].id \notin unqueued
             /\ sdone.commits[a].id \in sdone.answered => sdone.commits[a].by = "answer"
  <2>1. CommitOk(sdone.commits[a], DueIds(sreq, tasks, worker, unqueued), SilentIds(sreq), sdone.answered)
    BY <1>2 DEF ShadowInv, Core
  <2>2. \A x \in unqueued : x \in DueIds(sreq, tasks, worker, unqueued)
    BY DEF ShadowInv, TaskShape, DueIds
  <2> QED
    BY <2>1, <2>2 DEF CommitOk
<1>5. RingOf(evals, sdone.commits) /\ Len(sdone.commits) \in Nat
  BY LenProperties DEF ShadowInv, Core, CommitShape
<1> DEFINE k == Len(sdone.commits)
           m == IF k < EvalCap THEN k ELSE EvalCap
<1>6. Len(evals) = m /\ evals = [i \in 1 .. Len(evals) |-> evals[i]]
  BY <1>5, ShadowAssumption, LenProperties DEF RingOf
<1> HIDE DEF m
<1>7. evals = [i \in 1 .. m |-> sdone.commits[k - m + i].id]
  BY <1>5, <1>6 DEF RingOf
<1> QED
  BY <1>1, <1>3, <1>4, <1>7 DEF PairsSettle, m

LEMMA RingAdds ==
    ASSUME NEW cs \in Seq(Pairings), NEW ev, RingOf(ev, cs), NEW c \in Pairings
    PROVE  /\ RingOf(IF Len(ev) < EvalCap THEN Append(ev, c.id) ELSE Append(Tail(ev), c.id), Append(cs, c))
<1> DEFINE k == Len(cs)
           m == Len(ev)
           ds == Append(cs, c)
<1>1. k \in Nat /\ m \in Nat /\ EvalCap \in Nat \ {0} /\ m <= k /\ m <= EvalCap
      /\ (m = k \/ m = EvalCap) /\ ev \in Seq(Nat) /\ \A i \in 1 .. m : ev[i] = cs[k - m + i].id
  BY ShadowAssumption, LenProperties DEF RingOf
<1>2. Len(ds) = k + 1 /\ ds[k + 1] = c /\ \A j \in 1 .. k : ds[j] = cs[j]
  BY AppendFacts
<1>3. c.id \in Nat
  BY DEF Pairings
<1> HIDE DEF ds, k
<1>4. CASE m < EvalCap
  <2> DEFINE fv == Append(ev, c.id)
  <2>1. fv \in Seq(Nat) /\ Len(fv) = m + 1 /\ fv[m + 1] = c.id /\ \A i \in 1 .. m : fv[i] = ev[i]
    BY <1>1, <1>3, AppendFacts
  <2> HIDE DEF fv, m
  <2>2. m = k
    BY <1>1, <1>4
  <2>3. ASSUME NEW i \in 1 .. m + 1 PROVE fv[i] = ds[k + 1 - (m + 1) + i].id
    <3>1. CASE i = m + 1
      <4>1. k + 1 - (m + 1) + i = k + 1
        BY <1>1, <3>1
      <4> QED
        BY <1>2, <2>1, <3>1, <4>1
    <3>2. CASE i # m + 1
      <4>1. i \in 1 .. m /\ k + 1 - (m + 1) + i = k - m + i /\ k - m + i \in 1 .. k
        <5>1. k \in Nat /\ m \in Nat /\ m <= k
          BY <1>1
        <5>2. i \in 1 .. m
          BY <3>2, <5>1
        <5> QED
          BY <5>1, <5>2
      <4>2. ds[k - m + i] = cs[k - m + i] /\ fv[i] = ev[i] /\ ev[i] = cs[k - m + i].id
        BY <1>1, <1>2, <2>1, <4>1
      <4> QED
        BY <4>1, <4>2
    <3> QED
      BY <3>1, <3>2
  <2>4. m + 1 <= EvalCap /\ m + 1 <= k + 1 /\ m + 1 = k + 1
    BY <1>1, <1>4, <2>2
  <2>5. RingOf(fv, ds)
    <3>1. ASSUME NEW i \in 1 .. Len(fv) PROVE fv[i] = ds[Len(ds) - Len(fv) + i].id
      <4>1. i \in 1 .. m + 1 /\ Len(ds) - Len(fv) + i = k + 1 - (m + 1) + i
        BY <1>1, <1>2, <2>1
      <4> QED
        BY <2>3, <4>1
    <3>2. fv \in Seq(Nat) /\ Len(fv) <= EvalCap /\ Len(fv) <= Len(ds) /\ Len(fv) = Len(ds)
      BY <1>2, <2>1, <2>4
    <3> QED
      BY <3>1, <3>2, Zenon DEF RingOf
  <2>6. (IF Len(ev) < EvalCap THEN Append(ev, c.id) ELSE Append(Tail(ev), c.id)) = fv
    BY <1>4 DEF fv, m
  <2> QED
    BY <2>5, <2>6, Zenon DEF ds
<1>5. CASE ~(m < EvalCap)
  <2> DEFINE tv == Tail(ev)
             fv == Append(tv, c.id)
  <2>1. ev # <<>> /\ m = EvalCap
    BY <1>1, <1>5, EmptySeq
  <2>2. tv \in Seq(Nat) /\ Len(tv) = m - 1 /\ \A i \in 1 .. m - 1 : tv[i] = ev[i + 1]
    BY <1>1, <2>1, TailFacts
  <2> HIDE DEF tv, m
  <2>3. fv \in Seq(Nat) /\ Len(fv) = m /\ fv[m] = c.id /\ \A i \in 1 .. m - 1 : fv[i] = tv[i]
    <3>1. Len(tv) + 1 = m
      BY <1>1, <2>2
    <3> QED
      BY <1>3, <2>2, <3>1, AppendFacts
  <2> HIDE DEF fv
  <2>4. ASSUME NEW i \in 1 .. m PROVE fv[i] = ds[k + 1 - m + i].id
    <3>1. CASE i = m
      <4>1. k + 1 - m + i = k + 1
        BY <1>1, <3>1
      <4> QED
        BY <1>2, <2>3, <3>1, <4>1
    <3>2. CASE i # m
      <4>1. i \in 1 .. m - 1 /\ i + 1 \in 1 .. m /\ k - m + (i + 1) = k + 1 - m + i /\ k + 1 - m + i \in 1 .. k
        BY <1>1, <3>2
      <4>2. fv[i] = ev[i + 1] /\ ev[i + 1] = cs[k - m + (i + 1)].id
        BY <1>1, <2>2, <2>3, <4>1
      <4>3. ds[k + 1 - m + i] = cs[k + 1 - m + i]
        BY <1>2, <4>1
      <4> QED
        BY <4>1, <4>2, <4>3
    <3> QED
      BY <3>1, <3>2
  <2>5. m <= EvalCap /\ m <= k + 1
    BY <1>1
  <2>6. RingOf(fv, ds)
    <3>1. ASSUME NEW i \in 1 .. Len(fv) PROVE fv[i] = ds[Len(ds) - Len(fv) + i].id
      <4>1. i \in 1 .. m /\ Len(ds) - Len(fv) + i = k + 1 - m + i
        BY <1>1, <1>2, <2>3
      <4> QED
        BY <2>4, <4>1
    <3>2. fv \in Seq(Nat) /\ Len(fv) <= EvalCap /\ Len(fv) <= Len(ds) /\ Len(fv) = EvalCap
      BY <1>2, <2>1, <2>3, <2>5
    <3> QED
      BY <3>1, <3>2, Zenon DEF RingOf
  <2>7. (IF Len(ev) < EvalCap THEN Append(ev, c.id) ELSE Append(Tail(ev), c.id)) = fv
    BY <1>5 DEF fv, tv, m
  <2> QED
    BY <2>6, <2>7, Zenon DEF ds
<1> QED
  BY <1>4, <1>5

\* A pair leaves its slot for the list of commits.
LEMMA CoreCommits ==
    ASSUME NEW ps, NEW cs, NEW ev, NEW n \in Nat, NEW on, NEW i \in PairIdx, NEW c \in Pairings,
           PairShape(ps, n), CommitShape(cs, ps, n), RingOf(ev, cs), ps[i].id # 0, c.id = ps[i].id,
           NEW due, NEW open, NEW silent, NEW answered,
           CommitOk(c, due, silent, answered),
           \A j \in PairIdx : ps[j].id # c.id => PairOk(ps[j], due, open, silent, answered, on),
           \A a \in 1 .. Len(cs) : CommitOk(cs[a], due, silent, answered)
    PROVE  Core([ps EXCEPT ![i] = NoPair], Append(cs, c),
                IF Len(ev) < EvalCap THEN Append(ev, c.id) ELSE Append(Tail(ev), c.id),
                due, open, silent, answered, on, n)
<1> DEFINE qs == [ps EXCEPT ![i] = NoPair]
           ds == Append(cs, c)
           fv == IF Len(ev) < EvalCap THEN Append(ev, c.id) ELSE Append(Tail(ev), c.id)
<1>1. NoPair \in Pairs /\ NoPair.id = 0
  BY DEF NoPair, Pairs
<1>2. /\ qs \in [PairIdx -> Pairs] /\ qs[i] = NoPair
      /\ \A j \in PairIdx : j # i => qs[j] = ps[j] /\ ps[j].id # c.id
  BY <1>1 DEF PairShape
<1> HIDE DEF qs
<1>3. PairShape(qs, n)
  BY <1>1, <1>2 DEF PairShape
<1>4. \A j \in PairIdx : PairOk(qs[j], due, open, silent, answered, on)
  BY <1>1, <1>2 DEF PairOk
<1>5. /\ cs \in Seq(Pairings) /\ Len(cs) \in Nat /\ ds \in Seq(Pairings) /\ Len(ds) = Len(cs) + 1
      /\ \A a \in 1 .. Len(cs) : ds[a] = cs[a]
      /\ ds[Len(cs) + 1] = c
  BY AppendFacts DEF CommitShape
<1> HIDE DEF ds
<1>6. \A a \in 1 .. Len(ds) : a \in 1 .. Len(cs) \/ a = Len(cs) + 1
  BY <1>5
<1>7. CommitShape(ds, qs, n)
  <2>1. c.id <= n /\ c.id # 0 /\ \A j \in PairIdx : qs[j].id # c.id
    BY <1>1, <1>2 DEF PairShape
  <2>2. \A a \in 1 .. Len(cs) : cs[a].id # 0 /\ cs[a].id <= n /\ cs[a].id # c.id /\ \A j \in PairIdx : qs[j].id # cs[a].id
    BY <1>1, <1>2 DEF CommitShape
  <2>3. \A a \in 1 .. Len(ds) : ds[a].id # 0 /\ ds[a].id <= n /\ \A j \in PairIdx : qs[j].id # ds[a].id
    BY <1>5, <1>6, <2>1, <2>2
  <2>4. \A a, b \in 1 .. Len(ds) : ds[a].id = ds[b].id => a = b
    BY <1>5, <1>6, <2>2 DEF CommitShape
  <2> QED
    BY <1>5, <2>3, <2>4 DEF CommitShape
<1>8. \A a \in 1 .. Len(ds) : CommitOk(ds[a], due, silent, answered)
  BY <1>5, <1>6
<1>9. RingOf(fv, ds)
  BY <1>5, RingAdds DEF ds
<1> QED
  BY <1>3, <1>4, <1>7, <1>8, <1>9 DEF Core, qs, ds

\* A report is noted in its slot.
LEMMA CoreNotes ==
    ASSUME NEW ps, NEW cs, NEW ev, NEW n \in Nat, NEW on, NEW i \in PairIdx, NEW p \in Pairs,
           PairShape(ps, n), CommitShape(cs, ps, n), RingOf(ev, cs), p.id # 0, p.id = ps[i].id,
           NEW due, NEW open, NEW silent, NEW answered,
           PairOk(p, due, open, silent, answered, on),
           \A j \in PairIdx : ps[j].id # p.id => PairOk(ps[j], due, open, silent, answered, on),
           \A a \in 1 .. Len(cs) : CommitOk(cs[a], due, silent, answered)
    PROVE  Core([ps EXCEPT ![i] = p], cs, ev, due, open, silent, answered, on, n)
<1> DEFINE qs == [ps EXCEPT ![i] = p]
<1>1. /\ qs \in [PairIdx -> Pairs] /\ qs[i] = p
      /\ \A j \in PairIdx : j # i => qs[j] = ps[j] /\ ps[j].id # p.id
      /\ \A j \in PairIdx : qs[j].id = ps[j].id
  BY DEF PairShape
<1> HIDE DEF qs
<1>2. PairShape(qs, n)
  BY <1>1 DEF PairShape
<1>3. \A j \in PairIdx : PairOk(qs[j], due, open, silent, answered, on)
  BY <1>1
<1>4. CommitShape(cs, qs, n)
  BY <1>1 DEF CommitShape
<1> QED
  BY <1>2, <1>3, <1>4 DEF Core, qs

LEMMA Reports ==
    ASSUME Totals, NEW id \in Ids, id <= sdone.n, NEW from, NEW cs, Reported(id, from, cs)
    PROVE  /\ Totals' /\ sdone'.n = sdone.n /\ sdone'.commits = sdone.commits \o cs
           /\ sdone'.answered = IF from = "answer" THEN sdone.answered \cup {id} ELSE sdone.answered
<1> DEFINE ans == IF from = "answer" THEN sdone.answered \cup {id} ELSE sdone.answered
<1>1. sdone' = [sdone EXCEPT !.answered = ans, !.commits = sdone.commits \o cs]
  BY DEF Reported
<1>2. sdone = [n |-> sdone.n, commits |-> sdone.commits, answered |-> sdone.answered]
  BY DEF Totals
<1>3. sdone' = [n |-> sdone.n, commits |-> sdone.commits \o cs, answered |-> ans]
  BY <1>1, <1>2
<1>4. \A x \in ans : x \in Ids /\ x <= sdone.n
  BY DEF Totals
<1> HIDE DEF ans
<1>5. sdone'.n = sdone.n /\ sdone'.commits = sdone.commits \o cs /\ sdone'.answered = ans
  BY <1>3
<1>6. Totals'
  BY <1>3, <1>4, <1>5 DEF Totals
<1> QED
  BY <1>5, <1>6 DEF ans

LEMMA Commits ==
    ASSUME NEW i \in PairIdx, Commit(i), PairShape(pairs, sdone.n)
    PROVE  /\ pairs' = [pairs EXCEPT ![i] = NoPair]
           /\ evals' = IF Len(evals) < EvalCap THEN Append(evals, pairs[i].id) ELSE Append(Tail(evals), pairs[i].id)
  BY DEF Commit

\* The report of a request, its first one or not.
LEMMA Primary ==
    ASSUME Totals, NEW due, NEW open, NEW silent,
           Core(pairs, sdone.commits, evals, due, open, silent, sdone.answered, shadowOn, sdone.n),
           NEW from \in Sources, NEW id \in Ids, id <= sdone.n, shadow_engine_record_primary(id, from),
           from = "answer" => id \in silent,
           NEW open2, \A x \in open : x # id => x \in open2,
           NEW silent2, \A x \in silent2 : x \in silent /\ x # id
    PROVE  /\ Totals' /\ sdone'.n = sdone.n
           /\ Core(pairs', sdone'.commits, evals', due, open2, silent2, sdone'.answered, shadowOn, sdone.n)
<1> DEFINE cs == sdone.commits
           ans == sdone.answered
           n == sdone.n
           ans2 == IF from = "answer" THEN ans \cup {id} ELSE ans
<1>0. /\ PairShape(pairs, n) /\ CommitShape(cs, pairs, n) /\ RingOf(evals, cs) /\ n \in Nat /\ cs \in Seq(Pairings)
      /\ \A j \in PairIdx : PairOk(pairs[j], due, open, silent, ans, shadowOn)
      /\ \A a \in 1 .. Len(cs) : CommitOk(cs[a], due, silent, ans)
  BY DEF Core, Totals, CommitShape
<1>1. \A a \in 1 .. Len(cs) : CommitOk(cs[a], due, silent2, ans2)
  BY <1>0 DEF CommitOk
<1>2. \A j \in PairIdx : pairs[j].id # id => PairOk(pairs[j], due, open2, silent2, ans2, shadowOn)
  BY <1>0 DEF PairOk
<1>3. CASE \A i \in Holding(id) : pairs[i].primary # "none"
  <2>1. UNCHANGED <<pairs, evals>> /\ Reported(id, from, <<>>)
    BY <1>3 DEF shadow_engine_record_primary
  <2>2. Totals' /\ sdone'.n = n /\ sdone'.commits = cs \o <<>> /\ sdone'.answered = ans2
    BY <2>1, Reports
  <2>3. sdone'.commits = cs
    BY <1>0, <2>2, ConcatEmptySeq
  <2>4. ASSUME NEW j \in PairIdx, pairs[j].id = id PROVE PairOk(pairs[j], due, open2, silent2, ans2, shadowOn)
    <3>1. pairs[j].primary # "none"
      BY <1>3, <2>4 DEF Holding
    <3> QED
      BY <1>0, <2>4, <3>1 DEF PairOk
  <2>5. Core(pairs, cs, evals, due, open2, silent2, ans2, shadowOn, n)
    BY <1>0, <1>1, <1>2, <2>4 DEF Core
  <2> QED
    BY <2>1, <2>2, <2>3, <2>5
<1>4. CASE ~ \A i \in Holding(id) : pairs[i].primary # "none"
  <2>1. PICK i \in Holding(id) :
          IF pairs[i].shadow THEN Commit(i) /\ Reported(id, from, <<[id |-> id, by |-> from]>>)
          ELSE /\ pairs' = [pairs EXCEPT ![i].primary = from]
               /\ UNCHANGED evals /\ Reported(id, from, <<>>)
    BY <1>4 DEF shadow_engine_record_primary
  <2>2. i \in PairIdx /\ pairs[i].id = id /\ id # 0 /\ pairs[i] \in Pairs
    BY <1>0 DEF Holding, Ids, PairShape
  <2>3. pairs[i].primary = "none"
    BY <1>0, <1>4, <2>2 DEF Holding, PairShape
  <2>4. PairOk(pairs[i], due, open, silent, ans, shadowOn)
    BY <1>0, <2>2
  <2>5. CASE pairs[i].shadow
    <3> DEFINE c == [id |-> id, by |-> from]
    <3>1. Commit(i) /\ Reported(id, from, <<c>>)
      BY <2>1, <2>5
    <3>2. c \in Pairings /\ c.id = id /\ c.by = from
      BY DEF Pairings, Ids
    <3> HIDE DEF c
    <3>3. Totals' /\ sdone'.n = n /\ sdone'.commits = cs \o <<c>> /\ sdone'.answered = ans2
      BY <3>1, Reports
    <3>4. sdone'.commits = Append(cs, c)
      BY <1>0, <3>2, <3>3, AppendIsConcat
    <3>5. CommitOk(c, due, silent2, ans2)
      BY <2>2, <2>3, <2>4, <2>5, <3>2 DEF PairOk, CommitOk, Sources
    <3>6. /\ pairs' = [pairs EXCEPT ![i] = NoPair]
          /\ evals' = IF Len(evals) < EvalCap THEN Append(evals, c.id) ELSE Append(Tail(evals), c.id)
      BY <1>0, <2>2, <3>1, <3>2, Commits
    <3>7. \A j \in PairIdx : pairs[j].id # c.id => PairOk(pairs[j], due, open2, silent2, ans2, shadowOn)
      BY <1>2, <3>2
    <3> HIDE DEF ans2
    <3>8. Core([pairs EXCEPT ![i] = NoPair], Append(cs, c),
               IF Len(evals) < EvalCap THEN Append(evals, c.id) ELSE Append(Tail(evals), c.id),
               due, open2, silent2, ans2, shadowOn, n)
      BY <1>0, <1>1, <2>2, <3>2, <3>5, <3>7, CoreCommits
    <3> QED
      BY <3>3, <3>4, <3>6, <3>8
  <2>6. CASE ~pairs[i].shadow
    <3> DEFINE p == [pairs[i] EXCEPT !.primary = from]
    <3>1. pairs' = [pairs EXCEPT ![i] = p] /\ UNCHANGED evals /\ Reported(id, from, <<>>)
      BY <2>1, <2>6
    <3>2. p \in Pairs /\ p.id = id /\ p.primary = from /\ p.shadow = pairs[i].shadow
      BY <2>2 DEF Pairs
    <3> HIDE DEF p
    <3>3. Totals' /\ sdone'.n = n /\ sdone'.commits = cs \o <<>> /\ sdone'.answered = ans2
      BY <3>1, Reports
    <3>4. sdone'.commits = cs
      BY <1>0, <3>3, ConcatEmptySeq
    <3>5. PairOk(p, due, open2, silent2, ans2, shadowOn)
      BY <2>2, <2>3, <2>4, <2>6, <3>2 DEF PairOk, Sources
    <3>6. \A j \in PairIdx : pairs[j].id # p.id => PairOk(pairs[j], due, open2, silent2, ans2, shadowOn)
      BY <1>2, <3>2
    <3> HIDE DEF ans2
    <3>7. Core([pairs EXCEPT ![i] = p], cs, evals, due, open2, silent2, ans2, shadowOn, n)
      BY <1>0, <1>1, <2>2, <3>2, <3>5, <3>6, CoreNotes
    <3> QED
      BY <3>1, <3>3, <3>4, <3>7
  <2> QED
    BY <2>5, <2>6
<1> QED
  BY <1>3, <1>4

\* The report of the task.
LEMMA Shadowed ==
    ASSUME Totals, NEW due, NEW open, NEW silent,
           Core(pairs, sdone.commits, evals, due, open, silent, sdone.answered, shadowOn, sdone.n),
           shadow_engine_record_shadow, worker \in Ids, worker <= sdone.n, worker \in due,
           NEW due2, \A x : x \in due2 <=> x \in due /\ x # worker
    PROVE  /\ Totals' /\ sdone'.n = sdone.n
           /\ Core(pairs', sdone'.commits, evals', due2, open, silent, sdone'.answered, shadowOn, sdone.n)
<1> DEFINE cs == sdone.commits
           ans == sdone.answered
           n == sdone.n
<1>0. /\ PairShape(pairs, n) /\ CommitShape(cs, pairs, n) /\ RingOf(evals, cs) /\ n \in Nat /\ cs \in Seq(Pairings)
      /\ \A j \in PairIdx : PairOk(pairs[j], due, open, silent, ans, shadowOn)
      /\ \A a \in 1 .. Len(cs) : CommitOk(cs[a], due, silent, ans)
  BY DEF Core, Totals, CommitShape
<1>1. \A a \in 1 .. Len(cs) : CommitOk(cs[a], due2, silent, ans)
  BY <1>0 DEF CommitOk
<1>2. \A j \in PairIdx : pairs[j].id # worker => PairOk(pairs[j], due2, open, silent, ans, shadowOn)
  BY <1>0 DEF PairOk
<1>3. CASE Holding(worker) = {}
  <2>1. UNCHANGED <<pairs, evals, sdone>>
    BY <1>3 DEF shadow_engine_record_shadow
  <2>2. \A j \in PairIdx : pairs[j].id # worker
    BY <1>3 DEF Holding
  <2>3. Core(pairs, cs, evals, due2, open, silent, ans, shadowOn, n)
    BY <1>0, <1>1, <1>2, <2>2 DEF Core
  <2> QED
    BY <2>1, <2>3 DEF Totals
<1>4. CASE Holding(worker) # {}
  <2>1. PICK i \in Holding(worker) :
          IF pairs[i].primary # "none"
          THEN Commit(i) /\ Reported(worker, "shadow", <<[id |-> worker, by |-> pairs[i].primary]>>)
          ELSE pairs' = [pairs EXCEPT ![i].shadow = TRUE] /\ UNCHANGED <<evals, sdone>>
    BY <1>4 DEF shadow_engine_record_shadow
  <2>2. i \in PairIdx /\ pairs[i].id = worker /\ worker # 0 /\ pairs[i] \in Pairs
    BY <1>0 DEF Holding, Ids, PairShape
  <2>3. PairOk(pairs[i], due, open, silent, ans, shadowOn)
    BY <1>0, <2>2
  <2>4. CASE pairs[i].primary # "none"
    <3>0. PICK c \in Pairings : c = [id |-> worker, by |-> pairs[i].primary]
      BY <2>2, <2>4 DEF Pairs, Pairings
    <3>1. Commit(i) /\ Reported(worker, "shadow", <<c>>)
      BY <2>1, <2>4, <3>0
    <3>2. c.id = worker /\ c.by = pairs[i].primary
      BY <3>0
    <3>3. Totals' /\ sdone'.n = n /\ sdone'.commits = cs \o <<c>> /\ sdone'.answered = ans
      <4>1. /\ Totals' /\ sdone'.n = n /\ sdone'.commits = cs \o <<c>>
            /\ sdone'.answered = IF "shadow" = "answer" THEN ans \cup {worker} ELSE ans
        BY <3>1, Reports, Zenon
      <4> QED
        BY <4>1
    <3>4. sdone'.commits = Append(cs, c)
      BY <1>0, <3>3, AppendIsConcat
    <3>5. CommitOk(c, due2, silent, ans)
      BY <2>2, <2>3, <2>4, <3>2 DEF PairOk, CommitOk
    <3>6. /\ pairs' = [pairs EXCEPT ![i] = NoPair]
          /\ evals' = IF Len(evals) < EvalCap THEN Append(evals, c.id) ELSE Append(Tail(evals), c.id)
      BY <1>0, <2>2, <3>1, <3>2, Commits
    <3>7. \A j \in PairIdx : pairs[j].id # c.id => PairOk(pairs[j], due2, open, silent, ans, shadowOn)
      BY <1>2, <3>2
    <3>8. Core([pairs EXCEPT ![i] = NoPair], Append(cs, c),
               IF Len(evals) < EvalCap THEN Append(evals, c.id) ELSE Append(Tail(evals), c.id),
               due2, open, silent, ans, shadowOn, n)
      BY <1>0, <1>1, <2>2, <3>2, <3>5, <3>7, CoreCommits
    <3> QED
      BY <3>3, <3>4, <3>6, <3>8
  <2>5. CASE pairs[i].primary = "none"
    <3> DEFINE p == [pairs[i] EXCEPT !.shadow = TRUE]
    <3>1. pairs' = [pairs EXCEPT ![i] = p] /\ UNCHANGED <<evals, sdone>>
      BY <2>1, <2>5
    <3>2. p \in Pairs /\ p.id = worker /\ p.primary = "none" /\ p.shadow
      BY <2>2, <2>5 DEF Pairs
    <3> HIDE DEF p
    <3>5. PairOk(p, due2, open, silent, ans, shadowOn)
      BY <2>2, <2>3, <2>5, <3>2 DEF PairOk
    <3>6. \A j \in PairIdx : pairs[j].id # p.id => PairOk(pairs[j], due2, open, silent, ans, shadowOn)
      BY <1>2, <3>2
    <3>7. Core([pairs EXCEPT ![i] = p], cs, evals, due2, open, silent, ans, shadowOn, n)
      BY <1>0, <1>1, <2>2, <3>2, <3>5, <3>6, CoreNotes
    <3> QED
      BY <3>1, <3>7 DEF Totals
  <2> QED
    BY <2>4, <2>5
<1> QED
  BY <1>3, <1>4

\* A request takes a slot, or finds none.
LEMMA Paired ==
    ASSUME Totals, NEW due, NEW open, NEW silent,
           Core(pairs, sdone.commits, evals, due, open, silent, sdone.answered, shadowOn, sdone.n),
           NEW n2 \in Nat, n2 = sdone.n + 1, NEW p2,
           NEW due2, \A x : x \in due2 <=> x \in due \/ x = n2,
           NEW open2, \A x : x \in open2 <=> x \in open \/ x = n2,
           NEW silent2, \A x : x \in silent2 <=> x \in silent \/ x = n2,
           \/ p2 = pairs
           \/ \E i \in PairIdx : pairs[i].id = 0 /\ p2 = [pairs EXCEPT ![i] = [NoPair EXCEPT !.id = n2]]
    PROVE  Core(p2, sdone.commits, evals, due2, open2, silent2, sdone.answered, shadowOn, n2)
<1> DEFINE cs == sdone.commits
           ans == sdone.answered
           n == sdone.n
<1>0. /\ PairShape(pairs, n) /\ CommitShape(cs, pairs, n) /\ RingOf(evals, cs) /\ n \in Nat /\ cs \in Seq(Pairings)
      /\ \A j \in PairIdx : PairOk(pairs[j], due, open, silent, ans, shadowOn)
      /\ \A a \in 1 .. Len(cs) : CommitOk(cs[a], due, silent, ans)
      /\ \A x \in ans : x <= n
  BY DEF Core, Totals, CommitShape
<1>1. \A a \in 1 .. Len(cs) : cs[a].id \in Nat /\ cs[a].id <= n /\ cs[a].id # n2
  <2>1. \A a \in 1 .. Len(cs) : cs[a] \in Pairings
    BY <1>0, ElementOfSeq
  <2>2. \A a \in 1 .. Len(cs) : cs[a].id \in Nat
    BY <2>1 DEF Pairings
  <2> QED
    BY <1>0, <2>2 DEF CommitShape
<1>2. \A j \in PairIdx : pairs[j].id \in Nat /\ pairs[j].id <= n /\ pairs[j].id # n2
  <2>1. \A j \in PairIdx : pairs[j].id \in Nat
    BY <1>0 DEF PairShape, Pairs
  <2> QED
    BY <1>0, <2>1 DEF PairShape
<1>3. \A a \in 1 .. Len(cs) : CommitOk(cs[a], due2, silent2, ans)
  BY <1>0, <1>1 DEF CommitOk
<1>4. \A j \in PairIdx : PairOk(pairs[j], due2, open2, silent2, ans, shadowOn)
  BY <1>0, <1>2 DEF PairOk
<1>5. \A x \in Nat : x <= n => x <= n2
  BY <1>0
<1>6. CASE p2 = pairs
  <2>1. PairShape(pairs, n2) /\ CommitShape(cs, pairs, n2)
    BY <1>0, <1>1, <1>2, <1>5 DEF PairShape, CommitShape
  <2> QED
    BY <1>0, <1>3, <1>4, <1>6, <2>1 DEF Core
<1>7. ASSUME NEW i \in PairIdx, pairs[i].id = 0, p2 = [pairs EXCEPT ![i] = [NoPair EXCEPT !.id = n2]]
      PROVE  Core(p2, cs, evals, due2, open2, silent2, ans, shadowOn, n2)
  <2> DEFINE p == [NoPair EXCEPT !.id = n2]
  <2>0. n2 # 0 /\ n2 \notin ans
    <3>1. \A x \in ans : x # n2
      BY <1>0 DEF Totals, Ids
    <3> QED
      BY <1>0, <3>1
  <2>1. p \in Pairs /\ p.id = n2 /\ p.primary = "none" /\ p.shadow = FALSE
    BY DEF Pairs, NoPair
  <2> HIDE DEF p
  <2>2. p2 \in [PairIdx -> Pairs] /\ p2[i] = p /\ \A j \in PairIdx : j # i => p2[j] = pairs[j]
    BY <1>0, <1>7, <2>1 DEF PairShape, p
  <2>3. PairShape(p2, n2)
    BY <1>0, <1>2, <1>5, <2>0, <2>1, <2>2 DEF PairShape
  <2>4. CommitShape(cs, p2, n2)
    BY <1>0, <1>1, <1>5, <2>1, <2>2 DEF CommitShape
  <2>5. PairOk(p, due2, open2, silent2, ans, shadowOn)
    BY <2>0, <2>1 DEF PairOk
  <2>6. \A j \in PairIdx : PairOk(p2[j], due2, open2, silent2, ans, shadowOn)
    BY <1>4, <2>2, <2>5
  <2> QED
    BY <1>0, <1>3, <2>3, <2>4, <2>6 DEF Core
<1> QED
  BY <1>6, <1>7

LEMMA ReqMoves ==
    ASSUME NEW n, ReqShape(sreq, n), NEW r \in ShadowReqs, NEW step \in {"submit", "called", "answered"},
           sreq[r].pc # "idle", sreq' = [sreq EXCEPT ![r].pc = step]
    PROVE  /\ ReqShape(sreq', n) /\ sreq'[r].pc = step /\ \A q \in ShadowReqs : sreq'[q].id = sreq[q].id
           /\ \A q \in ShadowReqs : q # r => sreq'[q] = sreq[q]
<1> DEFINE s == [sreq[r] EXCEPT !.pc = step]
<1>1. sreq[r] \in ReqSteps
  BY DEF ReqShape
<1>2. s \in ReqSteps /\ s.pc = step /\ s.id = sreq[r].id
  BY <1>1 DEF ReqSteps
<1>3. sreq' = [sreq EXCEPT ![r] = s]
  OBVIOUS
<1> HIDE DEF s
<1>4. sreq' \in [ShadowReqs -> ReqSteps] /\ sreq'[r] = s /\ \A q \in ShadowReqs : q # r => sreq'[q] = sreq[q]
  BY <1>2, <1>3 DEF ReqShape
<1>5. \A q \in ShadowReqs : sreq'[q].id = sreq[q].id /\ (sreq'[q].pc = "idle" <=> sreq[q].pc = "idle")
  BY <1>2, <1>4
<1>6. ReqShape(sreq', n)
  BY <1>4, <1>5 DEF ReqShape
<1> QED
  BY <1>2, <1>4, <1>5, <1>6

LEMMA ReqEnds ==
    ASSUME NEW n, ReqShape(sreq, n), n \in Nat, NEW r \in ShadowReqs, sreq' = [sreq EXCEPT ![r] = NoReq]
    PROVE  /\ ReqShape(sreq', n) /\ sreq'[r].pc = "idle" /\ sreq'[r].id = 0
           /\ \A q \in ShadowReqs : q # r => sreq'[q] = sreq[q]
<1>1. NoReq \in ReqSteps /\ NoReq.pc = "idle" /\ NoReq.id = 0
  BY DEF NoReq, ReqSteps
<1>2. sreq' \in [ShadowReqs -> ReqSteps] /\ sreq'[r] = NoReq /\ \A q \in ShadowReqs : q # r => sreq'[q] = sreq[q]
  BY <1>1 DEF ReqShape
<1>3. ReqShape(sreq', n)
  BY <1>1, <1>2 DEF ReqShape
<1> QED
  BY <1>1, <1>2, <1>3

LEMMA SubmitStep ==
    ASSUME ShadowInv, NEW r \in ShadowReqs, shadow_engine_submit_task(r)
    PROVE  ShadowInv'
<1> DEFINE d == sreq[r].id
           n == sdone.n
<1>1. /\ sreq[r].pc = "submit" /\ sreq' = [sreq EXCEPT ![r].pc = "called"]
      /\ UNCHANGED <<pairs, worker, shadowOn, evals, sdone>>
  BY DEF shadow_engine_submit_task
<1>2. ReqShape(sreq, n) /\ TaskShape(sreq, tasks, worker, unqueued, n) /\ Totals /\ n \in Nat
  BY DEF ShadowInv, Totals
<1>3. /\ ReqShape(sreq', n) /\ sreq'[r].pc = "called" /\ \A q \in ShadowReqs : sreq'[q].id = sreq[q].id
      /\ \A q \in ShadowReqs : q # r => sreq'[q] = sreq[q]
  BY <1>1, <1>2, ReqMoves
<1>4. /\ d \in Ids /\ d <= n /\ \A q \in ShadowReqs : sreq[q].id = d => q = r
      /\ \A q \in ShadowReqs : sreq[q].id \in Nat
  BY <1>1, <1>2 DEF ReqShape, ReqSteps, Ids
<1>5. /\ d # worker /\ d \notin unqueued /\ \A a \in 1 .. Len(tasks) : tasks[a] # d
      /\ tasks \in Seq(Ids) /\ Len(tasks) \in Nat
  BY <1>1, <1>2, LenProperties DEF TaskShape
<1> HIDE DEF d
<1>6. /\ TaskShape(sreq', tasks', worker', unqueued', n)
      /\ DueIds(sreq', tasks', worker', unqueued') = DueIds(sreq, tasks, worker, unqueued)
  <2>1. CASE tasks' = Append(tasks, d) /\ UNCHANGED unqueued
    <3>1. /\ tasks' \in Seq(Ids) /\ Len(tasks') = Len(tasks) + 1
          /\ \A i \in 1 .. Len(tasks) : tasks'[i] = tasks[i]
          /\ tasks'[Len(tasks) + 1] = d
      BY <1>4, <1>5, <2>1, AppendFacts
    <3>2. \A a \in 1 .. Len(tasks') : a \in 1 .. Len(tasks) \/ a = Len(tasks) + 1
      BY <1>5, <3>1
    <3>3. 1 .. Len(tasks) \subseteq 1 .. Len(tasks') /\ Len(tasks) + 1 \in 1 .. Len(tasks')
      BY <1>5, <3>1
    <3>4. \A a \in 1 .. Len(tasks') : tasks'[a] <= n /\ tasks'[a] # worker' /\ tasks'[a] \notin unqueued'
      BY <1>1, <1>2, <1>4, <1>5, <2>1, <3>1, <3>2 DEF TaskShape
    <3>5. \A a, b \in 1 .. Len(tasks') : tasks'[a] = tasks'[b] => a = b
      BY <1>2, <1>5, <3>1, <3>2 DEF TaskShape
    <3>6. \A q \in ShadowReqs : sreq'[q].pc = "submit" =>
            sreq'[q].id # worker' /\ sreq'[q].id \notin unqueued' /\ \A a \in 1 .. Len(tasks') : tasks'[a] # sreq'[q].id
      BY <1>1, <1>2, <1>3, <1>4, <2>1, <3>1, <3>2 DEF TaskShape
    <3>7. TaskShape(sreq', tasks', worker', unqueued', n)
      BY <1>1, <1>2, <2>1, <3>1, <3>4, <3>5, <3>6 DEF TaskShape
    <3>8. ASSUME NEW x \in DueIds(sreq', tasks', worker', unqueued') PROVE x \in DueIds(sreq, tasks, worker, unqueued)
      BY <1>1, <1>3, <1>4, <2>1, <3>1, <3>2 DEF DueIds, d
    <3>9. ASSUME NEW x \in DueIds(sreq, tasks, worker, unqueued) PROVE x \in DueIds(sreq', tasks', worker', unqueued')
      BY <1>1, <1>3, <1>4, <2>1, <3>1, <3>3 DEF DueIds, d
    <3> QED
      BY <3>7, <3>8, <3>9
  <2>2. CASE UNCHANGED tasks /\ unqueued' = unqueued \cup {d}
    <3>1. \A q \in ShadowReqs : sreq'[q].pc = "submit" =>
            sreq'[q].id # worker' /\ sreq'[q].id \notin unqueued' /\ \A a \in 1 .. Len(tasks') : tasks'[a] # sreq'[q].id
      BY <1>1, <1>2, <1>3, <1>4, <2>2 DEF TaskShape
    <3>2. TaskShape(sreq', tasks', worker', unqueued', n)
      BY <1>1, <1>2, <1>4, <1>5, <2>2, <3>1 DEF TaskShape
    <3>3. ASSUME NEW x \in DueIds(sreq', tasks', worker', unqueued') PROVE x \in DueIds(sreq, tasks, worker, unqueued)
      BY <1>1, <1>3, <1>4, <2>2 DEF DueIds, d
    <3>4. ASSUME NEW x \in DueIds(sreq, tasks, worker, unqueued) PROVE x \in DueIds(sreq', tasks', worker', unqueued')
      BY <1>1, <1>3, <1>4, <2>2 DEF DueIds, d
    <3> QED
      BY <3>2, <3>3, <3>4
  <2> QED
    BY <2>1, <2>2 DEF shadow_engine_submit_task, d
<1>7. OpenIds(sreq') = OpenIds(sreq)
  BY <1>3 DEF OpenIds
<1>8. SilentIds(sreq') = SilentIds(sreq)
  <2>1. \A q \in ShadowReqs : sreq'[q].pc \in {"submit", "called"} <=> sreq[q].pc \in {"submit", "called"}
    BY <1>1, <1>3
  <2> QED
    BY <1>3, <2>1 DEF SilentIds
<1>9. Totals' /\ shadowOn' \in {"on", "stopping", "off"} /\ sdone'.n = n
  BY <1>1 DEF ShadowInv, Totals
<1> QED
  BY <1>1, <1>3, <1>6, <1>7, <1>8, <1>9 DEF ShadowInv

LEMMA InitShadow == ShadowInit => ShadowInv
<1> SUFFICES ASSUME ShadowInit PROVE ShadowInv
  OBVIOUS
<1>1. /\ pairs = [i \in PairIdx |-> NoPair] /\ tasks = <<>> /\ unqueued = {} /\ worker = 0 /\ shadowOn = "on"
      /\ evals = <<>> /\ sreq = [r \in ShadowReqs |-> NoReq] /\ sdone = [n |-> 0, commits |-> <<>>, answered |-> {}]
  BY DEF ShadowInit
<1>2. sdone.n = 0 /\ sdone.commits = <<>> /\ sdone.answered = {}
  BY <1>1
<1>3. Totals
  BY <1>1, <1>2 DEF Totals
<1>4. NoReq \in ReqSteps /\ NoReq.pc = "idle" /\ NoReq.id = 0
  BY DEF NoReq, ReqSteps
<1>5. ReqShape(sreq, sdone.n)
  BY <1>1, <1>2, <1>4 DEF ReqShape
<1>6. tasks \in Seq(Ids) /\ Len(tasks) = 0 /\ evals \in Seq(Nat) /\ Len(evals) = 0
      /\ sdone.commits \in Seq(Pairings) /\ Len(sdone.commits) = 0
  BY <1>1, <1>2, EmptySeq
<1>7. TaskShape(sreq, tasks, worker, unqueued, sdone.n)
  BY <1>1, <1>2, <1>4, <1>6 DEF TaskShape
<1>8. NoPair \in Pairs /\ NoPair.id = 0
  BY DEF NoPair, Pairs
<1>9. PairShape(pairs, sdone.n) /\ CommitShape(sdone.commits, pairs, sdone.n)
  BY <1>1, <1>2, <1>6, <1>8 DEF PairShape, CommitShape
<1>10. RingOf(evals, sdone.commits)
  BY <1>6, ShadowAssumption DEF RingOf
<1>11. Core(pairs, sdone.commits, evals, DueIds(sreq, tasks, worker, unqueued), OpenIds(sreq),
            SilentIds(sreq), sdone.answered, shadowOn, sdone.n)
  BY <1>1, <1>6, <1>8, <1>9, <1>10 DEF Core, PairOk
<1> QED
  BY <1>1, <1>3, <1>5, <1>7, <1>11 DEF ShadowInv

LEMMA LeastNat ==
    ASSUME NEW T \in SUBSET Nat, T # {}
    PROVE  \E k \in T : \A j \in T : k <= j
<1> DEFINE less == {ss \in Nat \X Nat : ss[1] < ss[2]}
<1>1. IsWellFoundedOn(less, Nat)
  BY NatLessThanWellFounded DEF OpToRel
<1> HIDE DEF less
<1>2. PICK k \in T : \A j \in T : ~(<<j, k>> \in less)
  BY <1>1, WFMin
<1>3. \A j \in T : ~(j < k)
  BY <1>2 DEF less
<1> QED
  BY <1>3

LEMMA StartStep ==
    ASSUME ShadowInv, NEW r \in ShadowReqs, shadow_engine_start_pairing(r)
    PROVE  ShadowInv'
<1> DEFINE id == sdone.n + 1
           free == {i \in PairIdx : pairs[i].id = 0}
           s == [pc |-> "submit", id |-> id]
<1>1. /\ shadowOn = "on" /\ sreq[r].pc = "idle" /\ UNCHANGED <<tasks, unqueued, worker, shadowOn, evals>>
      /\ pairs' = IF free = {} THEN pairs
                  ELSE [pairs EXCEPT ![CHOOSE i \in free : \A j \in free : i <= j].id = id]
      /\ sreq' = [sreq EXCEPT ![r] = s] /\ sdone' = [sdone EXCEPT !.n = id]
  BY DEF shadow_engine_start_pairing
<1>2. /\ ReqShape(sreq, sdone.n) /\ TaskShape(sreq, tasks, worker, unqueued, sdone.n) /\ Totals /\ sdone.n \in Nat
      /\ PairShape(pairs, sdone.n)
  BY DEF ShadowInv, Totals, Core
<1>3. id \in Nat /\ id # 0 /\ sdone.n <= id /\ ~(id <= sdone.n) /\ \A x \in Nat : x <= sdone.n => x <= id
  BY <1>2
<1>4. sdone' = [n |-> id, commits |-> sdone.commits, answered |-> sdone.answered]
  BY <1>1, <1>2 DEF Totals
<1>5. sdone'.n = id /\ sdone'.commits = sdone.commits /\ sdone'.answered = sdone.answered
  BY <1>4
<1>6. Totals'
  <2>1. \A x \in sdone.answered : x \in Ids /\ x <= id
    BY <1>2, <1>3 DEF Totals, Ids
  <2> HIDE DEF id
  <2> QED
    BY <1>3, <1>4, <1>5, <2>1 DEF Totals
<1>7. \/ pairs' = pairs
      \/ \E i \in PairIdx : pairs[i].id = 0 /\ pairs' = [pairs EXCEPT ![i] = [NoPair EXCEPT !.id = id]]
  <2>1. CASE free = {}
    BY <1>1, <2>1
  <2>2. CASE free # {}
    <3>1. free \subseteq Nat
      BY DEF PairIdx
    <3>2. \E i \in free : \A j \in free : i <= j
      BY <2>2, <3>1, LeastNat
    <3>3. PICK i \in free : pairs' = [pairs EXCEPT ![i].id = id]
      <4> HIDE DEF free, id
      <4> QED
        BY <1>1, <2>2, <3>2
    <3>4. i \in PairIdx /\ pairs[i].id = 0 /\ pairs[i] = NoPair
      BY <1>2 DEF PairShape
    <3> QED
      BY <3>3, <3>4
  <2> QED
    BY <2>1, <2>2
<1>8. s \in ReqSteps /\ s.pc = "submit" /\ s.id = id
  BY <1>3 DEF ReqSteps
<1> HIDE DEF s, id
<1>9. sreq' \in [ShadowReqs -> ReqSteps] /\ sreq'[r] = s /\ \A q \in ShadowReqs : q # r => sreq'[q] = sreq[q]
  BY <1>1, <1>2, <1>8 DEF ReqShape
<1>10. \A q \in ShadowReqs : sreq[q].id \in Nat /\ sreq[q].id # id
  BY <1>2, <1>3 DEF ReqShape, ReqSteps
<1>11. ReqShape(sreq', id)
  BY <1>2, <1>3, <1>8, <1>9, <1>10 DEF ReqShape
<1>12. tasks \in Seq(Ids) /\ \A a \in 1 .. Len(tasks) : tasks[a] \in Ids /\ tasks[a] \in Nat /\ tasks[a] # id
  <2>1. \A a \in 1 .. Len(tasks) : tasks[a] \in Ids
    BY <1>2, ElementOfSeq DEF TaskShape
  <2> QED
    BY <1>2, <1>3, <2>1 DEF TaskShape, Ids
<1>13. worker \in Nat /\ worker # id /\ \A x \in unqueued : x \in Nat /\ x # id
  BY <1>2, <1>3 DEF TaskShape, Ids
<1>14. TaskShape(sreq', tasks', worker', unqueued', id)
  <2>1. \A q \in ShadowReqs : sreq'[q].pc = "submit" =>
          sreq'[q].id # worker /\ sreq'[q].id \notin unqueued /\ \A a \in 1 .. Len(tasks) : tasks[a] # sreq'[q].id
    BY <1>2, <1>8, <1>9, <1>12, <1>13 DEF TaskShape
  <2>2. TaskShape(sreq', tasks, worker, unqueued, id)
    BY <1>2, <1>3, <1>12, <1>13, <2>1 DEF TaskShape
  <2> QED
    BY <1>1, <2>2
<1>15. sreq[r].id = 0 /\ id \in Ids
  BY <1>1, <1>2, <1>3 DEF ReqShape, Ids
<1>16. \A x : x \in DueIds(sreq', tasks, worker, unqueued) <=> x \in DueIds(sreq, tasks, worker, unqueued) \/ x = id
  BY <1>1, <1>8, <1>9, <1>15 DEF DueIds
<1>17. \A x : x \in OpenIds(sreq') <=> x \in OpenIds(sreq) \/ x = id
  BY <1>8, <1>9, <1>15 DEF OpenIds, Ids
<1>18. \A x : x \in SilentIds(sreq') <=> x \in SilentIds(sreq) \/ x = id
  BY <1>1, <1>8, <1>9, <1>15 DEF SilentIds
<1>19. Core(pairs', sdone.commits, evals, DueIds(sreq', tasks, worker, unqueued), OpenIds(sreq'), SilentIds(sreq'),
            sdone.answered, shadowOn, id)
  <2>1. Core(pairs, sdone.commits, evals, DueIds(sreq, tasks, worker, unqueued), OpenIds(sreq),
             SilentIds(sreq), sdone.answered, shadowOn, sdone.n)
    BY DEF ShadowInv
  <2>2. id = sdone.n + 1
    BY DEF id
  <2> QED
    BY <1>2, <1>3, <1>7, <1>16, <1>17, <1>18, <2>1, <2>2, Paired, ZenonT(30)
<1> QED
  BY <1>1, <1>5, <1>6, <1>11, <1>14, <1>19 DEF ShadowInv

\* A request that has queued its task moves on: no task comes or goes.
LEMMA SameTasks ==
    ASSUME NEW sr, NEW n, TaskShape(sreq, tasks, worker, unqueued, n), NEW r \in ShadowReqs,
           sreq[r].pc # "submit", sr[r].pc # "submit", \A q \in ShadowReqs : q # r => sr[q] = sreq[q]
    PROVE  /\ TaskShape(sr, tasks, worker, unqueued, n)
           /\ DueIds(sr, tasks, worker, unqueued) = DueIds(sreq, tasks, worker, unqueued)
<1>1. \A q \in ShadowReqs : sr[q].pc = "submit" => q # r /\ sr[q] = sreq[q]
  OBVIOUS
<1>2. \A q \in ShadowReqs : sreq[q].pc = "submit" => q # r /\ sr[q] = sreq[q]
  OBVIOUS
<1>3. TaskShape(sr, tasks, worker, unqueued, n)
  BY <1>1 DEF TaskShape
<1>4. ASSUME NEW x \in DueIds(sr, tasks, worker, unqueued) PROVE x \in DueIds(sreq, tasks, worker, unqueued)
  BY <1>1 DEF DueIds
<1>5. ASSUME NEW x \in DueIds(sreq, tasks, worker, unqueued) PROVE x \in DueIds(sr, tasks, worker, unqueued)
  BY <1>2 DEF DueIds
<1> QED
  BY <1>3, <1>4, <1>5

LEMMA AnsweredStep ==
    ASSUME ShadowInv, NEW r \in ShadowReqs, Answered(r)
    PROVE  ShadowInv'
<1> DEFINE d == sreq[r].id
           n == sdone.n
           due == DueIds(sreq, tasks, worker, unqueued)
<1>1. /\ sreq[r].pc = "called" /\ sreq' = [sreq EXCEPT ![r].pc = "answered"]
      /\ shadow_engine_record_primary(d, "answer") /\ UNCHANGED <<tasks, unqueued, worker, shadowOn>>
  BY DEF Answered
<1>2. /\ ReqShape(sreq, n) /\ TaskShape(sreq, tasks, worker, unqueued, n) /\ Totals /\ n \in Nat
      /\ Core(pairs, sdone.commits, evals, due, OpenIds(sreq), SilentIds(sreq), sdone.answered, shadowOn, n)
  BY DEF ShadowInv, Totals
<1>3. /\ ReqShape(sreq', n) /\ sreq'[r].pc = "answered" /\ \A q \in ShadowReqs : sreq'[q].id = sreq[q].id
      /\ \A q \in ShadowReqs : q # r => sreq'[q] = sreq[q]
  BY <1>1, <1>2, ReqMoves
<1>4. d \in Ids /\ d <= n /\ \A q \in ShadowReqs : sreq[q].id = d => q = r
  BY <1>1, <1>2 DEF ReqShape, ReqSteps, Ids
<1>5. TaskShape(sreq', tasks, worker, unqueued, n) /\ DueIds(sreq', tasks, worker, unqueued) = due
  BY <1>1, <1>2, <1>3, SameTasks
<1>6. d \in SilentIds(sreq) /\ \A x \in SilentIds(sreq') : x \in SilentIds(sreq) /\ x # d
  BY <1>1, <1>3, <1>4 DEF SilentIds
<1>7. \A x \in OpenIds(sreq) : x # d => x \in OpenIds(sreq')
  BY <1>3 DEF OpenIds
<1> HIDE DEF d, due
<1>8. /\ Totals' /\ sdone'.n = n
      /\ Core(pairs', sdone'.commits, evals', due, OpenIds(sreq'), SilentIds(sreq'), sdone'.answered, shadowOn, n)
  <2>1. "answer" \in Sources /\ ("answer" = "answer" => d \in SilentIds(sreq))
    BY <1>6 DEF Sources
  <2>2. /\ Totals /\ d \in Ids /\ d <= sdone.n /\ shadow_engine_record_primary(d, "answer")
        /\ Core(pairs, sdone.commits, evals, due, OpenIds(sreq), SilentIds(sreq), sdone.answered, shadowOn, sdone.n)
        /\ \A x \in SilentIds(sreq') : x \in SilentIds(sreq) /\ x # d
    BY <1>1, <1>2, <1>4, <1>6, Zenon
  <2> QED
    BY <1>7, <2>1, <2>2, Primary, ZenonT(60)
<1> QED
  BY <1>1, <1>3, <1>5, <1>8 DEF ShadowInv

LEMMA CleanupStep ==
    ASSUME ShadowInv, NEW r \in ShadowReqs, Cleanup(r)
    PROVE  ShadowInv'
<1> DEFINE d == sreq[r].id
           n == sdone.n
           due == DueIds(sreq, tasks, worker, unqueued)
<1>1. /\ sreq[r].pc \in {"called", "answered"} /\ sreq' = [sreq EXCEPT ![r] = NoReq]
      /\ shadow_engine_record_primary(d, "cleanup") /\ UNCHANGED <<tasks, unqueued, worker, shadowOn>>
  BY DEF Cleanup
<1>2. /\ ReqShape(sreq, n) /\ TaskShape(sreq, tasks, worker, unqueued, n) /\ Totals /\ n \in Nat
      /\ Core(pairs, sdone.commits, evals, due, OpenIds(sreq), SilentIds(sreq), sdone.answered, shadowOn, n)
  BY DEF ShadowInv, Totals
<1>3. /\ ReqShape(sreq', n) /\ sreq'[r].pc = "idle" /\ sreq'[r].id = 0
      /\ \A q \in ShadowReqs : q # r => sreq'[q] = sreq[q]
  BY <1>1, <1>2, ReqEnds
<1>4. d \in Ids /\ d <= n /\ \A q \in ShadowReqs : sreq[q].id = d => q = r
  BY <1>1, <1>2 DEF ReqShape, ReqSteps, Ids
<1>5. TaskShape(sreq', tasks, worker, unqueued, n) /\ DueIds(sreq', tasks, worker, unqueued) = due
  BY <1>1, <1>2, <1>3, SameTasks
<1>6. \A x \in SilentIds(sreq') : x \in SilentIds(sreq) /\ x # d
  BY <1>3, <1>4 DEF SilentIds, Ids
<1>7. \A x \in OpenIds(sreq) : x # d => x \in OpenIds(sreq')
  BY <1>3 DEF OpenIds
<1> HIDE DEF d, due
<1>8. /\ Totals' /\ sdone'.n = n
      /\ Core(pairs', sdone'.commits, evals', due, OpenIds(sreq'), SilentIds(sreq'), sdone'.answered, shadowOn, n)
  <2>1. "cleanup" \in Sources /\ ("cleanup" = "answer" => d \in SilentIds(sreq))
    BY <1>6 DEF Sources
  <2>2. /\ Totals /\ d \in Ids /\ d <= sdone.n /\ shadow_engine_record_primary(d, "cleanup")
        /\ Core(pairs, sdone.commits, evals, due, OpenIds(sreq), SilentIds(sreq), sdone.answered, shadowOn, sdone.n)
        /\ \A x \in SilentIds(sreq') : x \in SilentIds(sreq) /\ x # d
    BY <1>1, <1>2, <1>4, <1>6, Zenon
  <2> QED
    BY <1>7, <2>1, <2>2, Primary, ZenonT(60)
<1> QED
  BY <1>1, <1>3, <1>5, <1>8 DEF ShadowInv

LEMMA PopStep ==
    ASSUME ShadowInv, shadow_queue_pop
    PROVE  ShadowInv'
<1> DEFINE n == sdone.n
           k == Len(tasks)
<1>1. /\ worker = 0 /\ tasks # <<>> /\ worker' = Head(tasks) /\ tasks' = Tail(tasks)
      /\ UNCHANGED <<pairs, unqueued, shadowOn, evals, sreq, sdone>>
  BY DEF shadow_queue_pop
<1>2. TaskShape(sreq, tasks, worker, unqueued, n) /\ tasks \in Seq(Ids)
  BY DEF ShadowInv, TaskShape
<1>3. /\ tasks' \in Seq(Ids) /\ k \in Nat \ {0} /\ Len(tasks') = k - 1
      /\ \A i \in 1 .. k - 1 : tasks'[i] = tasks[i + 1]
      /\ worker' = tasks[1] /\ worker' \in Ids
  BY <1>1, <1>2, TailFacts
<1> HIDE DEF k
<1>4. /\ 1 \in 1 .. k /\ \A i \in 1 .. k - 1 : i + 1 \in 1 .. k /\ i + 1 # 1
      /\ \A i \in 1 .. k : i = 1 \/ (i - 1 \in 1 .. k - 1 /\ (i - 1) + 1 = i)
  BY <1>3
<1>5. TaskShape(sreq, tasks', worker', unqueued, n)
  <2>1. \A a \in 1 .. k : tasks[a] <= n /\ tasks[a] \notin unqueued
    BY <1>2 DEF TaskShape, k
  <2>2. \A a, b \in 1 .. k : tasks[a] = tasks[b] => a = b
    BY <1>2 DEF TaskShape, k
  <2>3. \A a \in 1 .. k - 1 : tasks'[a] <= n /\ tasks'[a] # worker' /\ tasks'[a] \notin unqueued
    BY <1>3, <1>4, <2>1, <2>2
  <2>4. \A a, b \in 1 .. k - 1 : tasks'[a] = tasks'[b] => a = b
    <3> SUFFICES ASSUME NEW a \in 1 .. k - 1, NEW b \in 1 .. k - 1, tasks'[a] = tasks'[b] PROVE a = b
      OBVIOUS
    <3>1. a + 1 = b + 1
      BY <1>3, <1>4, <2>2
    <3> QED
      BY <3>1
  <2>5. \A r \in ShadowReqs : sreq[r].pc = "submit" =>
          sreq[r].id # worker' /\ sreq[r].id \notin unqueued /\ \A a \in 1 .. k - 1 : tasks'[a] # sreq[r].id
    BY <1>2, <1>3, <1>4 DEF TaskShape, k
  <2>6. \A x \in unqueued : x <= n /\ x # worker'
    BY <1>2, <1>3, <1>4, <2>1 DEF TaskShape
  <2>7. worker' \in Nat /\ worker' <= n /\ unqueued \subseteq Ids
    BY <1>2, <1>3, <1>4, <2>1 DEF TaskShape, Ids
  <2> QED
    BY <1>3, <2>3, <2>4, <2>5, <2>6, <2>7 DEF TaskShape
<1>6. DueIds(sreq, tasks', worker', unqueued) = DueIds(sreq, tasks, worker, unqueued)
  <2>1. ASSUME NEW x \in Ids PROVE (x = worker' \/ \E a \in 1 .. k - 1 : tasks'[a] = x) <=> (x = worker \/ \E a \in 1 .. k : tasks[a] = x)
    <3>1. x # worker
      BY <1>1 DEF Ids
    <3>2. ASSUME NEW a \in 1 .. k, tasks[a] = x PROVE x = worker' \/ \E b \in 1 .. k - 1 : tasks'[b] = x
      <4>1. CASE a = 1
        BY <1>3, <3>2, <4>1
      <4>2. CASE a # 1
        <5>1. a - 1 \in 1 .. k - 1 /\ tasks'[a - 1] = tasks[a]
          BY <1>3, <1>4, <4>2
        <5> QED
          BY <3>2, <5>1
      <4> QED
        BY <4>1, <4>2
    <3> QED
      BY <1>3, <1>4, <3>1, <3>2
  <2> QED
    BY <1>3, <2>1 DEF DueIds, k
<1> QED
  BY <1>1, <1>5, <1>6 DEF ShadowInv, Totals

LEMMA ShadowedStep ==
    ASSUME ShadowInv, shadow_engine_record_shadow
    PROVE  ShadowInv'
<1> DEFINE n == sdone.n
           due == DueIds(sreq, tasks, worker, unqueued)
           due2 == DueIds(sreq, tasks, 0, unqueued)
<1>1. worker # 0 /\ worker' = 0 /\ UNCHANGED <<tasks, unqueued, shadowOn, sreq>>
  BY DEF shadow_engine_record_shadow
<1>2. /\ TaskShape(sreq, tasks, worker, unqueued, n) /\ Totals /\ n \in Nat
      /\ Core(pairs, sdone.commits, evals, due, OpenIds(sreq), SilentIds(sreq), sdone.answered, shadowOn, n)
  BY DEF ShadowInv, Totals
<1>3. worker \in Ids /\ worker <= n /\ worker \in due
  BY <1>1, <1>2 DEF TaskShape, Ids, DueIds
<1>4. \A a \in 1 .. Len(tasks) : tasks[a] \in Ids
  BY <1>2, ElementOfSeq DEF TaskShape
<1>5. \A x : x \in due2 <=> x \in due /\ x # worker
  BY <1>2, <1>3 DEF DueIds, TaskShape, Ids
<1>6. TaskShape(sreq, tasks, 0, unqueued, n)
  <2>1. \A r \in ShadowReqs : sreq[r].pc = "submit" => sreq[r].id # 0
    BY DEF ShadowInv, ReqShape
  <2> QED
    <3>1. \A a \in 1 .. Len(tasks) : tasks[a] <= n /\ tasks[a] # 0 /\ tasks[a] \notin unqueued
      BY <1>2, <1>4 DEF TaskShape, Ids
    <3>2. \A x \in unqueued : x <= n /\ x # 0
      BY <1>2 DEF TaskShape, Ids
    <3>3. \A r \in ShadowReqs : sreq[r].pc = "submit" =>
            sreq[r].id # 0 /\ sreq[r].id \notin unqueued /\ \A a \in 1 .. Len(tasks) : tasks[a] # sreq[r].id
      BY <1>2, <2>1 DEF TaskShape
    <3>4. 0 \in Nat /\ 0 <= n /\ unqueued \subseteq Ids /\ tasks \in Seq(Ids)
          /\ \A a, b \in 1 .. Len(tasks) : tasks[a] = tasks[b] => a = b
      BY <1>2 DEF TaskShape
    <3> QED
      BY <3>1, <3>2, <3>3, <3>4, Zenon DEF TaskShape
<1> HIDE DEF due, due2
<1>7. /\ Totals' /\ sdone'.n = n
      /\ Core(pairs', sdone'.commits, evals', due2, OpenIds(sreq), SilentIds(sreq), sdone'.answered, shadowOn, n)
  BY <1>2, <1>3, <1>5, Shadowed
<1> QED
  BY <1>1, <1>6, <1>7 DEF ShadowInv, due2

LEMMA DestroyStep ==
    ASSUME ShadowInv, shadow_engine_destroy
    PROVE  ShadowInv'
<1> DEFINE n == sdone.n
           due == DueIds(sreq, tasks, worker, unqueued)
           due2 == DueIds(sreq, <<>>, worker, unqueued)
<1>1. shadowOn' = "off" /\ tasks' = <<>> /\ UNCHANGED <<pairs, unqueued, worker, evals, sreq, sdone>>
  BY DEF shadow_engine_destroy
<1>2. /\ TaskShape(sreq, tasks, worker, unqueued, n)
      /\ Core(pairs, sdone.commits, evals, due, OpenIds(sreq), SilentIds(sreq), sdone.answered, shadowOn, n)
  BY DEF ShadowInv
<1>3. <<>> \in Seq(Ids) /\ Len(<<>>) = 0
  BY EmptySeq
<1>4. TaskShape(sreq, <<>>, worker, unqueued, n)
  BY <1>2, <1>3 DEF TaskShape
<1>5. due2 \subseteq due
  BY <1>3 DEF DueIds
<1> HIDE DEF due, due2
<1>6. Core(pairs, sdone.commits, evals, due2, OpenIds(sreq), SilentIds(sreq), sdone.answered, "off", n)
  <2>1. \A a \in 1 .. Len(sdone.commits) : CommitOk(sdone.commits[a], due2, SilentIds(sreq), sdone.answered)
    BY <1>2, <1>5 DEF Core, CommitOk
  <2>2. \A i \in PairIdx : PairOk(pairs[i], due2, OpenIds(sreq), SilentIds(sreq), sdone.answered, "off")
    BY <1>2, <1>5 DEF Core, PairOk
  <2> QED
    BY <1>2, <2>1, <2>2 DEF Core
<1> QED
  BY <1>1, <1>4, <1>6 DEF ShadowInv, Totals, due2

LEMMA StopStep ==
    ASSUME ShadowInv, shadow_engine_stop
    PROVE  ShadowInv'
<1>1. /\ shadowOn = "on" /\ shadowOn' = "stopping"
      /\ UNCHANGED <<pairs, tasks, unqueued, worker, evals, sreq, sdone>>
  BY DEF shadow_engine_stop
<1>2. Core(pairs, sdone.commits, evals, DueIds(sreq, tasks, worker, unqueued), OpenIds(sreq),
           SilentIds(sreq), sdone.answered, "stopping", sdone.n)
  BY <1>1 DEF ShadowInv, Core, PairOk
<1> QED
  BY <1>1, <1>2 DEF ShadowInv, Totals

\* Every pairing slot is given back once its two reports have come, a pair is committed once, with
\* the first report of its request, and the ring of evaluations of src/policy/shadow.c shows the
\* last commits in their order: for any number of request threads, slots and tasks.
THEOREM PairsAreSettled == ShadowSpec => []PairsSettle
<1>1. ShadowInit => ShadowInv
  BY InitShadow
<1>2. ShadowInv /\ [ShadowNext]_shadowVars => ShadowInv'
  <2> SUFFICES ASSUME ShadowInv, [ShadowNext]_shadowVars PROVE ShadowInv'
    OBVIOUS
  <2>1. CASE \E r \in ShadowReqs :
               shadow_engine_start_pairing(r) \/ shadow_engine_submit_task(r) \/ Answered(r) \/ Cleanup(r)
    BY <2>1, StartStep, SubmitStep, AnsweredStep, CleanupStep
  <2>2. CASE shadow_queue_pop \/ shadow_engine_record_shadow \/ shadow_engine_stop \/ shadow_engine_destroy
    BY <2>2, PopStep, ShadowedStep, StopStep, DestroyStep
  <2>3. CASE UNCHANGED shadowVars
    BY <2>3 DEF shadowVars, ShadowInv, Totals
  <2> QED
    BY <2>1, <2>2, <2>3 DEF ShadowNext
<1>3. ShadowInv => PairsSettle
  BY Settles
<1> QED
  BY <1>1, <1>2, <1>3, PTL DEF ShadowSpec

(***************************************************************************)
(* The tracer.                                                             *)
(*                                                                         *)
(* TraceAccounted is not inductive: the list of recent traces says nothing *)
(* of where next_idx is, and an empty trace in the middle of the ring      *)
(* would be dropped and counted.  The invariant adds that the cache is an  *)
(* array with its index in range, and that the empty trace is pushed last. *)
(***************************************************************************)
-----------------------------------------------------------------------------
\* The traces of a ring whose last item may be the empty one.
Waiting(q) == IF q = <<>> \/ q[Len(q)] # 0 THEN Len(q) ELSE Len(q) - 1

\* A ring with the empty trace, if there is one, at its end.
RingShape(q) == q \in Seq(Nat) /\ \A i \in 1 .. Len(q) : q[i] = 0 => i = Len(q)

\* The cache holds the last traces added, the newest before next_idx.
CacheOf(c, next, count, added) ==
    /\ c \in [0 .. RecentCap - 1 -> Nat] /\ next \in 0 .. RecentCap - 1 /\ added \in Seq(Nat)
    /\ count = IF Len(added) < RecentCap THEN Len(added) ELSE RecentCap
    /\ \A i \in 1 .. count : c[(next + RecentCap - i) % RecentCap] = added[Len(added) - i + 1]

TraceTotals ==
    /\ traced = [n |-> traced.n, added |-> traced.added, sent |-> traced.sent, unsent |-> traced.unsent,
                 configs |-> traced.configs]
    /\ traced.n \in Nat /\ traceDrops \in Nat

TraceInv ==
    /\ TraceTotals /\ RingShape(traceRing)
    /\ tracerOn = "on" => \A i \in 1 .. Len(traceRing) : traceRing[i] # 0
    /\ CacheOf(cache, cacheNext, cacheCount, traced.added)
    /\ traced.n = Len(traced.added) + Waiting(traceRing) + traceDrops

LEMMA RealCount ==
    ASSUME NEW q, RingShape(q)
    PROVE  Cardinality({i \in DOMAIN q : q[i] # 0}) = Waiting(q)
<1> DEFINE m == Len(q)
           real == {i \in DOMAIN q : q[i] # 0}
<1>1. m \in Nat /\ DOMAIN q = 1 .. m /\ \A i \in 1 .. m : q[i] = 0 => i = m
  BY LenProperties DEF RingShape
<1>2. q = <<>> <=> m = 0
  BY EmptySeq DEF RingShape
<1> HIDE DEF m
<1>3. \A j \in Nat : Cardinality(1 .. j) = j
  <2> TAKE j \in Nat
  <2>1. Cardinality(1 .. j) = IF 1 > j THEN 0 ELSE j - 1 + 1
    BY FS_Interval
  <2> QED
    BY <2>1
<1>4. CASE m = 0 \/ q[m] # 0
  <2>1. real = 1 .. m
    BY <1>1, <1>4
  <2>2. Waiting(q) = m
    BY <1>2, <1>4 DEF Waiting, m
  <2> QED
    BY <1>1, <1>3, <2>1, <2>2
<1>5. CASE m # 0 /\ q[m] = 0
  <2>0. m - 1 \in Nat
    BY <1>1, <1>5
  <2>1. real = 1 .. m - 1
    <3>1. ASSUME NEW i \in real PROVE i \in 1 .. m - 1
      <4>1. i \in 1 .. m /\ i # m
        BY <1>1, <1>5
      <4> QED
        BY <1>1, <4>1
    <3>2. ASSUME NEW i \in 1 .. m - 1 PROVE i \in real
      <4>1. i \in 1 .. m /\ i # m
        BY <1>1, <2>0
      <4> QED
        BY <1>1, <4>1
    <3> QED
      BY <3>1, <3>2
  <2>2. Waiting(q) = m - 1
    BY <1>2, <1>5 DEF Waiting, m
  <2> QED
    BY <1>3, <2>0, <2>1, <2>2
<1> QED
  BY <1>4, <1>5

LEMMA TraceHolds == TraceInv => TraceAccounted
<1> SUFFICES ASSUME TraceInv PROVE TraceAccounted
  OBVIOUS
<1> DEFINE k == Len(traced.added)
           real == {i \in DOMAIN traceRing : traceRing[i] # 0}
<1>1. Cardinality(real) = Waiting(traceRing)
  BY RealCount DEF TraceInv
<1>2. CacheOf(cache, cacheNext, cacheCount, traced.added)
  BY DEF TraceInv
<1>3. tracer_cache_list_recent = [i \in 1 .. (IF k < RecentCap THEN k ELSE RecentCap) |-> traced.added[k - i + 1]]
  BY <1>2 DEF CacheOf, tracer_cache_list_recent
<1>4. traced.n = k + Cardinality(real) + traceDrops
  BY <1>1 DEF TraceInv
<1> HIDE DEF k, real
<1> QED
  BY <1>3, <1>4 DEF TraceAccounted, k, real

LEMMA Back ==
    ASSUME NEW next \in 0 .. RecentCap - 1, NEW i \in 1 .. RecentCap
    PROVE  /\ (next + RecentCap - i) % RecentCap = IF i <= next THEN next - i ELSE next + RecentCap - i
           /\ (next + RecentCap - i) % RecentCap \in 0 .. RecentCap - 1
<1>1. RecentCap \in Nat \ {0}
  BY TraceAssumption
<1> QED
  BY <1>1

LEMMA CacheAdds ==
    ASSUME NEW c, NEW next, NEW count, NEW added, CacheOf(c, next, count, added), NEW t \in Nat
    PROVE  CacheOf([c EXCEPT ![next] = t], (next + 1) % RecentCap,
                   IF count < RecentCap THEN count + 1 ELSE count, Append(added, t))
<1> DEFINE R == RecentCap
           c2 == [c EXCEPT ![next] = t]
           next2 == (next + 1) % R
           count2 == IF count < R THEN count + 1 ELSE count
           added2 == Append(added, t)
           k == Len(added)
<1>1. R \in Nat \ {0}
  BY TraceAssumption
<1>2. /\ c \in [0 .. R - 1 -> Nat] /\ next \in 0 .. R - 1 /\ added \in Seq(Nat) /\ k \in Nat
      /\ count = IF k < R THEN k ELSE R
      /\ \A i \in 1 .. count : c[(next + R - i) % R] = added[k - i + 1]
  BY LenProperties DEF CacheOf
<1>3. next2 = IF next + 1 < R THEN next + 1 ELSE 0
  <2>1. CASE next + 1 < R
    <3>1. PICK j \in 1 .. R - 1 : j = next + 1
      BY <1>1, <1>2, <2>1
    <3>2. j % R = j
      BY <1>1
    <3> QED
      BY <2>1, <3>1, <3>2
  <2>2. CASE ~(next + 1 < R)
    <3>1. next + 1 = R
      BY <1>1, <1>2, <2>2
    <3>2. R % R = 0
      BY <1>1
    <3> QED
      BY <2>2, <3>1, <3>2
  <2> QED
    BY <2>1, <2>2
<1>4. /\ added2 \in Seq(Nat) /\ Len(added2) = k + 1 /\ added2[k + 1] = t
      /\ \A i \in 1 .. k : added2[i] = added[i]
  BY <1>2, AppendFacts
<1>5. c2 \in [0 .. R - 1 -> Nat] /\ c2[next] = t /\ \A j \in 0 .. R - 1 : j # next => c2[j] = c[j]
  BY <1>2
<1>6. \A i \in 1 .. R :
        /\ (next + R - i) % R = IF i <= next THEN next - i ELSE next + R - i
        /\ (next + R - i) % R \in 0 .. R - 1
  BY <1>2, Back
<1> HIDE DEF next2
<1>7. next2 \in 0 .. R - 1
  BY <1>1, <1>2, <1>3
<1>8. \A i \in 1 .. R : (next2 + R - i) % R = IF i <= next2 THEN next2 - i ELSE next2 + R - i
  BY <1>7, Back
<1> HIDE DEF added2, k, c2, R
<1>9. count2 = IF k + 1 < R THEN k + 1 ELSE R
  <2>1. CASE k < R
    BY <1>1, <1>2, <2>1
  <2>2. CASE ~(k < R)
    BY <1>1, <1>2, <2>2
  <2> QED
    BY <2>1, <2>2
<1>10. count \in Nat /\ count2 \in 1 .. R /\ count2 <= count + 1 /\ count <= k
  BY <1>1, <1>2
<1> HIDE DEF count2
<1>11. ASSUME NEW i \in 1 .. count2 PROVE c2[(next2 + R - i) % R] = added2[Len(added2) - i + 1]
  <2>1. i \in 1 .. R
    BY <1>1, <1>10
  <2>2. CASE i = 1
    <3>0. (next2 + R - 1) % R = IF 1 <= next2 THEN next2 - 1 ELSE next2 + R - 1
      BY <1>8, <2>1, <2>2
    <3>1. (next2 + R - i) % R = next
      <4>1. (IF 1 <= next2 THEN next2 - 1 ELSE next2 + R - 1) = next
        BY <1>1, <1>2, <1>3
      <4> QED
        BY <2>2, <3>0, <4>1
    <3>2. Len(added2) - i + 1 = k + 1
      BY <1>2, <1>4, <2>2
    <3> QED
      BY <1>4, <1>5, <3>1, <3>2
  <2>3. CASE i # 1
    <3>1. i - 1 \in 1 .. R /\ i - 1 \in 1 .. count /\ i - 1 < R /\ k - (i - 1) + 1 \in 1 .. k
      BY <1>1, <1>2, <1>10, <2>1, <2>3
    <3>2. PICK j \in 1 .. R : j = i - 1
      BY <3>1
    <3>3. /\ (next + R - j) % R = IF j <= next THEN next - j ELSE next + R - j
          /\ (next + R - j) % R \in 0 .. R - 1
      BY <1>6
    <3>4. (next2 + R - i) % R = IF i <= next2 THEN next2 - i ELSE next2 + R - i
      BY <1>8, <2>1
    <3>5. (IF i <= next2 THEN next2 - i ELSE next2 + R - i) = (IF j <= next THEN next - j ELSE next + R - j)
      BY <1>1, <1>2, <1>3, <3>1, <3>2
    <3>6. (IF j <= next THEN next - j ELSE next + R - j) # next
      BY <1>1, <1>2, <3>1, <3>2
    <3>7. c[(next + R - j) % R] = added[k - j + 1]
      BY <1>2, <3>1, <3>2
    <3>8. Len(added2) - i + 1 = k - j + 1 /\ k - j + 1 \in 1 .. k
      BY <1>2, <1>4, <3>1, <3>2
    <3>9. (next2 + R - i) % R = (next + R - j) % R /\ (next + R - j) % R # next
      BY <3>3, <3>4, <3>5, <3>6
    <3> QED
      BY <1>4, <1>5, <3>3, <3>7, <3>8, <3>9
  <2> QED
    BY <2>2, <2>3
<1>12. CacheOf(c2, next2, count2, added2)
  BY <1>4, <1>5, <1>7, <1>9, <1>11 DEF CacheOf, R
<1> QED
  BY <1>12 DEF c2, next2, count2, added2, R

\* What a push does to a ring of traces: a full one loses its oldest, which is no empty trace.
LEMMA TracePush ==
    ASSUME NEW t \in Nat, trace_ring_buffer_push(t), RingShape(traceRing), traceDrops \in Nat,
           \A i \in 1 .. Len(traceRing) : traceRing[i] # 0
    PROVE  /\ RingShape(traceRing') /\ traceDrops' \in Nat
           /\ t # 0 => \A i \in 1 .. Len(traceRing') : traceRing'[i] # 0
           /\ Waiting(traceRing') + traceDrops' = Waiting(traceRing) + traceDrops + (IF t = 0 THEN 0 ELSE 1)
<1> DEFINE q == traceRing
           p == IF Len(q) = TraceCap THEN Tail(q) ELSE q
<1>1. q \in Seq(Nat) /\ Len(q) \in Nat
  BY LenProperties DEF RingShape
<1>2. /\ p \in Seq(Nat) /\ Len(p) \in Nat /\ \A i \in 1 .. Len(p) : p[i] # 0
      /\ traceRing' = Append(p, t) /\ traceDrops' \in Nat
      /\ Len(p) + traceDrops' = Len(q) + traceDrops
  <2>1. CASE Len(q) = TraceCap
    <3>1. q # <<>>
      BY <2>1, TraceAssumption, EmptySeq
    <3>2. /\ Tail(q) \in Seq(Nat) /\ Len(Tail(q)) = Len(q) - 1 /\ Len(q) \in Nat \ {0}
          /\ \A i \in 1 .. Len(q) - 1 : Tail(q)[i] = q[i + 1]
      BY <1>1, <3>1, TailFacts
    <3>3. \A i \in 1 .. Len(q) - 1 : i + 1 \in 1 .. Len(q)
      BY <3>2
    <3>4. traceRing' = Append(Tail(q), t) /\ traceDrops' = traceDrops + 1 /\ p = Tail(q)
      BY <2>1 DEF trace_ring_buffer_push
    <3> HIDE DEF p
    <3> QED
      BY <3>2, <3>3, <3>4
  <2>2. CASE Len(q) # TraceCap
    BY <1>1, <2>2 DEF trace_ring_buffer_push
  <2> QED
    BY <2>1, <2>2
<1> HIDE DEF p
<1>3. /\ traceRing' \in Seq(Nat) /\ Len(traceRing') = Len(p) + 1 /\ traceRing'[Len(p) + 1] = t
      /\ \A i \in 1 .. Len(p) : traceRing'[i] = p[i]
  BY <1>2, AppendFacts
<1>4. \A i \in 1 .. Len(traceRing') : i \in 1 .. Len(p) \/ i = Len(p) + 1
  BY <1>2, <1>3
<1>5. RingShape(traceRing') /\ (t # 0 => \A i \in 1 .. Len(traceRing') : traceRing'[i] # 0)
  BY <1>2, <1>3, <1>4 DEF RingShape
<1>6. Waiting(q) = Len(q)
  <2>1. CASE q = <<>>
    BY <2>1 DEF Waiting
  <2>2. CASE q # <<>>
    <3>1. Len(q) \in 1 .. Len(q)
      BY <1>1, <2>2, EmptySeq
    <3> QED
      BY <2>2, <3>1 DEF Waiting
  <2> QED
    BY <2>1, <2>2
<1>7. Waiting(traceRing') = Len(p) + (IF t = 0 THEN 0 ELSE 1)
  <2>1. traceRing' # <<>>
    BY <1>2, <1>3, EmptySeq
  <2>2. traceRing'[Len(traceRing')] = t
    BY <1>3
  <2> QED
    BY <1>2, <1>3, <2>1, <2>2 DEF Waiting
<1> QED
  BY <1>1, <1>2, <1>5, <1>6, <1>7

\* What a pop does: the oldest trace leaves the ring for the cache, the empty one for nothing.
LEMMA TracePop ==
    ASSUME TraceInv, traceRing # <<>>, traceRing' = Tail(traceRing), tracer_cache_add(Head(traceRing)),
           traced' = [traced EXCEPT !.added = IF Head(traceRing) = 0 THEN @ ELSE Append(@, Head(traceRing))],
           traceDrops' = traceDrops, tracerOn' = "on" => tracerOn = "on"
    PROVE  TraceInv'
<1> DEFINE q == traceRing
           t == Head(q)
           m == Len(q)
           add == IF t = 0 THEN traced.added ELSE Append(traced.added, t)
<1>1. /\ q \in Seq(Nat) /\ TraceTotals /\ CacheOf(cache, cacheNext, cacheCount, traced.added)
      /\ \A i \in 1 .. m : q[i] = 0 => i = m
      /\ tracerOn = "on" => \A i \in 1 .. m : q[i] # 0
  BY DEF TraceInv, RingShape
<1>2. /\ traceRing' \in Seq(Nat) /\ m \in Nat \ {0} /\ Len(traceRing') = m - 1
      /\ \A i \in 1 .. m - 1 : traceRing'[i] = q[i + 1]
      /\ t = q[1] /\ t \in Nat
  BY <1>1, TailFacts
<1>3. traced' = [traced EXCEPT !.added = add]
  OBVIOUS
<1> HIDE DEF t, m, add
<1>4. traced' = [n |-> traced.n, added |-> add, sent |-> traced.sent, unsent |-> traced.unsent, configs |-> traced.configs]
  BY <1>1, <1>3 DEF TraceTotals
<1>5. traced'.n = traced.n /\ traced'.added = add /\ TraceTotals'
  <2>1. traced'.n = traced.n /\ traced'.added = add /\ traced'.sent = traced.sent /\ traced'.unsent = traced.unsent
        /\ traced'.configs = traced.configs
    BY <1>4
  <2> QED
    BY <1>1, <1>4, <2>1, Zenon DEF TraceTotals
<1>6. \A i \in 1 .. m - 1 : i + 1 \in 1 .. m /\ (i + 1 = m <=> i = m - 1)
  BY <1>2
<1>7. RingShape(traceRing')
  BY <1>1, <1>2, <1>6 DEF RingShape
<1>8. tracerOn' = "on" => \A i \in 1 .. Len(traceRing') : traceRing'[i] # 0
  BY <1>1, <1>2, <1>6
<1>9. traced.added \in Seq(Nat) /\ Len(traced.added) \in Nat
  BY <1>1, LenProperties DEF CacheOf
<1>10. CacheOf(cache', cacheNext', cacheCount', add) /\ Len(add) = Len(traced.added) + (IF t = 0 THEN 0 ELSE 1)
  <2>1. CASE t = 0
    <3>1. UNCHANGED recent
      BY <2>1 DEF tracer_cache_add, t
    <3> QED
      BY <1>1, <1>9, <2>1, <3>1 DEF recent, add
  <2>2. CASE t # 0
    <3>1. /\ cache' = [cache EXCEPT ![cacheNext] = t] /\ cacheNext' = (cacheNext + 1) % RecentCap
          /\ cacheCount' = IF cacheCount < RecentCap THEN cacheCount + 1 ELSE cacheCount
      BY <2>2 DEF tracer_cache_add, t
    <3>2. add = Append(traced.added, t) /\ Len(add) = Len(traced.added) + 1
      BY <1>2, <1>9, <2>2, AppendFacts DEF add
    <3>3. CacheOf(cache', cacheNext', cacheCount', add)
      BY <1>1, <1>2, <3>1, <3>2, CacheAdds
    <3> QED
      BY <2>2, <3>2, <3>3
  <2> QED
    BY <2>1, <2>2
<1>11. Waiting(q) = Waiting(traceRing') + (IF t = 0 THEN 0 ELSE 1) /\ Waiting(traceRing') \in Nat
  <2>0. traceRing' = <<>> <=> Len(traceRing') = 0
    BY <1>2, EmptySeq
  <2>1. q # <<>> /\ (traceRing' = <<>> <=> m = 1)
    BY <1>2, <2>0
  <2>2. CASE m = 1
    <3>1. Waiting(traceRing') = 0
      BY <1>2, <2>1, <2>2 DEF Waiting
    <3>2. Waiting(q) = IF t = 0 THEN 0 ELSE 1
      BY <1>2, <2>1, <2>2 DEF Waiting, m
    <3> QED
      BY <3>1, <3>2
  <2>3. CASE m # 1
    <3>1. m - 1 \in 1 .. m - 1 /\ (m - 1) + 1 = m /\ 1 \in 1 .. m
      BY <1>2, <2>3
    <3>2. t # 0 /\ traceRing'[m - 1] = q[m]
      BY <1>1, <1>2, <2>3, <3>1
    <3>3. Waiting(q) = IF q[m] # 0 THEN m ELSE m - 1
      BY <2>1 DEF Waiting, m
    <3>4. Waiting(traceRing') = IF q[m] # 0 THEN m - 1 ELSE m - 1 - 1
      BY <1>2, <2>1, <2>3, <3>2 DEF Waiting
    <3> QED
      BY <1>2, <2>3, <3>2, <3>3, <3>4
  <2> QED
    BY <2>2, <2>3
<1>12. traced.n = Len(traced.added) + Waiting(q) + traceDrops /\ traceDrops \in Nat
  BY DEF TraceInv, TraceTotals
<1>13. traced.n = Len(add) + Waiting(traceRing') + traceDrops
  <2>1. PICK a \in Nat, w \in Nat : a = Len(traced.added) /\ w = Waiting(traceRing')
    BY <1>9, <1>11
  <2>2. PICK d \in Nat : d = IF t = 0 THEN 0 ELSE 1
    OBVIOUS
  <2>3. traced.n = a + (w + d) + traceDrops /\ Len(add) = a + d
    BY <1>10, <1>11, <1>12, <2>1, <2>2
  <2>4. a + (w + d) + traceDrops = (a + d) + w + traceDrops
    BY <1>12
  <2> QED
    BY <2>1, <2>3, <2>4
<1> QED
  BY <1>5, <1>7, <1>8, <1>10, <1>13 DEF TraceInv

LEMMA TraceInitInv == TraceInit => TraceInv
<1> SUFFICES ASSUME TraceInit PROVE TraceInv
  OBVIOUS
<1>1. /\ traceRing = <<>> /\ traceDrops = 0 /\ cache = [i \in 0 .. RecentCap - 1 |-> 0] /\ cacheNext = 0
      /\ cacheCount = 0 /\ traced = [n |-> 0, added |-> <<>>, sent |-> 0, unsent |-> 0, configs |-> 0]
  BY DEF TraceInit
<1>2. traced.n = 0 /\ traced.added = <<>> /\ TraceTotals
  BY <1>1 DEF TraceTotals
<1>3. traceRing \in Seq(Nat) /\ Len(traceRing) = 0 /\ traced.added \in Seq(Nat) /\ Len(traced.added) = 0
  BY <1>1, <1>2, EmptySeq
<1>4. CacheOf(cache, cacheNext, cacheCount, traced.added)
  BY <1>1, <1>3, TraceAssumption DEF CacheOf
<1>5. Waiting(traceRing) = 0 /\ RingShape(traceRing)
  BY <1>1, <1>3 DEF Waiting, RingShape
<1> QED
  BY <1>1, <1>2, <1>3, <1>4, <1>5 DEF TraceInv

\* A step that leaves the ring, the cache and what was counted alone.
LEMMA TraceKeeps ==
    ASSUME TraceInv, UNCHANGED <<traceRing, traceDrops, recent>>, TraceTotals',
           traced'.n = traced.n, traced'.added = traced.added, tracerOn' = "on" => tracerOn = "on"
    PROVE  TraceInv'
  BY DEF TraceInv, recent

LEMMA TraceNextInv == TraceInv /\ [TraceNext]_traceVars => TraceInv'
<1> SUFFICES ASSUME TraceInv, [TraceNext]_traceVars PROVE TraceInv'
  OBVIOUS
<1>1. /\ TraceTotals /\ RingShape(traceRing) /\ traceDrops \in Nat /\ traced.n \in Nat
      /\ CacheOf(cache, cacheNext, cacheCount, traced.added)
      /\ traced.n = Len(traced.added) + Waiting(traceRing) + traceDrops
      /\ Len(traced.added) \in Nat /\ Waiting(traceRing) \in Int
  <2>1. TraceTotals /\ RingShape(traceRing) /\ CacheOf(cache, cacheNext, cacheCount, traced.added)
        /\ traced.n = Len(traced.added) + Waiting(traceRing) + traceDrops
    BY DEF TraceInv
  <2>2. Len(traced.added) \in Nat /\ Len(traceRing) \in Nat
    BY <2>1, LenProperties DEF CacheOf, RingShape
  <2> QED
    BY <2>1, <2>2 DEF TraceTotals, Waiting
<1>2. traced = [n |-> traced.n, added |-> traced.added, sent |-> traced.sent, unsent |-> traced.unsent,
                configs |-> traced.configs]
  BY <1>1 DEF TraceTotals
<1>3. CASE EndTrace
  <2>1. /\ tracerOn = "on" /\ trace_ring_buffer_push(traced.n + 1) /\ traced' = [traced EXCEPT !.n = traced.n + 1]
        /\ UNCHANGED <<recent, tracerOn>>
    BY <1>3 DEF EndTrace
  <2>2. /\ RingShape(traceRing') /\ traceDrops' \in Nat
        /\ \A i \in 1 .. Len(traceRing') : traceRing'[i] # 0
        /\ Waiting(traceRing') + traceDrops' = Waiting(traceRing) + traceDrops + 1
    <3>1. PICK t \in Nat : t = traced.n + 1 /\ t # 0
      BY <1>1
    <3>2. \A i \in 1 .. Len(traceRing) : traceRing[i] # 0
      BY <2>1 DEF TraceInv
    <3> QED
      BY <1>1, <2>1, <3>1, <3>2, TracePush
  <2>3. traced' = [n |-> traced.n + 1, added |-> traced.added, sent |-> traced.sent, unsent |-> traced.unsent,
                   configs |-> traced.configs]
    BY <1>2, <2>1
  <2>4. traced'.n = traced.n + 1 /\ traced'.added = traced.added /\ TraceTotals'
    BY <1>1, <2>2, <2>3 DEF TraceTotals
  <2>5. CacheOf(cache', cacheNext', cacheCount', traced'.added)
    BY <1>1, <2>1, <2>4 DEF recent
  <2>6. Waiting(traceRing') \in Int
    <3>1. Len(traceRing') \in Nat
      BY <2>2, LenProperties DEF RingShape
    <3> QED
      BY <3>1 DEF Waiting
  <2>7. traced'.n = Len(traced'.added) + Waiting(traceRing') + traceDrops'
    <3>1. PICK a \in Nat, w \in Int, v \in Int : a = Len(traced.added) /\ w = Waiting(traceRing) /\ v = Waiting(traceRing')
      BY <1>1, <2>6
    <3>2. traced.n = a + w + traceDrops /\ v + traceDrops' = w + traceDrops + 1
      BY <1>1, <2>2, <3>1
    <3>3. PICK n \in Nat, d \in Nat, e \in Nat : n = traced.n /\ d = traceDrops /\ e = traceDrops'
      BY <1>1, <2>2
    <3>4. n = a + w + d /\ v + e = w + d + 1
      BY <3>2, <3>3
    <3>5. n + 1 = a + v + e
      BY <3>4
    <3> QED
      BY <2>4, <3>1, <3>3, <3>5
  <2> QED
    BY <2>2, <2>4, <2>5, <2>7 DEF TraceInv
<1>4. CASE tracer_manager_stop
  <2>1. /\ tracerOn = "on" /\ trace_ring_buffer_push(0) /\ UNCHANGED <<recent, traced>> /\ tracerOn' # "on"
    BY <1>4 DEF tracer_manager_stop
  <2>2. /\ RingShape(traceRing') /\ traceDrops' \in Nat
        /\ Waiting(traceRing') + traceDrops' = Waiting(traceRing) + traceDrops
    <3>1. PICK t \in Nat : t = 0
      OBVIOUS
    <3>2. \A i \in 1 .. Len(traceRing) : traceRing[i] # 0
      BY <2>1 DEF TraceInv
    <3>3. /\ RingShape(traceRing') /\ traceDrops' \in Nat
          /\ Waiting(traceRing') + traceDrops' = Waiting(traceRing) + traceDrops + 0
      BY <1>1, <2>1, <3>1, <3>2, TracePush
    <3> QED
      BY <1>1, <3>3
  <2>3. Waiting(traceRing') \in Int
    <3>1. Len(traceRing') \in Nat
      BY <2>2, LenProperties DEF RingShape
    <3> QED
      BY <3>1 DEF Waiting
  <2>4. traced.n = Len(traced.added) + Waiting(traceRing') + traceDrops'
    <3>1. PICK a \in Nat, w \in Int, v \in Int : a = Len(traced.added) /\ w = Waiting(traceRing) /\ v = Waiting(traceRing')
      BY <1>1, <2>3
    <3>2. traced.n = a + w + traceDrops /\ v + traceDrops' = w + traceDrops
      BY <1>1, <2>2, <3>1
    <3>3. PICK n \in Nat, d \in Nat, e \in Nat : n = traced.n /\ d = traceDrops /\ e = traceDrops'
      BY <1>1, <2>2
    <3>4. n = a + w + d /\ v + e = w + d
      BY <3>2, <3>3
    <3>5. n = a + v + e
      BY <3>4
    <3> QED
      BY <3>1, <3>3, <3>5
  <2> QED
    BY <1>1, <2>1, <2>2, <2>4 DEF TraceInv, TraceTotals, recent
<1>5. CASE trace_ring_buffer_pop
  <2>1. /\ traceRing # <<>> /\ traceRing' = Tail(traceRing) /\ tracer_cache_add(Head(traceRing))
        /\ traced' = [traced EXCEPT !.added = IF Head(traceRing) = 0 THEN @ ELSE Append(@, Head(traceRing))]
        /\ traceDrops' = traceDrops /\ (tracerOn' = "on" => tracerOn = "on")
    BY <1>5 DEF trace_ring_buffer_pop
  <2> QED
    BY <2>1, TracePop
<1>6. CASE DrainTraces
  <2>1. /\ traceRing # <<>> /\ traceRing' = Tail(traceRing) /\ tracer_cache_add(Head(traceRing))
        /\ traced' = [traced EXCEPT !.added = IF Head(traceRing) = 0 THEN @ ELSE Append(@, Head(traceRing))]
        /\ traceDrops' = traceDrops /\ tracerOn' = tracerOn
    BY <1>6 DEF DrainTraces
  <2> QED
    BY <2>1, TracePop
<1>7. CASE trace_exporter_worker
  <2>1. /\ UNCHANGED <<traceRing, traceDrops, recent, tracerOn>>
        /\ \/ traced' = [traced EXCEPT !.sent = traced.sent + Len(batch)]
           \/ traced' = [traced EXCEPT !.unsent = traced.unsent + Len(batch)]
    BY <1>7 DEF trace_exporter_worker
  <2>2. PICK s, u : traced' = [n |-> traced.n, added |-> traced.added, sent |-> s, unsent |-> u, configs |-> traced.configs]
    BY <1>2, <2>1
  <2>3. traced'.n = traced.n /\ traced'.added = traced.added /\ TraceTotals'
    BY <1>1, <2>1, <2>2 DEF TraceTotals
  <2> QED
    BY <2>1, <2>3, TraceKeeps
<1>8. CASE tracer_manager_update_config
  <2>1. /\ UNCHANGED <<traceRing, traceDrops, recent, tracerOn>>
        /\ traced' = [traced EXCEPT !.configs = traced.configs + 1]
    BY <1>8 DEF tracer_manager_update_config
  <2>2. traced' = [n |-> traced.n, added |-> traced.added, sent |-> traced.sent, unsent |-> traced.unsent,
                   configs |-> traced.configs + 1]
    BY <1>2, <2>1
  <2>3. traced'.n = traced.n /\ traced'.added = traced.added /\ TraceTotals'
    BY <1>1, <2>1, <2>2 DEF TraceTotals
  <2> QED
    BY <2>1, <2>3, TraceKeeps
<1>9. CASE TracerJoined
  <2>1. UNCHANGED <<traceRing, traceDrops, recent, traced>> /\ tracerOn' # "on"
    BY <1>9 DEF TracerJoined
  <2> QED
    BY <1>1, <2>1, TraceKeeps DEF TraceTotals
<1>10. CASE UNCHANGED traceVars
  <2>1. UNCHANGED <<traceRing, traceDrops, recent, traced, tracerOn>>
    BY <1>10 DEF traceVars, recent
  <2> QED
    BY <1>1, <2>1, TraceKeeps DEF TraceTotals
<1> QED
  BY <1>3, <1>4, <1>5, <1>6, <1>7, <1>8, <1>9, <1>10 DEF TraceNext

\* Every trace pushed is in the ring, in the list of traces that reached the cache, or counted as
\* dropped, also across a stop, and tracer_cache_list_recent returns the last ones that reached it,
\* newest first, however often next_idx has wrapped: for any capacities of the two rings of
\* src/observe/tracer.c.
THEOREM TracesAreAccounted == TraceSpec => []TraceAccounted
  BY TraceInitInv, TraceNextInv, TraceHolds, PTL DEF TraceSpec

(***************************************************************************)
(* The hedged call: for any number of calls at the same time, whatever     *)
(* fails and however the threads interleave, the control block is freed    *)
(* once and after its last use, the response has one owner, a 200 is never *)
(* hidden by a failed primary, and the loser is told to stop.              *)
(*                                                                         *)
(* All of it is about one control block, so the inductive invariant is a   *)
(* predicate on a single call, CallInv, which every step keeps for every   *)
(* call.  At its heart is the reference count: it is the number of threads *)
(* that have still to let go, and the block is there exactly as long as    *)
(* one of them has, or one is about to free it.                            *)
(***************************************************************************)

MainSteps == {"idle", "delay", "await", "release", "free", "returned"}
WorkSteps == {"none", "run", "abort", "release", "free", "ended"}

CallType ==
    [main : MainSteps,
     hedge : BOOLEAN, alive : BOOLEAN, ref : 0 .. 3, win : -1 .. 1,
     second : BOOLEAN, got : -1 .. 1,
     work : [Both -> WorkSteps],
     done : [Both -> BOOLEAN], cancel : [Both -> BOOLEAN],
     out : [Both -> Outcomes \cup {"none"}],
     buf : [Both -> {"none", "ctrl", "caller", "freed"}]]

MainRef(q) == IF q.main \in {"delay", "await", "release"} THEN 1 ELSE 0
WorkRef(q, i) == IF q.work[i] \in {"run", "abort", "release"} THEN 1 ELSE 0

\* ref_count counts the threads that have not called ctrl_release; a thread that
\* found it 0 is the only one left, and the block is there until that one is done.
RefsCount(q) ==
    /\ q.ref = MainRef(q) + WorkRef(q, 0) + WorkRef(q, 1)
    /\ q.main = "free" => q.ref = 0 /\ \A i \in Both : q.work[i] # "free"
    /\ \A i \in Both : q.work[i] = "free" => q.ref = 0
    /\ ~(q.work[0] = "free" /\ q.work[1] = "free")
    /\ q.alive <=> q.ref > 0 \/ q.main = "free" \/ \E i \in Both : q.work[i] = "free"

\* How far the request thread is, and what its workers have done by then.
Progress(q) ==
    /\ q.main = "idle" => q = Idle
    /\ q.main = "delay" => q.work[1] = "none" /\ ~q.second
    /\ q.main # "idle" => q.work[0] # "none"
    /\ q.second <=> q.work[1] # "none"
    /\ q.got = -1 <=> q.main \in {"idle", "delay", "await"}
    /\ \A i \in Both : /\ q.done[i] <=> q.work[i] \in {"release", "free", "ended"}
                       /\ q.out[i] = "none" <=> ~q.done[i]

\* The first 200 wins and has the other worker cancelled; what is harvested is the
\* winner's, or there will be none.
Winner(q) ==
    /\ q.win # -1 => q.out[q.win] = "200" /\ q.cancel[1 - q.win]
    /\ \A i \in Both : q.out[i] = "200" => q.win # -1
    /\ q.got # -1 => /\ q.done[q.got]
                     /\ \/ q.win = q.got
                        \/ q.win = -1 /\ \A i \in Both : q.work[i] \notin {"run", "abort"}

\* Who owns the buffers.
Owners(q) ==
    \A i \in Both :
        /\ q.buf[i] = "caller" => q.got = i
        /\ q.got = i => q.buf[i] \in {"caller", "none"}
        /\ q.buf[i] = "freed" => ~q.alive
        /\ q.buf[i] = "ctrl" => q.alive

CallInv(q) == q \in CallType /\ RefsCount(q) /\ Progress(q) /\ Winner(q) /\ Owners(q)

HedgeInv == TypeOK /\ \A c \in Calls : CallInv(race[c])

-----------------------------------------------------------------------------
(* Every action is a step of one call.                                       *)

LEMMA OneCall ==
    ASSUME HedgeInv, NEW c \in Calls, NEW q, CallInv(q),
           race' = [race EXCEPT ![c] = q],
           hedged' \in Nat, total' \in Nat, begun' \in 0 .. MaxCalls
    PROVE  HedgeInv'
<1>1. race' \in [Calls -> CallType]
  BY DEF HedgeInv, TypeOK, CallInv, CallType, MainSteps, WorkSteps
<1>2. \A d \in Calls : CallInv(race'[d])
  BY DEF HedgeInv, TypeOK
<1> QED
  BY <1>1, <1>2 DEF HedgeInv, TypeOK, CallType, MainSteps, WorkSteps

LEMMA IdleInv == CallInv(Idle)
  BY DEF CallInv, CallType, MainSteps, WorkSteps, Idle, Both, RefsCount, MainRef, WorkRef,
         Progress, Winner, Owners, Outcomes

\* The types of the fields that the threads' steps change.
LEMMA Retyped ==
    ASSUME NEW q \in CallType, NEW m \in MainSteps, NEW w \in [Both -> WorkSteps], NEW n \in 0 .. 3
    PROVE  [q EXCEPT !.main = m, !.work = w, !.ref = n] \in CallType
  BY DEF CallType

LEMMA RetypedBegin ==
    ASSUME NEW q \in CallType, NEW m \in MainSteps, NEW h \in BOOLEAN, NEW a \in BOOLEAN, NEW n \in 0 .. 3,
           NEW w \in [Both -> WorkSteps]
    PROVE  [q EXCEPT !.main = m, !.hedge = h, !.alive = a, !.ref = n, !.work = w] \in CallType
  BY DEF CallType

LEMMA BeginCallInv ==
    ASSUME HedgeInv, NEW c \in Calls, NEW created \in BOOLEAN, BeginCall(c, created)
    PROVE  HedgeInv'
<1> DEFINE q == race[c]
           hedge == Admitted(hedged, total)
           work == [q.work EXCEPT ![0] = "run"]
           p == IF created THEN [q EXCEPT !.main = "delay", !.hedge = hedge, !.alive = TRUE, !.ref = 2, !.work = work]
                ELSE q
<1>1. CallInv(q) /\ q = Idle
  <2>1. CallInv(q) /\ q.main = "idle"
    BY DEF HedgeInv, BeginCall
  <2> QED
    BY <2>1 DEF CallInv, Progress
<1>2. race' = [race EXCEPT ![c] = p]
  <2>1. CASE created
    BY <2>1 DEF HedgeInv, TypeOK, BeginCall
  <2>2. CASE ~created
    BY <2>2 DEF HedgeInv, TypeOK, BeginCall
  <2> QED
    BY <2>1, <2>2
<1>3. p \in CallType
  <2>1. hedge \in BOOLEAN
    BY DEF Admitted
  <2>2. work \in [Both -> WorkSteps]
    BY <1>1 DEF CallInv, CallType, WorkSteps
  <2>3. CASE created
    <3>1. q \in CallType
      BY <1>1 DEF CallInv
    <3> HIDE DEF hedge, work, q
    <3> QED
      <4>1. "delay" \in MainSteps /\ TRUE \in BOOLEAN /\ 2 \in 0 .. 3
        BY DEF MainSteps
      <4>2. [q EXCEPT !.main = "delay", !.hedge = hedge, !.alive = TRUE, !.ref = 2, !.work = work] \in CallType
        BY <2>1, <2>2, <3>1, <4>1, RetypedBegin, Zenon
      <4> QED
        BY <2>3, <4>2
  <2>4. CASE ~created
    BY <1>1, <2>4 DEF CallInv
  <2> QED
    BY <2>3, <2>4
<1>4. RefsCount(p)
  BY <1>1 DEF Idle, CallInv, CallType, MainSteps, WorkSteps, Both, RefsCount, MainRef, WorkRef, Progress
<1>5. Progress(p)
  BY <1>1 DEF Idle, CallInv, CallType, Both, Progress
<1>6. Winner(p)
  BY <1>1 DEF Idle, CallInv, CallType, Both, Progress, Winner
<1>7. Owners(p)
  BY <1>1 DEF Idle, CallInv, CallType, Both, Progress, Owners, RefsCount, MainRef, WorkRef
<1>8. hedged' \in Nat /\ total' \in Nat /\ begun' \in 0 .. MaxCalls
  BY HedgeAssumption DEF BeginCall, HedgeInv, TypeOK
<1> QED
  BY <1>2, <1>3, <1>4, <1>5, <1>6, <1>7, <1>8, OneCall DEF CallInv

LEMMA DispatchInv ==
    ASSUME HedgeInv, NEW c \in Calls, NEW made, Dispatch(c, made)
    PROVE  HedgeInv'
<1> DEFINE q == race[c]
           started == q.win = -1 /\ q.hedge /\ made = "thread"
           p == IF started THEN [q EXCEPT !.main = "await", !.second = TRUE, !.ref = q.ref + 1,
                                          !.work = [q.work EXCEPT ![1] = "run"]]
                ELSE [q EXCEPT !.main = "await"]
<1>1. CallInv(q) /\ q.main = "delay"
  BY DEF HedgeInv, Dispatch
<1>2. race' = [race EXCEPT ![c] = p]
  BY DEF HedgeInv, TypeOK, Dispatch
<1>3. p \in CallType
  <2>1. q.ref + 1 \in 0 .. 3
    BY <1>1 DEF CallInv, CallType, RefsCount, MainRef, WorkRef, Progress, Both
  <2>2. [q.work EXCEPT ![1] = "run"] \in [Both -> WorkSteps]
    BY <1>1 DEF CallInv, CallType, WorkSteps
  <2>3. [q EXCEPT !.main = "await", !.work = [q.work EXCEPT ![1] = "run"], !.ref = q.ref + 1] \in CallType
    BY <1>1, <2>1, <2>2, Retyped DEF CallInv, MainSteps
  <2> QED
    BY <1>1, <2>3 DEF CallInv, CallType, MainSteps
<1>4. RefsCount(p)
  BY <1>1 DEF CallInv, CallType, MainSteps, WorkSteps, Both, RefsCount, MainRef, WorkRef, Progress
<1>5. Progress(p)
  BY <1>1 DEF CallInv, CallType, Both, Progress
<1>6. Winner(p)
  BY <1>1 DEF CallInv, CallType, Both, Progress, Winner
<1>7. Owners(p)
  BY <1>1 DEF CallInv, CallType, Both, Progress, Owners, RefsCount, MainRef, WorkRef
<1>8. hedged' \in Nat /\ total' \in Nat /\ begun' \in 0 .. MaxCalls
  BY DEF Dispatch, HedgeInv, TypeOK
<1> QED
  BY <1>2, <1>3, <1>4, <1>5, <1>6, <1>7, <1>8, OneCall DEF CallInv

LEMMA HarvestInv ==
    ASSUME HedgeInv, NEW c \in Calls, Harvest(c)
    PROVE  HedgeInv'
<1> DEFINE q == race[c]
           got == Chosen(q)
           buf == [q.buf EXCEPT ![got] = IF q.buf[got] = "ctrl" THEN "caller" ELSE q.buf[got]]
           cancel == [i \in Both |-> q.cancel[i] \/ (q.win = 1 - i /\ (i = 1 => q.second))]
           p == [q EXCEPT !.main = "release", !.got = got, !.buf = buf, !.cancel = cancel]
<1>1. CallInv(q) /\ q.main = "await" /\ (q.win # -1 \/ (q.done[0] /\ (q.second => q.done[1])))
  BY DEF HedgeInv, Harvest
<1>2. race' = [race EXCEPT ![c] = p]
  BY DEF Harvest
<1>g. /\ got \in Both /\ q.done[got]
      /\ got = q.win \/ (q.win = -1 /\ \A i \in Both : q.work[i] \notin {"run", "abort"})
  <2>1. CASE q.win = -1
    BY <1>1, <2>1 DEF CallInv, CallType, WorkSteps, Both, Progress, Chosen
  <2>2. CASE q.win \in Both
    <3>1. got = q.win
      BY <2>2 DEF Both, Chosen
    <3> QED
      BY <1>1, <2>2, <3>1 DEF CallInv, CallType, Both, Progress, Winner
  <2> QED
    BY <1>1, <2>1, <2>2 DEF CallInv, CallType, Both
<1> HIDE DEF got
<1>t. /\ got \in -1 .. 1
      /\ buf \in [Both -> {"none", "ctrl", "caller", "freed"}]
      /\ cancel \in [Both -> BOOLEAN]
  BY <1>1, <1>g DEF CallInv, CallType, Both
<1>f. /\ buf[got] \in {"caller", "none"} /\ (\A i \in Both : i # got => buf[i] = q.buf[i])
      /\ \A i \in Both : q.cancel[i] => cancel[i]
  <2>1. q.buf[got] \in {"ctrl", "none"}
    BY <1>1, <1>g DEF CallInv, CallType, Both, Progress, Owners, RefsCount, MainRef, WorkRef
  <2> QED
    BY <1>1, <1>g, <2>1 DEF CallInv, CallType
<1> HIDE DEF buf, cancel
<1>3. p \in CallType
  BY <1>1, <1>t DEF CallInv, CallType, MainSteps
<1>4. RefsCount(p)
  BY <1>1 DEF CallInv, CallType, Both, RefsCount, MainRef, WorkRef
<1>5. Progress(p)
  BY <1>1, <1>g DEF CallInv, CallType, Both, Progress
<1>6. Winner(p)
  BY <1>1, <1>g, <1>f DEF CallInv, CallType, Both, Winner
<1>7. Owners(p)
  BY <1>1, <1>g, <1>f DEF CallInv, CallType, Both, Progress, Owners
<1>8. hedged' \in Nat /\ total' \in Nat /\ begun' \in 0 .. MaxCalls
  BY DEF Harvest, HedgeInv, TypeOK
<1> QED
  BY <1>2, <1>3, <1>4, <1>5, <1>6, <1>7, <1>8, OneCall DEF CallInv

LEMMA MainReleaseInv ==
    ASSUME HedgeInv, NEW c \in Calls, MainRelease(c)
    PROVE  HedgeInv'
<1> DEFINE q == race[c]
           p == [q EXCEPT !.ref = q.ref - 1, !.main = IF q.ref - 1 <= 0 THEN "free" ELSE "returned"]
<1>1. CallInv(q) /\ q.main = "release"
  BY DEF HedgeInv, MainRelease
<1>2. race' = [race EXCEPT ![c] = p]
  BY DEF HedgeInv, TypeOK, MainRelease
<1>3. p \in CallType
  <2>1. q.ref - 1 \in 0 .. 3
    BY <1>1 DEF CallInv, CallType, RefsCount, MainRef, WorkRef, Both
  <2> QED
    BY <1>1, <2>1 DEF CallInv, CallType, MainSteps
<1>4. RefsCount(p)
  BY <1>1 DEF CallInv, CallType, MainSteps, WorkSteps, Both, RefsCount, MainRef, WorkRef, Progress
<1>5. Progress(p)
  BY <1>1 DEF CallInv, CallType, Both, Progress
<1>6. Winner(p)
  BY <1>1 DEF CallInv, CallType, Both, Progress, Winner
<1>7. Owners(p)
  BY <1>1 DEF CallInv, CallType, Both, Progress, Owners, RefsCount, MainRef, WorkRef
<1>8. hedged' \in Nat /\ total' \in Nat /\ begun' \in 0 .. MaxCalls
  BY DEF MainRelease, HedgeInv, TypeOK
<1> QED
  BY <1>2, <1>3, <1>4, <1>5, <1>6, <1>7, <1>8, OneCall DEF CallInv

LEMMA MainFreeInv ==
    ASSUME HedgeInv, NEW c \in Calls, MainFree(c)
    PROVE  HedgeInv'
<1> DEFINE q == race[c]
           p == [q EXCEPT !.alive = FALSE, !.main = "returned",
                          !.buf = [i \in Both |-> IF q.buf[i] = "ctrl" THEN "freed" ELSE q.buf[i]]]
<1>1. CallInv(q) /\ q.main = "free"
  BY DEF HedgeInv, MainFree, Freed
<1>2. race' = [race EXCEPT ![c] = p]
  BY DEF HedgeInv, TypeOK, MainFree, Freed
<1>3. p \in CallType
  BY <1>1 DEF CallInv, CallType, MainSteps, Both
<1>4. RefsCount(p)
  BY <1>1 DEF CallInv, CallType, MainSteps, WorkSteps, Both, RefsCount, MainRef, WorkRef, Progress
<1>5. Progress(p)
  BY <1>1 DEF CallInv, CallType, Both, Progress
<1>6. Winner(p)
  BY <1>1 DEF CallInv, CallType, Both, Progress, Winner
<1>7. Owners(p)
  BY <1>1 DEF CallInv, CallType, Both, Progress, Owners, RefsCount, MainRef, WorkRef
<1>8. hedged' \in Nat /\ total' \in Nat /\ begun' \in 0 .. MaxCalls
  BY DEF MainFree, HedgeInv, TypeOK
<1> QED
  BY <1>2, <1>3, <1>4, <1>5, <1>6, <1>7, <1>8, OneCall DEF CallInv

LEMMA AgainInv ==
    ASSUME HedgeInv, NEW c \in Calls, Again(c)
    PROVE  HedgeInv'
<1>1. race' = [race EXCEPT ![c] = Idle]
  BY DEF Again
<1>2. hedged' \in Nat /\ total' \in Nat /\ begun' \in 0 .. MaxCalls
  BY DEF Again, HedgeInv, TypeOK
<1> QED
  BY <1>1, <1>2, IdleInv, OneCall

LEMMA WriteInv ==
    ASSUME HedgeInv, NEW c \in Calls, NEW i \in Both, Write(c, i)
    PROVE  HedgeInv'
<1> DEFINE q == race[c]
           p == [q EXCEPT !.buf = [q.buf EXCEPT ![i] = "ctrl"]]
<1>1. CallInv(q) /\ q.work[i] = "run" /\ q.main # "idle"
  BY DEF HedgeInv, Write, CallInv, Progress, Idle
<1>2. race' = [race EXCEPT ![c] = p]
  BY DEF HedgeInv, TypeOK, Write
<1>3. p \in CallType
  BY <1>1 DEF CallInv, CallType
<1>4. RefsCount(p)
  BY <1>1 DEF CallInv, CallType, MainSteps, WorkSteps, Both, RefsCount, MainRef, WorkRef, Progress
<1>5. Progress(p)
  BY <1>1 DEF CallInv, CallType, Both, Progress
<1>6. Winner(p)
  BY <1>1 DEF CallInv, CallType, Both, Progress, Winner
<1>7. Owners(p)
  BY <1>1 DEF CallInv, CallType, Both, Progress, Winner, Owners, RefsCount, MainRef, WorkRef
<1>8. hedged' \in Nat /\ total' \in Nat /\ begun' \in 0 .. MaxCalls
  BY DEF Write, HedgeInv, TypeOK
<1> QED
  BY <1>2, <1>3, <1>4, <1>5, <1>6, <1>7, <1>8, OneCall DEF CallInv

LEMMA AbortInv ==
    ASSUME HedgeInv, NEW c \in Calls, NEW i \in Both, Abort(c, i)
    PROVE  HedgeInv'
<1> DEFINE q == race[c]
           p == [q EXCEPT !.work = [q.work EXCEPT ![i] = "abort"]]
<1>1. CallInv(q) /\ q.work[i] = "run" /\ q.main # "idle"
  BY DEF HedgeInv, Abort, CallInv, Progress, Idle
<1>2. race' = [race EXCEPT ![c] = p]
  BY DEF HedgeInv, TypeOK, Abort
<1>3. p \in CallType
  BY <1>1 DEF CallInv, CallType, WorkSteps
<1>4. RefsCount(p)
  BY <1>1 DEF CallInv, CallType, MainSteps, WorkSteps, Both, RefsCount, MainRef, WorkRef, Progress
<1>5. Progress(p)
  BY <1>1 DEF CallInv, CallType, Both, Progress
<1>6. Winner(p)
  BY <1>1 DEF CallInv, CallType, Both, Progress, Winner
<1>7. Owners(p)
  BY <1>1 DEF CallInv, CallType, Both, Progress, Winner, Owners, RefsCount, MainRef, WorkRef
<1>8. hedged' \in Nat /\ total' \in Nat /\ begun' \in 0 .. MaxCalls
  BY DEF Abort, HedgeInv, TypeOK
<1> QED
  BY <1>2, <1>3, <1>4, <1>5, <1>6, <1>7, <1>8, OneCall DEF CallInv

LEMMA FinishInv ==
    ASSUME HedgeInv, NEW c \in Calls, NEW i \in Both, NEW out \in Outcomes, Finish(c, i, out)
    PROVE  HedgeInv'
<1> DEFINE q == race[c]
           wins == out = "200" /\ q.win = -1
           win == IF wins THEN i ELSE q.win
           done == [q.done EXCEPT ![i] = TRUE]
           outs == [q.out EXCEPT ![i] = out]
           cancel == [q.cancel EXCEPT ![1 - i] = q.cancel[1 - i] \/ wins]
           work == [q.work EXCEPT ![i] = "release"]
           p == [q EXCEPT !.done = done, !.out = outs, !.win = win, !.cancel = cancel, !.work = work]
<1>1. CallInv(q) /\ q.work[i] \in {"run", "abort"} /\ q.main # "idle"
  BY DEF HedgeInv, Finish, CallInv, Progress, Idle
<1>2. race' = [race EXCEPT ![c] = p]
  BY DEF Finish
<1>t. /\ win \in -1 .. 1 /\ done \in [Both -> BOOLEAN] /\ outs \in [Both -> Outcomes \cup {"none"}]
      /\ cancel \in [Both -> BOOLEAN] /\ work \in [Both -> WorkSteps]
  BY <1>1 DEF CallInv, CallType, Both, WorkSteps
<1>f. /\ done[i] /\ outs[i] = out /\ work[i] = "release"
      /\ \A j \in Both : j # i => done[j] = q.done[j] /\ outs[j] = q.out[j] /\ work[j] = q.work[j]
  BY <1>1 DEF CallInv, CallType
<1>c. /\ \A j \in Both : q.cancel[j] => cancel[j]
      /\ wins => cancel[1 - i]
  <2>1. 1 - i \in Both /\ q.cancel \in [Both -> BOOLEAN]
    BY <1>1 DEF CallInv, CallType, Both
  <2> QED
    BY <2>1, Zenon
<1>w. (wins => win = i) /\ (~wins => win = q.win)
  OBVIOUS
<1> HIDE DEF win, done, outs, cancel, work
<1>3. p \in CallType
  BY <1>1, <1>t DEF CallInv, CallType
<1>4. RefsCount(p)
  BY <1>1, <1>f DEF CallInv, CallType, Both, RefsCount, MainRef, WorkRef
<1>5. Progress(p)
  BY <1>1, <1>f DEF CallInv, CallType, Both, Progress, Outcomes
<1>6. Winner(p)
  BY <1>1, <1>f, <1>c, <1>w DEF CallInv, CallType, Both, Progress, Winner
<1>7. Owners(p)
  BY <1>1 DEF CallInv, CallType, Owners
<1>8. hedged' \in Nat /\ total' \in Nat /\ begun' \in 0 .. MaxCalls
  BY DEF Finish, HedgeInv, TypeOK
<1> QED
  BY <1>2, <1>3, <1>4, <1>5, <1>6, <1>7, <1>8, OneCall DEF CallInv

LEMMA WorkerReleaseInv ==
    ASSUME HedgeInv, NEW c \in Calls, NEW i \in Both, WorkerRelease(c, i)
    PROVE  HedgeInv'
<1> DEFINE q == race[c]
           p == [q EXCEPT !.ref = q.ref - 1,
                          !.work = [q.work EXCEPT ![i] = IF q.ref - 1 <= 0 THEN "free" ELSE "ended"]]
<1>1. CallInv(q) /\ q.work[i] = "release" /\ q.main # "idle"
  BY DEF HedgeInv, WorkerRelease, CallInv, Progress, Idle
<1>2. race' = [race EXCEPT ![c] = p]
  BY DEF HedgeInv, TypeOK, WorkerRelease
<1>3. p \in CallType
  <2>1. q.ref - 1 \in 0 .. 3
    BY <1>1 DEF CallInv, CallType, RefsCount, MainRef, WorkRef, Both
  <2> QED
    BY <1>1, <2>1 DEF CallInv, CallType, WorkSteps
<1>4. RefsCount(p)
  BY <1>1 DEF CallInv, CallType, MainSteps, WorkSteps, Both, RefsCount, MainRef, WorkRef, Progress
<1>5. Progress(p)
  BY <1>1 DEF CallInv, CallType, Both, Progress
<1>6. Winner(p)
  BY <1>1 DEF CallInv, CallType, Both, Progress, Winner
<1>7. Owners(p)
  BY <1>1 DEF CallInv, CallType, Both, Progress, Winner, Owners, RefsCount, MainRef, WorkRef
<1>8. hedged' \in Nat /\ total' \in Nat /\ begun' \in 0 .. MaxCalls
  BY DEF WorkerRelease, HedgeInv, TypeOK
<1> QED
  BY <1>2, <1>3, <1>4, <1>5, <1>6, <1>7, <1>8, OneCall DEF CallInv

LEMMA WorkerFreeInv ==
    ASSUME HedgeInv, NEW c \in Calls, NEW i \in Both, WorkerFree(c, i)
    PROVE  HedgeInv'
<1> DEFINE q == race[c]
           p == [q EXCEPT !.alive = FALSE, !.work = [q.work EXCEPT ![i] = "ended"],
                          !.buf = [j \in Both |-> IF q.buf[j] = "ctrl" THEN "freed" ELSE q.buf[j]]]
<1>1. CallInv(q) /\ q.work[i] = "free" /\ q.main # "idle"
  BY DEF HedgeInv, WorkerFree, Freed, CallInv, Progress, Idle
<1>2. race' = [race EXCEPT ![c] = p]
  BY DEF HedgeInv, TypeOK, WorkerFree, Freed
<1>3. p \in CallType
  BY <1>1 DEF CallInv, CallType, WorkSteps, Both
<1>4. RefsCount(p)
  BY <1>1 DEF CallInv, CallType, MainSteps, WorkSteps, Both, RefsCount, MainRef, WorkRef, Progress
<1>5. Progress(p)
  BY <1>1 DEF CallInv, CallType, Both, Progress
<1>6. Winner(p)
  BY <1>1 DEF CallInv, CallType, Both, Progress, Winner
<1>7. Owners(p)
  BY <1>1 DEF CallInv, CallType, Both, Progress, Winner, Owners, RefsCount, MainRef, WorkRef
<1>8. hedged' \in Nat /\ total' \in Nat /\ begun' \in 0 .. MaxCalls
  BY DEF WorkerFree, HedgeInv, TypeOK
<1> QED
  BY <1>2, <1>3, <1>4, <1>5, <1>6, <1>7, <1>8, OneCall DEF CallInv

-----------------------------------------------------------------------------
LEMMA InitInv == HedgeInit => HedgeInv
<1> SUFFICES ASSUME HedgeInit PROVE HedgeInv
  OBVIOUS
<1>1. \A c \in Calls : CallInv(race[c])
  BY IdleInv DEF HedgeInit
<1>2. race \in [Calls -> CallType]
  BY <1>1 DEF CallInv, HedgeInit
<1> QED
  BY <1>1, <1>2, HedgeAssumption DEF HedgeInv, TypeOK, HedgeInit, CallType, MainSteps, WorkSteps

LEMMA NextInv == HedgeInv /\ [HedgeNext]_hedgeVars => HedgeInv'
<1> SUFFICES ASSUME HedgeInv, [HedgeNext]_hedgeVars PROVE HedgeInv'
  OBVIOUS
<1>1. CASE UNCHANGED hedgeVars
  BY <1>1 DEF hedgeVars, HedgeInv, TypeOK
<1>2. ASSUME NEW c \in Calls, NEW created \in BOOLEAN, BeginCall(c, created) PROVE HedgeInv'
  BY <1>2, BeginCallInv
<1>3. ASSUME NEW c \in Calls, Main(c) PROVE HedgeInv'
  BY <1>3, DispatchInv, HarvestInv, MainReleaseInv, MainFreeInv DEF Main
<1>4. ASSUME NEW c \in Calls, Again(c) PROVE HedgeInv'
  BY <1>4, AgainInv
<1>5. ASSUME NEW c \in Calls, NEW i \in Both, Worker(c, i) PROVE HedgeInv'
  BY <1>5, FinishInv, WorkerReleaseInv, WorkerFreeInv DEF Worker
<1>6. ASSUME NEW c \in Calls, NEW i \in Both, Write(c, i) \/ Abort(c, i) PROVE HedgeInv'
  BY <1>6, WriteInv, AbortInv
<1> QED
  BY <1>1, <1>2, <1>3, <1>4, <1>5, <1>6 DEF HedgeNext

\* The inductive invariant holds of every behaviour of the hedged calls.
THEOREM HedgeInvariant == HedgeSpec => []HedgeInv
  BY InitInv, NextInv, PTL DEF HedgeSpec

\* The control block is there whenever one of the three threads of a call can still reach it
\* (ctrl_release): no use after free and no second free, in every interleaving.
THEOREM HedgeMemorySafe == HedgeSpec => []NoUseAfterFree
<1>1. HedgeInv => NoUseAfterFree
  BY DEF HedgeInv, CallInv, CallType, MainSteps, WorkSteps, RefsCount, MainRef, WorkRef, Both, NoUseAfterFree
<1> QED
  BY <1>1, HedgeInvariant, PTL

\* The response that the caller took is nobody else's, its transfer is over, and no buffer is
\* left behind when the block is freed (upstream_call_hedged, ctrl_release).
THEOREM HedgeBodyOwned == HedgeSpec => []BodyHasOneOwner
<1>1. ASSUME NEW q, CallInv(q)
      PROVE  /\ q.got # -1 => q.buf[q.got] \in {"caller", "none"} /\ q.done[q.got]
             /\ ~q.alive => \A i \in Both : q.buf[i] # "ctrl"
  <2>1. q.got # -1 => q.got \in Both
    BY <1>1 DEF CallInv, CallType, Both
  <2> QED
    BY <1>1, <2>1 DEF CallInv, Winner, Owners
<1>2. HedgeInv => BodyHasOneOwner
  BY <1>1 DEF HedgeInv, BodyHasOneOwner
<1> QED
  BY <1>2, HedgeInvariant, PTL

\* A 200 that came back before the call returned is what the caller gets (hedged_worker_run and
\* the harvest of upstream_call_hedged).
THEOREM HedgeAnswer == HedgeSpec => []AnswerIfAny
<1>1. HedgeInv => AnswerIfAny
  BY DEF HedgeInv, CallInv, CallType, Progress, Winner, Both, AnswerIfAny
<1> QED
  BY <1>1, HedgeInvariant, PTL

\* A worker that still runs when the call has returned was told to stop (cancel_flags).
THEOREM HedgeLoser == HedgeSpec => []LoserCancelled
<1>1. HedgeInv => LoserCancelled
  BY DEF HedgeInv, CallInv, CallType, Progress, Winner, Both, LoserCancelled
<1> QED
  BY <1>1, HedgeInvariant, PTL

(***************************************************************************)
(* The LRU map: lru.c implements LruMap.                                   *)
(*                                                                         *)
(* The invariant says that there are a list of nodes and one for each      *)
(* bucket such that following next from head, next_bkt from a bucket and   *)
(* prev from tail meets exactly these, in order (Path, Listing, Chains);   *)
(* that the nodes of the list are the ones allocated, each in the chain of *)
(* its key; and that no two share a key or a value (ListCore).  An         *)
(* operation on the pointers is then one on the lists: a node goes to the  *)
(* front, leaves, or gets another value.                                   *)
(*                                                                         *)
(* The walks of the model, in find_node and RecencyList, are recursive     *)
(* functions.  That there is such a function is shown by giving it for     *)
(* every node (in Listed and Found); what it returns follows along the     *)
(* list, from its end to its head (AllNumbers).                            *)
(***************************************************************************)
LEMMA AllNumbers ==
    ASSUME NEW T \in SUBSET Nat, 0 \in T, \A n \in T : n + 1 \in T
    PROVE  T = Nat
<1> SUFFICES ASSUME T # Nat PROVE FALSE
  OBVIOUS
<1>1. PICK n \in Nat \ T : \A m \in Nat \ T : n <= m
  BY LeastNat
<1>2. n - 1 \in Nat /\ n - 1 \in T
  BY <1>1
<1> QED
  BY <1>1, <1>2

-----------------------------------------------------------------------------
(* Lists of nodes                                                            *)

Refs == Nodes \cup {Nil}

\* The i-th node of the list l, and Nil before and behind it.
At(l, i) == IF i \in 1 .. Len(l) THEN l[i] ELSE Nil
On(l, n) == \E i \in 1 .. Len(l) : l[i] = n
Once(l) == \A i, j \in 1 .. Len(l) : l[i] = l[j] => i = j

\* Whoever begins at h and follows the pointers f meets the nodes of l, each once, and then Nil.
Path(f, h, l) ==
    /\ l \in Seq(Nodes) /\ Once(l)
    /\ h = At(l, 1)
    /\ \A i \in 1 .. Len(l) : f[l[i]] = At(l, i + 1)

LEMMA NodesAt ==
    ASSUME NEW l \in Seq(Nodes)
    PROVE  /\ Len(l) \in Nat /\ DOMAIN l = 1 .. Len(l)
           /\ \A i \in 1 .. Len(l) : l[i] \in Nodes /\ l[i] # Nil
           /\ \A i \in Int : At(l, i) \in Refs /\ (At(l, i) = Nil <=> ~(i \in 1 .. Len(l)))
<1>1. Len(l) \in Nat /\ DOMAIN l = 1 .. Len(l) /\ \A i \in 1 .. Len(l) : l[i] \in Nodes
  BY LenProperties, ElementOfSeq
<1> QED
  BY <1>1, NodeAssumption DEF At, Refs

LEMMA OnceAt ==
    ASSUME NEW l \in Seq(Nodes), Once(l), NEW i \in 1 .. Len(l), NEW j \in Int
    PROVE  l[i] = At(l, j) <=> i = j
<1>1. l[i] \in Nodes /\ l[i] # Nil
  BY NodesAt
<1>2. CASE j \in 1 .. Len(l)
  BY <1>2 DEF At, Once
<1>3. CASE j \notin 1 .. Len(l)
  <2>1. At(l, j) = Nil
    BY <1>3 DEF At
  <2> QED
    BY <1>1, <1>3, <2>1
<1> QED
  BY <1>2, <1>3

\* l with n before it.
LEMMA InFront ==
    ASSUME NEW S, NEW n \in S, NEW l \in Seq(S)
    PROVE  /\ <<n>> \o l \in Seq(S) /\ Len(<<n>> \o l) = Len(l) + 1 /\ Len(l) \in Nat
           /\ \A i \in 1 .. Len(l) + 1 : (<<n>> \o l)[i] = IF i = 1 THEN n ELSE l[i - 1]
<1> DEFINE a == <<n>>
<1>1. a \in Seq(S) /\ Len(a) = 1 /\ a[1] = n /\ Len(l) \in Nat
  BY LenProperties
<1> HIDE DEF a
<1>2. /\ a \o l \in Seq(S) /\ Len(a \o l) = Len(a) + Len(l)
      /\ \A i \in 1 .. Len(a) + Len(l) : (a \o l)[i] = IF i <= Len(a) THEN a[i] ELSE l[i - Len(a)]
  BY <1>1, ConcatProperties
<1>3. \A i \in 1 .. Len(l) + 1 : (a \o l)[i] = IF i = 1 THEN n ELSE l[i - 1]
  BY <1>1, <1>2
<1> QED
  BY <1>1, <1>2, <1>3 DEF a

\* l without its p-th element.
Without(l, p) == SubSeq(l, 1, p - 1) \o SubSeq(l, p + 1, Len(l))

LEMMA Removed ==
    ASSUME NEW S, NEW l \in Seq(S), NEW p \in 1 .. Len(l)
    PROVE  /\ Without(l, p) \in Seq(S) /\ Len(Without(l, p)) = Len(l) - 1 /\ Len(l) \in Nat
           /\ \A i \in 1 .. Len(l) - 1 : Without(l, p)[i] = IF i < p THEN l[i] ELSE l[i + 1]
<1> DEFINE a == SubSeq(l, 1, p - 1)
           b == SubSeq(l, p + 1, Len(l))
<1>1. Len(l) \in Nat
  BY LenProperties
<1>2. /\ a \in Seq(S) /\ Len(a) = p - 1 /\ \A i \in 1 .. p - 1 : a[i] = l[i]
  BY <1>1, SubSeqProperties
<1>3. /\ b \in Seq(S) /\ Len(b) = Len(l) - p /\ \A i \in 1 .. Len(l) - p : b[i] = l[p + i]
  BY <1>1, SubSeqProperties
<1>4. Without(l, p) = a \o b
  BY DEF Without
<1> HIDE DEF a, b
<1>5. /\ a \o b \in Seq(S) /\ Len(a \o b) = Len(a) + Len(b)
      /\ \A i \in 1 .. Len(a) + Len(b) : (a \o b)[i] = IF i <= Len(a) THEN a[i] ELSE b[i - Len(a)]
  BY <1>2, <1>3, ConcatProperties
<1>6. ASSUME NEW i \in 1 .. Len(l) - 1 PROVE (a \o b)[i] = IF i < p THEN l[i] ELSE l[i + 1]
  <2>1. CASE i < p
    BY <1>1, <1>2, <1>3, <1>5, <2>1
  <2>2. CASE ~(i < p)
    <3>1. (a \o b)[i] = b[i - (p - 1)]
      BY <1>1, <1>2, <1>3, <1>5, <2>2
    <3>2. i - (p - 1) \in 1 .. Len(l) - p /\ p + (i - (p - 1)) = i + 1
      BY <1>1, <2>2
    <3> QED
      BY <1>3, <2>2, <3>1, <3>2
  <2> QED
    BY <2>1, <2>2
<1> QED
  BY <1>1, <1>2, <1>3, <1>4, <1>5, <1>6

LEMMA WithoutOnce ==
    ASSUME NEW S, NEW l \in Seq(S), Once(l), NEW p \in 1 .. Len(l)
    PROVE  /\ Once(Without(l, p))
           /\ \A n : On(Without(l, p), n) <=> On(l, n) /\ n # l[p]
<1> DEFINE r == Without(l, p)
<1>1. /\ r \in Seq(S) /\ Len(r) = Len(l) - 1 /\ Len(l) \in Nat
      /\ \A i \in 1 .. Len(l) - 1 : r[i] = IF i < p THEN l[i] ELSE l[i + 1]
  BY Removed
<1> HIDE DEF r
<1> DEFINE old(i) == IF i < p THEN i ELSE i + 1
<1>2. \A i \in 1 .. Len(r) : r[i] = l[old(i)] /\ old(i) \in 1 .. Len(l) /\ old(i) # p
  BY <1>1
<1>3. \A i, j \in 1 .. Len(r) : old(i) = old(j) => i = j
  OBVIOUS
<1>4. \A j \in 1 .. Len(l) : j # p => \E i \in 1 .. Len(r) : old(i) = j
  <2> TAKE j \in 1 .. Len(l)
  <2> HAVE j # p
  <2> DEFINE i == IF j < p THEN j ELSE j - 1
  <2>1. i \in 1 .. Len(r) /\ old(i) = j
    BY <1>1
  <2> QED
    BY <2>1
<1> HIDE DEF old
<1>5. Once(r)
  BY <1>2, <1>3 DEF Once
<1>6. ASSUME NEW n PROVE On(r, n) <=> On(l, n) /\ n # l[p]
  <2>1. ASSUME On(r, n) PROVE On(l, n) /\ n # l[p]
    BY <1>2, <2>1 DEF On, Once
  <2>2. ASSUME On(l, n), n # l[p] PROVE On(r, n)
    <3>1. PICK j \in 1 .. Len(l) : l[j] = n
      BY <2>2 DEF On
    <3>2. PICK i \in 1 .. Len(r) : old(i) = j
      BY <1>4, <2>2, <3>1
    <3> QED
      BY <1>2, <3>1, <3>2 DEF On
  <2> QED
    BY <2>1, <2>2
<1> QED
  BY <1>5, <1>6 DEF r

LEMMA PathSame ==
    ASSUME NEW f, NEW g, NEW h, NEW l, Path(f, h, l), \A n \in Nodes : On(l, n) => g[n] = f[n]
    PROVE  Path(g, h, l)
<1>1. \A i \in 1 .. Len(l) : l[i] \in Nodes /\ On(l, l[i])
  BY NodesAt DEF Path, On
<1> QED
  BY <1>1 DEF Path

LEMMA PathFront ==
    ASSUME NEW f, NEW g, NEW h, NEW l, Path(f, h, l), NEW n \in Nodes, ~On(l, n),
           g[n] = h, \A m \in Nodes : On(l, m) => g[m] = f[m]
    PROVE  Path(g, n, <<n>> \o l)
<1> DEFINE r == <<n>> \o l
<1>1. l \in Seq(Nodes) /\ Once(l) /\ h = At(l, 1) /\ \A i \in 1 .. Len(l) : f[l[i]] = At(l, i + 1)
  BY DEF Path
<1>2. /\ r \in Seq(Nodes) /\ Len(r) = Len(l) + 1 /\ Len(l) \in Nat
      /\ \A i \in 1 .. Len(l) + 1 : r[i] = IF i = 1 THEN n ELSE l[i - 1]
  BY <1>1, InFront
<1>3. \A i \in 1 .. Len(l) : l[i] \in Nodes /\ On(l, l[i]) /\ l[i] # n
  BY <1>1, NodesAt DEF On
<1> HIDE DEF r
<1>4. Once(r)
  <2> SUFFICES ASSUME NEW i \in 1 .. Len(r), NEW j \in 1 .. Len(r), r[i] = r[j] PROVE i = j
    BY DEF Once
  <2>1. (i = 1 \/ i - 1 \in 1 .. Len(l)) /\ (j = 1 \/ j - 1 \in 1 .. Len(l))
    BY <1>2
  <2>2. CASE i = 1 \/ j = 1
    BY <1>2, <1>3, <2>1, <2>2
  <2>3. CASE i # 1 /\ j # 1
    <3>1. l[i - 1] = l[j - 1]
      BY <1>2, <2>3
    <3> QED
      BY <1>1, <2>1, <2>3, <3>1 DEF Once
  <2> QED
    BY <2>2, <2>3
<1>5. n = At(r, 1)
  BY <1>2 DEF At
<1>6. ASSUME NEW i \in 1 .. Len(r) PROVE g[r[i]] = At(r, i + 1)
  <2>1. CASE i = 1
    <3>1. g[r[i]] = At(l, 1)
      BY <1>1, <1>2, <2>1
    <3> QED
      BY <1>2, <2>1, <3>1 DEF At
  <2>2. CASE i # 1
    <3>1. i - 1 \in 1 .. Len(l) /\ r[i] = l[i - 1]
      BY <1>2, <2>2
    <3>2. g[r[i]] = At(l, (i - 1) + 1)
      BY <1>1, <1>3, <3>1
    <3> QED
      BY <1>2, <2>2, <3>1, <3>2 DEF At
  <2> QED
    BY <2>1, <2>2
<1> QED
  BY <1>2, <1>4, <1>5, <1>6 DEF Path, r

\* A node is taken out of a list when the pointer that leads to it is made to lead to the next.
LEMMA PathWithout ==
    ASSUME NEW f, NEW g, NEW h, NEW l, Path(f, h, l), NEW p \in 1 .. Len(l),
           \A i \in 1 .. Len(l) : i # p => g[l[i]] = IF i = p - 1 THEN At(l, p + 1) ELSE f[l[i]]
    PROVE  Path(g, IF p = 1 THEN At(l, 2) ELSE h, Without(l, p))
<1> DEFINE r == Without(l, p)
<1>1. l \in Seq(Nodes) /\ Once(l) /\ h = At(l, 1) /\ \A i \in 1 .. Len(l) : f[l[i]] = At(l, i + 1)
  BY DEF Path
<1>2. /\ r \in Seq(Nodes) /\ Len(r) = Len(l) - 1 /\ Len(l) \in Nat
      /\ \A i \in 1 .. Len(l) - 1 : r[i] = IF i < p THEN l[i] ELSE l[i + 1]
  BY <1>1, Removed
<1>3. Once(r)
  BY <1>1, WithoutOnce
<1> HIDE DEF r
<1>4. (IF p = 1 THEN At(l, 2) ELSE h) = At(r, 1)
  BY <1>1, <1>2 DEF At
<1>5. ASSUME NEW i \in 1 .. Len(r) PROVE g[r[i]] = At(r, i + 1)
  <2> DEFINE j == IF i < p THEN i ELSE i + 1
  <2>1. j \in 1 .. Len(l) /\ j # p /\ r[i] = l[j]
    BY <1>2
  <2>2. g[l[j]] = IF j = p - 1 THEN At(l, p + 1) ELSE At(l, j + 1)
    BY <1>1, <2>1
  <2>3. At(r, i + 1) = IF i + 1 < p THEN At(l, i + 1) ELSE At(l, i + 2)
    BY <1>2 DEF At
  <2> QED
    BY <1>2, <2>1, <2>2, <2>3
<1> QED
  BY <1>2, <1>3, <1>4, <1>5 DEF Path, r

-----------------------------------------------------------------------------
(* The map's pointers                                                        *)

Recs == [key : Nat, val : Values \cup {0}, prev : Refs, next : Refs, next_bkt : Refs, live : BOOLEAN]
Buckets == 0 .. TableCap - 1
Maps == [count : Int, head : Refs, tail : Refs, table : [Buckets -> Refs], node : [Nodes -> Recs]]

Nexts(s) == [n \in Nodes |-> s.node[n].next]
NextsOf(s) == [n \in Nodes |-> s.node[n].next_bkt]

\* l is the recency list, with the pointers of both directions.
Listing(s, l) ==
    /\ Path(Nexts(s), s.head, l)
    /\ s.tail = At(l, Len(l))
    /\ \A i \in 1 .. Len(l) : s.node[l[i]].prev = At(l, i - 1)

\* c gives the chain of each bucket.
Chains(s, c) ==
    /\ c \in [Buckets -> Seq(Nodes)]
    /\ \A b \in Buckets : Path(NextsOf(s), s.table[b], c[b])
    /\ \A b \in Buckets : \A n \in Nodes : On(c[b], n) => fnv1a(s.node[n].key) = b

\* s and t differ in the recency list only.
Relisted(s, t) ==
    /\ t \in Maps /\ t.count = s.count /\ t.table = s.table
    /\ \A n \in Nodes : /\ t.node[n].key = s.node[n].key /\ t.node[n].val = s.node[n].val
                        /\ t.node[n].next_bkt = s.node[n].next_bkt /\ t.node[n].live = s.node[n].live

LEMMA RelistedChains ==
    ASSUME NEW s \in Maps, NEW t, Relisted(s, t), NEW c, Chains(s, c)
    PROVE  Chains(t, c)
<1>1. \A n \in Nodes : NextsOf(t)[n] = NextsOf(s)[n] /\ t.node[n].key = s.node[n].key
  BY DEF NextsOf, Relisted
<1>2. ASSUME NEW b \in Buckets PROVE Path(NextsOf(t), t.table[b], c[b])
  <2>1. Path(NextsOf(s), t.table[b], c[b])
    BY DEF Chains, Relisted
  <2> QED
    BY <1>1, <2>1, PathSame
<1> QED
  BY <1>1, <1>2 DEF Chains

SetNode(s, n, r) == [s EXCEPT !.node[n] = r]

LEMMA NodeSet ==
    ASSUME NEW s \in Maps, NEW n \in Nodes, NEW r \in Recs
    PROVE  /\ SetNode(s, n, r) \in Maps
           /\ SetNode(s, n, r).count = s.count /\ SetNode(s, n, r).table = s.table
           /\ SetNode(s, n, r).head = s.head /\ SetNode(s, n, r).tail = s.tail
           /\ \A x \in Nodes : SetNode(s, n, r).node[x] = IF x = n THEN r ELSE s.node[x]
<1> DEFINE t == SetNode(s, n, r)
<1>1. s.node \in [Nodes -> Recs]
  BY DEF Maps
<1>2. [s.node EXCEPT ![n] = r] \in [Nodes -> Recs]
  BY <1>1
<1>3. t = [s EXCEPT !.node = [s.node EXCEPT ![n] = r]]
  BY DEF Maps, SetNode
<1> HIDE DEF Recs, t
<1>4. t \in Maps /\ t.count = s.count /\ t.table = s.table /\ t.head = s.head /\ t.tail = s.tail
      /\ \A x \in Nodes : t.node[x] = IF x = n THEN r ELSE s.node[x]
  BY <1>1, <1>2, <1>3 DEF Maps
<1> QED
  BY <1>4 DEF t

LEMMA LinkHead ==
    ASSUME NEW s \in Maps, NEW l, Listing(s, l), NEW n \in Nodes, ~On(l, n)
    PROVE  /\ Relisted(s, rec_link_head(s, n)) /\ Listing(rec_link_head(s, n), <<n>> \o l)
           /\ \A m \in Nodes : m # n => rec_link_head(s, n).node[m].next = s.node[m].next
<1> DEFINE t == rec_link_head(s, n)
           r == <<n>> \o l
<1>1. l \in Seq(Nodes) /\ Once(l) /\ s.head = At(l, 1) /\ s.head \in Refs /\ n # Nil
  BY NodeAssumption DEF Listing, Path, Maps
<1>2. /\ Len(l) \in Nat /\ \A i \in 1 .. Len(l) : l[i] \in Nodes /\ l[i] # n /\ On(l, l[i]) /\ l[i] # Nil
      /\ s.head = IF Len(l) = 0 THEN Nil ELSE l[1]
  BY <1>1, NodesAt DEF At, On
<1>3. /\ r \in Seq(Nodes) /\ Len(r) = Len(l) + 1
      /\ \A i \in 1 .. Len(l) + 1 : r[i] = IF i = 1 THEN n ELSE l[i - 1]
  BY <1>1, InFront
<1> DEFINE k == [s EXCEPT !.node[n].next = s.head, !.node[n].prev = Nil]
           m == IF s.head # Nil THEN [k EXCEPT !.node[s.head].prev = n] ELSE k
<1>4. /\ k \in Maps
      /\ \A x \in Nodes : k.node[x] = IF x = n THEN [s.node[x] EXCEPT !.next = s.head, !.prev = Nil] ELSE s.node[x]
  <2> DEFINE rec == [s.node[n] EXCEPT !.next = s.head, !.prev = Nil]
  <2>1. s.node[n] \in Recs /\ rec \in Recs
    BY <1>1 DEF Maps, Recs, Refs
  <2>2. k = SetNode(s, n, rec)
    BY <2>1 DEF Maps, Recs, SetNode
  <2> HIDE DEF k, rec
  <2>3. k \in Maps /\ \A x \in Nodes : k.node[x] = IF x = n THEN rec ELSE s.node[x]
    BY <2>1, <2>2, NodeSet
  <2> QED
    BY <2>3 DEF rec
<1> HIDE DEF k
<1>5. /\ m \in Maps
      /\ \A x \in Nodes : m.node[x] = IF x = s.head THEN [k.node[x] EXCEPT !.prev = n] ELSE k.node[x]
  <2>1. CASE s.head # Nil
    <3>1. PICK h \in Nodes : h = s.head
      BY <1>1, <2>1 DEF Refs
    <3> DEFINE rec == [k.node[h] EXCEPT !.prev = n]
    <3>2. k.node[h] \in Recs
      BY <1>4 DEF Maps
    <3>3. rec \in Recs
      BY <3>2 DEF Recs, Refs
    <3>4. m = SetNode(k, h, rec)
      BY <2>1, <3>1 DEF SetNode
    <3> HIDE DEF m, rec
    <3>5. m \in Maps /\ \A x \in Nodes : m.node[x] = IF x = h THEN rec ELSE k.node[x]
      <4>1. k \in Maps
        BY <1>4
      <4>2. h \in Nodes
        BY <3>1
      <4>3. SetNode(k, h, rec) \in Maps
        BY <3>3, <4>1, <4>2, NodeSet
      <4>4. \A x \in Nodes : SetNode(k, h, rec).node[x] = IF x = h THEN rec ELSE k.node[x]
        BY <3>3, <4>1, <4>2, NodeSet
      <4> QED
        BY <3>4, <4>3, <4>4
    <3> QED
      BY <3>1, <3>5 DEF rec
  <2>2. CASE s.head = Nil
    BY <1>4, <2>2, NodeAssumption
  <2> QED
    BY <2>1, <2>2
<1>6. /\ t \in Maps /\ t.count = s.count /\ t.table = s.table /\ t.head = n
      /\ t.tail = (IF s.tail = Nil THEN n ELSE s.tail)
      /\ t.node = m.node
  <2>1. t = [s EXCEPT !.node = m.node, !.head = n, !.tail = IF @ = Nil THEN n ELSE @]
    BY DEF rec_link_head, k
  <2> HIDE DEF m, t
  <2> QED
    BY <1>5, <2>1 DEF Maps, Refs
<1> HIDE DEF m, t
<1>7. \A x \in Nodes : /\ t.node[x].key = s.node[x].key /\ t.node[x].val = s.node[x].val
                       /\ t.node[x].next_bkt = s.node[x].next_bkt /\ t.node[x].live = s.node[x].live
                       /\ t.node[x].next = (IF x = n THEN s.head ELSE s.node[x].next)
                       /\ t.node[x].prev = (IF x = s.head THEN n ELSE IF x = n THEN Nil ELSE s.node[x].prev)
  <2> TAKE x \in Nodes
  <2>1. s.node[x] \in Recs /\ k.node[x] \in Recs
    BY <1>4 DEF Maps
  <2>2. /\ k.node[x].next = (IF x = n THEN s.head ELSE s.node[x].next)
        /\ k.node[x].prev = (IF x = n THEN Nil ELSE s.node[x].prev)
        /\ k.node[x].key = s.node[x].key /\ k.node[x].val = s.node[x].val
        /\ k.node[x].next_bkt = s.node[x].next_bkt /\ k.node[x].live = s.node[x].live
    BY <1>4, <2>1 DEF Recs
  <2>3. /\ t.node[x].next = k.node[x].next
        /\ t.node[x].prev = (IF x = s.head THEN n ELSE k.node[x].prev)
        /\ t.node[x].key = k.node[x].key /\ t.node[x].val = k.node[x].val
        /\ t.node[x].next_bkt = k.node[x].next_bkt /\ t.node[x].live = k.node[x].live
    <3>1. t.node[x] = IF x = s.head THEN [k.node[x] EXCEPT !.prev = n] ELSE k.node[x]
      BY <1>5, <1>6
    <3> QED
      BY <2>1, <3>1 DEF Recs
  <2> QED
    BY <2>2, <2>3
<1> HIDE DEF r
<1>8. Relisted(s, t)
  BY <1>6, <1>7 DEF Relisted
<1>9. Path(Nexts(t), t.head, r)
  <2>1. Nexts(t)[n] = s.head /\ \A x \in Nodes : On(l, x) => Nexts(t)[x] = Nexts(s)[x]
    BY <1>7 DEF Nexts
  <2> QED
    BY <1>6, <2>1, PathFront DEF Listing, r
<1>10. t.tail = At(r, Len(r))
  <2>1. s.tail = At(l, Len(l))
    BY DEF Listing
  <2> QED
    BY <1>2, <1>3, <1>6, <2>1 DEF At
<1>11. ASSUME NEW i \in 1 .. Len(r) PROVE t.node[r[i]].prev = At(r, i - 1)
  <2>1. CASE i = 1
    <3>1. r[i] = n /\ n # s.head /\ At(r, i - 1) = Nil
      BY <1>2, <1>3, <1>1, <2>1 DEF At
    <3> QED
      BY <1>7, <3>1
  <2>2. CASE i # 1
    <3>1. i - 1 \in 1 .. Len(l) /\ r[i] = l[i - 1] /\ At(r, i - 1) = r[i - 1]
      BY <1>2, <1>3, <2>2 DEF At
    <3>2. l[i - 1] = s.head <=> i - 1 = 1
      BY <1>1, <1>2, <3>1 DEF Once
    <3>3. s.node[l[i - 1]].prev = At(l, (i - 1) - 1)
      BY <3>1 DEF Listing
    <3>4. t.node[l[i - 1]].prev = IF i - 1 = 1 THEN n ELSE At(l, (i - 1) - 1)
      BY <1>2, <1>7, <3>1, <3>2, <3>3
    <3> QED
      BY <1>2, <1>3, <2>2, <3>1, <3>4 DEF At
  <2> QED
    BY <2>1, <2>2
<1> QED
  BY <1>7, <1>8, <1>9, <1>10, <1>11 DEF Listing, t, r

SetNext(f, n, v) == [f EXCEPT ![n].next = v]
SetPrev(f, n, v) == [f EXCEPT ![n].prev = v]

SameData(f, g) ==
    /\ g \in [Nodes -> Recs]
    /\ \A x \in Nodes : /\ g[x].key = f[x].key /\ g[x].val = f[x].val
                        /\ g[x].next_bkt = f[x].next_bkt /\ g[x].live = f[x].live

LEMMA NextSet ==
    ASSUME NEW f \in [Nodes -> Recs], NEW n \in Nodes, NEW v \in Refs
    PROVE  /\ SameData(f, SetNext(f, n, v))
           /\ \A x \in Nodes : /\ SetNext(f, n, v)[x].next = (IF x = n THEN v ELSE f[x].next)
                               /\ SetNext(f, n, v)[x].prev = f[x].prev
<1> DEFINE g == SetNext(f, n, v)
           r == [f[n] EXCEPT !.next = v]
<1>1. f[n] \in Recs
  OBVIOUS
<1>2. /\ r \in Recs /\ r.next = v /\ r.prev = f[n].prev /\ r.key = f[n].key /\ r.val = f[n].val
      /\ r.next_bkt = f[n].next_bkt /\ r.live = f[n].live
  BY <1>1 DEF Recs
<1>3. g = [f EXCEPT ![n] = r]
  BY DEF SetNext
<1> HIDE DEF r, g, Recs
<1>4. g \in [Nodes -> Recs] /\ \A x \in Nodes : g[x] = IF x = n THEN r ELSE f[x]
  BY <1>2, <1>3
<1> QED
  BY <1>2, <1>4 DEF g, SameData

LEMMA PrevSet ==
    ASSUME NEW f \in [Nodes -> Recs], NEW n \in Nodes, NEW v \in Refs
    PROVE  /\ SameData(f, SetPrev(f, n, v))
           /\ \A x \in Nodes : /\ SetPrev(f, n, v)[x].prev = (IF x = n THEN v ELSE f[x].prev)
                               /\ SetPrev(f, n, v)[x].next = f[x].next
<1> DEFINE g == SetPrev(f, n, v)
           r == [f[n] EXCEPT !.prev = v]
<1>1. f[n] \in Recs
  OBVIOUS
<1>2. /\ r \in Recs /\ r.prev = v /\ r.next = f[n].next /\ r.key = f[n].key /\ r.val = f[n].val
      /\ r.next_bkt = f[n].next_bkt /\ r.live = f[n].live
  BY <1>1 DEF Recs
<1>3. g = [f EXCEPT ![n] = r]
  BY DEF SetPrev
<1> HIDE DEF r, g, Recs
<1>4. g \in [Nodes -> Recs] /\ \A x \in Nodes : g[x] = IF x = n THEN r ELSE f[x]
  BY <1>2, <1>3
<1> QED
  BY <1>2, <1>4 DEF g, SameData

LEMMA Unlinked ==
    ASSUME NEW s \in Maps, NEW n \in Nodes, NEW p, p = s.node[n].prev, NEW x, x = s.node[n].next, p # n, x # n
    PROVE  /\ Relisted(s, rec_unlink(s, n))
           /\ rec_unlink(s, n).head = (IF p = Nil THEN x ELSE s.head)
           /\ rec_unlink(s, n).tail = (IF x = Nil THEN p ELSE s.tail)
           /\ \A m \in Nodes :
                /\ rec_unlink(s, n).node[m].next = (IF m = n THEN Nil ELSE IF m = p THEN x ELSE s.node[m].next)
                /\ rec_unlink(s, n).node[m].prev = (IF m = n THEN Nil ELSE IF m = x THEN p ELSE s.node[m].prev)
<1> DEFINE f == s.node
           f1 == IF p # Nil THEN SetNext(f, p, x) ELSE f
           f2 == IF x # Nil THEN SetPrev(f1, x, p) ELSE f1
           f3 == SetPrev(f2, n, Nil)
           f4 == SetNext(f3, n, Nil)
           t == rec_unlink(s, n)
<1>1. f \in [Nodes -> Recs] /\ p \in Refs /\ x \in Refs /\ Nil \in Refs /\ Nil \notin Nodes
  BY NodeAssumption DEF Maps, Recs, Refs
<1>2. t = [s EXCEPT !.node = f4, !.head = IF p = Nil THEN x ELSE @, !.tail = IF x = Nil THEN p ELSE @]
  BY DEF rec_unlink, SetNext, SetPrev
<1> HIDE DEF t, f, Recs
<1>3. /\ SameData(f, f1)
      /\ \A m \in Nodes : f1[m].prev = f[m].prev /\ f1[m].next = IF m = p THEN x ELSE f[m].next
  <2>1. CASE p # Nil
    <3>1. p \in Nodes
      BY <1>1, <2>1 DEF Refs
    <3> QED
      BY <1>1, <2>1, <3>1, NextSet
  <2>2. CASE p = Nil
    BY <1>1, <2>2 DEF SameData
  <2> QED
    BY <2>1, <2>2
<1> HIDE DEF f1
<1>4. f1 \in [Nodes -> Recs]
  BY <1>3 DEF SameData
<1>5. /\ SameData(f1, f2)
      /\ \A m \in Nodes : f2[m].next = f1[m].next /\ f2[m].prev = IF m = x THEN p ELSE f1[m].prev
  <2>1. CASE x # Nil
    <3>1. x \in Nodes
      BY <1>1, <2>1 DEF Refs
    <3> QED
      BY <1>1, <1>4, <2>1, <3>1, PrevSet
  <2>2. CASE x = Nil
    BY <1>1, <1>4, <2>2 DEF SameData
  <2> QED
    BY <2>1, <2>2
<1> HIDE DEF f2
<1>6. f2 \in [Nodes -> Recs]
  BY <1>5 DEF SameData
<1>7. /\ SameData(f2, f3)
      /\ \A m \in Nodes : f3[m].next = f2[m].next /\ f3[m].prev = IF m = n THEN Nil ELSE f2[m].prev
  BY <1>1, <1>6, PrevSet
<1> HIDE DEF f3
<1>8. f3 \in [Nodes -> Recs]
  BY <1>7 DEF SameData
<1>9. /\ SameData(f3, f4)
      /\ \A m \in Nodes : f4[m].prev = f3[m].prev /\ f4[m].next = IF m = n THEN Nil ELSE f3[m].next
  BY <1>1, <1>8, NextSet
<1> HIDE DEF f4
<1>10. /\ t \in Maps /\ t.count = s.count /\ t.table = s.table /\ t.node = f4
       /\ t.head = (IF p = Nil THEN x ELSE s.head) /\ t.tail = (IF x = Nil THEN p ELSE s.tail)
  <2>1. f4 \in [Nodes -> Recs]
    BY <1>9 DEF SameData
  <2> QED
    BY <1>1, <1>2, <2>1 DEF Maps
<1>11. \A m \in Nodes : /\ f4[m].key = f[m].key /\ f4[m].val = f[m].val
                        /\ f4[m].next_bkt = f[m].next_bkt /\ f4[m].live = f[m].live
  BY <1>3, <1>5, <1>7, <1>9 DEF SameData
<1>12. Relisted(s, t)
  BY <1>10, <1>11 DEF Relisted, f
<1>13. \A m \in Nodes : /\ f4[m].next = (IF m = n THEN Nil ELSE IF m = p THEN x ELSE f[m].next)
                        /\ f4[m].prev = (IF m = n THEN Nil ELSE IF m = x THEN p ELSE f[m].prev)
  BY <1>3, <1>5, <1>7, <1>9
<1> QED
  BY <1>10, <1>12, <1>13 DEF t, f

LEMMA Unlink ==
    ASSUME NEW s \in Maps, NEW l, Listing(s, l), NEW p \in 1 .. Len(l)
    PROVE  /\ Relisted(s, rec_unlink(s, l[p])) /\ Listing(rec_unlink(s, l[p]), Without(l, p))
           /\ \A m \in Nodes : ~On(l, m) => rec_unlink(s, l[p]).node[m].next = s.node[m].next
<1> DEFINE t == rec_unlink(s, l[p])
           r == Without(l, p)
<1>1. l \in Seq(Nodes) /\ Once(l) /\ s.head = At(l, 1) /\ \A i \in 1 .. Len(l) : Nexts(s)[l[i]] = At(l, i + 1)
  BY DEF Listing, Path
<1>2. /\ Len(l) \in Nat /\ \A i \in 1 .. Len(l) : l[i] \in Nodes /\ l[i] # Nil
      /\ \A i \in Int : At(l, i) = IF i \in 1 .. Len(l) THEN l[i] ELSE Nil
  BY <1>1, NodesAt DEF At
<1>3. \A i \in 1 .. Len(l) : s.node[l[i]].next = At(l, i + 1) /\ s.node[l[i]].prev = At(l, i - 1)
  BY <1>1, <1>2 DEF Listing, Nexts
<1>4. /\ r \in Seq(Nodes) /\ Len(r) = Len(l) - 1
      /\ \A i \in 1 .. Len(l) - 1 : r[i] = IF i < p THEN l[i] ELSE l[i + 1]
  BY <1>1, Removed
<1>5. PICK n \in Nodes : n = l[p]
  BY <1>2
<1>6. PICK a : a = At(l, p - 1)
  OBVIOUS
<1>7. PICK x : x = At(l, p + 1)
  OBVIOUS
<1>8. a # n /\ x # n
  BY <1>1, <1>2, <1>5, <1>6, <1>7 DEF Once
<1>9. a = s.node[n].prev /\ x = s.node[n].next
  BY <1>3, <1>5, <1>6, <1>7
<1> HIDE DEF r
<1>10. /\ Relisted(s, t)
       /\ t.head = (IF a = Nil THEN x ELSE s.head) /\ t.tail = (IF x = Nil THEN a ELSE s.tail)
       /\ \A m \in Nodes : /\ t.node[m].next = (IF m = n THEN Nil ELSE IF m = a THEN x ELSE s.node[m].next)
                           /\ t.node[m].prev = (IF m = n THEN Nil ELSE IF m = x THEN a ELSE s.node[m].prev)
  BY <1>5, <1>8, <1>9, Unlinked
<1> HIDE DEF t
<1>11. ASSUME NEW i \in 1 .. Len(l), i # p
       PROVE  /\ l[i] \in Nodes /\ l[i] # n /\ (l[i] = a <=> i = p - 1) /\ (l[i] = x <=> i = p + 1)
  <2>1. l[i] \in Nodes /\ l[i] # n
    BY <1>1, <1>2, <1>5, <1>11 DEF Once
  <2>2. l[i] = a <=> i = p - 1
    <3>1. p - 1 \in Int
      OBVIOUS
    <3> QED
      BY <1>1, <1>6, <3>1, OnceAt
  <2>3. l[i] = x <=> i = p + 1
    <3>1. p + 1 \in Int
      OBVIOUS
    <3> QED
      BY <1>1, <1>7, <3>1, OnceAt
  <2> QED
    BY <2>1, <2>2, <2>3
<1>12. Path(Nexts(t), t.head, r)
  <2>1. ASSUME NEW i \in 1 .. Len(l), i # p
        PROVE  Nexts(t)[l[i]] = IF i = p - 1 THEN At(l, p + 1) ELSE Nexts(s)[l[i]]
    BY <1>7, <1>10, <1>11, <2>1 DEF Nexts
  <2>2. Path(Nexts(t), IF p = 1 THEN At(l, 2) ELSE s.head, r)
    BY <2>1, PathWithout DEF Listing, r
  <2>3. t.head = IF p = 1 THEN At(l, 2) ELSE s.head
    BY <1>2, <1>6, <1>7, <1>10
  <2> QED
    BY <2>2, <2>3
<1>13. t.tail = At(r, Len(r))
  <2>1. s.tail = At(l, Len(l))
    BY DEF Listing
  <2>2. CASE p = Len(l)
    BY <1>2, <1>4, <1>6, <1>7, <1>10, <2>1, <2>2 DEF At
  <2>3. CASE p # Len(l)
    BY <1>2, <1>4, <1>6, <1>7, <1>10, <2>1, <2>3 DEF At
  <2> QED
    BY <2>2, <2>3
<1>14. ASSUME NEW i \in 1 .. Len(r) PROVE t.node[r[i]].prev = At(r, i - 1)
  <2>1. PICK j \in 1 .. Len(l) : j = IF i < p THEN i ELSE i + 1
    BY <1>2, <1>4
  <2>2. j # p /\ r[i] = l[j]
    BY <1>4, <2>1
  <2>3. t.node[l[j]].prev = IF j = p + 1 THEN At(l, p - 1) ELSE At(l, j - 1)
    BY <1>3, <1>6, <1>10, <1>11, <2>2
  <2>4. At(r, i - 1) = IF i - 1 < p THEN At(l, i - 1) ELSE At(l, i)
    BY <1>2, <1>4 DEF At
  <2> QED
    BY <1>2, <1>4, <2>1, <2>2, <2>3, <2>4
<1>15. ASSUME NEW m \in Nodes, ~On(l, m) PROVE t.node[m].next = s.node[m].next
  <2>1. m # n /\ m # a
    BY <1>2, <1>5, <1>6, <1>15, NodeAssumption DEF On
  <2> QED
    BY <1>10, <2>1
<1> QED
  BY <1>5, <1>10, <1>12, <1>13, <1>14, <1>15 DEF Listing, t, r

LEMMA SameSeq ==
    ASSUME NEW S, NEW a \in Seq(S), NEW b \in Seq(S), Len(a) = Len(b), \A i \in 1 .. Len(a) : a[i] = b[i]
    PROVE  a = b
  BY LenProperties, SeqEqual

LEMMA MoveToHead ==
    ASSUME NEW s \in Maps, NEW l, Listing(s, l), NEW p \in 1 .. Len(l)
    PROVE  /\ Relisted(s, rec_move_to_head(s, l[p]))
           /\ Listing(rec_move_to_head(s, l[p]), <<l[p]>> \o Without(l, p))
           /\ \A m \in Nodes : ~On(l, m) => rec_move_to_head(s, l[p]).node[m].next = s.node[m].next
<1> DEFINE u == rec_unlink(s, l[p])
           r == Without(l, p)
<1>1. l \in Seq(Nodes) /\ Once(l) /\ s.head = At(l, 1)
  BY DEF Listing, Path
<1>2. PICK n \in Nodes : n = l[p] /\ Len(l) \in Nat
  BY <1>1, NodesAt
<1>3. CASE s.head = n
  <2>1. rec_move_to_head(s, n) = s /\ p = 1
    BY <1>1, <1>2, <1>3, NodesAt DEF rec_move_to_head, At, Once
  <2>2. r \in Seq(Nodes) /\ Len(r) = Len(l) - 1 /\ \A i \in 1 .. Len(l) - 1 : r[i] = l[i + 1]
    <3>1. /\ r \in Seq(Nodes) /\ Len(r) = Len(l) - 1
          /\ \A i \in 1 .. Len(l) - 1 : r[i] = IF i < p THEN l[i] ELSE l[i + 1]
      BY <1>1, Removed
    <3> HIDE DEF r
    <3> QED
      BY <1>2, <2>1, <3>1
  <2> HIDE DEF r
  <2>3. /\ <<n>> \o r \in Seq(Nodes) /\ Len(<<n>> \o r) = Len(r) + 1
        /\ \A i \in 1 .. Len(r) + 1 : (<<n>> \o r)[i] = IF i = 1 THEN n ELSE r[i - 1]
    BY <2>2, InFront
  <2>4. PICK k : k = <<n>> \o r
    OBVIOUS
  <2>5. k \in Seq(Nodes) /\ Len(k) = Len(l) /\ \A i \in 1 .. Len(k) : k[i] = l[i]
    BY <1>2, <2>1, <2>2, <2>3, <2>4
  <2>6. k = l
    BY <1>1, <2>5, SameSeq
  <2>7. Relisted(s, s)
    BY DEF Relisted
  <2> QED
    BY <1>2, <2>1, <2>4, <2>6, <2>7 DEF r
<1>4. CASE s.head # n
  <2>1. Relisted(s, u) /\ Listing(u, r) /\ \A m \in Nodes : ~On(l, m) => u.node[m].next = s.node[m].next
    BY Unlink
  <2>2. ~On(r, n)
    BY <1>1, <1>2, WithoutOnce
  <2>3. rec_move_to_head(s, n) = rec_link_head(u, n)
    BY <1>2, <1>4 DEF rec_move_to_head
  <2> HIDE DEF u, r
  <2>4. u \in Maps
    BY <2>1 DEF Relisted
  <2>5. /\ Relisted(u, rec_link_head(u, n)) /\ Listing(rec_link_head(u, n), <<n>> \o r)
        /\ \A m \in Nodes : m # n => rec_link_head(u, n).node[m].next = u.node[m].next
    BY <2>1, <2>2, <2>4, LinkHead
  <2>6. Relisted(s, rec_link_head(u, n))
    BY <2>1, <2>5 DEF Relisted
  <2>7. ASSUME NEW m \in Nodes, ~On(l, m) PROVE rec_link_head(u, n).node[m].next = s.node[m].next
    BY <1>2, <2>1, <2>5, <2>7 DEF On
  <2> QED
    BY <1>2, <2>3, <2>5, <2>6, <2>7 DEF r
<1> QED
  BY <1>3, <1>4

\* s and t differ in the chains only.
Rechained(s, t) ==
    /\ t \in Maps /\ t.count = s.count /\ t.head = s.head /\ t.tail = s.tail
    /\ \A n \in Nodes : /\ t.node[n].key = s.node[n].key /\ t.node[n].val = s.node[n].val
                        /\ t.node[n].prev = s.node[n].prev /\ t.node[n].next = s.node[n].next
                        /\ t.node[n].live = s.node[n].live

LEMMA RechainedListing ==
    ASSUME NEW s \in Maps, NEW t, Rechained(s, t), NEW l, Listing(s, l)
    PROVE  Listing(t, l)
<1>1. l \in Seq(Nodes) /\ \A n \in Nodes : Nexts(t)[n] = Nexts(s)[n] /\ t.node[n].prev = s.node[n].prev
  BY DEF Nexts, Rechained, Listing, Path
<1>2. Path(Nexts(t), t.head, l)
  <2>1. Path(Nexts(s), t.head, l)
    BY DEF Listing, Rechained
  <2> QED
    BY <1>1, <2>1, PathSame
<1>3. \A i \in 1 .. Len(l) : t.node[l[i]].prev = At(l, i - 1)
  BY <1>1, NodesAt DEF Listing
<1> QED
  BY <1>2, <1>3 DEF Listing, Rechained

LEMMA BucketOf ==
    ASSUME NEW k \in Nat
    PROVE  fnv1a(k) \in Buckets
<1>1. k % TableCap \in 0 .. TableCap - 1
  BY LruAssumption
<1> QED
  BY <1>1 DEF fnv1a, Buckets

LEMMA BktInsert ==
    ASSUME NEW s \in Maps, NEW c, Chains(s, c), NEW n \in Nodes, \A b \in Buckets : ~On(c[b], n),
           NEW h, h = fnv1a(s.node[n].key)
    PROVE  /\ Rechained(s, bkt_insert(s, n))
           /\ Chains(bkt_insert(s, n), [c EXCEPT ![h] = <<n>> \o @])
           /\ \A m \in Nodes : m # n => bkt_insert(s, n).node[m].next_bkt = s.node[m].next_bkt
<1> DEFINE t == bkt_insert(s, n)
           d == [c EXCEPT ![h] = <<n>> \o @]
           rec == [s.node[n] EXCEPT !.next_bkt = s.table[h]]
           node == [s.node EXCEPT ![n] = rec]
           table == [s.table EXCEPT ![h] = n]
<1>1. s.node[n] \in Recs /\ s.node \in [Nodes -> Recs] /\ s.table \in [Buckets -> Refs]
  BY DEF Maps
<1>2. h \in Buckets
  BY <1>1, BucketOf DEF Recs
<1>3. s.table[h] \in Refs
  BY <1>1, <1>2
<1>4. /\ rec \in Recs /\ rec.key = s.node[n].key /\ rec.val = s.node[n].val /\ rec.live = s.node[n].live
      /\ rec.prev = s.node[n].prev /\ rec.next = s.node[n].next /\ rec.next_bkt = s.table[h]
  BY <1>1, <1>3 DEF Recs
<1>5. t = [s EXCEPT !.node = node, !.table = table]
  BY DEF bkt_insert
<1> HIDE DEF rec, t, Recs
<1>6. node \in [Nodes -> Recs] /\ \A x \in Nodes : node[x] = IF x = n THEN rec ELSE s.node[x]
  BY <1>1, <1>4
<1>7. table \in [Buckets -> Refs] /\ \A b \in Buckets : table[b] = IF b = h THEN n ELSE s.table[b]
  BY <1>1, <1>2 DEF Refs
<1> HIDE DEF node, table
<1>8. /\ t \in Maps /\ t.count = s.count /\ t.head = s.head /\ t.tail = s.tail
      /\ t.node = node /\ t.table = table
  BY <1>5, <1>6, <1>7 DEF Maps
<1>9. Rechained(s, t)
  BY <1>4, <1>6, <1>8 DEF Rechained
<1>10. \A x \in Nodes : NextsOf(t)[x] = IF x = n THEN s.table[h] ELSE NextsOf(s)[x]
  BY <1>4, <1>6, <1>8 DEF NextsOf
<1>11. /\ c \in [Buckets -> Seq(Nodes)] /\ \A b \in Buckets : Path(NextsOf(s), s.table[b], c[b])
       /\ \A b \in Buckets : \A x \in Nodes : On(c[b], x) => fnv1a(s.node[x].key) = b
  BY DEF Chains
<1>12. PICK q : q = <<n>> \o c[h]
  OBVIOUS
<1>13. q \in Seq(Nodes) /\ \A x \in Nodes : On(q, x) <=> x = n \/ On(c[h], x)
  <2>1. /\ c[h] \in Seq(Nodes) /\ q \in Seq(Nodes) /\ Len(q) = Len(c[h]) + 1 /\ Len(c[h]) \in Nat
        /\ \A i \in 1 .. Len(c[h]) + 1 : q[i] = IF i = 1 THEN n ELSE c[h][i - 1]
    BY <1>2, <1>11, <1>12, InFront
  <2>2. ASSUME NEW x \in Nodes, On(c[h], x) PROVE On(q, x)
    <3>1. PICK i \in 1 .. Len(c[h]) : c[h][i] = x
      BY <2>2 DEF On
    <3>2. i + 1 \in 1 .. Len(q) /\ q[i + 1] = x
      BY <2>1, <3>1
    <3> QED
      BY <3>2 DEF On
  <2>3. On(q, n)
    BY <2>1 DEF On
  <2>4. ASSUME NEW x \in Nodes, On(q, x), x # n PROVE On(c[h], x)
    <3>1. PICK i \in 1 .. Len(q) : q[i] = x
      BY <2>4 DEF On
    <3>2. i - 1 \in 1 .. Len(c[h]) /\ c[h][i - 1] = x
      BY <2>1, <2>4, <3>1
    <3> QED
      BY <3>2 DEF On
  <2> QED
    BY <2>1, <2>2, <2>3, <2>4
<1>14. d = [c EXCEPT ![h] = q]
  BY <1>12
<1> HIDE DEF d
<1>15. d \in [Buckets -> Seq(Nodes)] /\ \A b \in Buckets : d[b] = IF b = h THEN q ELSE c[b]
  BY <1>2, <1>11, <1>13, <1>14
<1>16. ASSUME NEW b \in Buckets PROVE Path(NextsOf(t), t.table[b], d[b])
  <2>1. CASE b = h
    <3>1. Path(NextsOf(s), s.table[h], c[h])
      BY <1>2, <1>11
    <3>2. ~On(c[h], n) /\ NextsOf(t)[n] = s.table[h] /\ \A x \in Nodes : On(c[h], x) => NextsOf(t)[x] = NextsOf(s)[x]
      BY <1>2, <1>10
    <3>3. Path(NextsOf(t), n, <<n>> \o c[h])
      BY <3>1, <3>2, PathFront
    <3> QED
      BY <1>2, <1>7, <1>8, <1>12, <1>15, <2>1, <3>3
  <2>2. CASE b # h
    <3>1. Path(NextsOf(s), s.table[b], c[b])
      BY <1>11
    <3>2. \A x \in Nodes : On(c[b], x) => NextsOf(t)[x] = NextsOf(s)[x]
      BY <1>10
    <3>3. Path(NextsOf(t), s.table[b], c[b])
      BY <3>1, <3>2, PathSame
    <3> QED
      BY <1>7, <1>8, <1>15, <2>2, <3>3
  <2> QED
    BY <2>1, <2>2
<1>17. ASSUME NEW b \in Buckets, NEW x \in Nodes, On(d[b], x) PROVE fnv1a(t.node[x].key) = b
  <2>1. t.node[x].key = s.node[x].key
    BY <1>9 DEF Rechained
  <2>2. On(c[b], x) \/ (b = h /\ x = n)
    BY <1>13, <1>15, <1>17
  <2> QED
    BY <1>11, <2>1, <2>2
<1>18. Chains(t, d)
  BY <1>15, <1>16, <1>17 DEF Chains
<1>19. \A m \in Nodes : m # n => t.node[m].next_bkt = s.node[m].next_bkt
  BY <1>6, <1>8
<1> QED
  BY <1>9, <1>18, <1>19 DEF t, d

LEMMA BktRemove ==
    ASSUME NEW s \in Maps, NEW c, Chains(s, c), NEW h \in Buckets, NEW p \in 1 .. Len(c[h]), NEW n, n = c[h][p]
    PROVE  /\ Rechained(s, bkt_remove(s, n))
           /\ Chains(bkt_remove(s, n), [c EXCEPT ![h] = Without(@, p)])
           /\ \A x \in Nodes : s.node[x].next_bkt = Nil => bkt_remove(s, n).node[x].next_bkt = Nil
<1> DEFINE t == bkt_remove(s, n)
           d == [c EXCEPT ![h] = Without(@, p)]
           x == s.node[n].next_bkt
           table == [s.table EXCEPT ![h] = IF @ = n THEN x ELSE @]
           next(m) == IF m = n THEN Nil ELSE IF s.node[m].next_bkt = n THEN x ELSE s.node[m].next_bkt
           node == [m \in Nodes |-> IF m = n THEN [s.node[n] EXCEPT !.next_bkt = Nil]
                                    ELSE IF s.node[m].next_bkt = n THEN [s.node[m] EXCEPT !.next_bkt = x]
                                    ELSE s.node[m]]
<1>1. /\ c \in [Buckets -> Seq(Nodes)] /\ \A b \in Buckets : Path(NextsOf(s), s.table[b], c[b])
      /\ \A b \in Buckets : \A m \in Nodes : On(c[b], m) => fnv1a(s.node[m].key) = b
  BY DEF Chains
<1>2. PICK l \in Seq(Nodes) : l = c[h]
  BY <1>1
<1>3. /\ Len(l) \in Nat /\ \A i \in 1 .. Len(l) : l[i] \in Nodes /\ l[i] # Nil
      /\ p \in 1 .. Len(l) /\ n = l[p] /\ n \in Nodes /\ n # Nil
  BY <1>2, NodesAt
<1>4. /\ Path(NextsOf(s), s.table[h], l) /\ Once(l) /\ s.table[h] = At(l, 1)
      /\ \A i \in 1 .. Len(l) : s.node[l[i]].next_bkt = At(l, i + 1)
  BY <1>1, <1>2, <1>3 DEF Path, NextsOf
<1>5. s.node \in [Nodes -> Recs] /\ s.table \in [Buckets -> Refs] /\ s.node[n] \in Recs /\ x \in Refs /\ x = At(l, p + 1)
  BY <1>3, <1>4 DEF Maps, Recs
<1>6. On(c[h], n) /\ fnv1a(s.node[n].key) = h
  <2>1. On(l, n)
    BY <1>3 DEF On
  <2> QED
    BY <1>1, <1>2, <1>3, <2>1
<1>7. t = [s EXCEPT !.table = table, !.node = node]
  BY <1>6 DEF bkt_remove
<1> HIDE DEF t, x
<1>8. table \in [Buckets -> Refs] /\ \A b \in Buckets : table[b] = IF b = h /\ s.table[h] = n THEN x ELSE s.table[b]
  BY <1>5
<1> HIDE DEF table
<1>9. /\ node \in [Nodes -> Recs]
      /\ \A m \in Nodes : /\ node[m].next_bkt = next(m)
                          /\ node[m].key = s.node[m].key /\ node[m].val = s.node[m].val
                          /\ node[m].prev = s.node[m].prev /\ node[m].next = s.node[m].next
                          /\ node[m].live = s.node[m].live
  <2> SUFFICES ASSUME NEW m \in Nodes
               PROVE  /\ node[m] \in Recs /\ node[m].next_bkt = next(m)
                      /\ node[m].key = s.node[m].key /\ node[m].val = s.node[m].val
                      /\ node[m].prev = s.node[m].prev /\ node[m].next = s.node[m].next
                      /\ node[m].live = s.node[m].live
    OBVIOUS
  <2>1. s.node[m] \in Recs /\ x \in Refs /\ Nil \in Refs
    BY <1>5 DEF Refs
  <2>2. CASE m = n
    BY <2>1, <2>2 DEF Recs
  <2>3. CASE m # n /\ s.node[m].next_bkt = n
    BY <2>1, <2>3 DEF Recs
  <2>4. CASE m # n /\ s.node[m].next_bkt # n
    BY <2>1, <2>4
  <2> QED
    BY <2>2, <2>3, <2>4
<1> HIDE DEF node
<1>10. /\ t \in Maps /\ t.count = s.count /\ t.head = s.head /\ t.tail = s.tail
       /\ t.node = node /\ t.table = table
  BY <1>7, <1>8, <1>9 DEF Maps
<1>11. Rechained(s, t)
  BY <1>9, <1>10 DEF Rechained
<1>12. \A m \in Nodes : NextsOf(t)[m] = next(m) /\ NextsOf(s)[m] = s.node[m].next_bkt
  BY <1>9, <1>10 DEF NextsOf
<1>13. d \in [Buckets -> Seq(Nodes)] /\ \A b \in Buckets : d[b] = IF b = h THEN Without(l, p) ELSE c[b]
  <2>1. Without(l, p) \in Seq(Nodes)
    BY <1>3, Removed
  <2> QED
    BY <1>1, <1>2, <2>1
<1> HIDE DEF d
<1>14. Path(NextsOf(t), t.table[h], Without(l, p))
  <2>1. ASSUME NEW i \in 1 .. Len(l), i # p
        PROVE  NextsOf(t)[l[i]] = IF i = p - 1 THEN At(l, p + 1) ELSE NextsOf(s)[l[i]]
    <3>1. l[i] \in Nodes /\ l[i] # n
      BY <1>3, <1>4, <2>1 DEF Once
    <3>2. s.node[l[i]].next_bkt = n <=> i = p - 1
      <4>1. s.node[l[i]].next_bkt = At(l, i + 1) /\ n = l[p] /\ i + 1 \in Int
        BY <1>3, <1>4
      <4>2. l[p] = At(l, i + 1) <=> p = i + 1
        BY <1>3, <1>4, <4>1, OnceAt
      <4> QED
        BY <4>1, <4>2
    <3> QED
      BY <1>5, <1>12, <3>1, <3>2
  <2>2. Path(NextsOf(t), IF p = 1 THEN At(l, 2) ELSE s.table[h], Without(l, p))
    BY <1>3, <1>4, <2>1, PathWithout
  <2>3. s.table[h] = n <=> p = 1
    BY <1>3, <1>4 DEF Once, At
  <2>4. t.table[h] = IF p = 1 THEN At(l, 2) ELSE s.table[h]
    BY <1>5, <1>8, <1>10, <2>3
  <2> QED
    BY <2>2, <2>4
<1>15. ASSUME NEW b \in Buckets, b # h PROVE Path(NextsOf(t), t.table[b], c[b])
  <2>1. Path(NextsOf(s), s.table[b], c[b]) /\ t.table[b] = s.table[b] /\ c[b] \in Seq(Nodes) /\ ~On(c[b], n)
    BY <1>1, <1>3, <1>6, <1>8, <1>10, <1>15
  <2>2. ASSUME NEW m \in Nodes, On(c[b], m) PROVE NextsOf(t)[m] = NextsOf(s)[m]
    <3>1. PICK i \in 1 .. Len(c[b]) : c[b][i] = m
      BY <2>2 DEF On
    <3>2. NextsOf(s)[m] = At(c[b], i + 1)
      BY <2>1, <3>1 DEF Path
    <3>3. NextsOf(s)[m] # n
      BY <1>3, <2>1, <3>2 DEF At, On
    <3>4. m # n
      BY <2>1, <2>2
    <3> QED
      BY <1>12, <3>3, <3>4
  <2> QED
    BY <2>1, <2>2, PathSame
<1>16. \A b \in Buckets : Path(NextsOf(t), t.table[b], d[b])
  BY <1>13, <1>14, <1>15
<1>17. ASSUME NEW b \in Buckets, NEW m \in Nodes, On(d[b], m) PROVE fnv1a(t.node[m].key) = b
  <2>1. t.node[m].key = s.node[m].key
    BY <1>11 DEF Rechained
  <2>2. On(c[b], m)
    <3>1. CASE b = h
      BY <1>2, <1>3, <1>4, <1>13, <1>17, <3>1, WithoutOnce
    <3>2. CASE b # h
      BY <1>13, <1>17, <3>2
    <3> QED
      BY <3>1, <3>2
  <2> QED
    BY <1>1, <2>1, <2>2
<1>18. Chains(t, d)
  BY <1>13, <1>16, <1>17 DEF Chains
<1>19. ASSUME NEW m \in Nodes, s.node[m].next_bkt = Nil PROVE t.node[m].next_bkt = Nil
  BY <1>3, <1>9, <1>10, <1>19
<1> QED
  BY <1>11, <1>18, <1>19 DEF t, d

-----------------------------------------------------------------------------
(* The invariant                                                             *)

\* The nodes of the list are the live ones, each of them is in the chain of its key, and no two
\* have one key or one value.
ListCore(s, l, c) ==
    /\ s \in Maps /\ Listing(s, l) /\ Chains(s, c)
    /\ s.count = Len(l) /\ Len(l) <= Capacity
    /\ \A n \in Nodes : s.node[n].live <=> On(l, n)
    /\ \A n \in Nodes : ~On(l, n) => s.node[n].next = Nil /\ s.node[n].next_bkt = Nil
    /\ \A b \in Buckets : \A n \in Nodes : On(c[b], n) => On(l, n)
    /\ \A n \in Nodes : On(l, n) => On(c[fnv1a(s.node[n].key)], n)
    /\ \A n \in Nodes : On(l, n) => s.node[n].key \in Keys /\ s.node[n].val \in Values
    /\ \A m, n \in Nodes : On(l, m) /\ On(l, n) /\ (s.node[m].key = s.node[n].key \/ s.node[m].val = s.node[n].val) => m = n

LruInv ==
    \E l, c : /\ ListCore(lr, l, c)
              /\ Map!Held(Entries(lr, l)) \cap unused = {}
              /\ unused \subseteq Values /\ evicted \in [Values -> Nat]

-----------------------------------------------------------------------------
(* Walks along the pointers                                                  *)

LEMMA Suffix ==
    ASSUME NEW S, NEW l \in Seq(S), NEW i \in 1 .. Len(l)
    PROVE  <<l[i]>> \o SubSeq(l, i + 1, Len(l)) = SubSeq(l, i, Len(l))
<1> DEFINE a == SubSeq(l, i + 1, Len(l))
           b == SubSeq(l, i, Len(l))
<1>1. Len(l) \in Nat /\ l[i] \in S
  BY LenProperties, ElementOfSeq
<1>2. a \in Seq(S) /\ Len(a) = Len(l) - i /\ \A j \in 1 .. Len(l) - i : a[j] = l[i + j]
  BY <1>1, SubSeqProperties
<1>3. b \in Seq(S) /\ Len(b) = Len(l) - i + 1 /\ \A j \in 1 .. Len(l) - i + 1 : b[j] = l[i + j - 1]
  BY <1>1, SubSeqProperties
<1> HIDE DEF a, b
<1>4. /\ <<l[i]>> \o a \in Seq(S) /\ Len(<<l[i]>> \o a) = Len(a) + 1
      /\ \A j \in 1 .. Len(a) + 1 : (<<l[i]>> \o a)[j] = IF j = 1 THEN l[i] ELSE a[j - 1]
  BY <1>1, <1>2, InFront
<1>5. PICK k : k = <<l[i]>> \o a
  OBVIOUS
<1>6. k \in Seq(S) /\ Len(k) = Len(b) /\ \A j \in 1 .. Len(k) : k[j] = b[j]
  <2>1. k \in Seq(S) /\ Len(k) = Len(l) - i + 1
    BY <1>1, <1>2, <1>4, <1>5
  <2>2. ASSUME NEW j \in 1 .. Len(k) PROVE k[j] = b[j]
    <3>1. CASE j = 1
      BY <1>1, <1>3, <1>4, <1>5, <2>1, <3>1
    <3>2. CASE j # 1
      <4>1. j - 1 \in 1 .. Len(l) - i /\ k[j] = a[j - 1]
        BY <1>1, <1>2, <1>4, <1>5, <2>1, <3>2
      <4>2. a[j - 1] = l[i + (j - 1)] /\ i + (j - 1) = i + j - 1
        BY <1>2, <4>1
      <4> QED
        BY <1>1, <1>3, <2>1, <4>1, <4>2
    <3> QED
      BY <3>1, <3>2
  <2> QED
    BY <1>3, <2>1, <2>2
<1>7. k = b
  BY <1>3, <1>6, SameSeq
<1> QED
  BY <1>5, <1>7 DEF a, b

LEMMA Listed ==
    ASSUME NEW s, NEW l, NEW c, ListCore(s, l, c)
    PROVE  RecencyList(s) = l
<1> DEFINE Def(f) == f = [n \in Nodes \cup {Nil} |-> IF n = Nil THEN <<>> ELSE <<n>> \o f[s.node[n].next]]
           walk == CHOOSE f : Def(f)
           N == Len(l)
           rest(i) == SubSeq(l, i, N)
<1>1. /\ s \in Maps /\ Path(Nexts(s), s.head, l) /\ \A n \in Nodes : ~On(l, n) => s.node[n].next = Nil
      /\ l \in Seq(Nodes) /\ Once(l) /\ s.head = At(l, 1)
  BY DEF ListCore, Listing, Path
<1>2. N \in Nat /\ \A i \in 1 .. N : l[i] \in Nodes /\ l[i] # Nil /\ On(l, l[i]) /\ s.node[l[i]].next = At(l, i + 1)
  BY <1>1, NodesAt DEF Path, Nexts, On
<1>3. \A i \in 1 .. N : rest(i) = <<l[i]>> \o rest(i + 1)
  BY <1>1, Suffix
<1>4. rest(N + 1) = <<>>
  <2>1. rest(N + 1) \in Seq(Nodes) /\ Len(rest(N + 1)) = 0
    BY <1>1, <1>2, SubSeqProperties
  <2> QED
    BY <2>1, EmptySeq
<1>5. rest(1) = l
  <2> DEFINE r == rest(1)
  <2>1. r \in Seq(Nodes) /\ Len(r) = N /\ \A i \in 1 .. N : r[i] = l[i]
    BY <1>1, <1>2, SubSeqProperties
  <2> HIDE DEF r
  <2>2. r = l
    BY <1>1, <2>1, SameSeq
  <2> QED
    BY <2>2 DEF r
<1> DEFINE place(n) == CHOOSE i \in 1 .. N : l[i] = n
           g == [n \in Nodes \cup {Nil} |-> IF n = Nil THEN <<>> ELSE IF On(l, n) THEN rest(place(n)) ELSE <<n>>]
<1>6. \A i \in 1 .. N : place(l[i]) = i
  BY <1>1 DEF Once
<1> HIDE DEF rest, place
<1>7. \A i \in 1 .. N + 1 : g[At(l, i)] = rest(i)
  <2> TAKE i \in 1 .. N + 1
  <2>1. CASE i \in 1 .. N
    BY <1>2, <1>6, <2>1 DEF At
  <2>2. CASE i = N + 1
    BY <1>2, <1>4, <2>2 DEF At
  <2> QED
    BY <1>2, <2>1, <2>2
<1>8. ASSUME NEW n \in Nodes \cup {Nil}
      PROVE  g[n] = IF n = Nil THEN <<>> ELSE <<n>> \o g[s.node[n].next]
  <2>1. CASE n = Nil
    BY <2>1
  <2>2. CASE n # Nil /\ On(l, n)
    <3>1. PICK i \in 1 .. N : l[i] = n
      BY <2>2 DEF On
    <3>2. g[n] = rest(i) /\ g[s.node[n].next] = rest(i + 1)
      <4>1. i \in 1 .. N + 1 /\ i + 1 \in 1 .. N + 1 /\ At(l, i) = n /\ At(l, i + 1) = s.node[n].next
        BY <1>2, <3>1 DEF At
      <4> HIDE DEF g
      <4> QED
        BY <1>7, <4>1
    <3> QED
      BY <1>3, <2>2, <3>1, <3>2
  <2>3. CASE n # Nil /\ ~On(l, n)
    <3>1. n \in Nodes /\ s.node[n].next = Nil
      BY <1>1, <2>3
    <3>2. g[n] = <<n>> /\ g[Nil] = <<>>
      BY <2>3
    <3>3. <<n>> \o <<>> = <<n>>
      OBVIOUS
    <3> HIDE DEF g
    <3> QED
      BY <2>3, <3>1, <3>2, <3>3
  <2> QED
    BY <2>1, <2>2, <2>3
<1>9. Def(g)
  <2> DEFINE h == [n \in Nodes \cup {Nil} |-> IF n = Nil THEN <<>> ELSE <<n>> \o g[s.node[n].next]]
  <2>1. g = [n \in Nodes \cup {Nil} |-> g[n]]
    OBVIOUS
  <2> HIDE DEF g
  <2>2. g = h
    BY <1>8, <2>1
  <2> QED
    BY <2>2
<1> HIDE DEF g
<1>10. Def(walk)
  BY <1>9, Zenon
<1>11. RecencyList(s) = walk[s.head]
  BY DEF RecencyList
<1>12. \A n \in Nodes \cup {Nil} : walk[n] = IF n = Nil THEN <<>> ELSE <<n>> \o walk[s.node[n].next]
  <2> HIDE DEF walk
  <2> QED
    BY <1>10
<1> HIDE DEF walk
<1> DEFINE T == {k \in Nat : k <= N => walk[At(l, N + 1 - k)] = rest(N + 1 - k)}
<1>13. 0 \in T
  <2>1. N + 1 - 0 = N + 1 /\ At(l, N + 1) = Nil
    BY <1>2 DEF At
  <2>2. walk[Nil] = <<>>
    BY <1>12
  <2> QED
    BY <1>4, <2>1, <2>2
<1>14. ASSUME NEW k \in T PROVE k + 1 \in T
  <2>0. k \in Nat /\ N + 1 - (k + 1) = N - k /\ (k <= N => walk[At(l, N + 1 - k)] = rest(N + 1 - k))
    BY <1>2
  <2> SUFFICES ASSUME k + 1 <= N PROVE walk[At(l, N - k)] = rest(N - k)
    BY <2>0
  <2> HIDE DEF T
  <2>1. PICK i \in 1 .. N : i = N - k /\ i + 1 = N + 1 - k
    <3>1. N \in Nat /\ k \in Nat
      BY <1>2, <2>0
    <3>2. N - k \in 1 .. N /\ (N - k) + 1 = N + 1 - k
      BY <3>1
    <3> QED
      BY <3>2
  <2>2. walk[At(l, i + 1)] = rest(i + 1)
    BY <1>2, <2>0, <2>1
  <2>3. walk[l[i]] = <<l[i]>> \o walk[At(l, i + 1)]
    BY <1>2, <1>12
  <2>4. At(l, i) = l[i]
    BY DEF At
  <2> QED
    BY <1>3, <2>1, <2>2, <2>3, <2>4
<1> HIDE DEF T
<1>15. T = Nat
  <2>1. T \in SUBSET Nat
    BY DEF T
  <2> QED
    BY <1>13, <1>14, <2>1, AllNumbers
<1>16. walk[At(l, 1)] = rest(1)
  <2>1. N \in T /\ N + 1 - N = 1
    BY <1>2, <1>15
  <2> QED
    BY <1>2, <2>1 DEF T
<1> QED
  BY <1>1, <1>5, <1>11, <1>16

LEMMA CoreFacts ==
    ASSUME NEW s, NEW l, NEW c, ListCore(s, l, c)
    PROVE  /\ s \in Maps /\ l \in Seq(Nodes) /\ Once(l) /\ s.head = At(l, 1) /\ s.tail = At(l, Len(l))
           /\ Len(l) \in Nat /\ Len(l) <= Capacity /\ s.count = Len(l)
           /\ \A i \in 1 .. Len(l) : l[i] \in Nodes /\ l[i] # Nil /\ On(l, l[i])
           /\ \A n \in Nodes : On(l, n) => n # Nil /\ s.node[n].key \in Keys /\ s.node[n].key \in Nat /\ s.node[n].val \in Values
           /\ c \in [Buckets -> Seq(Nodes)]
           /\ \A b \in Buckets : Once(c[b]) /\ s.table[b] = At(c[b], 1)
           /\ \A b \in Buckets : \A i \in 1 .. Len(c[b]) : s.node[c[b][i]].next_bkt = At(c[b], i + 1)
<1>1. /\ s \in Maps /\ l \in Seq(Nodes) /\ Once(l) /\ s.head = At(l, 1) /\ s.tail = At(l, Len(l))
      /\ Len(l) <= Capacity /\ s.count = Len(l) /\ c \in [Buckets -> Seq(Nodes)]
  BY DEF ListCore, Listing, Path, Chains
<1>2. Len(l) \in Nat /\ \A i \in 1 .. Len(l) : l[i] \in Nodes /\ l[i] # Nil /\ On(l, l[i])
  BY <1>1, NodesAt DEF On
<1>3. \A n \in Nodes : On(l, n) => n # Nil /\ s.node[n].key \in Keys /\ s.node[n].key \in Nat /\ s.node[n].val \in Values
  BY NodeAssumption, LruAssumption DEF ListCore
<1>4. ASSUME NEW b \in Buckets
      PROVE  /\ Once(c[b]) /\ s.table[b] = At(c[b], 1)
             /\ \A i \in 1 .. Len(c[b]) : s.node[c[b][i]].next_bkt = At(c[b], i + 1)
  <2>1. Path(NextsOf(s), s.table[b], c[b])
    BY DEF ListCore, Chains
  <2>2. \A i \in 1 .. Len(c[b]) : c[b][i] \in Nodes
    BY <1>1, NodesAt
  <2> QED
    BY <2>1, <2>2 DEF Path, NextsOf
<1> QED
  BY <1>1, <1>2, <1>3, <1>4

\* What the walk along a chain finds.
LEMMA Found ==
    ASSUME NEW s, NEW l, NEW c, ListCore(s, l, c), NEW k \in Keys, NEW r, r = find_node(s, k)
    PROVE  \/ r = Nil /\ \A n \in Nodes : On(l, n) => s.node[n].key # k
           \/ r \in Nodes /\ r # Nil /\ On(l, r) /\ s.node[r].key = k
<1> DEFINE Def(f) == f = [n \in Nodes \cup {Nil} |-> IF n = Nil \/ s.node[n].key = k THEN n ELSE f[s.node[n].next_bkt]]
           walk == CHOOSE f : Def(f)
           q == c[fnv1a(k)]
           Behind(m, n) == \E b \in Buckets : \E i \in 1 .. Len(c[b]) : \E j \in 1 .. Len(c[b]) :
                              i < j /\ c[b][i] = m /\ c[b][j] = n
           Ahead(n) == {m \in Nodes : Behind(n, m) /\ s.node[m].key = k}
           g == [n \in Nodes \cup {Nil} |-> IF n = Nil \/ s.node[n].key = k THEN n
                                            ELSE IF Ahead(n) # {} THEN CHOOSE m \in Ahead(n) : TRUE ELSE Nil]
<1>1. /\ s \in Maps /\ c \in [Buckets -> Seq(Nodes)]
      /\ \A b \in Buckets : Once(c[b]) /\ s.table[b] = At(c[b], 1)
      /\ \A b \in Buckets : \A i \in 1 .. Len(c[b]) : s.node[c[b][i]].next_bkt = At(c[b], i + 1)
  BY CoreFacts
<1>2. \A b \in Buckets : Len(c[b]) \in Nat /\ \A i \in 1 .. Len(c[b]) : c[b][i] \in Nodes /\ c[b][i] # Nil /\ On(c[b], c[b][i])
  BY <1>1, NodesAt DEF On
<1>3. /\ \A n \in Nodes : ~On(l, n) => s.node[n].next_bkt = Nil
      /\ \A b \in Buckets : \A n \in Nodes : On(c[b], n) => On(l, n) /\ fnv1a(s.node[n].key) = b
      /\ \A n \in Nodes : On(l, n) => fnv1a(s.node[n].key) \in Buckets /\ On(c[fnv1a(s.node[n].key)], n)
      /\ \A m, n \in Nodes : On(l, m) /\ On(l, n) /\ s.node[m].key = s.node[n].key => m = n
  <2>1. \A n \in Nodes : On(l, n) => s.node[n].key \in Nat
    BY CoreFacts
  <2>2. ASSUME NEW n \in Nodes, On(l, n)
        PROVE  fnv1a(s.node[n].key) \in Buckets /\ On(c[fnv1a(s.node[n].key)], n)
    BY <2>1, <2>2, BucketOf DEF ListCore
  <2>3. /\ \A b \in Buckets : \A n \in Nodes : On(c[b], n) => On(l, n)
        /\ \A n \in Nodes : ~On(l, n) => s.node[n].next_bkt = Nil
        /\ \A m, n \in Nodes : On(l, m) /\ On(l, n) /\ s.node[m].key = s.node[n].key => m = n
    BY DEF ListCore
  <2>4. \A b \in Buckets : \A n \in Nodes : On(c[b], n) => fnv1a(s.node[n].key) = b
    BY DEF ListCore, Chains
  <2> QED
    BY <2>2, <2>3, <2>4
<1>4. fnv1a(k) \in Buckets
  BY BucketOf, LruAssumption
<1> HIDE DEF Behind
<1>5. ASSUME NEW n \in Nodes, NEW m \in Ahead(n) PROVE Ahead(n) = {m}
  <2>1. ASSUME NEW a \in Ahead(n) PROVE On(l, a) /\ a \in Nodes /\ s.node[a].key = k
    BY <1>2, <1>3 DEF Behind
  <2> QED
    BY <1>3, <2>1
<1>6. ASSUME NEW n \in Nodes, s.node[n].key # k PROVE g[n] = g[s.node[n].next_bkt]
  <2>1. CASE ~On(l, n)
    <3>1. Ahead(n) = {}
      BY <1>2, <1>3, <2>1 DEF Behind
    <3> QED
      BY <1>3, <1>6, <2>1, <3>1, NodeAssumption
  <2>2. CASE On(l, n)
    <3>0. PICK b \in Buckets : On(c[b], n)
      BY <1>3, <2>2
    <3>1. PICK i \in 1 .. Len(c[b]) : c[b][i] = n
      BY <3>0 DEF On
    <3>2. PICK x : x = s.node[n].next_bkt
      OBVIOUS
    <3>3. x = At(c[b], i + 1)
      BY <1>1, <3>1, <3>2
    <3>4. ASSUME NEW b2 \in Buckets, NEW i2 \in 1 .. Len(c[b2]), c[b2][i2] = n PROVE b2 = b /\ i2 = i
      <4>1. b2 = b
        BY <1>2, <1>3, <3>1, <3>4
      <4> QED
        BY <1>1, <3>1, <3>4, <4>1 DEF Once
    <3>5. CASE ~(i + 1 \in 1 .. Len(c[b]))
      <4>1. x = Nil
        BY <3>3, <3>5 DEF At
      <4>2. Ahead(n) = {}
        <5> SUFFICES ASSUME NEW m \in Nodes, Behind(n, m) PROVE FALSE
          OBVIOUS
        <5>0. PICK b2 \in Buckets : \E i2 \in 1 .. Len(c[b2]) : \E j2 \in 1 .. Len(c[b2]) : i2 < j2 /\ c[b2][i2] = n
          BY DEF Behind
        <5>1. PICK i2 \in 1 .. Len(c[b2]) : \E j2 \in 1 .. Len(c[b2]) : i2 < j2 /\ c[b2][i2] = n
          BY <5>0
        <5>2. b2 = b /\ i2 = i
          BY <3>4, <5>1
        <5> QED
          BY <1>2, <3>5, <5>1, <5>2
      <4> QED
        BY <1>6, <3>2, <4>1, <4>2, NodeAssumption
    <3>6. CASE i + 1 \in 1 .. Len(c[b])
      <4>1. x = c[b][i + 1] /\ x \in Nodes /\ x # Nil
        BY <1>2, <3>3, <3>6 DEF At
      <4>2. \A m \in Nodes : Behind(n, m) <=> m = x \/ Behind(x, m)
        <5> TAKE m \in Nodes
        <5>1. ASSUME Behind(n, m) PROVE m = x \/ Behind(x, m)
          <6>a. PICK b2 \in Buckets : \E i2 \in 1 .. Len(c[b2]) : \E j2 \in 1 .. Len(c[b2]) :
                       i2 < j2 /\ c[b2][i2] = n /\ c[b2][j2] = m
            BY <5>1 DEF Behind
          <6>b. PICK i2 \in 1 .. Len(c[b2]) : \E j2 \in 1 .. Len(c[b2]) :
                       i2 < j2 /\ c[b2][i2] = n /\ c[b2][j2] = m
            BY <6>a
          <6>1. PICK j2 \in 1 .. Len(c[b2]) : i2 < j2 /\ c[b2][i2] = n /\ c[b2][j2] = m
            BY <6>b
          <6>2. b2 = b /\ i2 = i
            BY <3>4, <6>1
          <6>3. j2 = i + 1 \/ i + 1 < j2
            BY <1>2, <6>1, <6>2
          <6> QED
            BY <3>6, <4>1, <6>1, <6>2, <6>3 DEF Behind
        <5>2. ASSUME m = x PROVE Behind(n, m)
          <6>1. i < i + 1
            BY <1>2
          <6> QED
            BY <3>1, <3>6, <4>1, <5>2, <6>1 DEF Behind
        <5>3. ASSUME Behind(x, m) PROVE Behind(n, m)
          <6>a. PICK b2 \in Buckets : \E i2 \in 1 .. Len(c[b2]) : \E j2 \in 1 .. Len(c[b2]) :
                       i2 < j2 /\ c[b2][i2] = x /\ c[b2][j2] = m
            BY <5>3 DEF Behind
          <6>b. PICK i2 \in 1 .. Len(c[b2]) : \E j2 \in 1 .. Len(c[b2]) :
                       i2 < j2 /\ c[b2][i2] = x /\ c[b2][j2] = m
            BY <6>a
          <6>1. PICK j2 \in 1 .. Len(c[b2]) : i2 < j2 /\ c[b2][i2] = x /\ c[b2][j2] = m
            BY <6>b
          <6>2. b2 = b
            BY <1>2, <1>3, <3>6, <4>1, <6>1
          <6>3. i2 = i + 1
            BY <1>1, <3>6, <4>1, <6>1, <6>2 DEF Once
          <6>4. i < j2
            BY <1>2, <6>1, <6>2, <6>3
          <6> QED
            BY <3>1, <6>1, <6>2, <6>4 DEF Behind
        <5> QED
          BY <5>1, <5>2, <5>3
      <4>3. CASE s.node[x].key = k
        <5>1. x \in Ahead(n)
          BY <4>1, <4>2, <4>3
        <5>2. Ahead(n) = {x}
          BY <1>5, <5>1
        <5> HIDE DEF Ahead
        <5>3. g[n] = x /\ g[x] = x
          BY <1>6, <4>1, <4>3, <5>2, NodeAssumption
        <5> QED
          BY <3>2, <5>3
      <4>4. CASE s.node[x].key # k
        <5>1. Ahead(n) = Ahead(x)
          BY <4>2, <4>4
        <5> HIDE DEF Ahead
        <5>2. n # Nil
          BY NodeAssumption
        <5> QED
          BY <1>6, <3>2, <4>1, <4>4, <5>1, <5>2
      <4> QED
        BY <4>3, <4>4
    <3> QED
      BY <3>5, <3>6
  <2> QED
    BY <2>1, <2>2
<1>7. \A n \in Nodes \cup {Nil} : n = Nil \/ s.node[n].key = k => g[n] = n
  OBVIOUS
<1>8. g = [n \in Nodes \cup {Nil} |-> g[n]]
  OBVIOUS
<1> HIDE DEF g
<1>9. Def(g)
  <2> DEFINE h == [n \in Nodes \cup {Nil} |-> IF n = Nil \/ s.node[n].key = k THEN n ELSE g[s.node[n].next_bkt]]
  <2>1. \A n \in Nodes \cup {Nil} : g[n] = IF n = Nil \/ s.node[n].key = k THEN n ELSE g[s.node[n].next_bkt]
    BY <1>6, <1>7
  <2>2. g = h
    BY <1>8, <2>1
  <2> QED
    BY <2>2
<1>10. Def(walk)
  BY <1>9, Zenon
<1>11. find_node(s, k) = walk[s.table[fnv1a(k)]]
  BY DEF find_node
<1>12. \A n \in Nodes \cup {Nil} : walk[n] = IF n = Nil \/ s.node[n].key = k THEN n ELSE walk[s.node[n].next_bkt]
  <2> HIDE DEF walk
  <2> QED
    BY <1>10
<1> HIDE DEF walk
<1>13. PICK N \in Nat : N = Len(q)
  BY <1>2, <1>4
<1> DEFINE Good(i, x) ==
             \/ x = Nil /\ \A j \in 1 .. N : i <= j => s.node[q[j]].key # k
             \/ x \in Nodes /\ x # Nil /\ On(q, x) /\ s.node[x].key = k
           T == {d \in Nat : d <= N => Good(N + 1 - d, walk[At(q, N + 1 - d)])}
<1>14. \A i \in 1 .. N : q[i] \in Nodes /\ q[i] # Nil /\ On(q, q[i]) /\ s.node[q[i]].next_bkt = At(q, i + 1) /\ At(q, i) = q[i]
  BY <1>1, <1>2, <1>4, <1>13 DEF At
<1>15. At(q, N + 1) = Nil
  BY <1>13 DEF At
<1>16. s.table[fnv1a(k)] = At(q, 1) /\ \A n \in Nodes : On(q, n) => On(l, n)
  BY <1>1, <1>3, <1>4
<1>17. \A n \in Nodes : On(l, n) /\ s.node[n].key = k => On(q, n)
  BY <1>3
<1> HIDE DEF q
<1>18. 0 \in T
  <2>1. N + 1 - 0 = N + 1 /\ walk[Nil] = Nil /\ \A j \in 1 .. N : ~(N + 1 <= j)
    BY <1>12
  <2> QED
    BY <1>15, <2>1
<1>19. ASSUME NEW d \in T PROVE d + 1 \in T
  <2>0. d \in Nat /\ N + 1 - (d + 1) = N - d /\ (d <= N => Good(N + 1 - d, walk[At(q, N + 1 - d)]))
    OBVIOUS
  <2> SUFFICES ASSUME d + 1 <= N PROVE Good(N - d, walk[At(q, N - d)])
    BY <2>0
  <2> HIDE DEF T
  <2>1. PICK i \in 1 .. N : i = N - d /\ i + 1 = N + 1 - d
    BY <2>0
  <2>2. Good(i + 1, walk[At(q, i + 1)])
    BY <2>0, <2>1
  <2>3. q[i] \in Nodes /\ q[i] # Nil /\ On(q, q[i]) /\ s.node[q[i]].next_bkt = At(q, i + 1) /\ At(q, i) = q[i]
    BY <1>14
  <2>4. CASE s.node[q[i]].key = k
    <3>1. walk[q[i]] = q[i]
      BY <1>12, <2>3, <2>4
    <3> QED
      BY <2>1, <2>3, <2>4, <3>1
  <2>5. CASE s.node[q[i]].key # k
    <3>1. walk[q[i]] = walk[At(q, i + 1)]
      BY <1>12, <2>3, <2>5
    <3>2. \A j \in 1 .. N : i <= j => j = i \/ i + 1 <= j
      OBVIOUS
    <3>3. Good(i, walk[At(q, i + 1)])
      BY <2>2, <2>5, <3>2
    <3> HIDE DEF Good
    <3> QED
      BY <2>1, <2>3, <3>1, <3>3
  <2> QED
    BY <2>4, <2>5
<1>20. Good(1, walk[At(q, 1)])
  <2> HIDE DEF Good
  <2>1. T \in SUBSET Nat
    OBVIOUS
  <2>2. T = Nat
    <3> HIDE DEF T
    <3> QED
      BY <1>18, <1>19, <2>1, AllNumbers
  <2>3. N \in T /\ N + 1 - N = 1
    <3> HIDE DEF T
    <3> QED
      BY <1>13, <2>2
  <2> QED
    BY <2>3
<1>21. r = walk[At(q, 1)]
  BY <1>11, <1>16
<1>22. CASE r = Nil /\ \A j \in 1 .. N : 1 <= j => s.node[q[j]].key # k
  <2>1. ASSUME NEW n \in Nodes, On(q, n) PROVE s.node[n].key # k
    BY <1>13, <1>22, <2>1 DEF On, q
  <2> QED
    BY <1>17, <1>22, <2>1
<1>23. CASE r \in Nodes /\ r # Nil /\ On(q, r) /\ s.node[r].key = k
  BY <1>16, <1>23
<1> QED
  BY <1>20, <1>21, <1>22, <1>23

-----------------------------------------------------------------------------
(* The map that the list stands for                                          *)

EntrySet == [key : Nat, val : Values]
Bears(s, n) == [key |-> s.node[n].key, val |-> s.node[n].val]

\* The keys and values of the nodes of l may be in the map.
Loaded(s, l) == l \in Seq(Nodes) /\ \A n \in Nodes : On(l, n) => s.node[n].key \in Nat /\ s.node[n].val \in Values

LEMMA FrontOn ==
    ASSUME NEW S, NEW n \in S, NEW l \in Seq(S)
    PROVE  \A m : On(<<n>> \o l, m) <=> m = n \/ On(l, m)
<1>1. PICK q : q = <<n>> \o l
  OBVIOUS
<1>2. /\ Len(q) = Len(l) + 1 /\ Len(l) \in Nat
      /\ \A i \in 1 .. Len(l) + 1 : q[i] = IF i = 1 THEN n ELSE l[i - 1]
  BY <1>1, InFront
<1>3. ASSUME NEW m, On(l, m) PROVE On(q, m)
  <2>1. PICK i \in 1 .. Len(l) : l[i] = m
    BY <1>3 DEF On
  <2>2. i + 1 \in 1 .. Len(q) /\ q[i + 1] = m
    BY <1>2, <2>1
  <2> QED
    BY <2>2 DEF On
<1>4. On(q, n)
  BY <1>2 DEF On
<1>5. ASSUME NEW m, On(q, m), m # n PROVE On(l, m)
  <2>1. PICK i \in 1 .. Len(q) : q[i] = m
    BY <1>5 DEF On
  <2>2. i - 1 \in 1 .. Len(l) /\ l[i - 1] = m
    BY <1>2, <1>5, <2>1
  <2> QED
    BY <2>2 DEF On
<1> QED
  BY <1>1, <1>3, <1>4, <1>5

LEMMA EntriesFacts ==
    ASSUME NEW s, NEW l, Loaded(s, l)
    PROVE  /\ Entries(s, l) \in Seq(EntrySet) /\ Len(Entries(s, l)) = Len(l) /\ Len(l) \in Nat
           /\ DOMAIN Entries(s, l) = 1 .. Len(l)
           /\ \A i \in 1 .. Len(l) : Entries(s, l)[i] = Bears(s, l[i]) /\ l[i] \in Nodes /\ On(l, l[i])
           /\ \A i \in 1 .. Len(l) : Entries(s, l)[i].key = s.node[l[i]].key /\ Entries(s, l)[i].val = s.node[l[i]].val
<1>1. Len(l) \in Nat /\ DOMAIN l = 1 .. Len(l) /\ \A i \in 1 .. Len(l) : l[i] \in Nodes /\ On(l, l[i])
  BY NodesAt DEF Loaded, On
<1> DEFINE e == [i \in 1 .. Len(l) |-> Bears(s, l[i])]
<1>2. e = Entries(s, l)
  BY <1>1 DEF Entries, Bears
<1>3. \A i \in 1 .. Len(l) : Bears(s, l[i]) \in EntrySet
  BY <1>1 DEF Loaded, Bears, EntrySet
<1>4. e \in [1 .. Len(l) -> EntrySet]
  BY <1>3
<1>5. /\ e \in Seq(EntrySet) /\ Len(e) = Len(l) /\ DOMAIN e = 1 .. Len(l)
      /\ \A i \in 1 .. Len(l) : e[i] = Bears(s, l[i])
  BY <1>1, <1>4
<1> HIDE DEF e
<1>6. \A i \in 1 .. Len(l) : e[i].key = s.node[l[i]].key /\ e[i].val = s.node[l[i]].val
  BY <1>5 DEF Bears
<1> QED
  BY <1>1, <1>2, <1>5, <1>6

LEMMA EntriesSame ==
    ASSUME NEW s, NEW t, NEW l, Loaded(s, l),
           \A n \in Nodes : On(l, n) => t.node[n].key = s.node[n].key /\ t.node[n].val = s.node[n].val
    PROVE  Loaded(t, l) /\ Entries(t, l) = Entries(s, l)
<1>1. Len(l) \in Nat /\ DOMAIN l = 1 .. Len(l) /\ \A i \in 1 .. Len(l) : l[i] \in Nodes /\ On(l, l[i])
  BY NodesAt DEF Loaded, On
<1>2. Loaded(t, l)
  BY DEF Loaded
<1> QED
  BY <1>1, <1>2 DEF Entries

LEMMA EntriesFront ==
    ASSUME NEW s, NEW l, Loaded(s, l), NEW n \in Nodes, Bears(s, n) \in EntrySet
    PROVE  Loaded(s, <<n>> \o l) /\ Entries(s, <<n>> \o l) = <<Bears(s, n)>> \o Entries(s, l)
<1>1. PICK q : q = <<n>> \o l
  OBVIOUS
<1>2. /\ l \in Seq(Nodes) /\ q \in Seq(Nodes) /\ Len(q) = Len(l) + 1 /\ Len(l) \in Nat
      /\ \A i \in 1 .. Len(l) + 1 : q[i] = IF i = 1 THEN n ELSE l[i - 1]
  BY <1>1, InFront DEF Loaded
<1>3. \A m : On(q, m) <=> m = n \/ On(l, m)
  BY <1>1, <1>2, FrontOn
<1>4. Loaded(s, q)
  <2>1. s.node[n].key \in Nat /\ s.node[n].val \in Values
    BY DEF Bears, EntrySet
  <2> QED
    BY <1>2, <1>3, <2>1 DEF Loaded
<1>5. PICK e : e = Entries(s, l)
  OBVIOUS
<1>6. PICK d : d = Entries(s, q)
  OBVIOUS
<1>7. PICK b \in EntrySet : b = Bears(s, n)
  OBVIOUS
<1>8. e \in Seq(EntrySet) /\ Len(e) = Len(l) /\ \A i \in 1 .. Len(l) : e[i] = Bears(s, l[i])
  BY <1>5, EntriesFacts
<1>9. d \in Seq(EntrySet) /\ Len(d) = Len(q) /\ \A i \in 1 .. Len(q) : d[i] = Bears(s, q[i])
  BY <1>4, <1>6, EntriesFacts
<1>10. PICK g : g = <<b>> \o e
  OBVIOUS
<1>11. /\ g \in Seq(EntrySet) /\ Len(g) = Len(e) + 1
       /\ \A i \in 1 .. Len(e) + 1 : g[i] = IF i = 1 THEN b ELSE e[i - 1]
  BY <1>7, <1>8, <1>10, InFront
<1>12. ASSUME NEW i \in 1 .. Len(d) PROVE d[i] = g[i]
  <2>1. CASE i = 1
    BY <1>2, <1>7, <1>8, <1>9, <1>11, <2>1
  <2>2. CASE i # 1
    <3>1. i - 1 \in 1 .. Len(l) /\ q[i] = l[i - 1]
      BY <1>2, <1>9, <2>2
    <3>2. g[i] = e[i - 1] /\ e[i - 1] = Bears(s, l[i - 1])
      BY <1>2, <1>8, <1>9, <1>11, <2>2, <3>1
    <3> QED
      BY <1>9, <3>1, <3>2
  <2> QED
    BY <2>1, <2>2
<1>13. d = g
  <2>1. Len(d) = Len(g)
    BY <1>2, <1>8, <1>9, <1>11
  <2> QED
    BY <1>9, <1>11, <1>12, <2>1, SameSeq
<1> QED
  BY <1>1, <1>4, <1>5, <1>6, <1>7, <1>10, <1>13

LEMMA EntriesWithout ==
    ASSUME NEW s, NEW l, Loaded(s, l), Once(l), NEW p \in 1 .. Len(l)
    PROVE  Loaded(s, Without(l, p)) /\ Entries(s, Without(l, p)) = Without(Entries(s, l), p)
<1>1. PICK q : q = Without(l, p)
  OBVIOUS
<1>2. /\ l \in Seq(Nodes) /\ q \in Seq(Nodes) /\ Len(q) = Len(l) - 1 /\ Len(l) \in Nat
      /\ \A i \in 1 .. Len(l) - 1 : q[i] = IF i < p THEN l[i] ELSE l[i + 1]
  BY <1>1, Removed DEF Loaded
<1>3. \A m : On(q, m) => On(l, m)
  BY <1>1, <1>2, WithoutOnce
<1>4. Loaded(s, q)
  BY <1>2, <1>3 DEF Loaded
<1>5. PICK e : e = Entries(s, l)
  OBVIOUS
<1>6. PICK d : d = Entries(s, q)
  OBVIOUS
<1>7. PICK g : g = Without(e, p)
  OBVIOUS
<1>8. e \in Seq(EntrySet) /\ Len(e) = Len(l) /\ \A i \in 1 .. Len(l) : e[i] = Bears(s, l[i])
  BY <1>5, EntriesFacts
<1>9. d \in Seq(EntrySet) /\ Len(d) = Len(q) /\ \A i \in 1 .. Len(q) : d[i] = Bears(s, q[i])
  BY <1>4, <1>6, EntriesFacts
<1>10. /\ g \in Seq(EntrySet) /\ Len(g) = Len(e) - 1
       /\ \A i \in 1 .. Len(e) - 1 : g[i] = IF i < p THEN e[i] ELSE e[i + 1]
  BY <1>7, <1>8, Removed
<1>11. ASSUME NEW i \in 1 .. Len(d) PROVE d[i] = g[i]
  <2>1. PICK j \in 1 .. Len(l) : j = IF i < p THEN i ELSE i + 1
    BY <1>2, <1>9
  <2>2. q[i] = l[j] /\ g[i] = e[j]
    BY <1>2, <1>8, <1>9, <1>10, <2>1
  <2> QED
    BY <1>8, <1>9, <2>2
<1>12. d = g
  <2>1. Len(d) = Len(g)
    BY <1>2, <1>8, <1>9, <1>10
  <2> QED
    BY <1>9, <1>10, <1>11, <2>1, SameSeq
<1> QED
  BY <1>1, <1>4, <1>5, <1>6, <1>7, <1>12

\* What the operators of the abstract map make of it, when the node at p bears the key k, and
\* when none does.
LEMMA HasKey ==
    ASSUME NEW s, NEW l, Loaded(s, l), NEW p \in 1 .. Len(l), NEW k, s.node[l[p]].key = k,
           \A i \in 1 .. Len(l) : s.node[l[i]].key = k => i = p
    PROVE  /\ Map!LruHas(Entries(s, l), k)
           /\ Map!LruValue(Entries(s, l), k) = s.node[l[p]].val
           /\ Map!LruDrop(Entries(s, l), k) = Without(Entries(s, l), p)
<1>1. PICK e : e = Entries(s, l)
  OBVIOUS
<1>2. DOMAIN e = 1 .. Len(l) /\ \A i \in 1 .. Len(l) : e[i].key = s.node[l[i]].key /\ e[i].val = s.node[l[i]].val
  BY <1>1, EntriesFacts
<1>3. Map!LruHas(e, k)
  BY <1>2 DEF Map!LruHas, Map!LruKeys
<1>4. Map!LruIndex(e, k) = p
  <2>1. \A i \in DOMAIN e : e[i].key = k <=> i = p
    BY <1>2
  <2> QED
    BY <1>2, <2>1 DEF Map!LruIndex
<1>5. Map!LruValue(e, k) = s.node[l[p]].val
  BY <1>2, <1>4 DEF Map!LruValue
<1>6. Map!LruDrop(e, k) = Without(e, p)
  BY <1>3, <1>4 DEF Map!LruDrop, Map!RemoveAt, Without
<1> QED
  BY <1>1, <1>3, <1>5, <1>6

LEMMA HasNoKey ==
    ASSUME NEW s, NEW l, Loaded(s, l), NEW k, \A i \in 1 .. Len(l) : s.node[l[i]].key # k
    PROVE  /\ ~Map!LruHas(Entries(s, l), k)
           /\ Map!LruDrop(Entries(s, l), k) = Entries(s, l)
<1>1. PICK e : e = Entries(s, l)
  OBVIOUS
<1>2. DOMAIN e = 1 .. Len(l) /\ \A i \in 1 .. Len(l) : e[i].key = s.node[l[i]].key
  BY <1>1, EntriesFacts
<1>3. ~Map!LruHas(e, k)
  BY <1>2 DEF Map!LruHas, Map!LruKeys
<1> QED
  BY <1>1, <1>3 DEF Map!LruDrop

LEMMA HeldValues ==
    ASSUME NEW s, NEW l, Loaded(s, l)
    PROVE  Map!Held(Entries(s, l)) = {s.node[n].val : n \in {m \in Nodes : On(l, m)}}
<1>1. PICK e : e = Entries(s, l)
  OBVIOUS
<1>2. /\ DOMAIN e = 1 .. Len(l)
      /\ \A i \in 1 .. Len(l) : e[i].val = s.node[l[i]].val /\ l[i] \in Nodes /\ On(l, l[i])
  BY <1>1, EntriesFacts
<1>3. \A n : On(l, n) => \E i \in 1 .. Len(l) : l[i] = n
  BY DEF On
<1>4. Map!Held(e) = {s.node[n].val : n \in {m \in Nodes : On(l, m)}}
  <2>1. Map!Held(e) = {e[i].val : i \in 1 .. Len(l)}
    BY <1>2 DEF Map!Held
  <2>2. ASSUME NEW i \in 1 .. Len(l) PROVE e[i].val \in {s.node[n].val : n \in {m \in Nodes : On(l, m)}}
    BY <1>2
  <2>3. ASSUME NEW n \in Nodes, On(l, n) PROVE s.node[n].val \in {e[i].val : i \in 1 .. Len(l)}
    <3>1. PICK i \in 1 .. Len(l) : l[i] = n
      BY <1>3, <2>3
    <3>2. e[i].val = s.node[n].val
      BY <1>2, <3>1
    <3> QED
      BY <3>2
  <2> QED
    BY <2>1, <2>2, <2>3
<1> QED
  BY <1>1, <1>4

-----------------------------------------------------------------------------
(* What the operations do                                                    *)

LEMMA CoreLoaded ==
    ASSUME NEW s, NEW l, NEW c, ListCore(s, l, c)
    PROVE  /\ Loaded(s, l) /\ Entries(s, RecencyList(s)) = Entries(s, l)
           /\ \A n \in Nodes : On(l, n) => Bears(s, n) \in EntrySet
  BY CoreFacts, Listed DEF Loaded, Bears, EntrySet

\* The node at p goes to the front of the list.
LEMMA Fronted ==
    ASSUME NEW s, NEW l, NEW c, ListCore(s, l, c), NEW p \in 1 .. Len(l), NEW n, n = l[p]
    PROVE  /\ ListCore(rec_move_to_head(s, n), <<n>> \o Without(l, p), c)
           /\ Relisted(s, rec_move_to_head(s, n))
           /\ \A m : On(<<n>> \o Without(l, p), m) <=> On(l, m)
<1>1. PICK t : t = rec_move_to_head(s, n)
  OBVIOUS
<1>2. PICK q : q = <<n>> \o Without(l, p)
  OBVIOUS
<1>3. /\ s \in Maps /\ l \in Seq(Nodes) /\ Once(l) /\ Len(l) \in Nat /\ Len(l) <= Capacity /\ s.count = Len(l)
      /\ n \in Nodes /\ On(l, n) /\ Listing(s, l) /\ Chains(s, c)
  BY CoreFacts DEF ListCore
<1>4. /\ Relisted(s, t) /\ Listing(t, q)
      /\ \A m \in Nodes : ~On(l, m) => t.node[m].next = s.node[m].next
  <2>1. /\ Relisted(s, rec_move_to_head(s, l[p]))
        /\ Listing(rec_move_to_head(s, l[p]), <<l[p]>> \o Without(l, p))
        /\ \A m \in Nodes : ~On(l, m) => rec_move_to_head(s, l[p]).node[m].next = s.node[m].next
    BY <1>3, MoveToHead
  <2> QED
    BY <1>1, <1>2, <2>1
<1>5. Without(l, p) \in Seq(Nodes) /\ Len(Without(l, p)) = Len(l) - 1 /\ \A m : On(Without(l, p), m) <=> On(l, m) /\ m # n
  BY <1>3, Removed, WithoutOnce
<1>6. Len(q) = Len(l) /\ \A m : On(q, m) <=> On(l, m)
  <2>1. Len(q) = Len(l) - 1 + 1
    BY <1>2, <1>3, <1>5, InFront
  <2>2. \A m : On(q, m) <=> m = n \/ On(Without(l, p), m)
    BY <1>2, <1>3, <1>5, FrontOn
  <2> QED
    BY <1>3, <1>5, <2>1, <2>2
<1>7. Chains(t, c)
  BY <1>3, <1>4, RelistedChains
<1>8. t \in Maps /\ t.count = s.count
  BY <1>4 DEF Relisted
<1>9. \A m \in Nodes : /\ t.node[m].key = s.node[m].key /\ t.node[m].val = s.node[m].val
                       /\ t.node[m].next_bkt = s.node[m].next_bkt /\ t.node[m].live = s.node[m].live
  BY <1>4 DEF Relisted
<1>10. /\ \A m \in Nodes : t.node[m].live <=> On(q, m)
       /\ \A m \in Nodes : ~On(q, m) => t.node[m].next = Nil /\ t.node[m].next_bkt = Nil
  <2>1. \A m \in Nodes : s.node[m].live <=> On(l, m)
    BY DEF ListCore
  <2>2. \A m \in Nodes : ~On(l, m) => s.node[m].next = Nil /\ s.node[m].next_bkt = Nil
    BY DEF ListCore
  <2>3. \A m \in Nodes : t.node[m].live <=> On(q, m)
    BY <1>6, <1>9, <2>1
  <2> QED
    BY <1>4, <1>6, <1>9, <2>2, <2>3
<1>11. /\ \A b \in Buckets : \A m \in Nodes : On(c[b], m) => On(q, m)
       /\ \A m \in Nodes : On(q, m) => On(c[fnv1a(t.node[m].key)], m)
       /\ \A m \in Nodes : On(q, m) => t.node[m].key \in Keys /\ t.node[m].val \in Values
  BY <1>6, <1>9 DEF ListCore
<1>12. \A m, x \in Nodes : On(q, m) /\ On(q, x) /\ (t.node[m].key = t.node[x].key \/ t.node[m].val = t.node[x].val) => m = x
  BY <1>6, <1>9 DEF ListCore
<1>13. ListCore(t, q, c)
  BY <1>3, <1>4, <1>6, <1>7, <1>8, <1>10, <1>11, <1>12 DEF ListCore
<1> QED
  BY <1>1, <1>2, <1>4, <1>6, <1>13

LEMMA Framed ==
    ASSUME NEW s \in Maps, NEW t \in Maps, NEW l, Listing(s, l), t.head = s.head, t.tail = s.tail,
           \A m \in Nodes : On(l, m) => t.node[m].next = s.node[m].next /\ t.node[m].prev = s.node[m].prev
    PROVE  Listing(t, l)
<1>1. l \in Seq(Nodes) /\ \A i \in 1 .. Len(l) : l[i] \in Nodes /\ On(l, l[i])
  BY NodesAt DEF Listing, Path, On
<1>2. Path(Nexts(t), t.head, l)
  <2>1. Path(Nexts(s), t.head, l) /\ \A m \in Nodes : On(l, m) => Nexts(t)[m] = Nexts(s)[m]
    BY DEF Listing, Nexts
  <2> QED
    BY <2>1, PathSame
<1> QED
  BY <1>1, <1>2 DEF Listing

LEMMA FramedChains ==
    ASSUME NEW s \in Maps, NEW t \in Maps, NEW c, Chains(s, c), t.table = s.table,
           \A b \in Buckets : \A m \in Nodes : On(c[b], m) =>
               t.node[m].next_bkt = s.node[m].next_bkt /\ t.node[m].key = s.node[m].key
    PROVE  Chains(t, c)
<1>1. ASSUME NEW b \in Buckets PROVE Path(NextsOf(t), t.table[b], c[b])
  <2>1. Path(NextsOf(s), t.table[b], c[b]) /\ \A m \in Nodes : On(c[b], m) => NextsOf(t)[m] = NextsOf(s)[m]
    BY DEF Chains, NextsOf
  <2> QED
    BY <2>1, PathSame
<1> QED
  BY <1>1 DEF Chains

LEMMA CountSet ==
    ASSUME NEW s \in Maps, NEW x \in Int, NEW t, t = [s EXCEPT !.count = x]
    PROVE  t \in Maps /\ t.count = x /\ t.head = s.head /\ t.tail = s.tail /\ t.table = s.table /\ t.node = s.node
  BY DEF Maps

LEMMA NoRecFacts ==
    NoRec \in Recs /\ NoRec.next = Nil /\ NoRec.next_bkt = Nil /\ NoRec.prev = Nil /\ ~NoRec.live
  BY DEF NoRec, Recs, Refs, Nil

\* The node at p is unlinked, taken from its chain and freed.
LEMMA NodeFreed ==
    ASSUME NEW s, NEW l, NEW c, ListCore(s, l, c), NEW p \in 1 .. Len(l), NEW n, n = l[p]
    PROVE  /\ \E d : ListCore(RemoveNode(s, n), Without(l, p), d)
           /\ \A m \in Nodes : m # n => /\ RemoveNode(s, n).node[m].key = s.node[m].key
                                        /\ RemoveNode(s, n).node[m].val = s.node[m].val
                                        /\ RemoveNode(s, n).node[m].live = s.node[m].live
<1>1. /\ s \in Maps /\ l \in Seq(Nodes) /\ Once(l) /\ Len(l) \in Nat /\ Len(l) <= Capacity /\ s.count = Len(l)
      /\ n \in Nodes /\ On(l, n) /\ Listing(s, l) /\ Chains(s, c) /\ c \in [Buckets -> Seq(Nodes)]
      /\ s.node[n].key \in Nat
  BY CoreFacts DEF ListCore
<1>2. PICK r : r = Without(l, p)
  OBVIOUS
<1>3. r \in Seq(Nodes) /\ Len(r) = Len(l) - 1 /\ \A m : On(r, m) <=> On(l, m) /\ m # n
  BY <1>1, <1>2, Removed, WithoutOnce
<1>4. PICK u : u = rec_unlink(s, n)
  OBVIOUS
<1>5. Relisted(s, u) /\ Listing(u, r) /\ \A m \in Nodes : ~On(l, m) => u.node[m].next = s.node[m].next
  BY <1>1, <1>2, <1>4, Unlink
<1>6. /\ u \in Maps /\ u.count = s.count
      /\ \A m \in Nodes : /\ u.node[m].key = s.node[m].key /\ u.node[m].val = s.node[m].val
                          /\ u.node[m].next_bkt = s.node[m].next_bkt /\ u.node[m].live = s.node[m].live
  BY <1>5 DEF Relisted
<1>7. Chains(u, c)
  BY <1>1, <1>5, RelistedChains
<1>8. PICK h \in Buckets : h = fnv1a(s.node[n].key)
  BY <1>1, BucketOf
<1>9. On(c[h], n) /\ c[h] \in Seq(Nodes) /\ Once(c[h])
  BY <1>1, <1>8, CoreFacts DEF ListCore
<1>10. PICK i \in 1 .. Len(c[h]) : n = c[h][i]
  BY <1>9 DEF On
<1>11. PICK v : v = bkt_remove(u, n)
  OBVIOUS
<1>12. PICK d : d = [c EXCEPT ![h] = Without(@, i)]
  OBVIOUS
<1>13. Rechained(u, v) /\ Chains(v, d) /\ \A m \in Nodes : u.node[m].next_bkt = Nil => v.node[m].next_bkt = Nil
  <2>1. u \in Maps /\ Chains(u, c) /\ h \in Buckets /\ i \in 1 .. Len(c[h]) /\ n = c[h][i]
    BY <1>6, <1>7, <1>8, <1>10
  <2>2. /\ Rechained(u, bkt_remove(u, n))
        /\ Chains(bkt_remove(u, n), [c EXCEPT ![h] = Without(@, i)])
        /\ \A m \in Nodes : u.node[m].next_bkt = Nil => bkt_remove(u, n).node[m].next_bkt = Nil
    BY <2>1, BktRemove
  <2> QED
    BY <1>11, <1>12, <2>2
<1>14. /\ v \in Maps /\ v.count = u.count
       /\ \A m \in Nodes : /\ v.node[m].key = u.node[m].key /\ v.node[m].val = u.node[m].val
                           /\ v.node[m].next = u.node[m].next /\ v.node[m].live = u.node[m].live
  BY <1>13 DEF Rechained
<1>15. Listing(v, r)
  BY <1>5, <1>6, <1>13, RechainedListing
<1>16. PICK w : w = SetNode(v, n, NoRec)
  OBVIOUS
<1>17. /\ w \in Maps /\ w.count = v.count /\ w.table = v.table /\ w.head = v.head /\ w.tail = v.tail
       /\ \A m \in Nodes : w.node[m] = IF m = n THEN NoRec ELSE v.node[m]
  <2>1. v \in Maps /\ n \in Nodes /\ NoRec \in Recs
    BY <1>1, <1>14, NoRecFacts
  <2>2. /\ SetNode(v, n, NoRec) \in Maps
        /\ SetNode(v, n, NoRec).count = v.count /\ SetNode(v, n, NoRec).table = v.table
        /\ SetNode(v, n, NoRec).head = v.head /\ SetNode(v, n, NoRec).tail = v.tail
    BY <2>1, NodeSet
  <2>3. \A m \in Nodes : SetNode(v, n, NoRec).node[m] = IF m = n THEN NoRec ELSE v.node[m]
    BY <2>1, NodeSet
  <2> QED
    BY <1>16, <2>2, <2>3
<1>18. PICK t : t = [w EXCEPT !.count = @ - 1]
  OBVIOUS
<1>19. /\ t \in Maps /\ t.count = Len(l) - 1 /\ t.table = v.table /\ t.head = v.head /\ t.tail = v.tail
       /\ \A m \in Nodes : t.node[m] = IF m = n THEN NoRec ELSE v.node[m]
  <2>1. w.count = Len(l)
    BY <1>1, <1>6, <1>14, <1>17
  <2>2. w.count - 1 \in Int /\ t = [w EXCEPT !.count = w.count - 1]
    BY <1>1, <1>18, <2>1
  <2>3. t \in Maps /\ t.count = w.count - 1 /\ t.table = w.table /\ t.head = w.head /\ t.tail = w.tail /\ t.node = w.node
    BY <1>17, <2>2, CountSet
  <2> QED
    BY <1>17, <2>1, <2>3
<1>20. t = RemoveNode(s, n)
  BY <1>4, <1>11, <1>16, <1>18 DEF RemoveNode, destroy_node, SetNode
<1>21. \A b \in Buckets : \A m : On(d[b], m) <=> On(c[b], m) /\ m # n
  <2>1. ASSUME NEW b \in Buckets, NEW m PROVE On(d[b], m) <=> On(c[b], m) /\ m # n
    <3>1. CASE b = h
      <4>1. d[b] = Without(c[h], i)
        BY <1>1, <1>12, <3>1
      <4> QED
        BY <1>9, <1>10, <3>1, <4>1, WithoutOnce
    <3>2. CASE b # h
      <4>1. d[b] = c[b]
        BY <1>1, <1>12, <3>2
      <4>2. ~On(c[b], n)
        BY <1>1, <1>8, <3>2 DEF Chains
      <4> QED
        BY <4>1, <4>2
    <3> QED
      BY <3>1, <3>2
  <2> QED
    BY <2>1
<1>22. Listing(t, r)
  <2>1. \A m \in Nodes : On(r, m) => t.node[m].next = v.node[m].next /\ t.node[m].prev = v.node[m].prev
    BY <1>3, <1>19
  <2> QED
    BY <1>14, <1>15, <1>19, <2>1, Framed
<1>23. Chains(t, d)
  <2>1. \A b \in Buckets : \A m \in Nodes : On(d[b], m) => t.node[m].next_bkt = v.node[m].next_bkt /\ t.node[m].key = v.node[m].key
    BY <1>19, <1>21
  <2> QED
    BY <1>13, <1>14, <1>19, <2>1, FramedChains
<1>24. \A m \in Nodes : m # n => /\ t.node[m].key = s.node[m].key /\ t.node[m].val = s.node[m].val
                                 /\ t.node[m].live = s.node[m].live
  BY <1>6, <1>14, <1>19
<1>25. \A m \in Nodes : t.node[m].live <=> On(r, m)
  <2>1. \A m \in Nodes : s.node[m].live <=> On(l, m)
    BY DEF ListCore
  <2> QED
    BY <1>3, <1>19, <1>24, <2>1, NoRecFacts
<1>26. ASSUME NEW m \in Nodes, ~On(r, m) PROVE t.node[m].next = Nil /\ t.node[m].next_bkt = Nil
  <2>1. CASE m = n
    BY <1>19, <2>1, NoRecFacts
  <2>2. CASE m # n
    <3>1. ~On(l, m)
      BY <1>3, <1>26, <2>2
    <3>2. s.node[m].next = Nil /\ s.node[m].next_bkt = Nil
      BY <3>1 DEF ListCore
    <3>3. v.node[m].next = Nil /\ v.node[m].next_bkt = Nil
      BY <1>5, <1>6, <1>13, <1>14, <3>1, <3>2
    <3> QED
      BY <1>19, <2>2, <3>3
  <2> QED
    BY <2>1, <2>2
<1>27. /\ \A b \in Buckets : \A m \in Nodes : On(d[b], m) => On(r, m)
       /\ \A m \in Nodes : On(r, m) => t.node[m].key \in Keys /\ t.node[m].val \in Values
  BY <1>3, <1>21, <1>24 DEF ListCore
<1>28. ASSUME NEW m \in Nodes, On(r, m) PROVE On(d[fnv1a(t.node[m].key)], m)
  <2>1. On(l, m) /\ m # n /\ t.node[m].key = s.node[m].key /\ s.node[m].key \in Nat
    BY <1>3, <1>24, <1>28, CoreFacts
  <2>2. On(c[fnv1a(s.node[m].key)], m) /\ fnv1a(s.node[m].key) \in Buckets
    BY <2>1, BucketOf DEF ListCore
  <2> QED
    BY <1>21, <2>1, <2>2
<1>29. \A m, x \in Nodes : On(r, m) /\ On(r, x) /\ (t.node[m].key = t.node[x].key \/ t.node[m].val = t.node[x].val) => m = x
  BY <1>3, <1>24 DEF ListCore
<1>30. t.count = Len(r) /\ Len(r) <= Capacity
  BY <1>1, <1>3, <1>19, LruAssumption
<1>31. ListCore(t, r, d)
  BY <1>19, <1>22, <1>23, <1>25, <1>26, <1>27, <1>28, <1>29, <1>30 DEF ListCore
<1> QED
  BY <1>2, <1>20, <1>24, <1>31

LEMMA NodeLeft ==
    ASSUME NEW l \in Seq(Nodes), Len(l) <= Capacity
    PROVE  \E n \in Nodes : ~On(l, n)
<1> SUFFICES ASSUME \A n \in Nodes : On(l, n) PROVE FALSE
  OBVIOUS
<1>1. Len(l) \in Nat /\ \A i \in 1 .. Len(l) : l[i] \in Nodes
  BY NodesAt
<1> DEFINE I == 1 .. Len(l)
           f == [i \in I |-> l[i]]
<1>2. f \in Surjection(I, Nodes)
  <2>1. f \in [I -> Nodes]
    BY <1>1
  <2>2. \A n \in Nodes : \E i \in I : f[i] = n
    BY DEF On
  <2> QED
    BY <2>1, <2>2 DEF Surjection
<1>3. IsFiniteSet(I) /\ Cardinality(I) = Len(l)
  <2>1. 1 \in Int /\ Len(l) \in Int /\ Len(l) - 1 + 1 = Len(l) /\ (1 > Len(l) => Len(l) = 0)
    BY <1>1
  <2> QED
    BY <2>1, FS_Interval
<1> HIDE DEF f, I
<1>4. IsFiniteSet(Nodes) /\ Cardinality(Nodes) <= Cardinality(I)
  BY <1>2, <1>3, FS_Surjection
<1>5. Cardinality(Nodes) \in Nat /\ Cardinality(Nodes) > Capacity /\ Capacity \in Nat
  BY <1>4, LruAssumption, FS_CardinalityType
<1> QED
  BY <1>1, <1>3, <1>4, <1>5

\* What lru_put does to a node it fills, and to one that is there already.
Stored(s, n, k, v) ==
    [s EXCEPT !.node[n] = [NoRec EXCEPT !.key = k, !.val = v, !.live = TRUE], !.count = @ + 1]
WithValue(s, n, v) == [s EXCEPT !.node[n].val = v]

LEMMA Filled ==
    ASSUME NEW s, NEW l, NEW c, ListCore(s, l, c), Len(l) < Capacity,
           NEW k \in Keys, NEW v \in Values, \A m \in Nodes : On(l, m) => s.node[m].key # k /\ s.node[m].val # v,
           NEW n \in Nodes, ~On(l, n),
           NEW f, f = Stored(s, n, k, v),
           NEW t, t = bkt_insert(rec_link_head(f, n), n)
    PROVE  /\ \E d : ListCore(t, <<n>> \o l, d)
           /\ t.node[n].key = k /\ t.node[n].val = v
           /\ \A m \in Nodes : m # n => t.node[m].key = s.node[m].key /\ t.node[m].val = s.node[m].val
<1>1. /\ s \in Maps /\ l \in Seq(Nodes) /\ Once(l) /\ Len(l) \in Nat /\ s.count = Len(l)
      /\ Listing(s, l) /\ Chains(s, c) /\ c \in [Buckets -> Seq(Nodes)] /\ k \in Nat
  BY CoreFacts, LruAssumption DEF ListCore
<1>2. PICK rec : rec = [NoRec EXCEPT !.key = k, !.val = v, !.live = TRUE]
  OBVIOUS
<1>3. rec \in Recs /\ rec.key = k /\ rec.val = v /\ rec.live = TRUE
  BY <1>1, <1>2, NodeAssumption DEF NoRec, Recs, Refs
<1>4. PICK w : w = SetNode(s, n, rec)
  OBVIOUS
<1>5. /\ w \in Maps /\ w.count = s.count /\ w.table = s.table /\ w.head = s.head /\ w.tail = s.tail
      /\ \A m \in Nodes : w.node[m] = IF m = n THEN rec ELSE s.node[m]
  <2>1. /\ SetNode(s, n, rec) \in Maps
        /\ SetNode(s, n, rec).count = s.count /\ SetNode(s, n, rec).table = s.table
        /\ SetNode(s, n, rec).head = s.head /\ SetNode(s, n, rec).tail = s.tail
    BY <1>1, <1>3, NodeSet
  <2>2. \A m \in Nodes : SetNode(s, n, rec).node[m] = IF m = n THEN rec ELSE s.node[m]
    BY <1>1, <1>3, NodeSet
  <2> QED
    BY <1>4, <2>1, <2>2
<1>6. /\ f \in Maps /\ f.count = Len(l) + 1 /\ f.table = s.table /\ f.head = s.head /\ f.tail = s.tail
      /\ \A m \in Nodes : f.node[m] = IF m = n THEN rec ELSE s.node[m]
  <2>1. f = [w EXCEPT !.count = w.count + 1]
    BY <1>1, <1>2, <1>4, <1>5 DEF SetNode, Maps, Stored
  <2>2. w.count + 1 \in Int /\ w.count + 1 = Len(l) + 1
    BY <1>1, <1>5
  <2>3. f \in Maps /\ f.count = w.count + 1 /\ f.table = w.table /\ f.head = w.head /\ f.tail = w.tail /\ f.node = w.node
    BY <1>5, <2>1, <2>2, CountSet
  <2> QED
    BY <1>5, <2>2, <2>3
<1>7. Listing(f, l) /\ Chains(f, c) /\ \A b \in Buckets : ~On(c[b], n)
  <2>1. \A b \in Buckets : \A m \in Nodes : On(c[b], m) => On(l, m)
    BY DEF ListCore
  <2>2. Listing(f, l)
    <3>1. \A m \in Nodes : On(l, m) => f.node[m].next = s.node[m].next /\ f.node[m].prev = s.node[m].prev
      BY <1>6
    <3> QED
      BY <1>1, <1>6, <3>1, Framed
  <2>3. Chains(f, c)
    <3>1. \A b \in Buckets : \A m \in Nodes : On(c[b], m) => f.node[m].next_bkt = s.node[m].next_bkt /\ f.node[m].key = s.node[m].key
      BY <1>6, <2>1
    <3> QED
      BY <1>1, <1>6, <3>1, FramedChains
  <2> QED
    BY <2>1, <2>2, <2>3
<1>8. PICK u : u = rec_link_head(f, n)
  OBVIOUS
<1>9. PICK q : q = <<n>> \o l
  OBVIOUS
<1>10. q \in Seq(Nodes) /\ Len(q) = Len(l) + 1 /\ \A m : On(q, m) <=> m = n \/ On(l, m)
  BY <1>1, <1>9, InFront, FrontOn
<1>11. Relisted(f, u) /\ Listing(u, q) /\ \A m \in Nodes : m # n => u.node[m].next = f.node[m].next
  BY <1>6, <1>7, <1>8, <1>9, LinkHead
<1>12. /\ u \in Maps /\ u.count = f.count
       /\ \A m \in Nodes : /\ u.node[m].key = f.node[m].key /\ u.node[m].val = f.node[m].val
                           /\ u.node[m].next_bkt = f.node[m].next_bkt /\ u.node[m].live = f.node[m].live
  BY <1>11 DEF Relisted
<1>13. Chains(u, c)
  BY <1>6, <1>7, <1>11, RelistedChains
<1>14. PICK h \in Buckets : h = fnv1a(k)
  BY <1>1, BucketOf
<1>15. u.node[n].key = k
  BY <1>3, <1>6, <1>12
<1>16. PICK d : d = [c EXCEPT ![h] = <<n>> \o @]
  OBVIOUS
<1>17. /\ t \in Maps /\ t.count = u.count
       /\ \A m \in Nodes : /\ t.node[m].key = u.node[m].key /\ t.node[m].val = u.node[m].val
                           /\ t.node[m].next = u.node[m].next /\ t.node[m].live = u.node[m].live
       /\ Chains(t, d) /\ Listing(t, q)
       /\ \A m \in Nodes : m # n => t.node[m].next_bkt = u.node[m].next_bkt
  <2>1. u \in Maps /\ Chains(u, c) /\ n \in Nodes /\ h = fnv1a(u.node[n].key) /\ \A b \in Buckets : ~On(c[b], n)
    BY <1>7, <1>12, <1>13, <1>14, <1>15
  <2>2. /\ Rechained(u, bkt_insert(u, n)) /\ Chains(bkt_insert(u, n), [c EXCEPT ![h] = <<n>> \o @])
        /\ \A m \in Nodes : m # n => bkt_insert(u, n).node[m].next_bkt = u.node[m].next_bkt
    BY <2>1, BktInsert
  <2>3. Rechained(u, t) /\ Chains(t, d) /\ \A m \in Nodes : m # n => t.node[m].next_bkt = u.node[m].next_bkt
    BY <1>8, <1>16, <2>2
  <2>4. Listing(t, q)
    BY <1>11, <1>12, <2>3, RechainedListing
  <2> QED
    BY <2>3, <2>4 DEF Rechained
<1>18. \A b \in Buckets : \A m : On(d[b], m) <=> On(c[b], m) \/ (b = h /\ m = n)
  <2> TAKE b \in Buckets
  <2>1. CASE b = h
    <3>1. d[b] = <<n>> \o c[b] /\ c[b] \in Seq(Nodes)
      BY <1>1, <1>16, <2>1
    <3> QED
      BY <2>1, <3>1, FrontOn
  <2>2. CASE b # h
    BY <1>1, <1>16, <2>2
  <2> QED
    BY <2>1, <2>2
<1>19. /\ t.node[n].key = k /\ t.node[n].val = v /\ t.node[n].live
       /\ \A m \in Nodes : m # n => /\ t.node[m].key = s.node[m].key /\ t.node[m].val = s.node[m].val
                                    /\ t.node[m].live = s.node[m].live
  BY <1>3, <1>6, <1>12, <1>17
<1>20. \A m \in Nodes : t.node[m].live <=> On(q, m)
  <2>1. \A m \in Nodes : s.node[m].live <=> On(l, m)
    BY DEF ListCore
  <2> QED
    BY <1>10, <1>19, <2>1
<1>21. ASSUME NEW m \in Nodes, ~On(q, m) PROVE t.node[m].next = Nil /\ t.node[m].next_bkt = Nil
  <2>1. m # n /\ ~On(l, m)
    BY <1>10, <1>21
  <2>2. s.node[m].next = Nil /\ s.node[m].next_bkt = Nil
    BY <2>1 DEF ListCore
  <2>3. t.node[m].next = Nil
    BY <1>6, <1>11, <1>17, <2>1, <2>2
  <2>4. u.node[m].next_bkt = Nil
    BY <1>6, <1>12, <2>1, <2>2
  <2> QED
    BY <1>17, <2>1, <2>3, <2>4
<1>22. /\ \A b \in Buckets : \A m \in Nodes : On(d[b], m) => On(q, m)
       /\ \A m \in Nodes : On(q, m) => t.node[m].key \in Keys /\ t.node[m].val \in Values
  <2>1. ASSUME NEW b \in Buckets, NEW m \in Nodes, On(d[b], m) PROVE On(q, m)
    <3>1. On(c[b], m) => On(l, m)
      BY DEF ListCore
    <3> QED
      BY <1>10, <1>18, <2>1, <3>1
  <2>2. ASSUME NEW m \in Nodes, On(q, m) PROVE t.node[m].key \in Keys /\ t.node[m].val \in Values
    <3>1. On(l, m) => s.node[m].key \in Keys /\ s.node[m].val \in Values
      BY DEF ListCore
    <3> QED
      BY <1>10, <1>19, <2>2, <3>1
  <2> QED
    BY <2>1, <2>2
<1>23. ASSUME NEW m \in Nodes, On(q, m) PROVE On(d[fnv1a(t.node[m].key)], m)
  <2>1. CASE m = n
    BY <1>14, <1>18, <1>19, <2>1
  <2>2. CASE m # n
    <3>1. On(l, m) /\ t.node[m].key = s.node[m].key /\ s.node[m].key \in Nat
      BY <1>10, <1>19, <1>23, <2>2, CoreFacts
    <3>2. On(c[fnv1a(s.node[m].key)], m) /\ fnv1a(s.node[m].key) \in Buckets
      BY <3>1, BucketOf DEF ListCore
    <3> QED
      BY <1>18, <3>1, <3>2
  <2> QED
    BY <2>1, <2>2
<1>24. \A m, x \in Nodes : On(q, m) /\ On(q, x) /\ (t.node[m].key = t.node[x].key \/ t.node[m].val = t.node[x].val) => m = x
  BY <1>10, <1>19 DEF ListCore
<1>25. t.count = Len(q) /\ Len(q) <= Capacity
  BY <1>1, <1>6, <1>10, <1>12, <1>17, LruAssumption
<1>26. ListCore(t, q, d)
  BY <1>17, <1>20, <1>21, <1>22, <1>23, <1>24, <1>25 DEF ListCore
<1> QED
  BY <1>9, <1>19, <1>26

LEMMA ValueSet ==
    ASSUME NEW s, NEW l, NEW c, ListCore(s, l, c), NEW n \in Nodes, On(l, n),
           NEW v \in Values, \A m \in Nodes : On(l, m) => s.node[m].val # v,
           NEW t, t = WithValue(s, n, v)
    PROVE  /\ ListCore(t, l, c)
           /\ \A m \in Nodes : t.node[m].key = s.node[m].key /\ t.node[m].val = IF m = n THEN v ELSE s.node[m].val
<1>1. s \in Maps /\ Listing(s, l) /\ Chains(s, c)
  BY DEF ListCore
<1>2. PICK rec : rec = [s.node[n] EXCEPT !.val = v]
  OBVIOUS
<1>3. /\ rec \in Recs /\ rec.key = s.node[n].key /\ rec.val = v /\ rec.prev = s.node[n].prev /\ rec.next = s.node[n].next
      /\ rec.next_bkt = s.node[n].next_bkt /\ rec.live = s.node[n].live
  <2>1. s.node[n] \in Recs
    BY <1>1 DEF Maps
  <2> QED
    BY <1>2, <2>1 DEF Recs
<1>4. t = SetNode(s, n, rec)
  BY <1>2 DEF SetNode, WithValue
<1>5. /\ t \in Maps /\ t.count = s.count /\ t.table = s.table /\ t.head = s.head /\ t.tail = s.tail
      /\ \A m \in Nodes : t.node[m] = IF m = n THEN rec ELSE s.node[m]
  <2>1. /\ SetNode(s, n, rec) \in Maps
        /\ SetNode(s, n, rec).count = s.count /\ SetNode(s, n, rec).table = s.table
        /\ SetNode(s, n, rec).head = s.head /\ SetNode(s, n, rec).tail = s.tail
    BY <1>1, <1>3, NodeSet
  <2>2. \A m \in Nodes : SetNode(s, n, rec).node[m] = IF m = n THEN rec ELSE s.node[m]
    BY <1>1, <1>3, NodeSet
  <2> QED
    BY <1>4, <2>1, <2>2
<1>6. \A m \in Nodes : /\ t.node[m].key = s.node[m].key /\ t.node[m].prev = s.node[m].prev /\ t.node[m].next = s.node[m].next
                       /\ t.node[m].next_bkt = s.node[m].next_bkt /\ t.node[m].live = s.node[m].live
                       /\ t.node[m].val = IF m = n THEN v ELSE s.node[m].val
  BY <1>3, <1>5
<1>7. Listing(t, l)
  <2>1. \A m \in Nodes : On(l, m) => t.node[m].next = s.node[m].next /\ t.node[m].prev = s.node[m].prev
    BY <1>6
  <2> QED
    BY <1>1, <1>5, <2>1, Framed
<1>8. Chains(t, c)
  <2>1. \A b \in Buckets : \A m \in Nodes : On(c[b], m) => t.node[m].next_bkt = s.node[m].next_bkt /\ t.node[m].key = s.node[m].key
    BY <1>6
  <2> QED
    BY <1>1, <1>5, <2>1, FramedChains
<1>9. \A m \in Nodes : t.node[m].live <=> On(l, m)
  <2>1. \A m \in Nodes : s.node[m].live <=> On(l, m)
    BY DEF ListCore
  <2> QED
    BY <1>6, <2>1
<1>10. \A m, x \in Nodes : On(l, m) /\ On(l, x) /\ (t.node[m].key = t.node[x].key \/ t.node[m].val = t.node[x].val) => m = x
  BY <1>6 DEF ListCore
<1>11. /\ \A m \in Nodes : ~On(l, m) => t.node[m].next = Nil /\ t.node[m].next_bkt = Nil
       /\ \A m \in Nodes : On(l, m) => On(c[fnv1a(t.node[m].key)], m)
       /\ \A m \in Nodes : On(l, m) => t.node[m].key \in Keys /\ t.node[m].val \in Values
  BY <1>6 DEF ListCore
<1>12. ListCore(t, l, c)
  BY <1>5, <1>7, <1>8, <1>9, <1>10, <1>11 DEF ListCore
<1> QED
  BY <1>6, <1>12

-----------------------------------------------------------------------------
(* Each operation is one of the abstract map                                 *)

\* From s with the list l, an operation leads to t, which stands for items; the values new come
\* in and the values gone go out.
Turns(s, l, t, items, new, gone) ==
    \E q, d : /\ ListCore(t, q, d) /\ Entries(t, q) = items
              /\ Map!Held(items) \subseteq Map!Held(Entries(s, l)) \cup new
              /\ Map!Held(Entries(s, l)) \ Map!Held(items) = gone

LEMMA LastOff ==
    ASSUME NEW S, NEW e \in Seq(S), Len(e) # 0
    PROVE  Len(e) \in 1 .. Len(e) /\ Without(e, Len(e)) = Map!Front(e)
<1>1. Len(e) \in Nat /\ Len(e) \in 1 .. Len(e)
  BY LenProperties
<1> DEFINE a == SubSeq(e, 1, Len(e) - 1)
           b == SubSeq(e, Len(e) + 1, Len(e))
<1>2. a \in Seq(S) /\ Len(a) = Len(e) - 1 /\ \A i \in 1 .. Len(e) - 1 : a[i] = e[i]
  <2>1. PICK m \in Int : m = Len(e) - 1
    BY <1>1
  <2>2. 1 \in 1 .. Len(e) + 1 /\ m \in 1 - 1 .. Len(e) /\ m - 1 + 1 = m
    BY <1>1, <2>1
  <2>3. /\ SubSeq(e, 1, m) \in Seq(S) /\ Len(SubSeq(e, 1, m)) = m
        /\ \A i \in 1 .. m : SubSeq(e, 1, m)[i] = e[i]
    BY <2>2, SubSeqProperties
  <2> QED
    BY <2>1, <2>3
<1>3. PICK w : w = Without(e, Len(e))
  OBVIOUS
<1>4. w \in Seq(S) /\ Len(w) = Len(e) - 1 /\ \A i \in 1 .. Len(e) - 1 : w[i] = IF i < Len(e) THEN e[i] ELSE e[i + 1]
  BY <1>1, <1>3, Removed
<1> HIDE DEF a
<1>5. w = a
  <2>1. Len(w) = Len(a) /\ \A i \in 1 .. Len(w) : w[i] = a[i]
    BY <1>1, <1>2, <1>4
  <2> QED
    BY <1>2, <1>4, <2>1, SameSeq
<1> QED
  BY <1>1, <1>3, <1>5 DEF Map!Front, a

\* The key k is found at one place of the list or not at all.
LEMMA FoundAt ==
    ASSUME NEW s, NEW l, NEW c, ListCore(s, l, c), NEW k \in Keys, NEW n, n = find_node(s, k)
    PROVE  \/ n = Nil /\ \A i \in 1 .. Len(l) : s.node[l[i]].key # k
           \/ /\ n \in Nodes /\ n # Nil
              /\ \E p \in 1 .. Len(l) : /\ l[p] = n /\ s.node[n].key = k
                                        /\ \A i \in 1 .. Len(l) : s.node[l[i]].key = k => i = p
<1>1. Once(l) /\ \A i \in 1 .. Len(l) : l[i] \in Nodes /\ On(l, l[i])
  BY CoreFacts
<1>2. CASE n = Nil /\ \A m \in Nodes : On(l, m) => s.node[m].key # k
  BY <1>1, <1>2
<1>3. CASE n \in Nodes /\ n # Nil /\ On(l, n) /\ s.node[n].key = k
  <2>1. PICK p \in 1 .. Len(l) : l[p] = n
    BY <1>3 DEF On
  <2>2. ASSUME NEW i \in 1 .. Len(l), s.node[l[i]].key = k PROVE i = p
    <3>1. l[i] = n
      BY <1>1, <1>3, <2>2 DEF ListCore
    <3> QED
      BY <1>1, <2>1, <3>1 DEF Once
  <2> QED
    BY <1>3, <2>1, <2>2
<1> QED
  BY <1>2, <1>3, Found

LEMMA GetTurns ==
    ASSUME NEW s, NEW l, NEW c, ListCore(s, l, c), NEW k \in Keys, NEW p \in 1 .. Len(l), NEW n, n = l[p],
           s.node[n].key = k, \A i \in 1 .. Len(l) : s.node[l[i]].key = k => i = p
    PROVE  Turns(s, l, rec_move_to_head(s, n), Map!LruGet(Entries(s, l), k), {}, {})
<1>1. PICK t : t = rec_move_to_head(s, n)
  OBVIOUS
<1>2. PICK r : r = Without(l, p)
  OBVIOUS
<1>3. PICK q : q = <<n>> \o r
  OBVIOUS
<1>4. /\ Loaded(s, l) /\ Once(l) /\ n \in Nodes /\ On(l, n) /\ Bears(s, n) \in EntrySet
  BY CoreFacts, CoreLoaded
<1>5. ListCore(t, q, c) /\ Relisted(s, t) /\ \A m : On(q, m) <=> On(l, m)
  BY <1>1, <1>2, <1>3, Fronted
<1>6. Loaded(s, r) /\ Entries(s, r) = Without(Entries(s, l), p)
  BY <1>2, <1>4, EntriesWithout
<1>7. Loaded(s, q) /\ Entries(s, q) = <<Bears(s, n)>> \o Entries(s, r)
  BY <1>3, <1>4, <1>6, EntriesFront
<1>8. Loaded(t, q) /\ Entries(t, q) = Entries(s, q)
  <2>1. \A m \in Nodes : On(q, m) => t.node[m].key = s.node[m].key /\ t.node[m].val = s.node[m].val
    BY <1>5 DEF Relisted
  <2> QED
    BY <1>7, <2>1, EntriesSame
<1>9. Map!LruGet(Entries(s, l), k) = Entries(t, q)
  <2>1. /\ Map!LruHas(Entries(s, l), k) /\ Map!LruValue(Entries(s, l), k) = s.node[n].val
        /\ Map!LruDrop(Entries(s, l), k) = Without(Entries(s, l), p)
    BY <1>4, HasKey
  <2>2. Map!LruGet(Entries(s, l), k) = <<[key |-> k, val |-> s.node[n].val]>> \o Without(Entries(s, l), p)
    BY <2>1 DEF Map!LruGet
  <2> QED
    BY <1>6, <1>7, <1>8, <2>2 DEF Bears
<1>10. Map!Held(Entries(t, q)) = Map!Held(Entries(s, l))
  <2>1. Map!Held(Entries(s, q)) = {s.node[m].val : m \in {x \in Nodes : On(q, x)}}
    BY <1>7, HeldValues
  <2>2. Map!Held(Entries(s, l)) = {s.node[m].val : m \in {x \in Nodes : On(l, x)}}
    BY <1>4, HeldValues
  <2>3. {x \in Nodes : On(q, x)} = {x \in Nodes : On(l, x)}
    BY <1>5
  <2> QED
    BY <1>8, <2>1, <2>2, <2>3
<1> QED
  BY <1>1, <1>5, <1>9, <1>10 DEF Turns

LEMMA DropTurns ==
    ASSUME NEW s, NEW l, NEW c, ListCore(s, l, c), NEW p \in 1 .. Len(l), NEW n, n = l[p]
    PROVE  /\ Turns(s, l, RemoveNode(s, n), Without(Entries(s, l), p), {}, {s.node[n].val})
           /\ s.node[n].val \in Values
<1>1. PICK t : t = RemoveNode(s, n)
  OBVIOUS
<1>2. PICK r : r = Without(l, p)
  OBVIOUS
<1>3. Loaded(s, l) /\ Once(l) /\ n \in Nodes /\ On(l, n) /\ l \in Seq(Nodes) /\ s.node[n].val \in Values
  BY CoreFacts, CoreLoaded
<1>4. PICK d : ListCore(t, r, d)
  BY <1>1, <1>2, NodeFreed
<1>5. \A m \in Nodes : m # n => t.node[m].key = s.node[m].key /\ t.node[m].val = s.node[m].val
  BY <1>1, NodeFreed
<1>6. Loaded(s, r) /\ Entries(s, r) = Without(Entries(s, l), p)
  BY <1>2, <1>3, EntriesWithout
<1>7. \A m : On(r, m) <=> On(l, m) /\ m # n
  BY <1>2, <1>3, WithoutOnce
<1>8. Entries(t, r) = Entries(s, r)
  BY <1>5, <1>6, <1>7, EntriesSame
<1>9. Map!Held(Entries(s, l)) = {s.node[m].val : m \in {x \in Nodes : On(l, x)}}
  BY <1>3, HeldValues
<1>10. Map!Held(Entries(s, r)) = {s.node[m].val : m \in {x \in Nodes : On(r, x)}}
  BY <1>6, HeldValues
<1>11. \A m, x \in Nodes : On(l, m) /\ On(l, x) /\ s.node[m].val = s.node[x].val => m = x
  BY DEF ListCore
<1>12. Map!Held(Entries(s, r)) \subseteq Map!Held(Entries(s, l))
  BY <1>7, <1>9, <1>10
<1>13. Map!Held(Entries(s, l)) \ Map!Held(Entries(s, r)) = {s.node[n].val}
  BY <1>3, <1>7, <1>9, <1>10, <1>11
<1>14. Turns(s, l, t, Without(Entries(s, l), p), {}, {s.node[n].val})
  BY <1>4, <1>6, <1>8, <1>12, <1>13 DEF Turns
<1> QED
  BY <1>1, <1>3, <1>14

\* A node of the list gets another value and goes to the front.
LEMMA RenewTurns ==
    ASSUME NEW s, NEW l, NEW c, ListCore(s, l, c), NEW k \in Keys, NEW p \in 1 .. Len(l), NEW n, n = l[p],
           s.node[n].key = k, \A i \in 1 .. Len(l) : s.node[l[i]].key = k => i = p,
           NEW v \in Values, v \notin Map!Held(Entries(s, l))
    PROVE  /\ Turns(s, l, rec_move_to_head(WithValue(s, n, v), n),
                    Map!LruPut(Entries(s, l), k, v, Capacity), {v}, {s.node[n].val})
           /\ s.node[n].val \in Values
<1>1. PICK u : u = WithValue(s, n, v)
  OBVIOUS
<1>2. PICK t : t = rec_move_to_head(u, n)
  OBVIOUS
<1>3. PICK r : r = Without(l, p)
  OBVIOUS
<1>4. PICK q : q = <<n>> \o r
  OBVIOUS
<1>5. /\ Loaded(s, l) /\ Once(l) /\ n \in Nodes /\ On(l, n) /\ l \in Seq(Nodes)
      /\ s.node[n].val \in Values /\ k \in Nat
  BY CoreFacts, CoreLoaded, LruAssumption
<1>6. Map!Held(Entries(s, l)) = {s.node[m].val : m \in {x \in Nodes : On(l, x)}}
  BY <1>5, HeldValues
<1>7. /\ ListCore(u, l, c)
      /\ \A m \in Nodes : u.node[m].key = s.node[m].key /\ u.node[m].val = IF m = n THEN v ELSE s.node[m].val
  <2>1. \A m \in Nodes : On(l, m) => s.node[m].val # v
    BY <1>6
  <2> QED
    BY <1>1, <1>5, <2>1, ValueSet
<1>8. ListCore(t, q, c) /\ Relisted(u, t) /\ \A m : On(q, m) <=> On(l, m)
  BY <1>2, <1>3, <1>4, <1>7, Fronted
<1>9. \A m \in Nodes : t.node[m].key = u.node[m].key /\ t.node[m].val = u.node[m].val
  BY <1>8 DEF Relisted
<1>10. Loaded(s, r) /\ Entries(s, r) = Without(Entries(s, l), p)
  BY <1>3, <1>5, EntriesWithout
<1>11. \A m : On(r, m) <=> On(l, m) /\ m # n
  BY <1>3, <1>5, WithoutOnce
<1>12. Loaded(u, r) /\ Entries(u, r) = Entries(s, r)
  BY <1>7, <1>10, <1>11, EntriesSame
<1>13. Loaded(u, q) /\ Entries(u, q) = <<Bears(u, n)>> \o Entries(u, r)
  <2>1. Bears(u, n) \in EntrySet
    BY <1>5, <1>7, CoreLoaded
  <2> QED
    BY <1>4, <1>5, <1>12, <2>1, EntriesFront
<1>14. Loaded(t, q) /\ Entries(t, q) = Entries(u, q)
  BY <1>9, <1>13, EntriesSame
<1>15. Map!LruPut(Entries(s, l), k, v, Capacity) = Entries(t, q)
  <2>1. Map!LruHas(Entries(s, l), k) /\ Map!LruDrop(Entries(s, l), k) = Without(Entries(s, l), p)
    BY <1>5, HasKey
  <2>2. Map!LruPut(Entries(s, l), k, v, Capacity) = <<[key |-> k, val |-> v]>> \o Without(Entries(s, l), p)
    BY <2>1 DEF Map!LruPut
  <2>3. Bears(u, n) = [key |-> k, val |-> v]
    BY <1>5, <1>7 DEF Bears
  <2> QED
    BY <1>10, <1>12, <1>13, <1>14, <2>2, <2>3
<1>16. Map!Held(Entries(t, q)) = {t.node[m].val : m \in {x \in Nodes : On(q, x)}}
  BY <1>14, HeldValues
<1>17. \A m, x \in Nodes : On(l, m) /\ On(l, x) /\ s.node[m].val = s.node[x].val => m = x
  BY DEF ListCore
<1>18. \A m \in Nodes : t.node[m].val = IF m = n THEN v ELSE s.node[m].val
  BY <1>7, <1>9
<1>19. Map!Held(Entries(t, q)) \subseteq Map!Held(Entries(s, l)) \cup {v}
  BY <1>6, <1>8, <1>16, <1>18
<1>20. Map!Held(Entries(s, l)) \ Map!Held(Entries(t, q)) = {s.node[n].val}
  <2>1. ASSUME NEW m \in Nodes, On(l, m), m # n PROVE s.node[m].val \in Map!Held(Entries(t, q))
    BY <1>8, <1>16, <1>18, <2>1
  <2>2. s.node[n].val \notin Map!Held(Entries(t, q))
    <3> SUFFICES ASSUME NEW m \in Nodes, On(q, m), t.node[m].val = s.node[n].val PROVE FALSE
      BY <1>16
    <3>1. CASE m = n
      BY <1>5, <1>6, <1>18, <3>1
    <3>2. CASE m # n
      BY <1>5, <1>8, <1>17, <1>18, <3>2
    <3> QED
      BY <3>1, <3>2
  <2> QED
    BY <1>5, <1>6, <2>1, <2>2
<1>21. Turns(s, l, t, Map!LruPut(Entries(s, l), k, v, Capacity), {v}, {s.node[n].val})
  BY <1>8, <1>15, <1>19, <1>20 DEF Turns
<1> QED
  BY <1>1, <1>2, <1>5, <1>21

\* A node that is not in the list is filled and linked at the front.
LEMMA InsertTurns ==
    ASSUME NEW s, NEW l, NEW c, ListCore(s, l, c), Len(l) < Capacity, NEW k \in Keys,
           \A i \in 1 .. Len(l) : s.node[l[i]].key # k,
           NEW v \in Values, v \notin Map!Held(Entries(s, l)), NEW n \in Nodes, ~On(l, n)
    PROVE  Turns(s, l, bkt_insert(rec_link_head(Stored(s, n, k, v), n), n),
                 <<[key |-> k, val |-> v]>> \o Entries(s, l), {v}, {})
<1>1. PICK f : f = Stored(s, n, k, v)
  OBVIOUS
<1>2. PICK t : t = bkt_insert(rec_link_head(f, n), n)
  OBVIOUS
<1>3. PICK q : q = <<n>> \o l
  OBVIOUS
<1>4. Loaded(s, l) /\ l \in Seq(Nodes) /\ k \in Nat
  BY CoreFacts, CoreLoaded, LruAssumption
<1>5. Map!Held(Entries(s, l)) = {s.node[m].val : m \in {x \in Nodes : On(l, x)}}
  BY <1>4, HeldValues
<1>6. \A m \in Nodes : On(l, m) => s.node[m].key # k /\ s.node[m].val # v
  BY <1>5 DEF On
<1>7. /\ \E d : ListCore(t, q, d)
      /\ t.node[n].key = k /\ t.node[n].val = v
      /\ \A m \in Nodes : m # n => t.node[m].key = s.node[m].key /\ t.node[m].val = s.node[m].val
  BY <1>1, <1>2, <1>3, <1>6, Filled
<1>8. Loaded(t, l) /\ Entries(t, l) = Entries(s, l)
  <2>1. \A m \in Nodes : On(l, m) => t.node[m].key = s.node[m].key /\ t.node[m].val = s.node[m].val
    BY <1>7
  <2> QED
    BY <1>4, <2>1, EntriesSame
<1>9. Bears(t, n) = [key |-> k, val |-> v] /\ Bears(t, n) \in EntrySet
  BY <1>4, <1>7 DEF Bears, EntrySet
<1>10. Loaded(t, q) /\ Entries(t, q) = <<[key |-> k, val |-> v]>> \o Entries(s, l)
  <2>1. Loaded(t, q) /\ Entries(t, q) = <<Bears(t, n)>> \o Entries(t, l)
    BY <1>3, <1>8, <1>9, EntriesFront
  <2> QED
    BY <1>8, <1>9, <2>1
<1>11. \A m : On(q, m) <=> m = n \/ On(l, m)
  BY <1>3, <1>4, FrontOn
<1>12. Map!Held(Entries(t, q)) = {t.node[m].val : m \in {x \in Nodes : On(q, x)}}
  BY <1>10, HeldValues
<1>13. Map!Held(Entries(t, q)) = Map!Held(Entries(s, l)) \cup {v}
  <2>1. ASSUME NEW m \in Nodes, On(q, m) PROVE t.node[m].val \in Map!Held(Entries(s, l)) \cup {v}
    BY <1>5, <1>7, <1>11, <2>1
  <2>2. v \in Map!Held(Entries(t, q))
    BY <1>7, <1>11, <1>12
  <2>3. ASSUME NEW m \in Nodes, On(l, m) PROVE s.node[m].val \in Map!Held(Entries(t, q))
    BY <1>7, <1>11, <1>12, <2>3
  <2> QED
    BY <1>5, <1>12, <2>1, <2>2, <2>3
<1> QED
  BY <1>1, <1>2, <1>7, <1>10, <1>13 DEF Turns

\* A new key: the tail of a full map goes, and the new node is linked at the front.
LEMMA PutTurns ==
    ASSUME NEW s, NEW l, NEW c, ListCore(s, l, c), NEW k \in Keys, \A i \in 1 .. Len(l) : s.node[l[i]].key # k,
           NEW v \in Values, v \notin Map!Held(Entries(s, l)), NEW n \in Nodes, ~On(l, n),
           NEW room, room = IF Full(s) THEN RemoveNode(s, s.tail) ELSE s
    PROVE  /\ Turns(s, l, bkt_insert(rec_link_head(Stored(room, n, k, v), n), n),
                    Map!LruPut(Entries(s, l), k, v, Capacity), {v},
                    IF Full(s) THEN {s.node[s.tail].val} ELSE {})
           /\ Full(s) => s.node[s.tail].val \in Values
<1>1. PICK e : e = Entries(s, l)
  OBVIOUS
<1>2. PICK t : t = bkt_insert(rec_link_head(Stored(room, n, k, v), n), n)
  OBVIOUS
<1>3. /\ Loaded(s, l) /\ Once(l) /\ l \in Seq(Nodes) /\ Len(l) \in Nat /\ Len(l) <= Capacity
      /\ s.count = Len(l) /\ s.tail = At(l, Len(l)) /\ Capacity \in Nat \ {0}
  BY CoreFacts, CoreLoaded, LruAssumption
<1>4. e \in Seq(EntrySet) /\ Len(e) = Len(l)
  BY <1>1, <1>3, EntriesFacts
<1>5. ~Map!LruHas(e, k) /\ Map!LruDrop(e, k) = e
  BY <1>1, <1>3, HasNoKey
<1>6. CASE Full(s)
  <2>1. Len(l) = Capacity /\ Len(l) \in 1 .. Len(l) /\ s.tail = l[Len(l)]
    BY <1>3, <1>6 DEF Full, At
  <2>2. PICK p \in 1 .. Len(l) : p = Len(l)
    BY <2>1
  <2>3. PICK x : x = s.tail
    OBVIOUS
  <2>4. x = l[p] /\ room = RemoveNode(s, x)
    BY <1>6, <2>1, <2>2, <2>3
  <2>5. PICK r : r = Without(l, p)
    OBVIOUS
  <2>6. PICK d : ListCore(room, r, d)
    BY <2>4, <2>5, NodeFreed
  <2>7. \A m \in Nodes : m # x => room.node[m].key = s.node[m].key
    BY <2>4, NodeFreed
  <2>8. Turns(s, l, room, Without(e, p), {}, {s.node[x].val}) /\ s.node[x].val \in Values
    <3>1. /\ Turns(s, l, RemoveNode(s, x), Without(Entries(s, l), p), {}, {s.node[x].val})
          /\ s.node[x].val \in Values
      BY <2>4, DropTurns
    <3> QED
      BY <1>1, <2>4, <3>1
  <2>9. PICK f : f = Entries(room, r)
    OBVIOUS
  <2>10. /\ f = Without(e, p) /\ Map!Held(f) \subseteq Map!Held(e) \cup {}
         /\ Map!Held(e) \ Map!Held(f) = {s.node[x].val}
    <3>1. PICK q, g : /\ ListCore(room, q, g) /\ Entries(room, q) = Without(e, p)
                      /\ Map!Held(Without(e, p)) \subseteq Map!Held(e) \cup {}
                      /\ Map!Held(e) \ Map!Held(Without(e, p)) = {s.node[x].val}
      BY <1>1, <2>8 DEF Turns
    <3>2. q = r
      BY <2>6, <3>1, Listed
    <3> QED
      BY <2>9, <3>1, <3>2
  <2>11. Without(e, p) = Map!Front(e)
    BY <1>3, <1>4, <2>1, <2>2, LastOff
  <2>12. Map!LruPut(e, k, v, Capacity) = <<[key |-> k, val |-> v]>> \o f
    BY <1>4, <1>5, <2>1, <2>10, <2>11 DEF Map!LruPut
  <2>13. r \in Seq(Nodes) /\ Len(r) = Len(l) - 1 /\ \A m : On(r, m) <=> On(l, m) /\ m # x
    BY <1>3, <2>4, <2>5, Removed, WithoutOnce
  <2>14. ~On(r, n) /\ v \notin Map!Held(f) /\ Len(r) < Capacity
    BY <1>1, <1>3, <2>1, <2>10, <2>13
  <2>15. \A i \in 1 .. Len(r) : room.node[r[i]].key # k
    <3>1. ASSUME NEW i \in 1 .. Len(r) PROVE room.node[r[i]].key # k
      <4>1. PICK m : m = r[i]
        OBVIOUS
      <4>2. m \in Nodes /\ On(r, m)
        BY <2>13, <4>1, NodesAt DEF On
      <4>3. On(l, m) /\ m # x
        BY <2>13, <4>2
      <4>4. s.node[m].key # k
        BY <4>3 DEF On
      <4> QED
        BY <2>7, <4>1, <4>2, <4>3, <4>4
    <3> QED
      BY <3>1
  <2>16. Turns(room, r, t, <<[key |-> k, val |-> v]>> \o f, {v}, {})
    BY <1>2, <2>6, <2>9, <2>14, <2>15, InsertTurns
  <2>17. PICK y : y = <<[key |-> k, val |-> v]>> \o f
    OBVIOUS
  <2>18. PICK q, g : /\ ListCore(t, q, g) /\ Entries(t, q) = y
                     /\ Map!Held(y) \subseteq Map!Held(f) \cup {v}
                     /\ Map!Held(f) \ Map!Held(y) = {}
    BY <2>9, <2>16, <2>17 DEF Turns
  <2>19. /\ Map!Held(y) \subseteq Map!Held(e) \cup {v}
         /\ Map!Held(e) \ Map!Held(y) = {s.node[x].val}
    <3>1. v \notin Map!Held(e)
      BY <1>1
    <3>2. s.node[x].val \in Map!Held(e) /\ s.node[x].val \notin Map!Held(f)
      BY <2>10
    <3> QED
      BY <2>10, <2>18, <3>1, <3>2
  <2>20. Turns(s, l, t, y, {v}, {s.node[x].val})
    BY <1>1, <2>18, <2>19 DEF Turns
  <2> QED
    BY <1>1, <1>2, <1>6, <2>3, <2>8, <2>12, <2>17, <2>20
<1>7. CASE ~Full(s)
  <2>1. Len(l) < Capacity
    <3>1. CASE Len(l) = 0
      BY <1>3, <3>1
    <3>2. CASE Len(l) # 0
      <4>1. s.tail # Nil
        <5>1. Len(l) \in 1 .. Len(l)
          BY <1>3, <3>2
        <5> QED
          BY <1>3, <5>1, NodesAt DEF At
      <4> QED
        BY <1>3, <1>7, <4>1 DEF Full
    <3> QED
      BY <3>1, <3>2
  <2>2. Map!LruPut(e, k, v, Capacity) = <<[key |-> k, val |-> v]>> \o e
    BY <1>3, <1>4, <1>5, <2>1 DEF Map!LruPut
  <2>3. Turns(s, l, t, <<[key |-> k, val |-> v]>> \o e, {v}, {})
    <3>1. room = s
      BY <1>7
    <3>2. t = bkt_insert(rec_link_head(Stored(s, n, k, v), n), n)
      BY <1>2, <3>1
    <3> QED
      BY <1>1, <2>1, <3>2, InsertTurns
  <2> QED
    BY <1>1, <1>2, <1>7, <2>2, <2>3
<1> QED
  BY <1>6, <1>7

-----------------------------------------------------------------------------
(* The refinement                                                            *)

\* What the owners got back is counted.
LEMMA CountsUp ==
    ASSUME NEW x \in [Values -> Nat]
    PROVE  /\ \A o \in Values : [x EXCEPT ![o] = @ + 1] = [v \in Values |-> x[v] + IF v \in {o} THEN 1 ELSE 0]
           /\ x = [v \in Values |-> x[v] + IF v \in {} THEN 1 ELSE 0]
           /\ \A gone : [v \in Values |-> x[v] + IF v \in gone THEN 1 ELSE 0] \in [Values -> Nat]
<1>1. \A v \in Values : x[v] \in Nat /\ x[v] + 0 = x[v] /\ x[v] + 1 \in Nat
  OBVIOUS
<1>2. ASSUME NEW o \in Values
      PROVE  [x EXCEPT ![o] = @ + 1] = [v \in Values |-> x[v] + IF v \in {o} THEN 1 ELSE 0]
  BY <1>1
<1>3. x = [v \in Values |-> x[v] + IF v \in {} THEN 1 ELSE 0]
  BY <1>1
<1>4. ASSUME NEW gone PROVE [v \in Values |-> x[v] + IF v \in gone THEN 1 ELSE 0] \in [Values -> Nat]
  BY <1>1
<1> QED
  BY <1>2, <1>3, <1>4

\* An operation that turns the one list into the other keeps the invariant.
LEMMA TurnsStep ==
    ASSUME NEW l, NEW c, ListCore(lr, l, c), Map!Held(Entries(lr, l)) \cap unused = {},
           unused \subseteq Values, evicted \in [Values -> Nat],
           NEW items, NEW new, NEW gone, Turns(lr, l, lr', items, new, gone), unused' = unused \ new,
           evicted' = [v \in Values |-> evicted[v] + IF v \in gone THEN 1 ELSE 0]
    PROVE  /\ LruInv' /\ Entries(lr', RecencyList(lr')) = items
           /\ Entries(lr, RecencyList(lr)) = Entries(lr, l)
           /\ Map!HandBack
<1>1. PICK q, d : /\ ListCore(lr', q, d) /\ Entries(lr', q) = items
                  /\ Map!Held(items) \subseteq Map!Held(Entries(lr, l)) \cup new
                  /\ Map!Held(Entries(lr, l)) \ Map!Held(items) = gone
  BY DEF Turns
<1>2. /\ Entries(lr', RecencyList(lr')) = items /\ Entries(lr, RecencyList(lr)) = Entries(lr, l)
  BY <1>1, CoreLoaded
<1>3. Map!Held(Entries(lr', q)) \cap unused' = {} /\ unused' \subseteq Values /\ evicted' \in [Values -> Nat]
  BY <1>1, CountsUp
<1>4. LruInv'
  BY <1>1, <1>3 DEF LruInv
<1>5. Map!HandBack
  BY <1>1, <1>2 DEF Map!HandBack
<1> QED
  BY <1>2, <1>4, <1>5

LEMMA InitMaps ==
    ASSUME LruInit
    PROVE  LruInv /\ Map!Init
<1>1. PICK s : s = lr
  OBVIOUS
<1>2. PICK l : l = <<>>
  OBVIOUS
<1>3. PICK c : c = [b \in Buckets |-> <<>>]
  OBVIOUS
<1>4. l \in Seq(Nodes) /\ Len(l) = 0 /\ Once(l) /\ (\A i : At(l, i) = Nil) /\ \A n : ~On(l, n)
  BY <1>2 DEF Once, At, On
<1>5. c \in [Buckets -> Seq(Nodes)] /\ \A b \in Buckets : c[b] = l
  BY <1>2, <1>3
<1>6. /\ s.count = 0 /\ s.head = Nil /\ s.tail = Nil /\ s.table = [b \in Buckets |-> Nil]
      /\ s.node = [n \in Nodes |-> NoRec] /\ s \in Maps
  <2>1. s = [count |-> 0, head |-> Nil, tail |-> Nil, table |-> [b \in Buckets |-> Nil],
             node |-> [n \in Nodes |-> NoRec]]
    BY <1>1 DEF LruInit, lru_new, Buckets
  <2>2. [b \in Buckets |-> Nil] \in [Buckets -> Refs] /\ [n \in Nodes |-> NoRec] \in [Nodes -> Recs]
    BY NoRecFacts DEF Refs
  <2> QED
    BY <2>1, <2>2 DEF Maps, Refs
<1>7. Listing(s, l)
  BY <1>4, <1>6 DEF Listing, Path
<1>8. Chains(s, c)
  BY <1>4, <1>5, <1>6 DEF Chains, Path
<1>9. ListCore(s, l, c)
  <2>1. \A n \in Nodes : ~s.node[n].live /\ s.node[n].next = Nil /\ s.node[n].next_bkt = Nil
    BY <1>6, NoRecFacts
  <2>2. 0 <= Capacity
    BY LruAssumption
  <2> QED
    BY <1>4, <1>5, <1>6, <1>7, <1>8, <2>1, <2>2 DEF ListCore
<1>10. Entries(s, RecencyList(s)) = <<>> /\ Entries(s, l) = <<>>
  <2>1. RecencyList(s) = <<>>
    BY <1>2, <1>9, Listed
  <2>2. Entries(s, <<>>) = <<>>
    BY DEF Entries
  <2> QED
    BY <1>2, <2>1, <2>2
<1>11. Map!Held(<<>>) = {}
  BY DEF Map!Held
<1>12. evicted \in [Values -> Nat] /\ unused = Values
  BY DEF LruInit
<1> QED
  BY <1>1, <1>9, <1>10, <1>11, <1>12 DEF LruInv, Map!Init, LruInit

LEMMA GetMaps ==
    ASSUME LruInv, NEW k \in Keys, lru_get(k)
    PROVE  LruInv' /\ Map!Get(k)
<1>1. PICK l, c : /\ ListCore(lr, l, c) /\ Map!Held(Entries(lr, l)) \cap unused = {}
                  /\ unused \subseteq Values /\ evicted \in [Values -> Nat]
  BY DEF LruInv
<1>2. PICK n : n = find_node(lr, k)
  OBVIOUS
<1>3. unused' = unused \ {} /\ evicted' = evicted /\ unused' = unused
  BY DEF lru_get
<1>4. evicted' = [v \in Values |-> evicted[v] + IF v \in {} THEN 1 ELSE 0]
  BY <1>1, <1>3, CountsUp
<1>5. Turns(lr, l, lr', Map!LruGet(Entries(lr, l), k), {}, {})
  <2>1. CASE n = Nil /\ \A i \in 1 .. Len(l) : lr.node[l[i]].key # k
    <3>1. lr' = lr
      BY <1>2, <2>1 DEF lru_get
    <3>2. ~Map!LruHas(Entries(lr, l), k)
      BY <1>1, <2>1, CoreLoaded, HasNoKey
    <3>3. Map!LruGet(Entries(lr, l), k) = Entries(lr, l)
      BY <3>2 DEF Map!LruGet
    <3> QED
      BY <1>1, <3>1, <3>3 DEF Turns
  <2>2. CASE /\ n \in Nodes /\ n # Nil
             /\ \E p \in 1 .. Len(l) : /\ l[p] = n /\ lr.node[n].key = k
                                       /\ \A i \in 1 .. Len(l) : lr.node[l[i]].key = k => i = p
    <3>1. lr' = rec_move_to_head(lr, n)
      BY <1>2, <2>2 DEF lru_get
    <3>2. PICK p \in 1 .. Len(l) : /\ l[p] = n /\ lr.node[n].key = k
                                   /\ \A i \in 1 .. Len(l) : lr.node[l[i]].key = k => i = p
      BY <2>2
    <3> QED
      BY <1>1, <3>1, <3>2, GetTurns
  <2> QED
    BY <1>1, <1>2, <2>1, <2>2, FoundAt
<1>6. /\ LruInv' /\ Entries(lr', RecencyList(lr')) = Map!LruGet(Entries(lr, l), k)
      /\ Entries(lr, RecencyList(lr)) = Entries(lr, l)
  BY <1>1, <1>3, <1>4, <1>5, TurnsStep
<1> QED
  BY <1>3, <1>6 DEF Map!Get

LEMMA InvalidateMaps ==
    ASSUME LruInv, NEW k \in Keys, lru_invalidate(k)
    PROVE  LruInv' /\ Map!Invalidate(k)
<1>1. PICK l, c : /\ ListCore(lr, l, c) /\ Map!Held(Entries(lr, l)) \cap unused = {}
                  /\ unused \subseteq Values /\ evicted \in [Values -> Nat]
  BY DEF LruInv
<1>2. PICK n : n = find_node(lr, k)
  OBVIOUS
<1>3. n # Nil /\ lr' = RemoveNode(lr, n) /\ unused' = unused /\ unused' = unused \ {}
  BY <1>2 DEF lru_invalidate
<1>4. PICK p \in 1 .. Len(l) : /\ l[p] = n /\ lr.node[n].key = k
                               /\ \A i \in 1 .. Len(l) : lr.node[l[i]].key = k => i = p
  BY <1>1, <1>2, <1>3, FoundAt
<1>5. PICK o : o = lr.node[n].val
  OBVIOUS
<1>6. Turns(lr, l, lr', Without(Entries(lr, l), p), {}, {o}) /\ o \in Values
  BY <1>1, <1>3, <1>4, <1>5, DropTurns
<1>7. Map!LruDrop(Entries(lr, l), k) = Without(Entries(lr, l), p)
  <2>1. Loaded(lr, l)
    BY <1>1, CoreLoaded
  <2> QED
    BY <1>4, <2>1, HasKey
<1>8. evicted' = [v \in Values |-> evicted[v] + IF v \in {o} THEN 1 ELSE 0]
  <2>1. evicted' = [evicted EXCEPT ![o] = @ + 1]
    BY <1>2, <1>5 DEF lru_invalidate, OnEvict
  <2> QED
    BY <1>1, <1>6, <2>1, CountsUp
<1>9. /\ LruInv' /\ Entries(lr', RecencyList(lr')) = Map!LruDrop(Entries(lr, l), k)
      /\ Entries(lr, RecencyList(lr)) = Entries(lr, l) /\ Map!HandBack
  BY <1>1, <1>3, <1>6, <1>7, <1>8, TurnsStep
<1> QED
  BY <1>3, <1>9 DEF Map!Invalidate

LEMMA PutMaps ==
    ASSUME LruInv, NEW k \in Keys, NEW v \in Values, lru_put(k, v)
    PROVE  LruInv' /\ Map!Put(k, v)
<1>1. PICK l, c : /\ ListCore(lr, l, c) /\ Map!Held(Entries(lr, l)) \cap unused = {}
                  /\ unused \subseteq Values /\ evicted \in [Values -> Nat]
  BY DEF LruInv
<1>2. PICK n : n = find_node(lr, k)
  OBVIOUS
<1>3. v \in unused /\ unused' = unused \ {v} /\ v \notin Map!Held(Entries(lr, l))
  BY <1>1 DEF lru_put
<1>4. PICK gone : /\ Turns(lr, l, lr', Map!LruPut(Entries(lr, l), k, v, Capacity), {v}, gone)
                  /\ evicted' = [w \in Values |-> evicted[w] + IF w \in gone THEN 1 ELSE 0]
  <2>1. CASE n = Nil /\ \A i \in 1 .. Len(l) : lr.node[l[i]].key # k
    <3>1. PICK new : new = CHOOSE m \in Nodes : ~lr.node[m].live
      OBVIOUS
    <3>2. PICK room : room = IF Full(lr) THEN RemoveNode(lr, lr.tail) ELSE lr
      OBVIOUS
    <3>3. new \in Nodes /\ ~On(l, new)
      <4>1. l \in Seq(Nodes) /\ Len(l) <= Capacity
        BY <1>1, CoreFacts
      <4>2. \E m \in Nodes : ~lr.node[m].live
        BY <1>1, <4>1, NodeLeft DEF ListCore
      <4>3. new \in Nodes /\ ~lr.node[new].live
        BY <3>1, <4>2
      <4> QED
        BY <1>1, <4>3 DEF ListCore
    <3>4. lr' = bkt_insert(rec_link_head(Stored(room, new, k, v), new), new)
      BY <1>2, <2>1, <3>1, <3>2 DEF lru_put, Stored
    <3>5. /\ Turns(lr, l, lr', Map!LruPut(Entries(lr, l), k, v, Capacity), {v},
                   IF Full(lr) THEN {lr.node[lr.tail].val} ELSE {})
          /\ Full(lr) => lr.node[lr.tail].val \in Values
      BY <1>1, <1>3, <2>1, <3>2, <3>3, <3>4, PutTurns
    <3>6. CASE Full(lr)
      <4>1. PICK o : o = lr.node[lr.tail].val
        OBVIOUS
      <4>2. evicted' = [evicted EXCEPT ![o] = @ + 1]
        BY <1>2, <2>1, <3>6, <4>1 DEF lru_put, OnEvict
      <4>3. evicted' = [w \in Values |-> evicted[w] + IF w \in {o} THEN 1 ELSE 0]
        <5>1. o \in Values
          BY <3>5, <3>6, <4>1
        <5>2. evicted \in [Values -> Nat]
          BY <1>1
        <5>3. [evicted EXCEPT ![o] = @ + 1] = [w \in Values |-> evicted[w] + IF w \in {o} THEN 1 ELSE 0]
          BY <5>1, <5>2, CountsUp
        <5> QED
          BY <4>2, <5>3
      <4>4. Turns(lr, l, lr', Map!LruPut(Entries(lr, l), k, v, Capacity), {v}, {o})
        BY <3>5, <3>6, <4>1
      <4> QED
        BY <4>3, <4>4
    <3>7. CASE ~Full(lr)
      <4>1. evicted' = evicted
        BY <1>2, <2>1, <3>7 DEF lru_put
      <4>2. evicted' = [w \in Values |-> evicted[w] + IF w \in {} THEN 1 ELSE 0]
        BY <1>1, <4>1, CountsUp
      <4>3. Turns(lr, l, lr', Map!LruPut(Entries(lr, l), k, v, Capacity), {v}, {})
        BY <3>5, <3>7
      <4> QED
        BY <4>2, <4>3
    <3> QED
      BY <3>6, <3>7
  <2>2. CASE /\ n \in Nodes /\ n # Nil
             /\ \E p \in 1 .. Len(l) : /\ l[p] = n /\ lr.node[n].key = k
                                       /\ \A i \in 1 .. Len(l) : lr.node[l[i]].key = k => i = p
    <3>1. lr' = rec_move_to_head(WithValue(lr, n, v), n) /\ evicted' = [evicted EXCEPT ![lr.node[n].val] = @ + 1]
      BY <1>2, <2>2 DEF lru_put, OnEvict, WithValue
    <3>2. PICK p \in 1 .. Len(l) : /\ l[p] = n /\ lr.node[n].key = k
                                   /\ \A i \in 1 .. Len(l) : lr.node[l[i]].key = k => i = p
      BY <2>2
    <3>3. PICK o : o = lr.node[n].val
      OBVIOUS
    <3>4. Turns(lr, l, lr', Map!LruPut(Entries(lr, l), k, v, Capacity), {v}, {o}) /\ o \in Values
      BY <1>1, <1>3, <3>1, <3>2, <3>3, RenewTurns
    <3>5. evicted' = [w \in Values |-> evicted[w] + IF w \in {o} THEN 1 ELSE 0]
      <4>1. evicted \in [Values -> Nat] /\ evicted' = [evicted EXCEPT ![o] = @ + 1]
        BY <1>1, <3>1, <3>3
      <4>2. [evicted EXCEPT ![o] = @ + 1] = [w \in Values |-> evicted[w] + IF w \in {o} THEN 1 ELSE 0]
        BY <3>4, <4>1, CountsUp
      <4> QED
        BY <4>1, <4>2
    <3> QED
      BY <3>4, <3>5
  <2>3. \/ n = Nil /\ \A i \in 1 .. Len(l) : lr.node[l[i]].key # k
        \/ /\ n \in Nodes /\ n # Nil
           /\ \E p \in 1 .. Len(l) : /\ l[p] = n /\ lr.node[n].key = k
                                     /\ \A i \in 1 .. Len(l) : lr.node[l[i]].key = k => i = p
    BY <1>1, <1>2, FoundAt
  <2> QED
    BY <2>1, <2>2, <2>3
<1>5. /\ LruInv' /\ Entries(lr', RecencyList(lr')) = Map!LruPut(Entries(lr, l), k, v, Capacity)
      /\ Entries(lr, RecencyList(lr)) = Entries(lr, l) /\ Map!HandBack
  BY <1>1, <1>3, <1>4, TurnsStep
<1> QED
  BY <1>3, <1>5 DEF Map!Put

LEMMA NextMaps ==
    ASSUME LruInv, [LruNext]_lruVars
    PROVE  LruInv' /\ [Map!Next]_<<Entries(lr, RecencyList(lr)), unused, evicted>>
<1>1. CASE UNCHANGED lruVars
  <2>1. lr' = lr /\ unused' = unused /\ evicted' = evicted
    BY <1>1 DEF lruVars
  <2>2. LruInv'
    BY <2>1 DEF LruInv
  <2> QED
    BY <2>1, <2>2
<1>2. ASSUME NEW k \in Keys, lru_get(k) PROVE LruInv' /\ Map!Next
  BY <1>2, GetMaps DEF Map!Next
<1>3. ASSUME NEW k \in Keys, lru_invalidate(k) PROVE LruInv' /\ Map!Next
  BY <1>3, InvalidateMaps DEF Map!Next
<1>4. ASSUME NEW k \in Keys, NEW v \in Values, lru_put(k, v) PROVE LruInv' /\ Map!Next
  BY <1>4, PutMaps DEF Map!Next
<1> QED
  BY <1>1, <1>2, <1>3, <1>4 DEF LruNext

\* Whatever the capacity, the number of buckets and the keys that collide: through both of its
\* pointer structures lru.c does what lru.h says. A get finds the entry of its key and makes it
\* the most recent, a put replaces it or displaces the least recently used one of a full map, and
\* each value that leaves is handed to on_evict in that step, once.
THEOREM LruImplementsMap == LruSpec => ImplementsMap
<1>1. LruInit => LruInv /\ Map!Init
  BY InitMaps
<1>2. LruInv /\ [LruNext]_lruVars => LruInv' /\ [Map!Next]_<<Entries(lr, RecencyList(lr)), unused, evicted>>
  BY NextMaps
<1> QED
  BY <1>1, <1>2, PTL DEF LruSpec, ImplementsMap, Map!Spec
=============================================================================
