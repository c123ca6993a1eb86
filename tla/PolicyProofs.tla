---------------------------- MODULE PolicyProofs -----------------------------
(***************************************************************************)
(* Proofs about two policies: the gates (Gate), for any number of          *)
(* requests, keys and groups, and a shard of the response cache            *)
(* (ResponseCache), for any number of readers, keys, limits and calls.     *)
(*                                                                         *)
(* BurstInv: what a bucket has given out since the key's rate was set and  *)
(* what is left in it is at most a full bucket and the refill up to the    *)
(* bucket's last call. BurstBounded forgets what is left, and so cannot be *)
(* carried through a call by itself.                                       *)
(*                                                                         *)
(* HeldInv: a request past a limit's check stands for the payment it may   *)
(* still make. It is counted with its own key at one point only, so a      *)
(* payment takes away what it adds, and a request that comes in below the  *)
(* limit finds at most all the others there.                               *)
(*                                                                         *)
(* GroupInv: the ledger of the month as a set of numbered payments, and    *)
(* what GroupsFollow says of an idle administrator while a request of his  *)
(* is between the row and the node.                                        *)
(*                                                                         *)
(* CacheInv.  The books of the shard are right (Books): the list has no    *)
(* entry twice, count is its length and bytes_used is the sum of the       *)
(* lengths; a sum over a set is a loop over the numbers of the entries     *)
(* (SumIs), and taking an entry out, putting one in front, and the two     *)
(* loops of response_cache_set and of a purge are shown to keep them right *)
(* (MadeRoom, Purged).  refs of an entry is the number of the readers that *)
(* hold it (RefsCount), whether it is still listed or not.  An entry that  *)
(* is no longer listed departs once (Departs): as long as somebody counts  *)
(* on it, or the lock is held over its mark, it is in use and its mark is  *)
(* still to be seen by the last reader, exactly one; after that it is      *)
(* freed.  Only the entries of the known race (raced) are excepted.        *)
(***************************************************************************)
EXTENDS Gate, ResponseCache, Integers, FiniteSetTheorems, SequenceTheorems, WellFoundedInduction, NaturalsInduction, TLAPS

\* The local bucket of a key, and its hash in Redis.
Buckets == [tokens : Nat, cap : Nat, last : Nat, used : Nat, rused : Nat]

\* Min of FiniteSetsExt, for the two arguments of a refill.
LEMMA MinOfTwo ==
    ASSUME NEW a \in Int, NEW b \in Int
    PROVE  /\ Min({a, b}) \in {a, b}
           /\ Min({a, b}) <= a /\ Min({a, b}) <= b
<1>1. \E x \in {a, b} : \A y \in {a, b} : x =< y
  BY DEF Min
<1>2. Min({a, b}) \in {a, b} /\ \A y \in {a, b} : Min({a, b}) =< y
  BY <1>1 DEF Min
<1> QED
  BY <1>2

LEMMA MinOfNats ==
    ASSUME NEW a \in Nat, NEW b \in Nat, NEW c \in Nat
    PROVE  /\ Min({a, b + c}) \in Nat
           /\ Min({a, b + c}) <= a /\ Min({a, b + c}) <= b + c
<1> DEFINE d == b + c
<1>1. d \in Nat
  OBVIOUS
<1> HIDE DEF d
<1>2. Min({a, d}) \in {a, d} /\ Min({a, d}) <= a /\ Min({a, d}) <= d
  BY <1>1, MinOfTwo
<1>3. Min({a, d}) \in Nat
  BY <1>1, <1>2
<1> QED
  BY <1>2, <1>3 DEF d

LEMMA Products ==
    /\ \A a, b, c \in Int : (a - b) * c = (a * c) - (b * c) /\ (a + b) * c = (a * c) + (b * c)
    /\ \A a, b \in Nat : a * b \in Nat
    /\ \A a, b \in Int : a * b \in Int
  OBVIOUS

\* What a refill leaves in a bucket: never more than its size, never more than before and the
\* refill of the time passed.
LEMMA RefillFacts ==
    ASSUME NEW b \in Buckets, NEW qps \in Nat, now \in Nat, b.last <= now
    PROVE  /\ RefillLocal(b, qps) \in Buckets /\ RefillLocal(b, qps).last = now
           /\ b.cap = 0 \/ b.last = 0 =>
                RefillLocal(b, qps).cap = qps * Scale /\ RefillLocal(b, qps).tokens = qps * Scale
           /\ ~(b.cap = 0 \/ b.last = 0) =>
                /\ RefillLocal(b, qps).cap = b.cap /\ RefillLocal(b, qps).tokens <= b.cap
                /\ RefillLocal(b, qps).tokens <= b.tokens + ((now - b.last) * qps)
           /\ RefillShared(b, qps) \in Buckets /\ RefillShared(b, qps).last = now
           /\ RefillShared(b, qps).tokens <= qps * Scale
           /\ b.last # 0 => RefillShared(b, qps).tokens <= b.tokens + ((now - b.last) * qps)
<1> DEFINE size == qps * Scale
           more == (now - b.last) * qps
           fresh == b.cap = 0 \/ b.last = 0
           c == IF fresh THEN size ELSE b.cap
           t == IF fresh THEN c ELSE Min({c, b.tokens + more})
           u == IF b.last = 0 THEN size ELSE Min({size, b.tokens + more})
<1>1. b.cap \in Nat /\ b.tokens \in Nat /\ b.last \in Nat
  BY DEF Buckets
<1>2. size \in Nat /\ more \in Nat
  BY <1>1, GateAssumption, Products
<1>3. /\ RefillLocal(b, qps) = [b EXCEPT !.last = now, !.cap = c, !.tokens = t]
      /\ RefillShared(b, qps) = [b EXCEPT !.last = now, !.cap = size, !.tokens = u]
  BY DEF RefillLocal, RefillShared
<1> HIDE DEF size, more
<1>4. c \in Nat /\ t \in Nat /\ t <= c /\ (~fresh => t <= b.tokens + more)
  <2> DEFINE m == Min({b.cap, b.tokens + more})
  <2>1. m \in Nat /\ m <= b.cap /\ m <= b.tokens + more
    BY <1>1, <1>2, MinOfNats
  <2>2. CASE fresh
    BY <1>2, <2>2
  <2>3. CASE ~fresh
    <3>1. c = b.cap /\ t = m
      BY <2>3
    <3> QED
      BY <1>1, <2>1, <2>3, <3>1
  <2> QED
    BY <2>2, <2>3
<1>5. u \in Nat /\ u <= size /\ (b.last # 0 => u <= b.tokens + more)
  <2> DEFINE m == Min({size, b.tokens + more})
  <2>1. m \in Nat /\ m <= size /\ m <= b.tokens + more
    BY <1>1, <1>2, MinOfNats
  <2> HIDE DEF m
  <2>2. u = IF b.last = 0 THEN size ELSE m
    BY DEF m
  <2> QED
    BY <1>2, <2>1, <2>2
<1>8. fresh => c = size /\ t = size
  OBVIOUS
<1>9. ~fresh => c = b.cap
  OBVIOUS
<1> HIDE DEF c, t, u
<1>6. /\ RefillLocal(b, qps) \in Buckets /\ RefillLocal(b, qps).last = now
      /\ RefillLocal(b, qps).cap = c /\ RefillLocal(b, qps).tokens = t
  BY <1>3, <1>4 DEF Buckets
<1>7. /\ RefillShared(b, qps) \in Buckets /\ RefillShared(b, qps).last = now
      /\ RefillShared(b, qps).tokens = u
  BY <1>2, <1>3, <1>5 DEF Buckets
<1> QED
  BY <1>4, <1>5, <1>6, <1>7, <1>8, <1>9 DEF size, more

-----------------------------------------------------------------------------
(* Requests per second                                                       *)

LimitTypes ==
    /\ mode \in {"local", "open", "closed"} /\ redisUp \in BOOLEAN /\ outage \in BOOLEAN
    /\ ~outage => redisUp
    /\ now \in Nat \ {0}
    /\ rate \in [Keys -> Nat]
    /\ bucket \in [Keys -> Buckets] /\ shared \in [Keys -> Buckets]
    /\ burst \in [Keys -> [n : Nat, from : Nat]]
    /\ \A k \in Keys : /\ bucket[k].last <= now /\ shared[k].last <= now
                       /\ burst[k].from <= now /\ burst[k].from # 0

\* What was given out and what is left is a full bucket and the refill up to the last call.
Metered(b, h, size, qps) ==
    h.n > 0 => b.last >= h.from /\ (h.n * Scale) + b.tokens <= size + ((b.last - h.from) * qps)

KeyMetered(k) ==
    rate[k] > 0 =>
       IF mode = "local"
       THEN /\ bucket[k].cap = 0 \/ bucket[k].last = 0 => burst[k].n = 0
            /\ Metered(bucket[k], burst[k], bucket[k].cap, rate[k])
       ELSE Metered(shared[k], burst[k], rate[k] * Scale, rate[k])

BurstInv == LimitTypes /\ (~outage => \A k \in Keys : KeyMetered(k))

LEMMA MeterStep ==
    ASSUME NEW n \in Nat, NEW t \in Nat, NEW l \in Nat, NEW size \in Nat, NEW qps \in Nat,
           NEW from \in Nat, NEW at \in Nat, NEW u \in Nat, l <= at, from <= at,
           n > 0 => l >= from /\ (n * Scale) + t <= size + ((l - from) * qps),
           u <= size, n > 0 => u <= t + ((at - l) * qps)
    PROVE  /\ (n * Scale) + u <= size + ((at - from) * qps)
           /\ u >= Scale => ((n + 1) * Scale) + (u - Scale) <= size + ((at - from) * qps)
<1> DEFINE x == (l - from) * qps
           y == (at - l) * qps
           z == (at - from) * qps
           m == n * Scale
<1>0. Scale \in Nat
  BY GateAssumption
<1>1. z \in Nat /\ x \in Int /\ y \in Int /\ m \in Nat /\ (n = 0 => m = 0)
  BY <1>0, Products
<1>2. z = x + y
  <2>1. /\ x = (l * qps) - (from * qps) /\ y = (at * qps) - (l * qps) /\ z = (at * qps) - (from * qps)
    BY Products
  <2>2. l * qps \in Int /\ from * qps \in Int /\ at * qps \in Int
    BY Products
  <2> QED
    BY <2>1, <2>2
<1>3. (n + 1) * Scale = m + Scale
  BY <1>0, Products
<1> HIDE DEF x, y, z, m
<1>4. m + u <= size + z
  <2>1. CASE n = 0
    BY <1>1, <2>1
  <2>2. CASE n > 0
    BY <1>1, <1>2, <2>2 DEF x, y, m
  <2> QED
    BY <2>1, <2>2
<1>5. u >= Scale => (m + Scale) + (u - Scale) <= size + z
  BY <1>0, <1>1, <1>4
<1> QED
  BY <1>3, <1>4, <1>5 DEF m, z

\* One call for a key with a limit: c is the refilled bucket.
LEMMA TakenMetered ==
    ASSUME NEW b \in Buckets, NEW c \in Buckets, NEW h \in [n : Nat, from : Nat], NEW d,
           NEW size \in Nat, NEW qps \in Nat, now \in Nat, b.last <= now, h.from <= now, c.last = now,
           Metered(b, h, size, qps), c.tokens <= size,
           h.n > 0 => c.tokens <= b.tokens + ((now - b.last) * qps),
           d = IF c.tokens >= Scale THEN [h EXCEPT !.n = h.n + 1] ELSE h
    PROVE  /\ Taken(c) \in Buckets /\ Taken(c).last = now /\ Taken(c).cap = c.cap
           /\ d \in [n : Nat, from : Nat] /\ d.from = h.from
           /\ Metered(Taken(c), d, size, qps)
<1>1. /\ b.tokens \in Nat /\ b.last \in Nat /\ c.tokens \in Nat /\ h.n \in Nat /\ h.from \in Nat
      /\ Scale \in Nat
  BY GateAssumption DEF Buckets
<1>2. /\ (h.n * Scale) + c.tokens <= size + ((now - h.from) * qps)
      /\ c.tokens >= Scale => ((h.n + 1) * Scale) + (c.tokens - Scale) <= size + ((now - h.from) * qps)
  BY <1>1, MeterStep DEF Metered
<1>3. CASE c.tokens >= Scale
  <2>1. d = [h EXCEPT !.n = h.n + 1] /\ Taken(c) = [c EXCEPT !.tokens = c.tokens - Scale]
    BY <1>3 DEF Taken
  <2>2. d \in [n : Nat, from : Nat] /\ d.n = h.n + 1 /\ d.from = h.from
    BY <2>1
  <2>3. c.tokens - Scale \in Nat
    BY <1>1, <1>3
  <2>4. /\ Taken(c) \in Buckets /\ Taken(c).last = now /\ Taken(c).cap = c.cap
        /\ Taken(c).tokens = c.tokens - Scale
    BY <2>1, <2>3 DEF Buckets
  <2> QED
    BY <1>2, <1>3, <2>2, <2>4 DEF Metered
<1>4. CASE ~(c.tokens >= Scale)
  <2>1. d = h /\ Taken(c) = c
    BY <1>4 DEF Taken
  <2> QED
    BY <1>2, <2>1 DEF Metered
<1> QED
  BY <1>3, <1>4

\* A key whose bucket was not touched, or whose other fields only were.
LEMMA SameMeter ==
    ASSUME NEW k \in Keys, KeyMetered(k), UNCHANGED mode, rate'[k] = rate[k], burst'[k] = burst[k],
           bucket'[k].tokens = bucket[k].tokens, bucket'[k].cap = bucket[k].cap,
           bucket'[k].last = bucket[k].last,
           shared'[k].tokens = shared[k].tokens, shared'[k].last = shared[k].last
    PROVE  KeyMetered(k)'
  BY DEF KeyMetered, Metered

LEMMA Counted ==
    ASSUME NEW h \in [n : Nat, from : Nat]
    PROVE  /\ [h EXCEPT !.n = h.n + 1] \in [n : Nat, from : Nat]
           /\ [h EXCEPT !.n = h.n + 1].from = h.from
  OBVIOUS

LEMMA TakenFacts ==
    ASSUME NEW c \in Buckets
    PROVE  Taken(c) \in Buckets /\ Taken(c).last = c.last /\ Taken(c).cap = c.cap /\ Taken(c).used = c.used
<1>1. c.tokens \in Nat /\ Scale \in Nat
  BY GateAssumption DEF Buckets
<1>2. CASE c.tokens >= Scale
  <2>1. c.tokens - Scale \in Nat
    BY <1>1, <1>2
  <2> QED
    BY <1>2, <2>1 DEF Taken, Buckets
<1>3. CASE ~(c.tokens >= Scale)
  BY <1>3 DEF Taken
<1> QED
  BY <1>2, <1>3

LEMMA AllowInv ==
    ASSUME BurstInv, NEW r, NEW k \in Keys, rl_allow_request(r, k)
    PROVE  BurstInv'
<1> DEFINE qps == rate[k]
           h == burst[k]
           b == IF Table = "shared" THEN RefillShared(shared[k], qps) ELSE RefillLocal(bucket[k], qps)
           counted == [burst EXCEPT ![k] = [h EXCEPT !.n = h.n + 1]]
<1>1. /\ UNCHANGED <<mode, redisUp, now, rate, outage>>
      /\ qps = 0 => /\ bucket' = IF mode = "local"
                                 THEN [bucket EXCEPT ![k] = [bucket[k] EXCEPT !.cap = 0, !.tokens = 0]] ELSE bucket
                    /\ UNCHANGED <<shared, burst>>
      /\ qps # 0 => /\ bucket' = IF Table = "bucket" THEN [bucket EXCEPT ![k] = Taken(b)] ELSE bucket
                    /\ shared' = IF Table = "shared" THEN [shared EXCEPT ![k] = Taken(b)] ELSE shared
                    /\ burst' = IF Table # "none" /\ b.tokens >= Scale THEN counted ELSE burst
  BY DEF rl_allow_request
<1>2. /\ LimitTypes /\ now \in Nat /\ qps \in Nat /\ bucket[k] \in Buckets /\ shared[k] \in Buckets
      /\ h \in [n : Nat, from : Nat] /\ h.from <= now /\ h.from # 0
      /\ bucket[k].last <= now /\ shared[k].last <= now /\ Scale \in Nat
  BY GateAssumption DEF BurstInv, LimitTypes
<1>3. ASSUME NEW j \in Keys, j # k, ~outage, bucket'[j] = bucket[j], shared'[j] = shared[j], burst'[j] = burst[j]
      PROVE  KeyMetered(j)'
  <2>1. KeyMetered(j)
    BY <1>3 DEF BurstInv
  <2> QED
    BY <1>1, <1>3, <2>1, SameMeter
<1>4. CASE qps = 0
  <2>1. [bucket[k] EXCEPT !.cap = 0, !.tokens = 0] \in Buckets
        /\ [bucket[k] EXCEPT !.cap = 0, !.tokens = 0].last = bucket[k].last
    BY <1>2 DEF Buckets
  <2>2. /\ bucket' \in [Keys -> Buckets] /\ bucket'[k].last <= now
        /\ \A j \in Keys : j # k => bucket'[j] = bucket[j]
    BY <1>1, <1>2, <1>4, <2>1 DEF LimitTypes
  <2>3. LimitTypes'
    BY <1>1, <1>2, <1>4, <2>2 DEF LimitTypes
  <2>4. KeyMetered(k)'
    BY <1>1, <1>4 DEF KeyMetered
  <2> QED
    BY <1>1, <1>3, <1>4, <2>2, <2>3, <2>4 DEF BurstInv
<1>5. CASE qps # 0 /\ Table = "none"
  <2>1. UNCHANGED <<bucket, shared, burst>>
    BY <1>1, <1>5
  <2>2. outage
    BY <1>5 DEF BurstInv, LimitTypes, Table
  <2> QED
    BY <1>1, <1>2, <2>1, <2>2 DEF BurstInv, LimitTypes
<1>6. counted \in [Keys -> [n : Nat, from : Nat]] /\ counted[k].from = h.from
      /\ \A j \in Keys : j # k => counted[j] = burst[j]
  BY <1>2, Counted DEF LimitTypes
<1>7. CASE qps # 0 /\ Table = "shared"
  <2>1. /\ bucket' = bucket /\ shared' = [shared EXCEPT ![k] = Taken(b)] /\ b = RefillShared(shared[k], qps)
        /\ burst' = IF b.tokens >= Scale THEN counted ELSE burst
    BY <1>1, <1>7
  <2>2. /\ b \in Buckets /\ b.last = now /\ b.tokens <= qps * Scale
        /\ shared[k].last # 0 => b.tokens <= shared[k].tokens + ((now - shared[k].last) * qps)
    BY <1>2, <2>1, RefillFacts
  <2>3. Taken(b) \in Buckets /\ Taken(b).last = now
    BY <2>2, TakenFacts
  <2> HIDE DEF b, counted
  <2>4. /\ shared' \in [Keys -> Buckets] /\ burst' \in [Keys -> [n : Nat, from : Nat]]
        /\ shared'[k] = Taken(b) /\ burst'[k].from = h.from
        /\ \A j \in Keys : j # k => shared'[j] = shared[j] /\ burst'[j] = burst[j]
    BY <1>2, <1>6, <2>1, <2>3 DEF LimitTypes
  <2>5. LimitTypes'
    BY <1>1, <1>2, <2>1, <2>3, <2>4 DEF LimitTypes
  <2>6. ASSUME ~outage PROVE KeyMetered(k)'
    <3>1. mode # "local"
      BY <1>7 DEF Table
    <3>2. Metered(shared[k], h, qps * Scale, qps)
      BY <1>7, <2>6, <3>1, <1>2 DEF BurstInv, KeyMetered
    <3>3. h.n > 0 => shared[k].last # 0
      BY <1>2, <3>2 DEF Metered
    <3>4. burst'[k] = IF b.tokens >= Scale THEN [h EXCEPT !.n = h.n + 1] ELSE h
      BY <1>2, <2>1 DEF counted, LimitTypes
    <3>5. qps * Scale \in Nat
      BY <1>2, Products
    <3>6. Metered(Taken(b), burst'[k], qps * Scale, qps)
      BY <1>2, <2>2, <3>2, <3>3, <3>4, <3>5, TakenMetered
    <3> QED
      BY <1>1, <2>4, <3>1, <3>6 DEF KeyMetered, Metered
  <2> QED
    BY <1>1, <1>3, <2>1, <2>4, <2>5, <2>6 DEF BurstInv
<1>8. CASE qps # 0 /\ Table = "bucket"
  <2>1. /\ shared' = shared /\ bucket' = [bucket EXCEPT ![k] = Taken(b)] /\ b = RefillLocal(bucket[k], qps)
        /\ burst' = IF b.tokens >= Scale THEN counted ELSE burst
    BY <1>1, <1>8
  <2> DEFINE fresh == bucket[k].cap = 0 \/ bucket[k].last = 0
  <2>2. /\ b \in Buckets /\ b.last = now /\ b.tokens <= b.cap /\ b.cap \in Nat
        /\ fresh => b.cap = qps * Scale
        /\ ~fresh => b.cap = bucket[k].cap /\ b.tokens <= bucket[k].tokens + ((now - bucket[k].last) * qps)
    <3>1. /\ b \in Buckets /\ b.last = now
          /\ fresh => b.cap = qps * Scale /\ b.tokens = qps * Scale
          /\ ~fresh => /\ b.cap = bucket[k].cap /\ b.tokens <= bucket[k].cap
                       /\ b.tokens <= bucket[k].tokens + ((now - bucket[k].last) * qps)
      BY <1>2, <2>1, RefillFacts
    <3>2. b.cap \in Nat /\ b.tokens \in Nat
      BY <3>1 DEF Buckets
    <3> HIDE DEF b
    <3> QED
      BY <3>1, <3>2
  <2>3. Taken(b) \in Buckets /\ Taken(b).last = now
    BY <2>2, TakenFacts
  <2> HIDE DEF b, counted
  <2>4. /\ bucket' \in [Keys -> Buckets] /\ burst' \in [Keys -> [n : Nat, from : Nat]]
        /\ bucket'[k] = Taken(b) /\ burst'[k].from = h.from
        /\ \A j \in Keys : j # k => bucket'[j] = bucket[j] /\ burst'[j] = burst[j]
    BY <1>2, <1>6, <2>1, <2>3 DEF LimitTypes
  <2>5. LimitTypes'
    BY <1>1, <1>2, <2>1, <2>3, <2>4 DEF LimitTypes
  <2>6. ASSUME ~outage PROVE KeyMetered(k)'
    <3>1. mode = "local"
      BY <1>8, <2>6, <1>2 DEF Table, LimitTypes
    <3>2. (fresh => h.n = 0) /\ Metered(bucket[k], h, bucket[k].cap, qps)
      BY <1>8, <2>6, <3>1, <1>2 DEF BurstInv, KeyMetered
    <3>3. Metered(bucket[k], h, b.cap, qps)
      BY <2>2, <3>2, <1>2 DEF Metered
    <3>4. burst'[k] = IF b.tokens >= Scale THEN [h EXCEPT !.n = h.n + 1] ELSE h
      BY <1>2, <2>1 DEF counted, LimitTypes
    <3>5. h.n > 0 => b.tokens <= bucket[k].tokens + ((now - bucket[k].last) * qps)
      BY <1>2, <2>2, <3>2
    <3>6. Metered(Taken(b), burst'[k], b.cap, qps) /\ Taken(b).cap = b.cap
      BY <1>2, <2>2, <3>3, <3>4, <3>5, TakenMetered
    <3>7. b.cap # 0
      <4>1. qps * Scale # 0
        BY <1>2, <1>8, GateAssumption
      <4> QED
        BY <2>2, <4>1
    <3> QED
      BY <1>1, <1>2, <2>3, <2>4, <3>1, <3>6, <3>7 DEF KeyMetered, Metered
  <2> QED
    BY <1>1, <1>3, <2>1, <2>4, <2>5, <2>6 DEF BurstInv
<1>9. Table \in {"none", "shared", "bucket"}
  BY DEF Table
<1> QED
  BY <1>4, <1>5, <1>7, <1>8, <1>9

\* The counters of the day are not part of the meter.
SameLevels(f, g) == \A k \in Keys : f[k].tokens = g[k].tokens /\ f[k].cap = g[k].cap /\ f[k].last = g[k].last

LEMMA LevelsKept ==
    ASSUME BurstInv, bucket' \in [Keys -> Buckets], shared' \in [Keys -> Buckets],
           SameLevels(bucket', bucket), SameLevels(shared', shared), UNCHANGED <<mode, rate, burst>>,
           now' \in Nat, now' >= now, redisUp' \in BOOLEAN, outage' \in BOOLEAN, outage => outage', ~outage' => redisUp'
    PROVE  BurstInv'
<1>1. LimitTypes'
  <2>1. ASSUME NEW k \in Keys
        PROVE  bucket'[k].last <= now' /\ shared'[k].last <= now' /\ burst[k].from <= now' /\ burst[k].from # 0
    <3>1. /\ bucket'[k].last <= now /\ shared'[k].last <= now /\ burst[k].from <= now /\ burst[k].from # 0
          /\ now \in Nat /\ burst[k].from \in Nat
      BY DEF BurstInv, LimitTypes, SameLevels
    <3>2. bucket'[k].last \in Nat /\ shared'[k].last \in Nat
      BY DEF Buckets
    <3> QED
      BY <3>1, <3>2
  <2>2. now' # 0
    BY DEF BurstInv, LimitTypes
  <2> QED
    BY <2>1, <2>2 DEF BurstInv, LimitTypes
<1>2. ASSUME ~outage', NEW k \in Keys PROVE KeyMetered(k)'
  <2>1. KeyMetered(k)
    BY <1>2 DEF BurstInv
  <2> QED
    BY <2>1, SameMeter DEF SameLevels
<1> QED
  BY <1>1, <1>2 DEF BurstInv

LEMMA DayCounters ==
    ASSUME NEW f \in [Keys -> Buckets], NEW k \in Keys, NEW n \in Nat
    PROVE  /\ [f EXCEPT ![k].used = @ + n] \in [Keys -> Buckets]
           /\ SameLevels([f EXCEPT ![k].used = @ + n], f)
           /\ [f EXCEPT ![k].rused = @ + n] \in [Keys -> Buckets]
           /\ SameLevels([f EXCEPT ![k].rused = @ + n], f)
           /\ [j \in Keys |-> [f[j] EXCEPT !.used = 0, !.rused = 0]] \in [Keys -> Buckets]
           /\ SameLevels([j \in Keys |-> [f[j] EXCEPT !.used = 0, !.rused = 0]], f)
<1>1. ASSUME NEW j \in Keys
      PROVE  /\ [f[j] EXCEPT !.used = 0, !.rused = 0] \in Buckets
             /\ [f[j] EXCEPT !.used = 0, !.rused = 0].tokens = f[j].tokens
             /\ [f[j] EXCEPT !.used = 0, !.rused = 0].cap = f[j].cap
             /\ [f[j] EXCEPT !.used = 0, !.rused = 0].last = f[j].last
  <2>1. f[j] \in Buckets
    OBVIOUS
  <2> QED
    BY <2>1 DEF Buckets
<1>2. f[k] \in Buckets /\ f[k].used \in Nat /\ f[k].rused \in Nat
  BY DEF Buckets
<1> DEFINE u == [f[k] EXCEPT !.used = f[k].used + n]
           v == [f[k] EXCEPT !.rused = f[k].rused + n]
<1>3. u \in Buckets /\ u.tokens = f[k].tokens /\ u.cap = f[k].cap /\ u.last = f[k].last
  BY <1>2 DEF Buckets
<1>4. v \in Buckets /\ v.tokens = f[k].tokens /\ v.cap = f[k].cap /\ v.last = f[k].last
  BY <1>2 DEF Buckets
<1>5. [f EXCEPT ![k].used = @ + n] = [f EXCEPT ![k] = u] /\ [f EXCEPT ![k].rused = @ + n] = [f EXCEPT ![k] = v]
  OBVIOUS
<1> HIDE DEF u, v
<1>6. /\ [f EXCEPT ![k] = u] \in [Keys -> Buckets] /\ SameLevels([f EXCEPT ![k] = u], f)
      /\ [f EXCEPT ![k] = v] \in [Keys -> Buckets] /\ SameLevels([f EXCEPT ![k] = v], f)
  BY <1>3, <1>4 DEF SameLevels
<1> DEFINE z == [j \in Keys |-> [f[j] EXCEPT !.used = 0, !.rused = 0]]
<1>7. z \in [Keys -> Buckets] /\ SameLevels(z, f)
  BY <1>1 DEF SameLevels
<1> QED
  BY <1>5, <1>6, <1>7

LEMMA SameLevelsOfSelf == \A f : SameLevels(f, f)
  BY DEF SameLevels

LEMMA ReserveInv ==
    ASSUME BurstInv, NEW k \in Keys, NEW n \in Nat,
           rl_reserve_tokens(k, n) \/ rl_reserve_reasoning_tokens(k, n)
    PROVE  BurstInv'
<1>1. bucket \in [Keys -> Buckets] /\ shared \in [Keys -> Buckets]
  BY DEF BurstInv, LimitTypes
<1>2. /\ bucket' \in [Keys -> Buckets] /\ SameLevels(bucket', bucket)
      /\ shared' \in [Keys -> Buckets] /\ SameLevels(shared', shared)
  <2> DEFINE U(f) == [f EXCEPT ![k].used = @ + n]
             V(f) == [f EXCEPT ![k].rused = @ + n]
  <2>1. ASSUME NEW f \in [Keys -> Buckets]
        PROVE  /\ U(f) \in [Keys -> Buckets] /\ SameLevels(U(f), f)
               /\ V(f) \in [Keys -> Buckets] /\ SameLevels(V(f), f)
    BY DayCounters
  <2>2. /\ bucket' \in {bucket, U(bucket), V(bucket)}
        /\ shared' \in {shared, U(shared), V(shared)}
    BY DEF rl_reserve_tokens, rl_reserve_reasoning_tokens
  <2> HIDE DEF U, V
  <2> QED
    BY <1>1, <2>1, <2>2, SameLevelsOfSelf
<1>3. /\ UNCHANGED <<mode, rate, burst>> /\ now' \in Nat /\ now' >= now /\ redisUp' \in BOOLEAN
      /\ outage' \in BOOLEAN /\ (outage => outage') /\ (~outage' => redisUp')
  BY DEF rl_reserve_tokens, rl_reserve_reasoning_tokens, BurstInv, LimitTypes
<1> QED
  BY <1>2, <1>3, LevelsKept

\* Midnight, in Redis and in the process; time; Redis comes and goes.
LEMMA SurroundingsInv ==
    ASSUME BurstInv, Tick \/ NextDay \/ Rollover \/ RedisGoes \/ RedisReturns
    PROVE  BurstInv'
<1>1. bucket \in [Keys -> Buckets] /\ shared \in [Keys -> Buckets]
  BY DEF BurstInv, LimitTypes
<1> DEFINE zero(f) == [j \in Keys |-> [f[j] EXCEPT !.used = 0, !.rused = 0]]
<1>2. ASSUME NEW f \in [Keys -> Buckets]
      PROVE  zero(f) \in [Keys -> Buckets] /\ SameLevels(zero(f), f)
  <2>1. CASE Keys = {}
    BY <2>1 DEF SameLevels
  <2>2. CASE Keys # {}
    BY <2>2, DayCounters
  <2> QED
    BY <2>1, <2>2
<1>3. /\ bucket' = bucket \/ bucket' = zero(bucket)
      /\ shared' = shared \/ shared' = zero(shared)
      /\ UNCHANGED <<mode, rate, burst>>
  BY DEF Tick, NextDay, Rollover, RedisGoes, RedisReturns, rl_reset_day
<1>4. /\ now' \in Nat /\ now' >= now /\ redisUp' \in BOOLEAN
      /\ outage' \in BOOLEAN /\ (outage => outage') /\ (~outage' => redisUp')
  <2>1. now \in Nat /\ redisUp \in BOOLEAN /\ outage \in BOOLEAN /\ (~outage => redisUp)
    BY DEF BurstInv, LimitTypes
  <2>2. now' = now \/ now' = now + 1
    BY DEF Tick, NextDay, Rollover, RedisGoes, RedisReturns
  <2>3. now' \in Nat /\ now' >= now
    BY <2>1, <2>2
  <2>4. \/ redisUp' = redisUp /\ outage' = outage
        \/ redisUp' = FALSE /\ outage' = TRUE
        \/ redisUp' = TRUE /\ outage' = outage
    BY DEF Tick, NextDay, Rollover, RedisGoes, RedisReturns
  <2> QED
    BY <2>1, <2>3, <2>4, Zenon
<1> HIDE DEF zero
<1>5. /\ bucket' \in [Keys -> Buckets] /\ SameLevels(bucket', bucket)
      /\ shared' \in [Keys -> Buckets] /\ SameLevels(shared', shared)
  BY <1>1, <1>2, <1>3, SameLevelsOfSelf
<1> QED
  BY <1>3, <1>4, <1>5, LevelsKept

\* A new rate, and a new process, start a new count.
LEMMA SetRateInv ==
    ASSUME BurstInv, NEW k \in Keys, NEW q \in Rates, SetRate(k, q)
    PROVE  BurstInv'
<1>1. /\ rate' = [rate EXCEPT ![k] = q] /\ burst' = [burst EXCEPT ![k] = [n |-> 0, from |-> now]]
      /\ UNCHANGED <<mode, redisUp, now, bucket, shared, outage>>
  BY DEF SetRate
<1>2. q \in Nat /\ now \in Nat /\ now # 0
  BY GateAssumption DEF BurstInv, LimitTypes
<1>3. LimitTypes'
  BY <1>1, <1>2 DEF BurstInv, LimitTypes
<1>4. burst'[k].n = 0 /\ rate'[k] = q
  BY <1>1 DEF BurstInv, LimitTypes
<1>5. KeyMetered(k)'
  BY <1>4 DEF KeyMetered, Metered
<1>6. ASSUME ~outage, NEW j \in Keys, j # k PROVE KeyMetered(j)'
  <2>1. rate'[j] = rate[j] /\ burst'[j] = burst[j] /\ KeyMetered(j)
    BY <1>1, <1>6 DEF BurstInv, LimitTypes
  <2> QED
    BY <1>1, <2>1, SameMeter
<1> QED
  BY <1>1, <1>3, <1>5, <1>6 DEF BurstInv

LEMMA RestartBurst ==
    ASSUME BurstInv, Restart
    PROVE  BurstInv'
<1>1. /\ bucket' = [k \in Keys |-> NoBucket] /\ burst' = [k \in Keys |-> [n |-> 0, from |-> now]]
      /\ UNCHANGED <<mode, redisUp, now, rate, shared, outage>>
  BY DEF Restart
<1>2. LimitTypes'
  BY <1>1 DEF BurstInv, LimitTypes, NoBucket, Buckets
<1>3. \A k \in Keys : burst'[k].n = 0
  BY <1>1
<1>4. \A k \in Keys : KeyMetered(k)'
  BY <1>3 DEF KeyMetered, Metered
<1> QED
  BY <1>2, <1>4 DEF BurstInv

LEMMA InitBurst == GateInit => BurstInv
<1> SUFFICES ASSUME GateInit PROVE BurstInv
  OBVIOUS
<1>1. LimitTypes
  <2>1. NoBucket \in Buckets /\ NoBucket.last = 0
    BY DEF NoBucket, Buckets
  <2>2. rate \in [Keys -> Nat]
    BY GateAssumption, SMT DEF GateInit
  <2>3. \A k \in Keys : bucket[k] = NoBucket /\ shared[k] = NoBucket /\ burst[k] = [n |-> 0, from |-> 1]
    BY DEF GateInit
  <2>4. bucket \in [Keys -> Buckets] /\ shared \in [Keys -> Buckets] /\ burst \in [Keys -> [n : Nat, from : Nat]]
    BY <2>1 DEF GateInit
  <2>5. mode \in {"local", "open", "closed"} /\ redisUp = TRUE /\ outage = FALSE /\ now = 1
    BY GateAssumption DEF GateInit
  <2>6. \A k \in Keys : /\ bucket[k].last <= now /\ shared[k].last <= now
                        /\ burst[k].from <= now /\ burst[k].from # 0
    BY <2>1, <2>3, <2>5
  <2>7. now \in Nat \ {0} /\ redisUp \in BOOLEAN /\ outage \in BOOLEAN /\ (~outage => redisUp)
    <3>1. now \in Nat \ {0}
      BY <2>5
    <3> QED
      BY <2>5, <3>1, Zenon
  <2> QED
    BY <2>2, <2>4, <2>5, <2>6, <2>7, Zenon DEF LimitTypes
<1>2. \A k \in Keys : burst[k].n = 0
  BY DEF GateInit
<1> QED
  BY <1>1, <1>2 DEF BurstInv, KeyMetered, Metered

LEMMA LimitsUnchanged ==
    ASSUME BurstInv, UNCHANGED limits
    PROVE  BurstInv'
<1>1. UNCHANGED <<mode, redisUp, now, rate, bucket, shared, burst, outage>>
  BY DEF limits
<1>2. LimitTypes'
  BY <1>1 DEF BurstInv, LimitTypes
<1>3. ASSUME ~outage, NEW k \in Keys PROVE KeyMetered(k)'
  <2>1. KeyMetered(k)
    BY <1>3 DEF BurstInv
  <2> QED
    BY <1>1, <2>1, SameMeter
<1> QED
  BY <1>1, <1>2, <1>3 DEF BurstInv

-----------------------------------------------------------------------------
(* The points of a request                                                   *)

Points == {"free", "quota", "budget", "go", "chat", "reserve", "reason"}
Requests == {q \in [pc : Points, key : Keys \cup {"none"}, plain : BOOLEAN] : q.pc # "free" => q.key \in Keys}

ReqTypes == req \in [Reqs -> Requests]

LEMMA FreeRequest == Free \in Requests /\ Free.pc = "free"
  BY DEF Free, Requests, Points

\* What an action does to the request r: it is at point p with key k and becomes v.
Moves(r, p, k, v) ==
    /\ r \in Reqs /\ req[r].pc = p /\ req[r].key = k /\ v \in Requests
    /\ req' = [req EXCEPT ![r] = v]

LEMMA ArriveMoves ==
    ASSUME ReqTypes, NEW r \in Reqs, NEW k \in Keys, Arrive(r, k)
    PROVE  UNCHANGED req \/ \E v : Moves(r, "free", req[r].key, v) /\ v.pc = "quota" /\ v.key = k
<1> DEFINE v == [req[r] EXCEPT !.pc = "quota", !.key = k]
<1>1. UNCHANGED req \/ req' = [req EXCEPT ![r] = v]
  BY DEF Arrive, rl_allow_request
<1>2. req[r] \in Requests /\ req[r].pc = "free"
  BY DEF ReqTypes, Arrive
<1>3. v \in Requests /\ v.pc = "quota" /\ v.key = k
  BY <1>2 DEF Requests, Points
<1> QED
  BY <1>1, <1>2, <1>3 DEF Moves

LEMMA QuotaMoves ==
    ASSUME ReqTypes, NEW r \in Reqs, GateQuota(r)
    PROVE  \E v : /\ Moves(r, "quota", req[r].key, v) /\ req[r].key \in Keys
                  /\ \/ v.pc = "free"
                     \/ v.pc = "budget" /\ v.key = req[r].key /\ rl_remaining_daily(req[r].key) > 0
<1> DEFINE w == [req[r] EXCEPT !.pc = "budget"]
           v == IF rl_remaining_daily(req[r].key) > 0 THEN w ELSE Free
<1>1. req' = [req EXCEPT ![r] = v]
  BY DEF GateQuota
<1>2. req[r] \in Requests /\ req[r].pc = "quota"
  BY DEF ReqTypes, GateQuota
<1>3. w \in Requests /\ w.pc = "budget" /\ w.key = req[r].key /\ req[r].key \in Keys
  BY <1>2 DEF Requests, Points
<1> QED
  BY <1>1, <1>2, <1>3, FreeRequest DEF Moves

LEMMA CheckMoves ==
    ASSUME ReqTypes, NEW r \in Reqs, budget_enforce_check(r)
    PROVE  \E v : /\ Moves(r, "budget", req[r].key, v) /\ req[r].key \in Keys
                  /\ \/ v.pc = "free"
                     \/ v.pc = "go" /\ v.key = req[r].key /\ ~OverBudget(Current, req[r].key)
<1> DEFINE w == [req[r] EXCEPT !.pc = "go"]
           v == IF OverBudget(Current, req[r].key) THEN Free ELSE w
<1>1. req' = [req EXCEPT ![r] = v]
  BY DEF budget_enforce_check
<1>2. req[r] \in Requests /\ req[r].pc = "budget"
  BY DEF ReqTypes, budget_enforce_check
<1>3. w \in Requests /\ w.pc = "go" /\ w.key = req[r].key /\ req[r].key \in Keys
  BY <1>2 DEF Requests, Points
<1> QED
  BY <1>1, <1>2, <1>3, FreeRequest DEF Moves

LEMMA UnpaidMoves ==
    ASSUME ReqTypes, NEW r \in Reqs, EndUnpaid(r)
    PROVE  \E v : Moves(r, req[r].pc, req[r].key, v) /\ v.pc = "free"
  BY FreeRequest DEF EndUnpaid, Moves

LEMMA ChatMoves ==
    ASSUME ReqTypes, NEW r \in Reqs, chat_apply_reasoning_quota_and_degradation(r)
    PROVE  \E v : Moves(r, "go", req[r].key, v) /\ v.pc = "chat" /\ v.key = req[r].key /\ req[r].key \in Keys
<1> DEFINE q == ReasoningQuota(req[r].key)
           p == q > 0 /\ rl_remaining_daily_reasoning(req[r].key, q) <= 0
           v == [req[r] EXCEPT !.pc = "chat", !.plain = p]
<1>1. req' = [req EXCEPT ![r] = v] /\ req[r].pc = "go"
  BY DEF chat_apply_reasoning_quota_and_degradation
<1>2. req[r] \in Requests
  BY DEF ReqTypes
<1>3. p \in BOOLEAN
  OBVIOUS
<1> HIDE DEF p
<1>4. v \in Requests /\ v.pc = "chat" /\ v.key = req[r].key /\ req[r].key \in Keys
  BY <1>1, <1>2, <1>3 DEF Requests, Points
<1> QED
  BY <1>1, <1>4 DEF Moves

LEMMA PayMoves ==
    ASSUME ReqTypes, NEW r \in Reqs, prepare_chat_cache(r) \/ SettleBudget(r)
    PROVE  \E v : /\ Moves(r, req[r].pc, req[r].key, v) /\ req[r].pc \in {"go", "chat"}
                  /\ v.pc = "reserve" /\ v.key = req[r].key /\ req[r].key \in Keys
<1> DEFINE u == [req[r] EXCEPT !.pc = "reserve", !.plain = TRUE]
           v == [req[r] EXCEPT !.pc = "reserve"]
<1>1. (req' = [req EXCEPT ![r] = u] \/ req' = [req EXCEPT ![r] = v]) /\ req[r].pc \in {"go", "chat"}
  BY DEF prepare_chat_cache, SettleBudget
<1>2. req[r] \in Requests
  BY DEF ReqTypes
<1>3. /\ u \in Requests /\ u.pc = "reserve" /\ u.key = req[r].key
      /\ v \in Requests /\ v.pc = "reserve" /\ v.key = req[r].key /\ req[r].key \in Keys
  BY <1>1, <1>2 DEF Requests, Points
<1> QED
  BY <1>1, <1>3 DEF Moves

LEMMA TokensMoves ==
    ASSUME ReqTypes, NEW r \in Reqs, SettleTokens(r)
    PROVE  \E v : Moves(r, "reserve", req[r].key, v) /\ v.pc \in {"free", "reason"} /\ req[r].key \in Keys
<1> DEFINE w == [req[r] EXCEPT !.pc = "reason"]
           v == IF ~req[r].plain THEN w ELSE Free
<1>1. req' = [req EXCEPT ![r] = v]
  BY DEF SettleTokens
<1>2. req[r] \in Requests /\ req[r].pc = "reserve"
  BY DEF ReqTypes, SettleTokens
<1>3. w \in Requests /\ w.pc = "reason" /\ req[r].key \in Keys
  BY <1>2 DEF Requests, Points
<1> QED
  BY <1>1, <1>2, <1>3, FreeRequest DEF Moves

LEMMA ReasonMoves ==
    ASSUME ReqTypes, NEW r \in Reqs, SettleReasoning(r)
    PROVE  \E v : Moves(r, "reason", req[r].key, v) /\ v.pc = "free" /\ req[r].key \in Keys
<1>1. req[r] \in Requests /\ req[r].pc = "reason" /\ req' = [req EXCEPT ![r] = Free]
  BY DEF ReqTypes, SettleReasoning
<1>2. req[r].key \in Keys
  BY <1>1 DEF Requests
<1> QED
  BY <1>1, <1>2, FreeRequest DEF Moves

\* Every step moves one request or none, or a restart frees them all.
LEMMA ReqStep ==
    ASSUME ReqTypes, [GateNext]_gateVars
    PROVE  ReqTypes'
<1>1. ASSUME NEW r, NEW v, Moves(r, req[r].pc, req[r].key, v)
      PROVE  ReqTypes'
  BY <1>1 DEF Moves, ReqTypes
<1>2. ASSUME UNCHANGED req PROVE ReqTypes'
  BY <1>2 DEF ReqTypes
<1>3. ASSUME NEW r \in Reqs, NEW k \in Keys, Arrive(r, k)
      PROVE  ReqTypes'
  BY <1>1, <1>2, <1>3, ArriveMoves DEF Moves
<1>4. ASSUME NEW r \in Reqs,
             \/ GateQuota(r) \/ budget_enforce_check(r) \/ EndUnpaid(r)
             \/ chat_apply_reasoning_quota_and_degradation(r) \/ prepare_chat_cache(r)
             \/ SettleBudget(r) \/ SettleTokens(r) \/ SettleReasoning(r)
      PROVE  ReqTypes'
  <2>1. \E v : Moves(r, req[r].pc, req[r].key, v)
    BY <1>4, QuotaMoves, CheckMoves, UnpaidMoves, ChatMoves, PayMoves, TokensMoves, ReasonMoves DEF Moves
  <2> QED
    BY <1>1, <2>1
<1>5. CASE Restart
  BY <1>5, FreeRequest DEF Restart, ReqTypes
<1>6. CASE \E g \in Groups, b, q \in Amounts :
              \/ group_create(g, b, q) \/ \E todo \in SUBSET Fields : group_patch(g, todo, b, q)
  BY <1>2, <1>6 DEF group_create, group_patch
<1>7. CASE \/ \E g \in Groups : group_delete(g)
           \/ PatchRow \/ PatchFails \/ SetNode \/ OpDone
  BY <1>2, <1>7 DEF group_delete, PatchRow, PatchFails, SetNode, OpDone
<1>8. CASE \/ Tick \/ NextDay \/ Rollover \/ RedisGoes \/ RedisReturns
           \/ \E k \in Keys, q \in Rates : SetRate(k, q)
  BY <1>2, <1>8 DEF Tick, NextDay, Rollover, RedisGoes, RedisReturns, SetRate
<1>9. CASE UNCHANGED gateVars
  BY <1>2, <1>9 DEF gateVars
<1> QED
  BY <1>3, <1>4, <1>5, <1>6, <1>7, <1>8, <1>9, Zenon DEF GateNext

LEMMA BurstStep ==
    ASSUME BurstInv, ReqTypes, [GateNext]_gateVars
    PROVE  BurstInv'
<1>1. ASSUME NEW r \in Reqs, NEW k \in Keys, Arrive(r, k)
      PROVE  BurstInv'
  BY <1>1, AllowInv DEF Arrive
<1>2. ASSUME NEW r \in Reqs,
             \/ GateQuota(r) \/ budget_enforce_check(r) \/ EndUnpaid(r)
             \/ chat_apply_reasoning_quota_and_degradation(r) \/ prepare_chat_cache(r) \/ SettleBudget(r)
      PROVE  BurstInv'
  <2>1. UNCHANGED limits
    BY <1>2 DEF GateQuota, budget_enforce_check, EndUnpaid, chat_apply_reasoning_quota_and_degradation,
                prepare_chat_cache, SettleBudget, budget_enforce_record
  <2> QED
    BY <2>1, LimitsUnchanged
<1>3. ASSUME NEW r \in Reqs, SettleTokens(r)
      PROVE  BurstInv'
  <2>1. req[r].key \in Keys
    BY <1>3, TokensMoves
  <2>2. rl_reserve_tokens(req[r].key, 1) /\ 1 \in Nat
    BY <1>3 DEF SettleTokens
  <2> QED
    BY <2>1, <2>2, ReserveInv
<1>4. ASSUME NEW r \in Reqs, SettleReasoning(r)
      PROVE  BurstInv'
  <2>1. req[r].key \in Keys
    BY <1>4, ReasonMoves
  <2>2. PICK n \in 0 .. 1 : rl_reserve_reasoning_tokens(req[r].key, n)
    BY <1>4 DEF SettleReasoning
  <2>3. n \in Nat
    OBVIOUS
  <2> QED
    BY <2>1, <2>2, <2>3, ReserveInv
<1>5. CASE \E g \in Groups, b, q \in Amounts :
              \/ group_create(g, b, q) \/ \E todo \in SUBSET Fields : group_patch(g, todo, b, q)
  BY <1>5, LimitsUnchanged DEF group_create, group_patch
<1>6. CASE \/ \E g \in Groups : group_delete(g)
           \/ PatchRow \/ PatchFails \/ SetNode \/ OpDone
  BY <1>6, LimitsUnchanged DEF group_delete, PatchRow, PatchFails, SetNode, OpDone
<1>7. CASE Tick \/ NextDay \/ Rollover \/ RedisGoes \/ RedisReturns
  BY <1>7, SurroundingsInv
<1>8. CASE \E k \in Keys, q \in Rates : SetRate(k, q)
  BY <1>8, SetRateInv
<1>9. CASE Restart
  BY <1>9, RestartBurst
<1>10. CASE UNCHANGED gateVars
  <2>1. UNCHANGED limits
    BY <1>10 DEF gateVars
  <2> QED
    BY <2>1, LimitsUnchanged
<1> QED
  BY <1>1, <1>2, <1>3, <1>4, <1>5, <1>6, <1>7, <1>8, <1>9, <1>10, Zenon DEF GateNext

LEMMA MeteredBounds == BurstInv => BurstBounded
<1> SUFFICES ASSUME BurstInv, ~outage, NEW k \in Keys, rate[k] > 0
             PROVE  LET size == IF mode = "local" THEN bucket[k].cap ELSE rate[k] * Scale
                    IN  burst[k].n * Scale <= size + (now - burst[k].from) * rate[k]
  BY DEF BurstBounded
<1> DEFINE b == IF mode = "local" THEN bucket[k] ELSE shared[k]
           size == IF mode = "local" THEN bucket[k].cap ELSE rate[k] * Scale
           h == burst[k]
           q == rate[k]
<1>1. Metered(b, h, size, q)
  BY DEF BurstInv, KeyMetered
<1>2. /\ b \in Buckets /\ h \in [n : Nat, from : Nat] /\ q \in Nat /\ now \in Nat /\ Scale \in Nat
      /\ b.last <= now /\ h.from <= now
  BY GateAssumption DEF BurstInv, LimitTypes
<1>3. bucket[k].cap \in Nat /\ q * Scale \in Nat
  BY <1>2, Products DEF Buckets, BurstInv, LimitTypes
<1>4. size \in Nat
  BY <1>3
<1>5. b.last \in Nat /\ b.tokens \in Nat /\ h.n \in Nat /\ h.from \in Nat
  BY <1>2 DEF Buckets
<1> HIDE DEF b, size, h, q
<1>6. h.n * Scale <= size + ((now - h.from) * q)
  BY <1>1, <1>2, <1>4, <1>5, MeterStep DEF Metered
<1> QED
  BY <1>6 DEF size, h, q

\* rl_allow_request, in the process or in Redis, gives a key no more requests than a full bucket
\* and the refill of the time passed, for every rate, scale and number of requests.
THEOREM RateIsBounded == GateSpec => []BurstBounded
<1>1. GateInit => BurstInv /\ ReqTypes
  BY InitBurst, FreeRequest DEF GateInit, ReqTypes
<1>2. BurstInv /\ ReqTypes /\ [GateNext]_gateVars => (BurstInv /\ ReqTypes)'
  BY BurstStep, ReqStep
<1> QED
  BY <1>1, <1>2, MeteredBounds, PTL DEF GateSpec

-----------------------------------------------------------------------------
(* The daily quota and the monthly budget of a key                           *)

CountOf(f, k, pcs) == Cardinality({r \in Reqs : f[r].pc \in pcs /\ f[r].key = k})

LEMMA CountBound ==
    ASSUME NEW f, NEW k, NEW pcs
    PROVE  /\ CountOf(f, k, pcs) \in Nat /\ CountOf(f, k, pcs) <= Cardinality(Reqs)
           /\ Cardinality(Reqs) \in Nat
<1> DEFINE S == {r \in Reqs : f[r].pc \in pcs /\ f[r].key = k}
<1>1. S \subseteq Reqs /\ IsFiniteSet(Reqs)
  BY GateAssumption
<1>2. IsFiniteSet(S) /\ Cardinality(S) <= Cardinality(Reqs)
  BY <1>1, FS_Subset
<1>3. Cardinality(S) \in Nat /\ Cardinality(Reqs) \in Nat
  BY <1>1, <1>2, FS_CardinalityType
<1> QED
  BY <1>2, <1>3 DEF CountOf

\* The count of a point changes only with the request that comes to it or leaves it.
LEMMA CountMove ==
    ASSUME NEW f \in [Reqs -> Requests], NEW r \in Reqs, NEW v \in Requests, NEW k, NEW pcs, NEW h,
           h = [f EXCEPT ![r] = v],
           v.pc \in pcs /\ v.key = k => f[r].pc \in pcs /\ f[r].key = k
    PROVE  CountOf(h, k, pcs) <= CountOf(f, k, pcs)
<1> DEFINE S == {q \in Reqs : f[q].pc \in pcs /\ f[q].key = k}
           T == {q \in Reqs : h[q].pc \in pcs /\ h[q].key = k}
<1>1. IsFiniteSet(S)
  BY GateAssumption, FS_Subset
<1>2. \A q \in Reqs : h[q] = IF q = r THEN v ELSE f[q]
  OBVIOUS
<1>3. T \subseteq S
  BY <1>2
<1> QED
  BY <1>1, <1>3, FS_Subset DEF CountOf

OneLess(a, b) == a = b - 1

LEMMA CountLeaves ==
    ASSUME NEW f \in [Reqs -> Requests], NEW r \in Reqs, NEW v \in Requests, NEW k, NEW pcs, NEW h,
           h = [f EXCEPT ![r] = v], f[r].pc \in pcs, f[r].key = k, v.pc \notin pcs
    PROVE  OneLess(CountOf(h, k, pcs), CountOf(f, k, pcs))
<1> DEFINE S == {q \in Reqs : f[q].pc \in pcs /\ f[q].key = k}
           T == {q \in Reqs : h[q].pc \in pcs /\ h[q].key = k}
<1>1. IsFiniteSet(S)
  BY GateAssumption, FS_Subset
<1>2. \A q \in Reqs : h[q] = IF q = r THEN v ELSE f[q]
  OBVIOUS
<1>3. T = S \ {r} /\ r \in S
  BY <1>2
<1>4. Cardinality(S \ {r}) = Cardinality(S) - 1
  BY <1>1, <1>3, FS_RemoveElement
<1> QED
  BY <1>3, <1>4 DEF CountOf, OneLess

AfterBudget == {"go", "chat"}
AfterQuota == {"budget", "go", "chat", "reserve"}
DayUsed(k) == IF mode = "local" THEN bucket[k].used ELSE shared[k].used

MoneyHeld == \A k \in Keys : Budget > 0 =>
    spent[k] + CountOf(req, k, AfterBudget) <= (Budget - 1) + Cardinality(Reqs)
QuotaHeld == Quota > 0 /\ ~outage => \A k \in Keys :
    DayUsed(k) + CountOf(req, k, AfterQuota) <= (Quota - 1) + Cardinality(Reqs)

HeldInv == LimitTypes /\ ReqTypes /\ spent \in [Keys -> Nat] /\ MoneyHeld /\ QuotaHeld

LEMMA HeldBounds == HeldInv => LimitsHold
<1> SUFFICES ASSUME HeldInv, NEW k \in Keys
             PROVE  /\ Budget > 0 => spent[k] + At(k, {"go", "chat"}) <= Budget - 1 + Cardinality(Reqs)
                    /\ Quota > 0 /\ ~outage =>
                         (IF mode = "local" THEN bucket[k].used ELSE shared[k].used)
                           + At(k, {"budget", "go", "chat", "reserve"}) <= Quota - 1 + Cardinality(Reqs)
  BY DEF LimitsHold
<1>1. /\ At(k, {"go", "chat"}) = CountOf(req, k, AfterBudget)
      /\ At(k, {"budget", "go", "chat", "reserve"}) = CountOf(req, k, AfterQuota)
  BY DEF At, CountOf, AfterBudget, AfterQuota
<1> QED
  BY <1>1 DEF HeldInv, MoneyHeld, QuotaHeld, DayUsed

\* A payment follows a request out of its last point, and a request comes in below the limit.
Below(x, y, a, b, lim) ==
    \/ y <= x /\ b <= a
    \/ y <= x + 1 /\ OneLess(b, a)
    \/ y < lim

LEMMA StaysBelow ==
    ASSUME NEW x \in Nat, NEW y \in Nat, NEW a \in Nat, NEW b \in Nat, NEW lim \in Nat, NEW c \in Nat,
           x + a <= (lim - 1) + c, b <= c, Below(x, y, a, b, lim)
    PROVE  y + b <= (lim - 1) + c
  BY DEF Below, OneLess

\* What has to be shown of a step.
MoneyStep == \A k \in Keys : Budget > 0 =>
    Below(spent[k], spent'[k], CountOf(req, k, AfterBudget), CountOf(req', k, AfterBudget), Budget)
QuotaStep == Quota > 0 /\ ~outage' => \A k \in Keys :
    Below(DayUsed(k), DayUsed(k)', CountOf(req, k, AfterQuota), CountOf(req', k, AfterQuota), Quota)

LEMMA HeldStep ==
    ASSUME HeldInv, LimitTypes', ReqTypes', spent' \in [Keys -> Nat], outage => outage', MoneyStep, QuotaStep
    PROVE  HeldInv'
<1>1. ASSUME NEW k \in Keys
      PROVE  /\ spent[k] \in Nat /\ spent'[k] \in Nat /\ DayUsed(k) \in Nat /\ DayUsed(k)' \in Nat
             /\ Budget \in Nat /\ Quota \in Nat /\ Cardinality(Reqs) \in Nat
  <2>1. /\ bucket[k] \in Buckets /\ shared[k] \in Buckets
        /\ bucket'[k] \in Buckets /\ shared'[k] \in Buckets
    BY DEF HeldInv, LimitTypes
  <2>2. DayUsed(k) \in Nat /\ DayUsed(k)' \in Nat
    BY <2>1 DEF DayUsed, Buckets
  <2> QED
    BY <2>2, GateAssumption, CountBound DEF HeldInv
<1>2. MoneyHeld'
  <2> SUFFICES ASSUME NEW k \in Keys, Budget > 0
               PROVE  spent'[k] + CountOf(req', k, AfterBudget) <= (Budget - 1) + Cardinality(Reqs)
    BY DEF MoneyHeld, CountOf, AfterBudget
  <2> DEFINE a == CountOf(req, k, AfterBudget)
             b == CountOf(req', k, AfterBudget)
  <2>1. a \in Nat /\ b \in Nat /\ b <= Cardinality(Reqs)
    BY CountBound
  <2>2. spent[k] + a <= (Budget - 1) + Cardinality(Reqs) /\ Below(spent[k], spent'[k], a, b, Budget)
    BY DEF HeldInv, MoneyHeld, MoneyStep
  <2> HIDE DEF a, b
  <2>3. spent'[k] + b <= (Budget - 1) + Cardinality(Reqs)
    BY <1>1, <2>1, <2>2, StaysBelow
  <2> QED
    BY <2>3 DEF b
<1>3. QuotaHeld'
  <2> SUFFICES ASSUME NEW k \in Keys, Quota > 0, ~outage'
               PROVE  DayUsed(k)' + CountOf(req', k, AfterQuota) <= (Quota - 1) + Cardinality(Reqs)
    BY DEF QuotaHeld, CountOf, AfterQuota
  <2> DEFINE a == CountOf(req, k, AfterQuota)
             b == CountOf(req', k, AfterQuota)
             x == DayUsed(k)
             y == DayUsed(k)'
  <2>1. a \in Nat /\ b \in Nat /\ b <= Cardinality(Reqs)
    BY CountBound
  <2>2. x + a <= (Quota - 1) + Cardinality(Reqs) /\ Below(x, y, a, b, Quota)
    BY DEF HeldInv, QuotaHeld, QuotaStep
  <2>4. x \in Nat /\ y \in Nat
    BY <1>1
  <2> HIDE DEF a, b, x, y
  <2>3. y + b <= (Quota - 1) + Cardinality(Reqs)
    BY <1>1, <2>1, <2>2, <2>4, StaysBelow
  <2> QED
    BY <2>3 DEF b, y
<1> QED
  BY <1>2, <1>3 DEF HeldInv

\* Only SettleTokens adds to the tokens of the day.
NoMoreUsed ==
    /\ UNCHANGED mode
    /\ \A k \in Keys : bucket'[k].used <= bucket[k].used /\ shared'[k].used <= shared[k].used

NoMoreSpent == \A k \in Keys : spent'[k] <= spent[k]

NoneArrives(pcs) == \A k \in Keys : CountOf(req', k, pcs) <= CountOf(req, k, pcs)

LEMMA StepBelow ==
    /\ NoMoreSpent /\ NoneArrives(AfterBudget) => MoneyStep
    /\ NoMoreUsed /\ NoneArrives(AfterQuota) => QuotaStep
  BY DEF NoMoreSpent, NoMoreUsed, NoneArrives, MoneyStep, QuotaStep, Below, DayUsed

LEMMA UsedFacts ==
    ASSUME LimitTypes, NEW k \in Keys
    PROVE  /\ bucket[k] \in Buckets /\ bucket[k].used \in Nat
           /\ shared[k] \in Buckets /\ shared[k].used \in Nat
  BY DEF LimitTypes, Buckets

LEMMA RefillKeeps ==
    ASSUME NEW b \in Buckets, NEW qps
    PROVE  RefillLocal(b, qps).used = b.used /\ RefillShared(b, qps).used = b.used
  BY DEF RefillLocal, RefillShared, Buckets

LEMMA AllowKeepsUsed ==
    ASSUME LimitTypes, NEW r, NEW k \in Keys, rl_allow_request(r, k)
    PROVE  NoMoreUsed
<1> DEFINE qps == rate[k]
           b == IF Table = "shared" THEN RefillShared(shared[k], qps) ELSE RefillLocal(bucket[k], qps)
           z == [bucket[k] EXCEPT !.cap = 0, !.tokens = 0]
<1>1. /\ mode' = mode
      /\ bucket' \in {bucket, [bucket EXCEPT ![k] = z]} \/ (Table = "bucket" /\ bucket' = [bucket EXCEPT ![k] = Taken(b)])
      /\ shared' = shared \/ (Table = "shared" /\ shared' = [shared EXCEPT ![k] = Taken(b)])
  BY DEF rl_allow_request
<1>2. /\ bucket[k] \in Buckets /\ shared[k] \in Buckets /\ now \in Nat /\ qps \in Nat
      /\ bucket[k].last <= now /\ shared[k].last <= now
  BY DEF LimitTypes
<1>3. b \in Buckets
  BY <1>2, RefillFacts
<1>4. /\ Table = "shared" => b.used = shared[k].used
      /\ Table = "bucket" => b.used = bucket[k].used
  BY <1>2, RefillKeeps
<1>5. z.used = bucket[k].used
  BY <1>2 DEF Buckets
<1>6. Taken(b).used = b.used
  BY <1>3, TakenFacts
<1> HIDE DEF z, b
<1>7. ASSUME NEW j \in Keys PROVE bucket'[j].used = bucket[j].used /\ shared'[j].used = shared[j].used
  BY <1>1, <1>4, <1>5, <1>6 DEF LimitTypes
<1>8. \A j \in Keys : bucket[j].used \in Nat /\ shared[j].used \in Nat
  BY UsedFacts
<1> QED
  BY <1>1, <1>7, <1>8 DEF NoMoreUsed

LEMMA SameIsNoMore ==
    /\ LimitTypes /\ UNCHANGED <<mode, bucket, shared>> => NoMoreUsed
    /\ spent \in [Keys -> Nat] /\ UNCHANGED spent => NoMoreSpent
    /\ UNCHANGED req => \A pcs : NoneArrives(pcs)
<1>1. ASSUME LimitTypes, UNCHANGED <<mode, bucket, shared>> PROVE NoMoreUsed
  BY <1>1, UsedFacts DEF NoMoreUsed
<1>2. ASSUME spent \in [Keys -> Nat], UNCHANGED spent PROVE NoMoreSpent
  BY <1>2 DEF NoMoreSpent
<1>3. ASSUME UNCHANGED req, NEW pcs PROVE NoneArrives(pcs)
  BY <1>3, CountBound DEF NoneArrives
<1> QED
  BY <1>1, <1>2, <1>3

\* A request that moves within, or out of, a set of points arrives nowhere.
LEMMA MoveArrives ==
    ASSUME ReqTypes, NEW r, NEW p, NEW j, NEW v, Moves(r, p, j, v), NEW pcs,
           v.pc \in pcs => p \in pcs /\ v.key = j
    PROVE  NoneArrives(pcs)
  BY CountMove DEF Moves, ReqTypes, NoneArrives

LEMMA CurrentSpent ==
    ASSUME spent \in [Keys -> Nat]
    PROVE  Current.spent \in [Keys -> Nat] /\ \A k \in Keys : Current.spent[k] <= spent[k]
<1>1. Current.spent = spent \/ Current.spent = [k \in Keys |-> 0]
  BY DEF Current, clear_buckets
<1> QED
  BY <1>1

LEMMA ArriveHeld ==
    ASSUME HeldInv, NEW r \in Reqs, NEW k \in Keys, Arrive(r, k)
    PROVE  MoneyStep /\ QuotaStep /\ spent' \in [Keys -> Nat] /\ UNCHANGED outage
<1>1. UNCHANGED <<spent, outage>> /\ NoMoreUsed
  BY AllowKeepsUsed DEF Arrive, money, rl_allow_request, HeldInv
<1>2. NoneArrives(AfterBudget) /\ NoneArrives(AfterQuota)
  <2>1. CASE UNCHANGED req
    BY <2>1, SameIsNoMore
  <2>2. CASE \E v : Moves(r, "free", req[r].key, v) /\ v.pc = "quota" /\ v.key = k
    BY <2>2, MoveArrives DEF HeldInv, AfterBudget, AfterQuota
  <2> QED
    BY <2>1, <2>2, ArriveMoves DEF HeldInv
<1> QED
  BY <1>1, <1>2, StepBelow, SameIsNoMore DEF HeldInv

LEMMA QuotaGateHeld ==
    ASSUME HeldInv, NEW r \in Reqs, GateQuota(r)
    PROVE  MoneyStep /\ QuotaStep /\ spent' \in [Keys -> Nat] /\ UNCHANGED outage
<1>1. UNCHANGED <<mode, redisUp, bucket, shared, spent, outage>>
  BY DEF GateQuota, limits, money
<1> DEFINE j == req[r].key
<1>2. PICK v : /\ Moves(r, "quota", j, v) /\ j \in Keys
               /\ v.pc = "free" \/ (v.pc = "budget" /\ v.key = j /\ rl_remaining_daily(j) > 0)
  BY QuotaMoves DEF HeldInv
<1>3. MoneyStep
  <2>1. NoneArrives(AfterBudget)
    BY <1>2, MoveArrives DEF HeldInv, AfterBudget
  <2> QED
    BY <1>1, <2>1, StepBelow, SameIsNoMore DEF HeldInv
<1>4. QuotaStep
  <2>1. CASE v.pc = "free"
    <3>1. NoneArrives(AfterQuota)
      BY <1>2, <2>1, MoveArrives DEF HeldInv, AfterQuota
    <3> QED
      BY <1>1, <3>1, StepBelow, SameIsNoMore DEF HeldInv
  <2>2. CASE v.pc = "budget" /\ v.key = j /\ rl_remaining_daily(j) > 0
    <3> SUFFICES ASSUME Quota > 0, ~outage', NEW k \in Keys
                 PROVE  Below(DayUsed(k), DayUsed(k)', CountOf(req, k, AfterQuota), CountOf(req', k, AfterQuota), Quota)
      BY DEF QuotaStep
    <3>1. DayUsed(k)' = DayUsed(k) /\ DayUsed(k) \in Nat
      BY <1>1, UsedFacts DEF HeldInv, DayUsed
    <3>2. CASE k # j
      <4>1. CountOf(req', k, AfterQuota) <= CountOf(req, k, AfterQuota)
        BY <1>2, <2>2, <3>2, CountMove DEF Moves, HeldInv, ReqTypes
      <4> QED
        BY <3>1, <4>1 DEF Below
    <3>3. CASE k = j
      <4>1. /\ ~outage /\ redisUp /\ mode \in {"local", "open", "closed"}
        BY <1>1 DEF HeldInv, LimitTypes
      <4>2. rl_remaining_daily(k) = Quota - DayUsed(k)
        BY <4>1 DEF rl_remaining_daily, Table, DayUsed
      <4>3. Quota \in Nat
        BY GateAssumption
      <4>4. DayUsed(k)' < Quota
        BY <2>2, <3>1, <3>3, <4>2, <4>3
      <4> QED
        BY <4>4 DEF Below
    <3> QED
      BY <3>2, <3>3
  <2> QED
    BY <1>2, <2>1, <2>2
<1> QED
  BY <1>1, <1>3, <1>4 DEF HeldInv

LEMMA CheckHeld ==
    ASSUME HeldInv, NEW r \in Reqs, budget_enforce_check(r)
    PROVE  MoneyStep /\ QuotaStep /\ spent' \in [Keys -> Nat] /\ UNCHANGED outage
<1>1. UNCHANGED <<mode, bucket, shared, outage>> /\ spent' = Current.spent
  BY DEF budget_enforce_check, limits, Roll
<1>2. spent' \in [Keys -> Nat] /\ NoMoreSpent
  BY <1>1, CurrentSpent DEF HeldInv, NoMoreSpent
<1> DEFINE j == req[r].key
<1>3. PICK v : /\ Moves(r, "budget", j, v) /\ j \in Keys
               /\ v.pc = "free" \/ (v.pc = "go" /\ v.key = j /\ ~OverBudget(Current, j))
  BY CheckMoves DEF HeldInv
<1>4. QuotaStep
  <2>1. NoneArrives(AfterQuota)
    BY <1>3, MoveArrives DEF HeldInv, AfterQuota
  <2> QED
    BY <1>1, <2>1, StepBelow, SameIsNoMore DEF HeldInv
<1>5. MoneyStep
  <2>1. CASE v.pc = "free"
    <3>1. NoneArrives(AfterBudget)
      BY <1>3, <2>1, MoveArrives DEF HeldInv, AfterBudget
    <3> QED
      BY <1>2, <3>1, StepBelow
  <2>2. CASE v.pc = "go" /\ v.key = j /\ ~OverBudget(Current, j)
    <3> SUFFICES ASSUME NEW k \in Keys, Budget > 0
                 PROVE  Below(spent[k], spent'[k], CountOf(req, k, AfterBudget), CountOf(req', k, AfterBudget), Budget)
      BY DEF MoneyStep
    <3>1. CASE k # j
      <4>1. CountOf(req', k, AfterBudget) <= CountOf(req, k, AfterBudget)
        BY <1>3, <2>2, <3>1, CountMove DEF Moves, HeldInv, ReqTypes
      <4> QED
        BY <1>2, <4>1 DEF Below, NoMoreSpent
    <3>2. CASE k = j
      <4>1. ~(spent'[k] >= Budget)
        BY <1>1, <2>2, <3>2 DEF OverBudget
      <4>2. spent'[k] \in Nat /\ Budget \in Nat
        BY <1>2, GateAssumption
      <4>3. spent'[k] < Budget
        BY <4>1, <4>2
      <4> QED
        BY <4>3 DEF Below
    <3> QED
      BY <3>1, <3>2
  <2> QED
    BY <1>3, <2>1, <2>2
<1> QED
  BY <1>1, <1>2, <1>4, <1>5

\* A request that goes on, or ends, without a payment.
LEMMA FreeMoveHeld ==
    ASSUME HeldInv, NEW r \in Reqs, EndUnpaid(r) \/ chat_apply_reasoning_quota_and_degradation(r)
    PROVE  MoneyStep /\ QuotaStep /\ spent' \in [Keys -> Nat] /\ UNCHANGED outage
<1>1. UNCHANGED <<mode, bucket, shared, outage, spent>>
  BY DEF EndUnpaid, chat_apply_reasoning_quota_and_degradation, limits, money
<1>2. NoneArrives(AfterBudget) /\ NoneArrives(AfterQuota)
  <2>1. CASE EndUnpaid(r)
    <3>1. PICK v : Moves(r, req[r].pc, req[r].key, v) /\ v.pc = "free"
      BY <2>1, UnpaidMoves DEF HeldInv
    <3> QED
      BY <3>1, MoveArrives DEF HeldInv, AfterBudget, AfterQuota
  <2>2. CASE chat_apply_reasoning_quota_and_degradation(r)
    <3>1. PICK v : Moves(r, "go", req[r].key, v) /\ v.pc = "chat" /\ v.key = req[r].key
      BY <2>2, ChatMoves DEF HeldInv
    <3> QED
      BY <3>1, MoveArrives DEF HeldInv, AfterBudget, AfterQuota
  <2> QED
    BY <2>1, <2>2
<1> QED
  BY <1>1, <1>2, StepBelow, SameIsNoMore DEF HeldInv

LEMMA PaidSpent ==
    ASSUME spent \in [Keys -> Nat], NEW k \in Keys, Roll(Paid(Current, k, 1))
    PROVE  /\ spent' \in [Keys -> Nat] /\ spent'[k] <= spent[k] + 1
           /\ \A j \in Keys : j # k => spent'[j] <= spent[j]
<1> DEFINE s == Current.spent
<1>1. s \in [Keys -> Nat] /\ \A j \in Keys : s[j] <= spent[j]
  BY CurrentSpent
<1>2. spent' = [s EXCEPT ![k] = s[k] + 1]
  BY DEF Roll, Paid
<1> HIDE DEF s
<1> QED
  BY <1>1, <1>2

LEMMA PayHeld ==
    ASSUME HeldInv, NEW r \in Reqs, prepare_chat_cache(r) \/ SettleBudget(r)
    PROVE  MoneyStep /\ QuotaStep /\ spent' \in [Keys -> Nat] /\ UNCHANGED outage
<1> DEFINE j == req[r].key
<1>1. UNCHANGED <<mode, bucket, shared, outage>> /\ Roll(Paid(Current, j, 1))
  BY DEF prepare_chat_cache, SettleBudget, budget_enforce_record, limits
<1>2. PICK v : /\ Moves(r, req[r].pc, j, v) /\ req[r].pc \in {"go", "chat"}
               /\ v.pc = "reserve" /\ v.key = j /\ j \in Keys
  BY PayMoves DEF HeldInv
<1>3. /\ spent' \in [Keys -> Nat] /\ spent'[j] <= spent[j] + 1
      /\ \A k \in Keys : k # j => spent'[k] <= spent[k]
  BY <1>1, <1>2, PaidSpent DEF HeldInv
<1>4. QuotaStep
  <2>1. NoneArrives(AfterQuota)
    BY <1>2, MoveArrives DEF HeldInv, AfterQuota
  <2> QED
    BY <1>1, <2>1, StepBelow, SameIsNoMore DEF HeldInv
<1>5. MoneyStep
  <2> SUFFICES ASSUME NEW k \in Keys
               PROVE  Below(spent[k], spent'[k], CountOf(req, k, AfterBudget), CountOf(req', k, AfterBudget), Budget)
    BY DEF MoneyStep
  <2>1. req \in [Reqs -> Requests] /\ v \in Requests /\ req' = [req EXCEPT ![r] = v]
    BY <1>2 DEF HeldInv, ReqTypes, Moves
  <2>2. v.pc \notin AfterBudget /\ req[r].pc \in AfterBudget
    BY <1>2 DEF AfterBudget
  <2>3. CASE k = j
    <3>0. req[r].key = k
      BY <2>3
    <3>1. OneLess(CountOf(req', k, AfterBudget), CountOf(req, k, AfterBudget))
      BY <2>1, <2>2, <3>0, CountLeaves
    <3> QED
      BY <1>3, <2>3, <3>1 DEF Below
  <2>4. CASE k # j
    <3>1. CountOf(req', k, AfterBudget) <= CountOf(req, k, AfterBudget)
      BY <2>1, <2>2, CountMove
    <3> QED
      BY <1>3, <2>4, <3>1 DEF Below
  <2> QED
    BY <2>3, <2>4
<1> QED
  BY <1>1, <1>3, <1>4, <1>5

LEMMA TokensHeld ==
    ASSUME HeldInv, NEW r \in Reqs, SettleTokens(r)
    PROVE  MoneyStep /\ QuotaStep /\ spent' \in [Keys -> Nat] /\ UNCHANGED outage
<1> DEFINE j == req[r].key
<1>1. UNCHANGED <<mode, redisUp, outage, spent>> /\ rl_reserve_tokens(j, 1)
  BY DEF SettleTokens, rl_reserve_tokens, money
<1>2. PICK v : Moves(r, "reserve", j, v) /\ v.pc \in {"free", "reason"} /\ j \in Keys
  BY TokensMoves DEF HeldInv
<1>3. MoneyStep
  <2>1. NoneArrives(AfterBudget)
    BY <1>2, MoveArrives DEF HeldInv, AfterBudget
  <2> QED
    BY <1>1, <2>1, StepBelow, SameIsNoMore DEF HeldInv
<1>4. QuotaStep
  <2> SUFFICES ASSUME NEW k \in Keys
               PROVE  Below(DayUsed(k), DayUsed(k)', CountOf(req, k, AfterQuota), CountOf(req', k, AfterQuota), Quota)
    BY DEF QuotaStep
  <2>1. req \in [Reqs -> Requests] /\ v \in Requests /\ req' = [req EXCEPT ![r] = v] /\ req[r].pc = "reserve"
    BY <1>2 DEF HeldInv, ReqTypes, Moves
  <2>2. v.pc \notin AfterQuota /\ req[r].pc \in AfterQuota
    BY <1>2, <2>1 DEF AfterQuota
  <2>3. bucket[k].used \in Nat /\ shared[k].used \in Nat /\ bucket[k] \in Buckets /\ shared[k] \in Buckets
        /\ bucket \in [Keys -> Buckets] /\ shared \in [Keys -> Buckets]
    BY UsedFacts DEF HeldInv, LimitTypes
  <2>4. DayUsed(k) \in Nat
    BY <2>3 DEF DayUsed
  <2>5. CASE k = j
    <3>0. req[r].key = k
      BY <2>5
    <3>1. OneLess(CountOf(req', k, AfterQuota), CountOf(req, k, AfterQuota))
      BY <2>1, <2>2, <3>0, CountLeaves
    <3> DEFINE B == [bucket[k] EXCEPT !.used = bucket[k].used + 1]
               H == [shared[k] EXCEPT !.used = shared[k].used + 1]
    <3>2. /\ bucket' = bucket \/ bucket' = [bucket EXCEPT ![k] = B]
          /\ shared' = shared \/ shared' = [shared EXCEPT ![k] = H]
      BY <1>1, <2>5 DEF rl_reserve_tokens
    <3>3. B.used = bucket[k].used + 1 /\ H.used = shared[k].used + 1
      BY <2>3 DEF Buckets
    <3> HIDE DEF B, H
    <3>4. /\ bucket'[k].used \in {bucket[k].used, bucket[k].used + 1}
          /\ shared'[k].used \in {shared[k].used, shared[k].used + 1}
      BY <2>3, <3>2, <3>3
    <3>5. DayUsed(k)' \in {DayUsed(k), DayUsed(k) + 1}
      BY <1>1, <3>4 DEF DayUsed
    <3>6. DayUsed(k)' <= DayUsed(k) + 1
      BY <2>4, <3>5
    <3> QED
      BY <3>1, <3>6 DEF Below
  <2>6. CASE k # j
    <3>1. CountOf(req', k, AfterQuota) <= CountOf(req, k, AfterQuota)
      BY <2>1, <2>2, CountMove
    <3>2. bucket'[k] = bucket[k] /\ shared'[k] = shared[k]
      BY <1>1, <2>3, <2>6 DEF rl_reserve_tokens
    <3>3. DayUsed(k)' = DayUsed(k)
      BY <1>1, <3>2 DEF DayUsed
    <3> QED
      BY <2>4, <3>1, <3>3 DEF Below
  <2> QED
    BY <2>5, <2>6
<1> QED
  BY <1>1, <1>3, <1>4 DEF HeldInv

LEMMA ReasonHeld ==
    ASSUME HeldInv, NEW r \in Reqs, SettleReasoning(r)
    PROVE  MoneyStep /\ QuotaStep /\ spent' \in [Keys -> Nat] /\ UNCHANGED outage
<1> DEFINE j == req[r].key
<1>1. PICK n \in 0 .. 1 : rl_reserve_reasoning_tokens(j, n)
  BY DEF SettleReasoning
<1>2. UNCHANGED <<mode, outage, spent>>
  BY <1>1 DEF SettleReasoning, rl_reserve_reasoning_tokens, money
<1>3. PICK v : Moves(r, "reason", j, v) /\ v.pc = "free" /\ j \in Keys
  BY ReasonMoves DEF HeldInv
<1>4. NoneArrives(AfterBudget) /\ NoneArrives(AfterQuota)
  BY <1>3, MoveArrives DEF HeldInv, AfterBudget, AfterQuota
<1>5. NoMoreUsed
  <2>1. ASSUME NEW k \in Keys PROVE bucket'[k].used = bucket[k].used /\ shared'[k].used = shared[k].used
    <3>1. bucket \in [Keys -> Buckets] /\ shared \in [Keys -> Buckets]
      BY DEF HeldInv, LimitTypes
    <3> DEFINE B == [bucket[j] EXCEPT !.rused = bucket[j].rused + n]
               H == [shared[j] EXCEPT !.rused = shared[j].rused + n]
    <3>2. /\ bucket' = bucket \/ bucket' = [bucket EXCEPT ![j] = B]
          /\ shared' = shared \/ shared' = [shared EXCEPT ![j] = H]
      BY <1>1 DEF rl_reserve_reasoning_tokens
    <3>4. bucket[j] \in Buckets /\ shared[j] \in Buckets
      BY <1>3, <3>1
    <3>3. B.used = bucket[j].used /\ H.used = shared[j].used
      BY <3>4 DEF Buckets
    <3> HIDE DEF B, H
    <3> QED
      BY <3>1, <3>2, <3>3
  <2>2. \A k \in Keys : bucket[k].used \in Nat /\ shared[k].used \in Nat
    BY UsedFacts DEF HeldInv
  <2> QED
    BY <1>2, <2>1, <2>2 DEF NoMoreUsed
<1> QED
  BY <1>2, <1>4, <1>5, StepBelow, SameIsNoMore DEF HeldInv

\* Midnight empties the counters of the day, in Redis at once and in the process later.
LEMMA MidnightHeld ==
    ASSUME HeldInv, NextDay \/ Rollover
    PROVE  MoneyStep /\ QuotaStep /\ spent' \in [Keys -> Nat] /\ UNCHANGED outage
<1>1. UNCHANGED <<mode, outage, spent, req>>
  BY DEF NextDay, Rollover, money
<1>2. NoMoreUsed
  <2>1. ASSUME NEW k \in Keys PROVE bucket'[k].used <= bucket[k].used /\ shared'[k].used <= shared[k].used
    <3>1. /\ bucket[k] \in Buckets /\ bucket[k].used \in Nat
          /\ shared[k] \in Buckets /\ shared[k].used \in Nat
      BY UsedFacts DEF HeldInv
    <3> DEFINE B == [bucket[k] EXCEPT !.used = 0, !.rused = 0]
               H == [shared[k] EXCEPT !.used = 0, !.rused = 0]
    <3>2. bucket'[k] \in {bucket[k], B} /\ shared'[k] \in {shared[k], H}
      BY DEF NextDay, Rollover, rl_reset_day
    <3>3. B.used = 0 /\ H.used = 0
      BY <3>1 DEF Buckets
    <3> HIDE DEF B, H
    <3>4. bucket'[k].used \in {bucket[k].used, 0} /\ shared'[k].used \in {shared[k].used, 0}
      BY <3>2, <3>3
    <3> QED
      BY <3>1, <3>4
  <2> QED
    BY <1>1, <2>1 DEF NoMoreUsed
<1> QED
  BY <1>1, <1>2, StepBelow, SameIsNoMore DEF HeldInv

LEMMA RestartHeld ==
    ASSUME HeldInv, Restart
    PROVE  MoneyStep /\ QuotaStep /\ spent' \in [Keys -> Nat] /\ UNCHANGED outage
<1>1. /\ UNCHANGED <<mode, outage, shared>> /\ bucket' = [k \in Keys |-> NoBucket]
      /\ spent' = [k \in Keys |-> 0] /\ req' = [r \in Reqs |-> Free]
  BY DEF Restart
<1>2. \A k \in Keys : spent[k] \in Nat /\ bucket[k].used \in Nat /\ shared[k].used \in Nat
  BY UsedFacts DEF HeldInv
<1>3. NoMoreUsed
  <2>1. \A k \in Keys : bucket'[k].used = 0
    BY <1>1 DEF NoBucket
  <2> QED
    BY <1>1, <1>2, <2>1 DEF NoMoreUsed
<1>4. spent' \in [Keys -> Nat] /\ NoMoreSpent
  BY <1>1, <1>2 DEF NoMoreSpent
<1>5. ASSUME NEW pcs, "free" \notin pcs PROVE NoneArrives(pcs)
  <2> SUFFICES ASSUME NEW k \in Keys PROVE CountOf(req', k, pcs) <= CountOf(req, k, pcs)
    BY DEF NoneArrives
  <2>1. {r \in Reqs : req'[r].pc \in pcs /\ req'[r].key = k} = {}
    BY <1>1, <1>5, FreeRequest
  <2>2. CountOf(req', k, pcs) = 0
    BY <2>1, FS_EmptySet DEF CountOf
  <2> QED
    BY <2>2, CountBound
<1>6. NoneArrives(AfterBudget) /\ NoneArrives(AfterQuota)
  BY <1>5 DEF AfterBudget, AfterQuota
<1> QED
  BY <1>1, <1>3, <1>4, <1>6, StepBelow

LEMMA LimitsHeldStep ==
    ASSUME HeldInv, BurstInv, BurstInv', ReqTypes', [GateNext]_gateVars
    PROVE  HeldInv'
<1> DEFINE Goal == MoneyStep /\ QuotaStep /\ spent' \in [Keys -> Nat] /\ (outage => outage')
<1>1. ASSUME UNCHANGED <<mode, bucket, shared, spent, req>>, outage => outage'
      PROVE  Goal
  BY <1>1, StepBelow, SameIsNoMore DEF HeldInv
<1>2. ASSUME UNCHANGED <<limits, money, req>>
      PROVE  Goal
  BY <1>1, <1>2 DEF limits, money
<1>3. ASSUME NEW r \in Reqs, NEW k \in Keys, Arrive(r, k)
      PROVE  Goal
  BY <1>3, ArriveHeld
<1>4. ASSUME NEW r \in Reqs,
             \/ GateQuota(r) \/ budget_enforce_check(r) \/ EndUnpaid(r)
             \/ chat_apply_reasoning_quota_and_degradation(r) \/ prepare_chat_cache(r)
             \/ SettleBudget(r) \/ SettleTokens(r) \/ SettleReasoning(r)
      PROVE  Goal
  BY <1>4, QuotaGateHeld, CheckHeld, FreeMoveHeld, PayHeld, TokensHeld, ReasonHeld
<1>5. CASE \E g \in Groups, b, q \in Amounts :
              \/ group_create(g, b, q) \/ \E todo \in SUBSET Fields : group_patch(g, todo, b, q)
  <2>1. Goal
    BY <1>2, <1>5 DEF group_create, group_patch
  <2> QED
    BY <2>1, HeldStep DEF BurstInv
<1>6. CASE \/ \E g \in Groups : group_delete(g)
           \/ PatchRow \/ PatchFails \/ SetNode \/ OpDone
  <2>1. CASE SetNode
    <3>1. UNCHANGED <<mode, bucket, shared, spent, req, outage>>
      BY <2>1 DEF SetNode, limits
    <3>2. Goal
      BY <1>1, <3>1
    <3> QED
      BY <3>2, HeldStep DEF BurstInv
  <2>2. CASE (\E g \in Groups : group_delete(g)) \/ PatchRow \/ PatchFails \/ OpDone
    <3>1. Goal
      BY <1>2, <2>2 DEF group_delete, PatchRow, PatchFails, OpDone
    <3> QED
      BY <3>1, HeldStep DEF BurstInv
  <2> QED
    BY <1>6, <2>1, <2>2
<1>7. CASE \/ Tick \/ RedisGoes \/ RedisReturns \/ \E k \in Keys, q \in Rates : SetRate(k, q)
  <2>1. UNCHANGED <<mode, bucket, shared, spent, req>> /\ (outage => outage')
    BY <1>7 DEF Tick, RedisGoes, RedisReturns, SetRate, money
  <2>2. Goal
    BY <1>1, <2>1
  <2> QED
    BY <2>2, HeldStep DEF BurstInv
<1>8. CASE NextDay \/ Rollover \/ Restart
  <2>1. Goal
    BY <1>8, MidnightHeld, RestartHeld
  <2> QED
    BY <2>1, HeldStep DEF BurstInv
<1>9. CASE UNCHANGED gateVars
  <2>1. Goal
    BY <1>2, <1>9 DEF gateVars
  <2> QED
    BY <2>1, HeldStep DEF BurstInv
<1>10. ASSUME Goal PROVE HeldInv'
  BY <1>10, HeldStep DEF BurstInv
<1> HIDE DEF Goal
<1> QED
  BY <1>3, <1>4, <1>5, <1>6, <1>7, <1>8, <1>9, <1>10, Zenon DEF GateNext

LEMMA InitHeld == GateInit => HeldInv
<1> SUFFICES ASSUME GateInit PROVE HeldInv
  OBVIOUS
<1>1. LimitTypes
  BY InitBurst DEF BurstInv
<1>2. /\ spent = [k \in Keys |-> 0] /\ bucket = [k \in Keys |-> NoBucket]
      /\ shared = [k \in Keys |-> NoBucket] /\ req = [r \in Reqs |-> Free]
  BY DEF GateInit
<1>3. ReqTypes
  BY <1>2, FreeRequest DEF ReqTypes
<1>4. ASSUME NEW k \in Keys PROVE spent[k] = 0 /\ DayUsed(k) = 0
  BY <1>2 DEF DayUsed, NoBucket
<1>5. Budget \in Nat /\ Quota \in Nat /\ Cardinality(Reqs) \in Nat
  BY GateAssumption, CountBound
<1>6. MoneyHeld
  BY <1>4, <1>5, CountBound DEF MoneyHeld
<1>7. QuotaHeld
  BY <1>4, <1>5, CountBound DEF QuotaHeld
<1> QED
  BY <1>1, <1>2, <1>3, <1>6, <1>7 DEF HeldInv

\* budget_enforce_check and rl_remaining_daily compare before an answer, budget_enforce_record
\* and rl_reserve_tokens pay after it: however many requests are served at once, a key exceeds
\* its quota and its budget by less than the answers in flight.
THEOREM LimitsAreHeld == GateSpec => []LimitsHold
<1>1. GateInit => BurstInv /\ ReqTypes /\ HeldInv
  BY InitBurst, InitHeld DEF HeldInv
<1>2. BurstInv /\ ReqTypes /\ HeldInv /\ [GateNext]_gateVars => (BurstInv /\ ReqTypes /\ HeldInv)'
  BY BurstStep, ReqStep, LimitsHeldStep
<1> QED
  BY <1>1, <1>2, HeldBounds, PTL DEF GateSpec

-----------------------------------------------------------------------------
(* The groups                                                                *)

PaymentsOf(f, g) == UNION {{k} \X (1 .. f[k]) : k \in {k \in Keys : GroupOf[k] = g}}

\* The two tables of the month agree: a group has spent what its keys have spent.
Ledger(s, nd) == \A g \in Groups : /\ IsFiniteSet(PaymentsOf(s, g))
                                   /\ nd[g].spent = Cardinality(PaymentsOf(s, g))

LEMMA PaymentsMember ==
    ASSUME NEW f \in [Keys -> Nat], NEW g, NEW x
    PROVE  x \in PaymentsOf(f, g) <=> \E k \in Keys : GroupOf[k] = g /\ \E n \in 1 .. f[k] : x = <<k, n>>
  BY DEF PaymentsOf

LEMMA NoPayments ==
    ASSUME NEW f, f = [k \in Keys |-> 0], NEW g
    PROVE  PaymentsOf(f, g) = {}
<1>1. f \in [Keys -> Nat] /\ \A k \in Keys : 1 .. f[k] = {}
  OBVIOUS
<1> QED
  BY <1>1, PaymentsMember

LEMMA PaymentMade ==
    ASSUME NEW f \in [Keys -> Nat], NEW k \in Keys, NEW h \in [Keys -> Nat],
           h[k] = f[k] + 1, \A j \in Keys : j # k => h[j] = f[j]
    PROVE  /\ PaymentsOf(h, GroupOf[k]) = PaymentsOf(f, GroupOf[k]) \cup {<<k, f[k] + 1>>}
           /\ <<k, f[k] + 1>> \notin PaymentsOf(f, GroupOf[k])
           /\ \A g : g # GroupOf[k] => PaymentsOf(h, g) = PaymentsOf(f, g)
<1>1. h \in [Keys -> Nat] /\ h[k] = f[k] + 1 /\ \A j \in Keys : j # k => h[j] = f[j]
  OBVIOUS
<1>2. f[k] \in Nat /\ (1 .. h[k]) = (1 .. f[k]) \cup {f[k] + 1} /\ f[k] + 1 \notin 1 .. f[k]
  BY <1>1
<1>3. ASSUME NEW x PROVE x \in PaymentsOf(h, GroupOf[k]) <=> x \in PaymentsOf(f, GroupOf[k]) \/ x = <<k, f[k] + 1>>
  <2> DEFINE m == f[k] + 1
  <2>1. (1 .. h[k]) = (1 .. f[k]) \cup {m}
    BY <1>2
  <2> HIDE DEF m
  <2>2. ASSUME NEW j \in Keys, GroupOf[j] = GroupOf[k], NEW n \in 1 .. h[j], x = <<j, n>>
        PROVE  (\E i \in Keys : GroupOf[i] = GroupOf[k] /\ \E l \in 1 .. f[i] : x = <<i, l>>) \/ x = <<k, m>>
    BY <1>1, <2>1, <2>2
  <2>3. ASSUME NEW j \in Keys, GroupOf[j] = GroupOf[k], NEW n \in 1 .. f[j], x = <<j, n>>
        PROVE  \E i \in Keys : GroupOf[i] = GroupOf[k] /\ \E l \in 1 .. h[i] : x = <<i, l>>
    BY <1>1, <2>1, <2>3
  <2>4. ASSUME x = <<k, m>>
        PROVE  \E i \in Keys : GroupOf[i] = GroupOf[k] /\ \E l \in 1 .. h[i] : x = <<i, l>>
    BY <2>1, <2>4
  <2>5. x \in PaymentsOf(h, GroupOf[k]) <=>
          \E i \in Keys : GroupOf[i] = GroupOf[k] /\ \E l \in 1 .. h[i] : x = <<i, l>>
    BY <1>1, PaymentsMember
  <2>6. x \in PaymentsOf(f, GroupOf[k]) <=>
          \E i \in Keys : GroupOf[i] = GroupOf[k] /\ \E l \in 1 .. f[i] : x = <<i, l>>
    BY PaymentsMember
  <2>7. x \in PaymentsOf(h, GroupOf[k]) <=> x \in PaymentsOf(f, GroupOf[k]) \/ x = <<k, m>>
    BY <2>2, <2>3, <2>4, <2>5, <2>6, Zenon
  <2> QED
    BY <2>7 DEF m
<1>4. <<k, f[k] + 1>> \notin PaymentsOf(f, GroupOf[k])
  BY <1>2, PaymentsMember
<1>5. ASSUME NEW g, g # GroupOf[k] PROVE PaymentsOf(h, g) = PaymentsOf(f, g)
  <2>1. \A j \in Keys : GroupOf[j] = g => h[j] = f[j]
    BY <1>1, <1>5
  <2>2. ASSUME NEW x PROVE x \in PaymentsOf(h, g) <=> x \in PaymentsOf(f, g)
    <3>1. x \in PaymentsOf(h, g) <=> \E i \in Keys : GroupOf[i] = g /\ \E l \in 1 .. h[i] : x = <<i, l>>
      BY <1>1, PaymentsMember
    <3>2. x \in PaymentsOf(f, g) <=> \E i \in Keys : GroupOf[i] = g /\ \E l \in 1 .. f[i] : x = <<i, l>>
      BY PaymentsMember
    <3> QED
      BY <2>1, <3>1, <3>2
  <2> QED
    BY <2>2
<1>6. PaymentsOf(h, GroupOf[k]) = PaymentsOf(f, GroupOf[k]) \cup {<<k, f[k] + 1>>}
  BY <1>3
<1> QED
  BY <1>4, <1>5, <1>6

Nodes == [in : BOOLEAN, spent : Nat, budget : Nat, rquota : Nat]
Rows == [st : {"none", "live", "gone"}, budget : Nat, rquota : Nat]
Ops == [pc : {"idle", "patch", "set", "unstored"}, new : BOOLEAN, on : Groups \cup {"none"},
        todo : SUBSET Fields, budget : Nat, rquota : Nat]

\* The field that a request works on; between the row and the node it is in one of them only.
FieldOf(a) == IF "budget" \in a.todo THEN "budget" ELSE "rquota"
Between(a, g, f) == a.pc = "set" /\ a.on = g /\ FieldOf(a) = f

FieldsFollow(nd, ap, rw, a) ==
    \A g \in Groups : rw[g].st # "gone" =>
        /\ "budget" \in ap[g] \/ Between(a, g, "budget") \/ nd[g].budget = rw[g].budget
        /\ "rquota" \in ap[g] \/ Between(a, g, "rquota") \/ nd[g].rquota = rw[g].rquota

\* A request of the administrator works on a live row, and what it has stored it will set.
AdmWorks(rw, a) ==
    /\ \A g \in Groups : rw[g].st = "none" => rw[g].budget = 0 /\ rw[g].rquota = 0
    /\ a.pc # "idle" => a.on \in Groups /\ rw[a.on].st = "live"
    /\ a.pc = "set" => IF FieldOf(a) = "budget" THEN rw[a.on].budget = a.budget
                       ELSE rw[a.on].rquota = a.rquota

GroupInv ==
    /\ spent \in [Keys -> Nat] /\ node \in [Groups -> Nodes] /\ row \in [Groups -> Rows]
    /\ apart \in [Groups -> SUBSET Fields] /\ adm \in Ops
    /\ Ledger(spent, node)
    /\ AdmWorks(row, adm)
    /\ FieldsFollow(node, apart, row, adm)

LEMMA GroupInvPrimed ==
    ASSUME spent' \in [Keys -> Nat], node' \in [Groups -> Nodes], row' \in [Groups -> Rows],
           apart' \in [Groups -> SUBSET Fields], adm' \in Ops, Ledger(spent', node'),
           AdmWorks(row', adm'), FieldsFollow(node', apart', row', adm')
    PROVE  GroupInv'
  BY DEF GroupInv, Ledger, FieldsFollow, AdmWorks, PaymentsOf, Between, FieldOf

LEMMA GroupInvFollows == GroupInv => GroupsFollow
<1> SUFFICES ASSUME GroupInv, NEW g \in Groups
             PROVE  /\ node[g].spent = Cardinality(Payments(g))
                    /\ adm.pc = "idle" /\ row[g].st = "live" =>
                         /\ "budget" \in apart[g] \/ node[g].budget = row[g].budget
                         /\ "rquota" \in apart[g] \/ node[g].rquota = row[g].rquota
  BY DEF GroupsFollow
<1>1. Payments(g) = PaymentsOf(spent, g)
  BY DEF Payments, PaymentsOf
<1> QED
  BY <1>1 DEF GroupInv, Ledger, FieldsFollow, Between

LEMMA NoNodeFacts == NoNode \in Nodes /\ NoNode.spent = 0 /\ NoNode.budget = 0 /\ NoNode.rquota = 0
  BY DEF NoNode, Nodes

LEMMA LoadedFacts ==
    ASSUME NEW g \in Groups, row \in [Groups -> Rows],
           row[g].st = "none" => row[g].budget = 0 /\ row[g].rquota = 0
    PROVE  /\ Loaded(g) \in Nodes /\ Loaded(g).spent = 0
           /\ row[g].st # "gone" => Loaded(g).budget = row[g].budget /\ Loaded(g).rquota = row[g].rquota
<1>1. row[g] \in Rows
  OBVIOUS
<1>2. CASE row[g].st = "live"
  <2>1. Loaded(g) = [in |-> TRUE, spent |-> 0, budget |-> row[g].budget, rquota |-> row[g].rquota]
    BY <1>2 DEF Loaded, NoNode
  <2> QED
    BY <1>1, <2>1 DEF Nodes, Rows
<1>3. CASE row[g].st # "live"
  BY <1>1, <1>3, NoNodeFacts DEF Loaded, Rows
<1> QED
  BY <1>2, <1>3

\* The month's end empties both tables of the month at once.
LEMMA CurrentGroups ==
    ASSUME GroupInv
    PROVE  /\ Current.spent \in [Keys -> Nat] /\ Current.node \in [Groups -> Nodes]
           /\ Current.apart \in [Groups -> SUBSET Fields]
           /\ Ledger(Current.spent, Current.node)
           /\ FieldsFollow(Current.node, Current.apart, row, adm)
<1>1. CASE Month(day) = ym
  <2>1. Current.spent = spent /\ Current.node = node /\ Current.apart = apart
    BY <1>1 DEF Current
  <2> QED
    BY <2>1 DEF GroupInv
<1>2. CASE Month(day) # ym
  <2> DEFINE s == [k \in Keys |-> 0]
             nd == [g \in Groups |-> NoNode]
             ap == [g \in Groups |-> Fields]
  <2>1. Current.spent = s /\ Current.node = nd /\ Current.apart = ap
    BY <1>2 DEF Current, clear_buckets
  <2>2. s \in [Keys -> Nat] /\ nd \in [Groups -> Nodes] /\ ap \in [Groups -> SUBSET Fields]
    BY NoNodeFacts
  <2>3. \A g \in Groups : nd[g].spent = 0 /\ ap[g] = Fields
    BY NoNodeFacts
  <2>4. \A g : PaymentsOf(s, g) = {}
    BY NoPayments
  <2> HIDE DEF s, nd, ap
  <2>5. Ledger(s, nd)
    BY <2>3, <2>4, FS_EmptySet DEF Ledger
  <2>6. FieldsFollow(nd, ap, row, adm)
    BY <2>3 DEF FieldsFollow, Fields
  <2> QED
    BY <2>1, <2>2, <2>5, <2>6
<1> QED
  BY <1>1, <1>2

LEMMA PaymentKeepsLedger ==
    ASSUME NEW s \in [Keys -> Nat], NEW nd \in [Groups -> Nodes], NEW k \in Keys, Ledger(s, nd),
           NEW s2 \in [Keys -> Nat], s2[k] = s[k] + 1, \A j \in Keys : j # k => s2[j] = s[j],
           NEW nd2, nd2[GroupOf[k]].spent = nd[GroupOf[k]].spent + 1,
           \A g \in Groups : g # GroupOf[k] => nd2[g] = nd[g]
    PROVE  Ledger(s2, nd2)
<1> DEFINE p == GroupOf[k]
<1>1. p \in Groups
  BY GateAssumption
<1>2. /\ PaymentsOf(s2, p) = PaymentsOf(s, p) \cup {<<k, s[k] + 1>>}
      /\ <<k, s[k] + 1>> \notin PaymentsOf(s, p)
      /\ \A g : g # p => PaymentsOf(s2, g) = PaymentsOf(s, g)
  BY PaymentMade
<1> HIDE DEF p
<1>3. ASSUME NEW g \in Groups, g # p
      PROVE  IsFiniteSet(PaymentsOf(s2, g)) /\ nd2[g].spent = Cardinality(PaymentsOf(s2, g))
  BY <1>2, <1>3 DEF Ledger, p
<1>4. IsFiniteSet(PaymentsOf(s, p)) /\ nd[p].spent = Cardinality(PaymentsOf(s, p))
  BY <1>1 DEF Ledger
<1>5. /\ IsFiniteSet(PaymentsOf(s2, p))
      /\ Cardinality(PaymentsOf(s2, p)) = Cardinality(PaymentsOf(s, p)) + 1
  BY <1>2, <1>4, FS_AddElement
<1>6. nd2[p].spent = Cardinality(PaymentsOf(s2, p))
  BY <1>4, <1>5 DEF p
<1> QED
  BY <1>3, <1>5, <1>6 DEF Ledger

LEMMA PaidNode ==
    ASSUME NEW n \in Nodes
    PROVE  LET m == [n EXCEPT !.in = TRUE, !.spent = n.spent + 1]
           IN  m \in Nodes /\ m.spent = n.spent + 1 /\ m.budget = n.budget /\ m.rquota = n.rquota
<1> DEFINE x == n.spent + 1
<1>1. x \in Nat
  BY DEF Nodes
<1> HIDE DEF x
<1>2. LET m == [n EXCEPT !.in = TRUE, !.spent = x]
      IN  m \in Nodes /\ m.spent = x /\ m.budget = n.budget /\ m.rquota = n.rquota
  BY <1>1 DEF Nodes
<1> QED
  BY <1>2 DEF x

\* A payment reaches the key and its group in one step.
LEMMA PaidGroups ==
    ASSUME GroupInv, NEW k \in Keys, Roll(Paid(Current, k, 1)), UNCHANGED <<row, adm>>
    PROVE  GroupInv'
<1> DEFINE s == Current.spent
           nd == Current.node
           ap == Current.apart
           p == GroupOf[k]
           paid == [nd[p] EXCEPT !.in = TRUE, !.spent = nd[p].spent + 1]
<1>1. /\ s \in [Keys -> Nat] /\ nd \in [Groups -> Nodes] /\ ap \in [Groups -> SUBSET Fields]
      /\ Ledger(s, nd) /\ FieldsFollow(nd, ap, row, adm)
  BY CurrentGroups
<1>2. spent' = [s EXCEPT ![k] = s[k] + 1] /\ node' = [nd EXCEPT ![p] = paid] /\ apart' = ap
  BY DEF Roll, Paid
<1>3. p \in Groups
  BY GateAssumption
<1> HIDE DEF s, nd, ap, p
<1>4. nd[p] \in Nodes /\ nd[p].spent \in Nat
  BY <1>1, <1>3 DEF Nodes
<1>5. /\ paid \in Nodes /\ paid.spent = nd[p].spent + 1
      /\ paid.budget = nd[p].budget /\ paid.rquota = nd[p].rquota
  BY <1>4, PaidNode
<1> HIDE DEF paid
<1>6. /\ spent' \in [Keys -> Nat] /\ spent'[k] = s[k] + 1 /\ \A j \in Keys : j # k => spent'[j] = s[j]
      /\ node' \in [Groups -> Nodes] /\ node'[p] = paid
      /\ \A g \in Groups : g # p => node'[g] = nd[g]
  BY <1>1, <1>2, <1>3, <1>5
<1>7. node'[p].spent = nd[p].spent + 1
  BY <1>5, <1>6
<1>8. Ledger(spent', node')
  BY <1>1, <1>6, <1>7, PaymentKeepsLedger DEF p
<1>9. \A g \in Groups : node'[g].budget = nd[g].budget /\ node'[g].rquota = nd[g].rquota
  BY <1>5, <1>6
<1>10. FieldsFollow(node', ap, row, adm)
  BY <1>1, <1>9 DEF FieldsFollow
<1>11. /\ AdmWorks(row', adm') /\ row' \in [Groups -> Rows] /\ adm' \in Ops
       /\ FieldsFollow(node', apart', row', adm') /\ apart' \in [Groups -> SUBSET Fields]
  BY <1>1, <1>2, <1>10 DEF GroupInv
<1> QED
  BY <1>6, <1>8, <1>11, GroupInvPrimed

LEMMA CheckGroups ==
    ASSUME GroupInv, Roll(Current), UNCHANGED <<row, adm>>
    PROVE  GroupInv'
<1>1. spent' = Current.spent /\ node' = Current.node /\ apart' = Current.apart
  BY DEF Roll
<1>2. Ledger(spent', node') /\ FieldsFollow(node', apart', row', adm')
  BY <1>1, CurrentGroups
<1>3. AdmWorks(row', adm') /\ row' \in [Groups -> Rows] /\ adm' \in Ops
  BY DEF GroupInv
<1> QED
  BY <1>1, <1>2, <1>3, CurrentGroups, GroupInvPrimed

LEMMA SameSpending ==
    ASSUME GroupInv, UNCHANGED spent, NEW nd, \A g \in Groups : nd[g].spent = node[g].spent
    PROVE  Ledger(spent', nd)
  BY DEF GroupInv, Ledger

LEMMA StartsOp ==
    ASSUME NEW new \in BOOLEAN, NEW g \in Groups, NEW todo \in SUBSET Fields, NEW b \in Amounts, NEW q \in Amounts,
           StartOp(new, g, todo, b, q)
    PROVE  adm.pc = "idle" /\ adm' \in Ops /\ adm'.pc = "patch" /\ adm'.on = g
<1>1. b \in Nat /\ q \in Nat
  BY GateAssumption
<1> QED
  BY <1>1 DEF StartOp, Ops

LEMMA CreateGroups ==
    ASSUME GroupInv, NEW g \in Groups, NEW b \in Amounts, NEW q \in Amounts, group_create(g, b, q)
    PROVE  GroupInv'
<1> DEFINE todo == {f \in Fields : (f = "budget" /\ b > 0) \/ (f = "rquota" /\ q > 0)}
           new == [row[g] EXCEPT !.st = "live"]
<1>1. /\ row[g].st = "none" /\ row' = [row EXCEPT ![g] = new] /\ StartOp(TRUE, g, todo, b, q)
      /\ UNCHANGED <<spent, node, apart>>
  BY DEF group_create, money
<1>2. todo \in SUBSET Fields /\ TRUE \in BOOLEAN
  OBVIOUS
<1> HIDE DEF todo
<1>3. adm.pc = "idle" /\ adm' \in Ops /\ adm'.pc = "patch" /\ adm'.on = g
  BY <1>1, <1>2, StartsOp
<1>4. row \in [Groups -> Rows] /\ row[g] \in Rows
  BY DEF GroupInv
<1>5. new \in Rows /\ new.st = "live" /\ new.budget = row[g].budget /\ new.rquota = row[g].rquota
  BY <1>4 DEF Rows
<1> HIDE DEF new
<1>6. row' \in [Groups -> Rows] /\ row'[g] = new /\ \A j \in Groups : j # g => row'[j] = row[j]
  BY <1>1, <1>4, <1>5
<1>7. AdmWorks(row', adm')
  BY <1>3, <1>5, <1>6 DEF AdmWorks, GroupInv
<1>8. FieldsFollow(node', apart', row', adm')
  BY <1>1, <1>3, <1>5, <1>6 DEF FieldsFollow, Between, GroupInv
<1>9. Ledger(spent', node')
  BY <1>1 DEF GroupInv
<1> QED
  BY <1>1, <1>3, <1>6, <1>7, <1>8, <1>9, GroupInvPrimed DEF GroupInv

LEMMA PatchGroups ==
    ASSUME GroupInv, NEW g \in Groups, NEW b \in Amounts, NEW q \in Amounts, NEW todo \in SUBSET Fields,
           group_patch(g, todo, b, q)
    PROVE  GroupInv'
<1>1. row[g].st = "live" /\ StartOp(FALSE, g, todo, b, q) /\ UNCHANGED <<spent, node, apart, row>>
  BY DEF group_patch, money
<1>2. adm.pc = "idle" /\ adm' \in Ops /\ adm'.pc = "patch" /\ adm'.on = g
  BY <1>1, StartsOp
<1>3. AdmWorks(row', adm')
  BY <1>1, <1>2 DEF AdmWorks, GroupInv
<1>4. FieldsFollow(node', apart', row', adm')
  BY <1>1, <1>2 DEF FieldsFollow, Between, GroupInv
<1>5. Ledger(spent', node')
  BY <1>1 DEF GroupInv
<1> QED
  BY <1>1, <1>2, <1>3, <1>4, <1>5, GroupInvPrimed DEF GroupInv

LEMMA DeleteGroups ==
    ASSUME GroupInv, NEW g \in Groups, group_delete(g)
    PROVE  GroupInv'
<1> DEFINE new == [row[g] EXCEPT !.st = "gone"]
<1>1. /\ adm.pc = "idle" /\ row' = [row EXCEPT ![g] = new] /\ UNCHANGED <<spent, node, apart, adm>>
  BY DEF group_delete, money
<1>2. row \in [Groups -> Rows] /\ row[g] \in Rows
  BY DEF GroupInv
<1>3. new \in Rows /\ new.st = "gone"
  BY <1>2 DEF Rows
<1> HIDE DEF new
<1>4. row' \in [Groups -> Rows] /\ row'[g] = new /\ \A j \in Groups : j # g => row'[j] = row[j]
  BY <1>1, <1>2, <1>3
<1>5. AdmWorks(row', adm')
  BY <1>1, <1>3, <1>4 DEF AdmWorks, GroupInv
<1>6. FieldsFollow(node', apart', row', adm')
  BY <1>1, <1>3, <1>4 DEF FieldsFollow, GroupInv
<1>7. Ledger(spent', node')
  BY <1>1 DEF GroupInv
<1> QED
  BY <1>1, <1>4, <1>5, <1>6, <1>7, GroupInvPrimed DEF GroupInv

LEMMA PatchRowGroups ==
    ASSUME GroupInv, PatchRow
    PROVE  GroupInv'
<1> DEFINE g == adm.on
           f == FieldOf(adm)
           new == IF f = "budget" THEN [row[g] EXCEPT !.budget = adm.budget]
                  ELSE [row[g] EXCEPT !.rquota = adm.rquota]
<1>1. /\ adm.pc = "patch" /\ row' = [row EXCEPT ![g] = new] /\ adm' = [adm EXCEPT !.pc = "set"]
      /\ UNCHANGED <<spent, node, apart>>
  BY DEF PatchRow, money, NextField, FieldOf, pq_patch_group_budget, pq_patch_group_reasoning_quota
<1>2. adm \in Ops /\ g \in Groups /\ row \in [Groups -> Rows] /\ row[g] \in Rows /\ row[g].st = "live"
  BY <1>1 DEF GroupInv, AdmWorks
<1>3. /\ adm' \in Ops /\ adm'.pc = "set" /\ adm'.on = g /\ adm'.todo = adm.todo
      /\ adm'.budget = adm.budget /\ adm'.rquota = adm.rquota /\ adm.budget \in Nat /\ adm.rquota \in Nat
  BY <1>1, <1>2 DEF Ops
<1>4. FieldOf(adm') = f /\ f \in {"budget", "rquota"}
  BY <1>3 DEF FieldOf
<1> HIDE DEF f, g
<1>5. /\ new \in Rows /\ new.st = "live"
      /\ f = "budget" => new.budget = adm.budget /\ new.rquota = row[g].rquota
      /\ f # "budget" => new.rquota = adm.rquota /\ new.budget = row[g].budget
  BY <1>2, <1>3 DEF Rows
<1> HIDE DEF new
<1>6. row' \in [Groups -> Rows] /\ row'[g] = new /\ \A j \in Groups : j # g => row'[j] = row[j]
  BY <1>1, <1>2, <1>5
<1>7. AdmWorks(row', adm')
  BY <1>2, <1>3, <1>4, <1>5, <1>6 DEF AdmWorks, GroupInv
<1>8. FieldsFollow(node', apart', row', adm')
  <2>1. \A j \in Groups, e \in Fields : ~Between(adm, j, e)
    BY <1>1 DEF Between
  <2>2. Between(adm', g, f)
    BY <1>3, <1>4 DEF Between
  <2> QED
    BY <1>1, <1>2, <1>4, <1>5, <1>6, <2>1, <2>2 DEF FieldsFollow, GroupInv, Fields
<1>9. Ledger(spent', node')
  BY <1>1 DEF GroupInv
<1> QED
  BY <1>1, <1>3, <1>6, <1>7, <1>8, <1>9, GroupInvPrimed DEF GroupInv

\* The request ends or goes on without a stored value; nothing but adm changes.
LEMMA OpGoesOn ==
    ASSUME GroupInv, PatchFails \/ OpDone
    PROVE  GroupInv'
<1>1. /\ adm.pc = "patch" /\ UNCHANGED <<spent, node, apart, row>>
      /\ adm' = NoOp \/ adm' = [adm EXCEPT !.pc = "unstored"]
  BY DEF PatchFails, OpDone, money
<1>2. NoOp \in Ops /\ NoOp.pc = "idle"
  BY DEF NoOp, Ops
<1>3. [adm EXCEPT !.pc = "unstored"] \in Ops /\ [adm EXCEPT !.pc = "unstored"].pc = "unstored"
      /\ [adm EXCEPT !.pc = "unstored"].on = adm.on
  BY DEF GroupInv, Ops
<1>4. adm' \in Ops /\ adm'.pc # "set" /\ (adm'.pc # "idle" => adm'.on = adm.on)
  BY <1>1, <1>2, <1>3
<1>5. AdmWorks(row', adm')
  BY <1>1, <1>4 DEF AdmWorks, GroupInv
<1>6. FieldsFollow(node', apart', row', adm')
  BY <1>1, <1>4 DEF FieldsFollow, Between, GroupInv
<1>7. Ledger(spent', node')
  BY <1>1 DEF GroupInv
<1> QED
  BY <1>1, <1>4, <1>5, <1>6, <1>7, GroupInvPrimed DEF GroupInv

LEMMA SetNodeGroups ==
    ASSUME GroupInv, SetNode
    PROVE  GroupInv'
<1> DEFINE g == adm.on
           f == FieldOf(adm)
           new == IF f = "budget" THEN [node[g] EXCEPT !.in = TRUE, !.budget = adm.budget]
                  ELSE [node[g] EXCEPT !.in = TRUE, !.rquota = adm.rquota]
           left == IF adm.pc = "set" THEN apart[g] \ {f} ELSE apart[g] \cup {f}
           rest == adm.todo \ {f}
<1>1. /\ adm.pc \in {"set", "unstored"} /\ node' = [node EXCEPT ![g] = new]
      /\ apart' = [apart EXCEPT ![g] = left] /\ adm' = [adm EXCEPT !.pc = "patch", !.todo = rest]
      /\ UNCHANGED <<spent, row>>
  BY DEF SetNode, NextField, FieldOf, budget_enforce_set_group_budget, budget_enforce_set_group_reasoning_quota
<1>2. /\ adm \in Ops /\ g \in Groups /\ node \in [Groups -> Nodes] /\ node[g] \in Nodes /\ row[g].st = "live"
      /\ apart \in [Groups -> SUBSET Fields]
  BY <1>1 DEF GroupInv, AdmWorks
<1>3. rest \in SUBSET Fields /\ adm.budget \in Nat /\ adm.rquota \in Nat /\ f \in Fields
  BY <1>2 DEF Ops, FieldOf, Fields
<1> HIDE DEF rest
<1>4. adm' \in Ops /\ adm'.pc = "patch" /\ adm'.on = g
  BY <1>1, <1>2, <1>3 DEF Ops
<1>5. adm.pc = "set" => IF f = "budget" THEN row[g].budget = adm.budget ELSE row[g].rquota = adm.rquota
  BY DEF GroupInv, AdmWorks
<1>6. left \in SUBSET Fields /\ f \in {"budget", "rquota"}
  BY <1>2, <1>3 DEF Fields
<1>13. \A j \in Groups, e \in Fields : Between(adm, j, e) => j = g /\ e = f
  BY DEF Between
<1> HIDE DEF g, f
<1>7. /\ new \in Nodes /\ new.spent = node[g].spent
      /\ f = "budget" => new.budget = adm.budget /\ new.rquota = node[g].rquota
      /\ f # "budget" => new.rquota = adm.rquota /\ new.budget = node[g].budget
  BY <1>2, <1>3 DEF Nodes
<1> HIDE DEF new
<1>8. /\ node' \in [Groups -> Nodes] /\ node'[g] = new /\ \A j \in Groups : j # g => node'[j] = node[j]
      /\ apart' \in [Groups -> SUBSET Fields] /\ apart'[g] = left
      /\ \A j \in Groups : j # g => apart'[j] = apart[j]
  BY <1>1, <1>2, <1>6, <1>7
<1>9. AdmWorks(row', adm')
  BY <1>1, <1>2, <1>4 DEF AdmWorks, GroupInv
<1>10. FieldsFollow(node', apart', row', adm')
  <2> SUFFICES ASSUME NEW j \in Groups, row[j].st # "gone"
               PROVE  /\ "budget" \in apart'[j] \/ node'[j].budget = row[j].budget
                      /\ "rquota" \in apart'[j] \/ node'[j].rquota = row[j].rquota
    BY <1>1 DEF FieldsFollow
  <2>1. /\ "budget" \in apart[j] \/ Between(adm, j, "budget") \/ node[j].budget = row[j].budget
        /\ "rquota" \in apart[j] \/ Between(adm, j, "rquota") \/ node[j].rquota = row[j].rquota
    BY DEF GroupInv, FieldsFollow
  <2>2. CASE j # g
    BY <1>8, <1>13, <2>1, <2>2 DEF Fields
  <2>3. CASE j = g
    <3>1. f # "budget" => ~Between(adm, j, "budget")
      BY <1>13 DEF Fields
    <3>2. f # "rquota" => ~Between(adm, j, "rquota")
      BY <1>13 DEF Fields
    <3> QED
      BY <1>1, <1>5, <1>6, <1>7, <1>8, <2>1, <2>3, <3>1, <3>2
  <2> QED
    BY <2>2, <2>3
<1>11. \A j \in Groups : node'[j].spent = node[j].spent
  BY <1>7, <1>8
<1>12. Ledger(spent', node')
  BY <1>1, <1>11, SameSpending
<1> QED
  BY <1>1, <1>4, <1>8, <1>9, <1>10, <1>12, GroupInvPrimed DEF GroupInv

LEMMA LedgerOfZero ==
    ASSUME NEW s, s = [k \in Keys |-> 0], NEW nd, \A g \in Groups : nd[g].spent = 0
    PROVE  Ledger(s, nd)
  BY NoPayments, FS_EmptySet DEF Ledger

LEMMA RestartGroups ==
    ASSUME GroupInv, Restart
    PROVE  GroupInv'
<1>1. /\ spent' = [k \in Keys |-> 0] /\ node' = [g \in Groups |-> Loaded(g)]
      /\ apart' = [g \in Groups |-> {}] /\ adm' = NoOp /\ UNCHANGED row
  BY DEF Restart
<1>2. NoOp \in Ops /\ NoOp.pc = "idle"
  BY DEF NoOp, Ops
<1>3. ASSUME NEW g \in Groups
      PROVE  /\ Loaded(g) \in Nodes /\ Loaded(g).spent = 0
             /\ row[g].st # "gone" => Loaded(g).budget = row[g].budget /\ Loaded(g).rquota = row[g].rquota
  BY LoadedFacts DEF GroupInv, AdmWorks
<1>4. node' \in [Groups -> Nodes] /\ apart' \in [Groups -> SUBSET Fields] /\ spent' \in [Keys -> Nat]
  BY <1>1, <1>3
<1>5. AdmWorks(row', adm')
  BY <1>1, <1>2 DEF AdmWorks, GroupInv
<1>6. \A g \in Groups : node'[g] = Loaded(g)
  BY <1>1
<1>7. FieldsFollow(node', apart', row', adm')
  BY <1>1, <1>3, <1>6 DEF FieldsFollow
<1>8. Ledger(spent', node')
  BY <1>1, <1>3, <1>6, LedgerOfZero
<1> QED
  BY <1>1, <1>2, <1>4, <1>5, <1>7, <1>8, GroupInvPrimed DEF GroupInv

LEMMA GroupsUnchanged ==
    ASSUME GroupInv, UNCHANGED <<spent, node, apart, row, adm>>
    PROVE  GroupInv'
  BY GroupInvPrimed DEF GroupInv

LEMMA GroupStep ==
    ASSUME GroupInv, ReqTypes, [GateNext]_gateVars
    PROVE  GroupInv'
<1>1. ASSUME UNCHANGED <<money, row, adm>> PROVE GroupInv'
  BY <1>1, GroupsUnchanged DEF money
<1>2. ASSUME NEW r \in Reqs, NEW k \in Keys, Arrive(r, k)
      PROVE  GroupInv'
  BY <1>1, <1>2 DEF Arrive
<1>3. ASSUME NEW r \in Reqs, budget_enforce_check(r)
      PROVE  GroupInv'
  BY <1>3, CheckGroups DEF budget_enforce_check
<1>4. ASSUME NEW r \in Reqs, prepare_chat_cache(r) \/ SettleBudget(r)
      PROVE  GroupInv'
  <2>1. req[r].key \in Keys
    BY <1>4, PayMoves
  <2>2. Roll(Paid(Current, req[r].key, 1)) /\ UNCHANGED <<row, adm>>
    BY <1>4 DEF prepare_chat_cache, SettleBudget, budget_enforce_record
  <2> QED
    BY <2>1, <2>2, PaidGroups
<1>5. ASSUME NEW r \in Reqs,
             \/ GateQuota(r) \/ EndUnpaid(r) \/ chat_apply_reasoning_quota_and_degradation(r)
             \/ SettleTokens(r) \/ SettleReasoning(r)
      PROVE  GroupInv'
  BY <1>1, <1>5 DEF GateQuota, EndUnpaid, chat_apply_reasoning_quota_and_degradation, SettleTokens, SettleReasoning
<1>6. CASE \E g \in Groups, b, q \in Amounts :
              \/ group_create(g, b, q) \/ \E todo \in SUBSET Fields : group_patch(g, todo, b, q)
  BY <1>6, CreateGroups, PatchGroups
<1>7. CASE \E g \in Groups : group_delete(g)
  BY <1>7, DeleteGroups
<1>8. CASE PatchRow \/ PatchFails \/ SetNode \/ OpDone
  BY <1>8, PatchRowGroups, SetNodeGroups, OpGoesOn
<1>9. CASE Restart
  BY <1>9, RestartGroups
<1>10. CASE \/ Tick \/ NextDay \/ Rollover \/ RedisGoes \/ RedisReturns
            \/ \E k \in Keys, q \in Rates : SetRate(k, q)
  BY <1>1, <1>10 DEF Tick, NextDay, Rollover, RedisGoes, RedisReturns, SetRate
<1>11. CASE UNCHANGED gateVars
  BY <1>1, <1>11 DEF gateVars
<1> QED
  BY <1>2, <1>3, <1>4, <1>5, <1>6, <1>7, <1>8, <1>9, <1>10, <1>11, Zenon DEF GateNext

LEMMA InitGroups == GateInit => GroupInv
<1> SUFFICES ASSUME GateInit PROVE GroupInv
  OBVIOUS
<1> DEFINE used(g) == \E k \in Keys : GroupOf[k] = g
<1>1. /\ spent = [k \in Keys |-> 0] /\ apart = [g \in Groups |-> {}] /\ adm = NoOp
      /\ row = [g \in Groups |-> IF used(g) THEN [NoRow EXCEPT !.st = "live"] ELSE NoRow]
      /\ node = [g \in Groups |-> Loaded(g)]
  BY DEF GateInit
<1>2. NoOp \in Ops /\ NoOp.pc = "idle"
  BY DEF NoOp, Ops
<1>3. /\ NoRow \in Rows /\ NoRow.budget = 0 /\ NoRow.rquota = 0
      /\ [NoRow EXCEPT !.st = "live"] \in Rows /\ [NoRow EXCEPT !.st = "live"].st = "live"
  BY DEF NoRow, Rows
<1> HIDE DEF used
<1>4. row \in [Groups -> Rows] /\ \A g \in Groups : row[g].st = "none" => row[g].budget = 0 /\ row[g].rquota = 0
  BY <1>1, <1>3
<1>5. ASSUME NEW g \in Groups
      PROVE  /\ node[g] = Loaded(g) /\ Loaded(g) \in Nodes /\ Loaded(g).spent = 0
             /\ row[g].st # "gone" => Loaded(g).budget = row[g].budget /\ Loaded(g).rquota = row[g].rquota
  BY <1>1, <1>4, LoadedFacts
<1>6. node \in [Groups -> Nodes] /\ apart \in [Groups -> SUBSET Fields] /\ spent \in [Keys -> Nat]
  BY <1>1, <1>5
<1>7. AdmWorks(row, adm)
  BY <1>1, <1>2, <1>4 DEF AdmWorks
<1>8. FieldsFollow(node, apart, row, adm)
  BY <1>5 DEF FieldsFollow
<1>9. Ledger(spent, node)
  BY <1>1, <1>5, LedgerOfZero
<1> QED
  BY <1>1, <1>2, <1>4, <1>6, <1>7, <1>8, <1>9 DEF GroupInv

\* budget_enforce.c's two tables agree on what was spent, whoever notices the new month, and a
\* group is held to what its row says once group_create and group_patch are done with it.
THEOREM GroupsAgree == GateSpec => []GroupsFollow
<1>1. GateInit => GroupInv /\ ReqTypes
  BY InitGroups, InitHeld DEF HeldInv
<1>2. GroupInv /\ ReqTypes /\ [GateNext]_gateVars => (GroupInv /\ ReqTypes)'
  BY GroupStep, ReqStep
<1> QED
  BY <1>1, <1>2, GroupInvFollows, PTL DEF GateSpec

-----------------------------------------------------------------------------
(* Numbers                                                                   *)

LEMMA SmallerIsWellFounded == IsWellFoundedOn({pair \in Nat \X Nat : pair[1] < pair[2]}, Nat)
  BY NatLessThanWellFounded DEF OpToRel

LEMMA LeastNumber ==
    ASSUME NEW T \in SUBSET Nat, T # {}
    PROVE  \E n \in T : \A m \in T : n <= m
<1> DEFINE Smaller == {pair \in Nat \X Nat : pair[1] < pair[2]}
<1>1. IsWellFoundedOn(Smaller, Nat)
  BY SmallerIsWellFounded
<1> HIDE DEF Smaller
<1>2. PICK n \in T : \A m \in T : ~(<<m, n>> \in Smaller)
  BY <1>1, WFMin
<1>3. \A m \in T : ~(m < n)
  BY <1>2 DEF Smaller
<1> QED
  BY <1>3

LEMMA AllNumbers ==
    ASSUME NEW T \in SUBSET Nat, 0 \in T, \A n \in T : n + 1 \in T
    PROVE  T = Nat
<1> SUFFICES ASSUME T # Nat PROVE FALSE
  OBVIOUS
<1>1. PICK n \in Nat \ T : \A m \in Nat \ T : n <= m
  BY LeastNumber
<1>2. n - 1 \in Nat /\ n - 1 \in T
  BY <1>1
<1> QED
  BY <1>1, <1>2

-----------------------------------------------------------------------------
(* Loops                                                                     *)

\* f gives the states of a loop that begins in s and takes g[n] as its n-th round.
Loops(f, g, s, n) == \A i \in 0 .. n : f[i] = IF i = 0 THEN s ELSE g[i][f[i - 1]]

LEMMA LoopExists ==
    ASSUME NEW X, NEW s \in X, NEW N \in Nat, NEW g \in [1 .. N -> [X -> X]]
    PROVE  \E f \in [0 .. N -> X] : Loops(f, g, s, N)
<1> DEFINE T == {m \in Nat : m <= N => \E f \in [0 .. m -> X] : Loops(f, g, s, m)}
<1>1. 0 \in T
  <2> DEFINE f == [i \in 0 .. 0 |-> s]
  <2>1. f \in [0 .. 0 -> X] /\ Loops(f, g, s, 0)
    BY DEF Loops
  <2> QED
    BY <2>1
<1>2. ASSUME NEW m \in T PROVE m + 1 \in T
  <2>1. m \in Nat /\ m + 1 \in Nat
    OBVIOUS
  <2> SUFFICES ASSUME m + 1 <= N PROVE \E f \in [0 .. m + 1 -> X] : Loops(f, g, s, m + 1)
    BY <2>1
  <2>2. PICK f \in [0 .. m -> X] : Loops(f, g, s, m)
    BY <2>1
  <2> DEFINE h == [i \in 0 .. m + 1 |-> IF i = m + 1 THEN g[m + 1][f[m]] ELSE f[i]]
  <2>3. m + 1 \in 1 .. N /\ m \in 0 .. m /\ g[m + 1] \in [X -> X] /\ f[m] \in X
    BY <2>1
  <2>4. g[m + 1][f[m]] \in X
    BY <2>3
  <2>5. h \in [0 .. m + 1 -> X]
    BY <2>1, <2>4
  <2>6. h[m + 1] = g[m + 1][f[m]] /\ \A i \in 0 .. m : h[i] = f[i]
    BY <2>1
  <2> HIDE DEF h
  <2>7. ASSUME NEW i \in 0 .. m + 1 PROVE h[i] = IF i = 0 THEN s ELSE g[i][h[i - 1]]
    <3>1. CASE i = m + 1
      <4>1. i # 0 /\ i - 1 = m
        BY <2>1, <3>1
      <4> QED
        BY <2>3, <2>6, <3>1, <4>1
    <3>2. CASE i # m + 1
      <4>1. i \in 0 .. m /\ (i # 0 => i - 1 \in 0 .. m)
        BY <2>1, <3>2
      <4>2. f[i] = IF i = 0 THEN s ELSE g[i][f[i - 1]]
        BY <2>2, <4>1 DEF Loops
      <4> QED
        BY <2>6, <4>1, <4>2
    <3> QED
      BY <3>1, <3>2
  <2> QED
    BY <2>5, <2>7 DEF Loops
<1>3. T = Nat
  <2>1. T \in SUBSET Nat
    OBVIOUS
  <2> HIDE DEF T
  <2> QED
    BY <1>1, <1>2, <2>1, AllNumbers, Zenon
<1> QED
  BY <1>3

-----------------------------------------------------------------------------
(* Sums of lengths                                                           *)

\* f adds up w.
Adds(f, w) == \A i \in 0 .. MaxSets : f[i] = IF i = 0 THEN 0 ELSE f[i - 1] + w[i]

LEMMA SumIs ==
    ASSUME NEW w \in [Entries -> Nat]
    PROVE  \E f \in [0 .. MaxSets -> Nat] : Adds(f, w) /\ SumOf(w) = f[MaxSets]
<1> DEFINE g == [i \in 1 .. MaxSets |-> [t \in Nat |-> t + w[i]]]
           Def(f) == f = [n \in 0 .. MaxSets |-> IF n = 0 THEN 0 ELSE f[n - 1] + w[n]]
           sum == CHOOSE f : Def(f)
<1>0. MaxSets \in Nat /\ Entries = 1 .. MaxSets
  BY CacheAssumption DEF Entries
<1>1. g \in [1 .. MaxSets -> [Nat -> Nat]]
  BY <1>0
<1>2. PICK f \in [0 .. MaxSets -> Nat] : Loops(f, g, 0, MaxSets)
  <2>1. 0 \in Nat
    OBVIOUS
  <2> HIDE DEF g
  <2> QED
    BY <1>0, <1>1, <2>1, LoopExists, Zenon
<1>3. \A i \in 0 .. MaxSets : f[i] = IF i = 0 THEN 0 ELSE f[i - 1] + w[i]
  <2> SUFFICES ASSUME NEW i \in 0 .. MaxSets PROVE f[i] = IF i = 0 THEN 0 ELSE f[i - 1] + w[i]
    OBVIOUS
  <2>1. f[i] = IF i = 0 THEN 0 ELSE g[i][f[i - 1]]
    BY <1>2 DEF Loops
  <2>2. CASE i # 0
    <3>1. i \in 1 .. MaxSets /\ i - 1 \in 0 .. MaxSets
      BY <1>0, <2>2
    <3>2. f[i - 1] \in Nat
      BY <3>1
    <3>3. g[i][f[i - 1]] = f[i - 1] + w[i]
      BY <3>1, <3>2
    <3> QED
      BY <2>1, <2>2, <3>3
  <2> QED
    BY <2>1, <2>2
<1>4. Def(f)
  <2>1. f = [i \in 0 .. MaxSets |-> f[i]]
    OBVIOUS
  <2> QED
    BY <1>3, <2>1
<1>5. Def(sum)
  BY <1>4, Zenon
<1>6. SumOf(w) = sum[MaxSets]
  BY Zenon DEF SumOf
<1> HIDE DEF sum
<1>7. Adds(sum, w)
  BY <1>5 DEF Adds
<1>8. \A i \in 0 .. MaxSets : sum[i] \in Nat
  <2> DEFINE T == {m \in Nat : m <= MaxSets => sum[m] \in Nat}
  <2>1. 0 \in T
    BY <1>0, <1>7 DEF Adds
  <2>2. ASSUME NEW m \in T PROVE m + 1 \in T
    <3>1. m \in Nat /\ (m <= MaxSets => sum[m] \in Nat)
      OBVIOUS
    <3>2. ASSUME m + 1 <= MaxSets PROVE sum[m + 1] \in Nat
      <4>1. m + 1 \in 0 .. MaxSets /\ m + 1 # 0 /\ (m + 1) - 1 = m /\ m <= MaxSets /\ m + 1 \in Entries
        BY <1>0, <3>1, <3>2
      <4>2. sum[m + 1] = sum[m] + w[m + 1]
        BY <1>7, <4>1 DEF Adds
      <4> QED
        BY <3>1, <4>1, <4>2
    <3> QED
      BY <3>1, <3>2
  <2>3. T = Nat
    <3>1. T \in SUBSET Nat
      OBVIOUS
    <3> HIDE DEF T
    <3> QED
      BY <2>1, <2>2, <3>1, AllNumbers, Zenon
  <2> SUFFICES ASSUME NEW i \in 0 .. MaxSets PROVE sum[i] \in Nat
    OBVIOUS
  <2>4. i \in T /\ i <= MaxSets
    BY <1>0, <2>3
  <2> QED
    BY <2>4
<1>9. sum \in [0 .. MaxSets -> Nat]
  <2>1. sum = [n \in 0 .. MaxSets |-> IF n = 0 THEN 0 ELSE sum[n - 1] + w[n]]
    BY <1>5, Zenon
  <2>2. sum = [n \in 0 .. MaxSets |-> sum[n]]
    BY <1>7, <2>1 DEF Adds
  <2> QED
    BY <1>8, <2>2
<1> QED
  BY <1>6, <1>7, <1>9

\* A change of one summand.
LEMMA SumChanges ==
    ASSUME NEW w \in [Entries -> Nat], NEW v \in [Entries -> Nat], NEW e \in Entries,
           \A n \in Entries : n # e => v[n] = w[n]
    PROVE  /\ SumOf(v) \in Nat /\ SumOf(w) \in Nat
           /\ SumOf(v) + w[e] = SumOf(w) + v[e] /\ w[e] <= SumOf(w)
<1>0. MaxSets \in Nat /\ Entries = 1 .. MaxSets /\ MaxSets \in 0 .. MaxSets /\ e \in Nat /\ e >= 1 /\ e <= MaxSets
  BY CacheAssumption DEF Entries
<1>1. PICK f \in [0 .. MaxSets -> Nat] : Adds(f, w) /\ SumOf(w) = f[MaxSets]
  BY SumIs
<1>2. PICK g \in [0 .. MaxSets -> Nat] : Adds(g, v) /\ SumOf(v) = g[MaxSets]
  BY SumIs
<1> DEFINE Apart(m) == IF m < e THEN g[m] = f[m] ELSE g[m] + w[e] = f[m] + v[e] /\ w[e] <= f[m]
           T == {m \in Nat : m <= MaxSets => Apart(m)}
<1>3. 0 \in T
  <2>1. f[0] = 0 /\ g[0] = 0 /\ 0 < e
    BY <1>0, <1>1, <1>2 DEF Adds
  <2> QED
    BY <2>1
<1>4. ASSUME NEW m \in T PROVE m + 1 \in T
  <2>1. m \in Nat /\ (m <= MaxSets => Apart(m))
    OBVIOUS
  <2>2. ASSUME m + 1 <= MaxSets PROVE Apart(m + 1)
    <3>1. /\ m + 1 \in 0 .. MaxSets /\ m + 1 # 0 /\ (m + 1) - 1 = m /\ m <= MaxSets /\ m + 1 \in Entries
          /\ m \in 0 .. MaxSets
      BY <1>0, <2>1, <2>2
    <3>2. f[m + 1] = f[m] + w[m + 1] /\ g[m + 1] = g[m] + v[m + 1]
      BY <1>1, <1>2, <3>1 DEF Adds
    <3>3. PICK a \in Nat, z \in Nat, c \in Nat, d \in Nat, x \in Nat, y \in Nat :
            a = f[m] /\ z = g[m] /\ c = w[m + 1] /\ d = v[m + 1] /\ x = w[e] /\ y = v[e]
      BY <3>1
    <3>4. IF m < e THEN z = a ELSE z + x = a + y /\ x <= a
      BY <2>1, <3>1, <3>3
    <3>5. m + 1 = e => c = x /\ d = y
      BY <3>3
    <3>6. m + 1 # e => c = d
      BY <3>1, <3>3
    <3> HIDE DEF Apart
    <3>7. IF m + 1 < e THEN z + d = a + c ELSE z + d + x = a + c + y /\ x <= a + c
      BY <1>0, <2>1, <3>4, <3>5, <3>6
    <3> QED
      BY <3>2, <3>3, <3>7, Zenon DEF Apart
  <2> HIDE DEF Apart
  <2> QED
    BY <2>1, <2>2
<1>5. T = Nat
  <2>1. T \in SUBSET Nat
    OBVIOUS
  <2> HIDE DEF T
  <2> QED
    BY <1>3, <1>4, <2>1, AllNumbers, Zenon
<1>6. Apart(MaxSets)
  <2> HIDE DEF Apart
  <2>1. MaxSets \in T
    BY <1>0, <1>5
  <2> QED
    BY <1>0, <2>1
<1>7. ~(MaxSets < e)
  BY <1>0
<1> QED
  BY <1>0, <1>1, <1>2, <1>6, <1>7

-----------------------------------------------------------------------------
(* The list of a shard                                                       *)

Distinct(l) == \A i, j \in 1 .. Len(l) : l[i] = l[j] => i = j

LEMMA Removed ==
    ASSUME NEW S, NEW s \in Seq(S), NEW i \in 1 .. Len(s)
    PROVE  /\ RemoveAt(s, i) \in Seq(S) /\ Len(RemoveAt(s, i)) = Len(s) - 1
           /\ \A j \in 1 .. Len(s) - 1 : RemoveAt(s, i)[j] = IF j < i THEN s[j] ELSE s[j + 1]
<1> DEFINE front == SubSeq(s, 1, i - 1)
           back == SubSeq(s, i + 1, Len(s))
<1>1. Len(s) \in Nat
  BY LenProperties
<1>2. /\ front \in Seq(S) /\ Len(front) = i - 1 /\ \A j \in 1 .. i - 1 : front[j] = s[j]
  BY <1>1, SubSeqProperties
<1>3. /\ back \in Seq(S) /\ Len(back) = Len(s) - i /\ \A j \in 1 .. Len(s) - i : back[j] = s[i + j]
  BY <1>1, SubSeqProperties
<1>4. RemoveAt(s, i) = front \o back
  BY DEF RemoveAt
<1> HIDE DEF front, back
<1>5. /\ front \o back \in Seq(S) /\ Len(front \o back) = Len(front) + Len(back)
      /\ \A j \in 1 .. Len(front) + Len(back) : (front \o back)[j] = IF j <= Len(front) THEN front[j] ELSE back[j - Len(front)]
  BY <1>2, <1>3, ConcatProperties
<1>6. ASSUME NEW j \in 1 .. Len(s) - 1 PROVE (front \o back)[j] = IF j < i THEN s[j] ELSE s[j + 1]
  <2>1. CASE j < i
    BY <1>1, <1>2, <1>3, <1>5, <2>1
  <2>2. CASE ~(j < i)
    <3>1. (front \o back)[j] = back[j - (i - 1)]
      BY <1>1, <1>2, <1>3, <1>5, <2>2
    <3>2. j - (i - 1) \in 1 .. Len(s) - i /\ i + (j - (i - 1)) = j + 1
      BY <1>1, <2>2
    <3> QED
      BY <1>3, <2>2, <3>1, <3>2
  <2> QED
    BY <2>1, <2>2
<1> QED
  BY <1>1, <1>2, <1>3, <1>4, <1>5, <1>6

LEMMA SetOf ==
    ASSUME NEW l \in Seq(Entries)
    PROVE  ToSet(l) = {l[i] : i \in 1 .. Len(l)} /\ ToSet(l) \subseteq Entries
  BY LenProperties, ElementOfSeq DEF ToSet

\* r is l without e.
Without(r, l, e) ==
    /\ r \in Seq(Entries) /\ Distinct(r) /\ Len(r) = Len(l) - 1 /\ Len(l) >= 1
    /\ ToSet(r) = ToSet(l) \ {e}

LEMMA EntryTaken ==
    ASSUME NEW l \in Seq(Entries), Distinct(l), NEW e \in ToSet(l)
    PROVE  Without(RemoveAt(l, Place(l, e)), l, e)
<1> DEFINE p == Place(l, e)
           r == RemoveAt(l, p)
<1>0. Len(l) \in Nat /\ DOMAIN l = 1 .. Len(l)
  BY LenProperties
<1>1. p \in 1 .. Len(l) /\ l[p] = e
  <2>1. \E i \in DOMAIN l : l[i] = e
    BY <1>0, SetOf
  <2>2. p \in DOMAIN l /\ l[p] = e
    BY <2>1, Zenon DEF Place
  <2> QED
    BY <1>0, <2>2
<1> HIDE DEF p
<1>2. /\ r \in Seq(Entries) /\ Len(r) = Len(l) - 1
      /\ \A j \in 1 .. Len(l) - 1 : r[j] = IF j < p THEN l[j] ELSE l[j + 1]
  BY <1>1, Removed
<1> HIDE DEF r
<1>3. Distinct(r)
  <2> SUFFICES ASSUME NEW i \in 1 .. Len(r), NEW j \in 1 .. Len(r), r[i] = r[j] PROVE i = j
    BY DEF Distinct
  <2> DEFINE old(x) == IF x < p THEN x ELSE x + 1
  <2>1. old(i) \in 1 .. Len(l) /\ old(j) \in 1 .. Len(l) /\ r[i] = l[old(i)] /\ r[j] = l[old(j)]
    BY <1>0, <1>1, <1>2
  <2>2. old(i) = old(j)
    BY <2>1 DEF Distinct
  <2> QED
    BY <1>0, <1>1, <1>2, <2>2
<1>4. ToSet(r) = ToSet(l) \ {e}
  <2>1. ASSUME NEW x \in ToSet(r) PROVE x \in ToSet(l) /\ x # e
    <3>1. PICK i \in 1 .. Len(r) : x = r[i]
      BY <1>2, SetOf
    <3> DEFINE o == IF i < p THEN i ELSE i + 1
    <3>2. o \in 1 .. Len(l) /\ o # p /\ x = l[o]
      BY <1>0, <1>1, <1>2, <3>1
    <3> QED
      BY <1>1, <3>2, SetOf DEF Distinct
  <2>2. ASSUME NEW x \in ToSet(l), x # e PROVE x \in ToSet(r)
    <3>1. PICK i \in 1 .. Len(l) : x = l[i]
      BY SetOf
    <3>2. i # p
      BY <1>1, <2>2, <3>1
    <3> DEFINE n == IF i < p THEN i ELSE i - 1
    <3>3. n \in 1 .. Len(r) /\ r[n] = x
      BY <1>0, <1>1, <1>2, <3>1, <3>2
    <3> QED
      BY <1>2, <3>3, SetOf
  <2> QED
    BY <2>1, <2>2
<1> QED
  BY <1>0, <1>1, <1>2, <1>3, <1>4 DEF Without, p, r

LEMMA Pushed ==
    ASSUME NEW r \in Seq(Entries), Distinct(r), NEW e \in Entries, e \notin ToSet(r)
    PROVE  /\ <<e>> \o r \in Seq(Entries) /\ Distinct(<<e>> \o r) /\ Len(<<e>> \o r) = Len(r) + 1
           /\ ToSet(<<e>> \o r) = ToSet(r) \cup {e}
<1> DEFINE l == <<e>> \o r
<1>0. Len(r) \in Nat
  BY LenProperties
<1>1. <<e>> \in Seq(Entries) /\ Len(<<e>>) = 1 /\ <<e>>[1] = e
  OBVIOUS
<1>2. /\ l \in Seq(Entries) /\ Len(l) = Len(r) + 1
      /\ \A i \in 1 .. Len(r) + 1 : l[i] = IF i = 1 THEN e ELSE r[i - 1]
  <2>1. /\ l \in Seq(Entries) /\ Len(l) = 1 + Len(r)
        /\ \A i \in 1 .. 1 + Len(r) : l[i] = IF i <= 1 THEN <<e>>[i] ELSE r[i - 1]
    BY <1>1, ConcatProperties
  <2> HIDE DEF l
  <2> QED
    BY <1>0, <1>1, <2>1
<1> HIDE DEF l
<1>3. \A i \in 1 .. Len(r) : r[i] # e
  BY SetOf
<1>4. Distinct(l)
  <2> SUFFICES ASSUME NEW i \in 1 .. Len(l), NEW j \in 1 .. Len(l), l[i] = l[j] PROVE i = j
    BY DEF Distinct
  <2>1. /\ l[i] = IF i = 1 THEN e ELSE r[i - 1]
        /\ l[j] = IF j = 1 THEN e ELSE r[j - 1]
        /\ i # 1 => i - 1 \in 1 .. Len(r)
        /\ j # 1 => j - 1 \in 1 .. Len(r)
    BY <1>0, <1>2
  <2>2. i # 1 => l[i] # e
    BY <1>3, <2>1
  <2>3. j # 1 => l[j] # e
    BY <1>3, <2>1
  <2>4. CASE i # 1 /\ j # 1
    <3>1. i - 1 = j - 1
      BY <2>1, <2>4 DEF Distinct
    <3> QED
      BY <1>0, <3>1
  <2> QED
    BY <2>1, <2>2, <2>3, <2>4
<1>5. ToSet(l) = ToSet(r) \cup {e}
  <2>1. ASSUME NEW x \in ToSet(l) PROVE x \in ToSet(r) \cup {e}
    <3>1. PICK i \in 1 .. Len(l) : x = l[i]
      BY <1>2, SetOf
    <3>2. CASE i = 1
      BY <1>0, <1>2, <3>1, <3>2
    <3>3. CASE i # 1
      <4>1. i - 1 \in 1 .. Len(r) /\ x = r[i - 1]
        BY <1>0, <1>2, <3>1, <3>3
      <4> QED
        BY <4>1, SetOf
    <3> QED
      BY <3>2, <3>3
  <2>2. e \in ToSet(l)
    <3>1. 1 \in 1 .. Len(l) /\ l[1] = e
      BY <1>0, <1>2
    <3> QED
      BY <1>2, <3>1, SetOf
  <2>3. ASSUME NEW x \in ToSet(r) PROVE x \in ToSet(l)
    <3>1. PICK i \in 1 .. Len(r) : x = r[i]
      BY SetOf
    <3>2. i + 1 \in 1 .. Len(l) /\ l[i + 1] = x
      BY <1>0, <1>2, <3>1
    <3> QED
      BY <1>2, <3>2, SetOf
  <2> QED
    BY <2>1, <2>2, <2>3
<1> QED
  BY <1>2, <1>4, <1>5 DEF l

-----------------------------------------------------------------------------
(* Operations on a shard                                                     *)

\* The length that each entry brings to a shard that holds those of l.
Weights(l, en) == [e \in Entries |-> IF e \in ToSet(l) THEN en[e].len ELSE 0]

\* The books of a shard s agree with its list.
Books(s, en) ==
    /\ s \in [list : Seq(Entries), count : Nat, bytes : Nat]
    /\ Distinct(s.list) /\ s.count = Len(s.list)
    /\ s.bytes = SumOf(Weights(s.list, en))

LEMMA UnlinkIs ==
    ASSUME NEW s \in [list : Seq(Entries), count : Nat, bytes : Nat], NEW e
    PROVE  Unlink(s, e) = [list  |-> RemoveAt(s.list, Place(s.list, e)),
                           count |-> s.count - 1, bytes |-> Less(s.bytes, entry[e].len)]
<1> DEFINE l == RemoveAt(s.list, Place(s.list, e))
<1>1. lru_remove(s, e) = [s EXCEPT !.list = l]
  BY DEF lru_remove
<1> HIDE DEF l
<1>2. lru_remove(s, e).list = l
  BY <1>1
<1> QED
  BY <1>2 DEF Unlink, l

LEMMA PushIs ==
    ASSUME NEW s \in [list : Seq(Entries), count : Nat, bytes : Nat], NEW e
    PROVE  lru_push_head(s, e) = [list |-> <<e>> \o s.list, count |-> s.count, bytes |-> s.bytes]
<1> DEFINE l == <<e>> \o s.list
<1>1. lru_push_head(s, e) = [s EXCEPT !.list = l]
  BY DEF lru_push_head
<1> HIDE DEF l
<1>2. [s EXCEPT !.list = l] = [list |-> l, count |-> s.count, bytes |-> s.bytes]
  OBVIOUS
<1> QED
  BY <1>1, <1>2 DEF l

\* t is the shard s without e.
Emptied(t, s, e) ==
    Books(t, entry) /\ ToSet(t.list) = ToSet(s.list) \ {e} /\ Len(t.list) = Len(s.list) - 1 /\ Len(s.list) >= 1

LEMMA UnlinkLeaves ==
    ASSUME \A x \in Entries : entry[x].len \in Nat,
           NEW s, Books(s, entry), NEW e \in ToSet(s.list)
    PROVE  Emptied(Unlink(s, e), s, e) /\ entry[e].len <= s.bytes
<1> DEFINE r == RemoveAt(s.list, Place(s.list, e))
           w == Weights(s.list, entry)
           v == Weights(r, entry)
<1>1. s \in [list : Seq(Entries), count : Nat, bytes : Nat] /\ s.list \in Seq(Entries) /\ Distinct(s.list)
  BY DEF Books
<1>2. Without(r, s.list, e)
  BY <1>1, EntryTaken, Zenon
<1>3. e \in Entries /\ Len(s.list) \in Nat
  BY <1>1, SetOf, LenProperties
<1> HIDE DEF r
<1>4. w \in [Entries -> Nat] /\ v \in [Entries -> Nat] /\ w[e] = entry[e].len /\ v[e] = 0
      /\ \A x \in Entries : x # e => v[x] = w[x]
  BY <1>2, <1>3 DEF Weights, Without
<1> HIDE DEF w, v
<1>5. SumOf(v) \in Nat /\ SumOf(w) \in Nat /\ SumOf(v) + w[e] = SumOf(w) + v[e] /\ w[e] <= SumOf(w)
  BY <1>3, <1>4, SumChanges
<1>6. Less(s.bytes, entry[e].len) = SumOf(v)
  <2>1. s.bytes = SumOf(w)
    BY DEF Books, w
  <2> QED
    BY <1>3, <1>4, <1>5, <2>1 DEF Less
<1> DEFINE t == [list |-> r, count |-> s.count - 1, bytes |-> SumOf(v)]
<1>7. Unlink(s, e) = t
  BY <1>1, <1>6, UnlinkIs DEF r
<1>8. s.count = Len(s.list)
  BY DEF Books
<1>9. Books(t, entry)
  BY <1>2, <1>3, <1>5, <1>8 DEF Books, Without, v
<1>10. entry[e].len <= s.bytes
  <2>1. s.bytes = SumOf(w)
    BY DEF Books, w
  <2> QED
    BY <1>4, <1>5, <2>1
<1> QED
  BY <1>2, <1>7, <1>9, <1>10 DEF Emptied, Without

\* From en to fn at most the length of e changes.
LengthOf(en, fn, e) ==
    /\ \A x \in Entries : en[x].len \in Nat /\ fn[x].len \in Nat
    /\ \A x \in Entries : x # e => fn[x].len = en[x].len

\* The shard s with e in front and n more bytes.
WithFront(s, e, n) == [list |-> <<e>> \o s.list, count |-> s.count + 1, bytes |-> s.bytes + n]

LEMMA PushJoins ==
    ASSUME NEW en, NEW fn, NEW s, NEW e \in Entries,
           LengthOf(en, fn, e), Books(s, en), e \notin ToSet(s.list)
    PROVE  Books(WithFront(s, e, fn[e].len), fn) /\ ToSet(WithFront(s, e, fn[e].len).list) = ToSet(s.list) \cup {e}
<1> DEFINE l == <<e>> \o s.list
           w == Weights(s.list, en)
           v == Weights(l, fn)
<1>1. s \in [list : Seq(Entries), count : Nat, bytes : Nat] /\ s.list \in Seq(Entries) /\ Distinct(s.list)
      /\ s.count = Len(s.list) /\ s.bytes = SumOf(w)
  BY DEF Books
<1>2. /\ l \in Seq(Entries) /\ Distinct(l) /\ Len(l) = Len(s.list) + 1
      /\ ToSet(l) = ToSet(s.list) \cup {e}
  BY <1>1, Pushed
<1> HIDE DEF l
<1>4. w \in [Entries -> Nat] /\ v \in [Entries -> Nat] /\ w[e] = 0 /\ v[e] = fn[e].len
      /\ \A x \in Entries : x # e => v[x] = w[x]
  BY <1>2 DEF Weights, LengthOf
<1> HIDE DEF w, v
<1>5. SumOf(v) \in Nat /\ SumOf(w) \in Nat /\ SumOf(v) + w[e] = SumOf(w) + v[e]
  BY <1>4, SumChanges
<1>6. s.bytes + fn[e].len = SumOf(v)
  BY <1>1, <1>4, <1>5
<1> DEFINE t == [list |-> l, count |-> s.count + 1, bytes |-> SumOf(v)]
<1>7. WithFront(s, e, fn[e].len) = t
  BY <1>6 DEF l, WithFront
<1>8. Len(s.list) \in Nat
  BY <1>1, LenProperties
<1>9. Books(t, fn)
  BY <1>1, <1>2, <1>5, <1>8 DEF Books, v
<1>10. t.list = l
  OBVIOUS
<1> HIDE DEF t
<1> QED
  BY <1>2, <1>7, <1>9, <1>10

\* The shard s after e moved to the front and got n bytes.
Fronted(s, e, n) ==
    [list |-> <<e>> \o RemoveAt(s.list, Place(s.list, e)), count |-> s.count,
     bytes |-> Less(s.bytes, entry[e].len) + n]

LEMMA MovesToFront ==
    ASSUME NEW fn, NEW s, Books(s, entry), NEW e \in ToSet(s.list), LengthOf(entry, fn, e)
    PROVE  Books(Fronted(s, e, fn[e].len), fn) /\ ToSet(Fronted(s, e, fn[e].len).list) = ToSet(s.list)
<1> DEFINE u == Unlink(s, e)
<1>1. s \in [list : Seq(Entries), count : Nat, bytes : Nat] /\ e \in Entries
  BY SetOf DEF Books
<1>2. u = [list  |-> RemoveAt(s.list, Place(s.list, e)),
           count |-> s.count - 1, bytes |-> Less(s.bytes, entry[e].len)]
  BY <1>1, UnlinkIs
<1>3. Emptied(u, s, e)
  BY UnlinkLeaves DEF LengthOf
<1> HIDE DEF u
<1>4. Books(u, entry) /\ e \notin ToSet(u.list) /\ ToSet(s.list) = ToSet(u.list) \cup {e}
  BY <1>3 DEF Emptied
<1>5. Fronted(s, e, fn[e].len) = WithFront(u, e, fn[e].len)
  <2>1. (s.count - 1) + 1 = s.count
    BY <1>1
  <2> QED
    BY <1>2, <2>1 DEF Fronted, WithFront
<1>6. Books(WithFront(u, e, fn[e].len), fn) /\ ToSet(WithFront(u, e, fn[e].len).list) = ToSet(u.list) \cup {e}
  BY <1>1, <1>4, PushJoins, SMT
<1> QED
  BY <1>4, <1>5, <1>6

LEMMA TailGoes ==
    ASSUME \A x \in Entries : entry[x].len \in Nat,
           NEW s, Books(s, entry), NEW len \in Nat, TooFull(s, len)
    PROVE  \E e \in ToSet(s.list) : Emptied(evict_one_lru_locked(s), s, e)
<1>1. s.list \in Seq(Entries) /\ s.count = Len(s.list) /\ Len(s.list) \in Nat
  BY LenProperties DEF Books
<1>2. Len(s.list) > 0
  BY <1>1, CacheAssumption DEF TooFull
<1>3. Last(s.list) \in ToSet(s.list)
  BY <1>1, <1>2, SetOf DEF Last
<1> QED
  BY <1>3, UnlinkLeaves DEF evict_one_lru_locked

\* The shards that evictions lead to.
Smaller(s) ==
    {t \in [list : Seq(Entries), count : Nat, bytes : Nat] : Books(t, entry) /\ ToSet(t.list) \subseteq ToSet(s.list)}

LEMMA RoomIsMade ==
    ASSUME \A x \in Entries : entry[x].len \in Nat,
           NEW s, Books(s, entry), NEW len \in Nat
    PROVE  MadeRoom(s, len) \in Smaller(s) /\ MadeRoom(s, len).count < MaxCount
<1> DEFINE N == Len(s.list)
           T == Smaller(s)
           round == [t \in T |-> IF TooFull(t, len) THEN evict_one_lru_locked(t) ELSE t]
           g == [i \in 1 .. N |-> round]
           Def(f) == f = [n \in 0 .. N |->
                            IF n = 0 THEN s
                            ELSE IF TooFull(f[n - 1], len) THEN evict_one_lru_locked(f[n - 1]) ELSE f[n - 1]]
           evicted == CHOOSE f : Def(f)
<1>0. N \in Nat /\ s \in T /\ s.count = N
  BY LenProperties DEF Books, Smaller
<1>1. ASSUME NEW t \in T, TooFull(t, len)
      PROVE  evict_one_lru_locked(t) \in T /\ evict_one_lru_locked(t).count = t.count - 1
  <2>1. Books(t, entry) /\ ToSet(t.list) \subseteq ToSet(s.list)
    BY DEF Smaller
  <2>2. PICK e \in ToSet(t.list) : Emptied(evict_one_lru_locked(t), t, e)
    BY <1>1, <2>1, TailGoes
  <2> QED
    BY <2>1, <2>2 DEF Emptied, Books, Smaller
<1>2. round \in [T -> T]
  BY <1>1
<1>3. PICK f \in [0 .. N -> T] : Loops(f, g, s, N)
  <2>1. g \in [1 .. N -> [T -> T]]
    BY <1>2
  <2> HIDE DEF g, T, N
  <2> QED
    BY <1>0, <2>1, LoopExists, Zenon
<1>4. Def(f)
  <2>1. ASSUME NEW i \in 0 .. N
        PROVE  f[i] = IF i = 0 THEN s
                      ELSE IF TooFull(f[i - 1], len) THEN evict_one_lru_locked(f[i - 1]) ELSE f[i - 1]
    <3>1. f[i] = IF i = 0 THEN s ELSE g[i][f[i - 1]]
      BY <1>3 DEF Loops
    <3>2. CASE i # 0
      <4>1. i \in 1 .. N /\ i - 1 \in 0 .. N
        BY <1>0, <3>2
      <4>2. f[i - 1] \in T
        BY <4>1
      <4>3. g[i][f[i - 1]] = IF TooFull(f[i - 1], len) THEN evict_one_lru_locked(f[i - 1]) ELSE f[i - 1]
        BY <4>1, <4>2
      <4> QED
        BY <3>1, <3>2, <4>3
    <3> QED
      BY <3>1, <3>2
  <2> HIDE DEF T, N
  <2>2. f = [i \in 0 .. N |-> f[i]]
    OBVIOUS
  <2> QED
    BY <2>1, <2>2
<1>5. Def(evicted)
  BY <1>4, Zenon
<1>6. MadeRoom(s, len) = evicted[N]
  BY Zenon DEF MadeRoom
<1>7. \A n \in 0 .. N : evicted[n] = IF n = 0 THEN s
                                     ELSE IF TooFull(evicted[n - 1], len)
                                          THEN evict_one_lru_locked(evicted[n - 1]) ELSE evicted[n - 1]
  <2> HIDE DEF evicted
  <2> QED
    BY <1>5
<1> HIDE DEF evicted, Def
<1> DEFINE Good(t, n) == t \in T /\ (t.count <= N - n \/ ~TooFull(t, len))
           M == {n \in Nat : n <= N => Good(evicted[n], n)}
<1>8. 0 \in M
  BY <1>0, <1>7
<1>9. ASSUME NEW n \in M PROVE n + 1 \in M
  <2>1. n \in Nat /\ (n <= N => Good(evicted[n], n))
    OBVIOUS
  <2>2. ASSUME n + 1 <= N PROVE Good(evicted[n + 1], n + 1)
    <3> HIDE DEF N, T
    <3>1. n + 1 \in 0 .. N /\ n + 1 # 0 /\ (n + 1) - 1 = n /\ n <= N
      BY <1>0, <2>1, <2>2
    <3>2. Good(evicted[n], n)
      BY <2>1, <3>1
    <3>3. evicted[n + 1] = IF TooFull(evicted[n], len) THEN evict_one_lru_locked(evicted[n]) ELSE evicted[n]
      BY <1>7, <3>1
    <3>4. CASE TooFull(evicted[n], len)
      <4>1. evicted[n] \in T /\ evicted[n].count <= N - n
        BY <3>2, <3>4
      <4>2. evicted[n + 1] \in T /\ evicted[n + 1].count = evicted[n].count - 1
        BY <1>1, <3>3, <3>4, <4>1
      <4>3. evicted[n].count \in Nat
        BY <4>1 DEF T, Smaller
      <4> QED
        BY <1>0, <2>1, <4>1, <4>2, <4>3
    <3> QED
      BY <3>2, <3>3, <3>4
  <2> HIDE DEF Good
  <2> QED
    BY <2>1, <2>2
<1>10. M = Nat
  <2>1. M \in SUBSET Nat
    OBVIOUS
  <2> HIDE DEF M
  <2> QED
    BY <1>8, <1>9, <2>1, AllNumbers, Zenon
<1>11. Good(evicted[N], N)
  <2> HIDE DEF Good
  <2>1. N \in M /\ N <= N
    BY <1>0, <1>10
  <2> QED
    BY <2>1
<1>12. evicted[N].count \in Nat
  BY <1>11 DEF Smaller
<1>13. evicted[N].count < MaxCount
  BY <1>0, <1>11, <1>12, CacheAssumption DEF TooFull
<1> QED
  BY <1>6, <1>11, <1>13

LEMMA PurgeTakes ==
    ASSUME \A x \in Entries : entry[x].len \in Nat,
           NEW s, Books(s, entry), NEW es
    PROVE  Books(Purged(s, es), entry) /\ ToSet(Purged(s, es).list) = ToSet(s.list) \ es
           /\ Purged(s, es).count <= s.count
<1> DEFINE N == Len(s.list)
           l == s.list
           T == Smaller(s)
           g == [i \in 1 .. N |-> [t \in T |-> IF l[i] \in es /\ l[i] \in ToSet(t.list) THEN Unlink(t, l[i]) ELSE t]]
           Def(f) == f = [n \in 0 .. N |->
                            IF n = 0 THEN s ELSE IF s.list[n] \in es THEN Unlink(f[n - 1], s.list[n]) ELSE f[n - 1]]
           purged == CHOOSE f : Def(f)
           gone(n) == {l[i] : i \in 1 .. n} \cap es
<1>0. N \in Nat /\ s \in T /\ s.count = N /\ l \in Seq(Entries) /\ Distinct(l) /\ ToSet(l) = {l[i] : i \in 1 .. N}
  BY LenProperties, SetOf DEF Books, Smaller
<1>1. ASSUME NEW t \in T, NEW e \in ToSet(t.list)
      PROVE  Unlink(t, e) \in T /\ ToSet(Unlink(t, e).list) = ToSet(t.list) \ {e} /\ Unlink(t, e).count <= t.count
  <2>1. Books(t, entry) /\ ToSet(t.list) \subseteq ToSet(s.list) /\ t.count \in Nat
    BY DEF Smaller
  <2>2. Emptied(Unlink(t, e), t, e)
    BY <2>1, UnlinkLeaves
  <2> HIDE DEF l
  <2> QED
    BY <2>1, <2>2 DEF Emptied, Books, Smaller
<1>2. g \in [1 .. N -> [T -> T]]
  BY <1>1
<1>3. PICK f \in [0 .. N -> T] : Loops(f, g, s, N)
  <2> HIDE DEF g, T, N
  <2> QED
    BY <1>0, <1>2, LoopExists, Zenon
<1>4. ASSUME NEW i \in 1 .. N
      PROVE  f[i - 1] \in T /\ f[i] = IF l[i] \in es /\ l[i] \in ToSet(f[i - 1].list) THEN Unlink(f[i - 1], l[i]) ELSE f[i - 1]
  <2>1. i \in 0 .. N /\ i - 1 \in 0 .. N /\ i # 0
    BY <1>0
  <2>2. f[i] = g[i][f[i - 1]]
    BY <1>3, <2>1 DEF Loops
  <2>3. f[i - 1] \in T
    BY <2>1
  <2> HIDE DEF T, l, N
  <2> QED
    BY <2>2, <2>3
<1>5. f[0] = s
  <2>1. 0 \in 0 .. N
    BY <1>0
  <2> HIDE DEF g, T, l, N
  <2> QED
    BY <1>3, <2>1 DEF Loops
<1> DEFINE Rest(t, n) == ToSet(t.list) = ToSet(l) \ gone(n) /\ t.count <= N
           M == {n \in Nat : n <= N => Rest(f[n], n)}
<1>6. 0 \in M
  <2>1. gone(0) = {} /\ N <= N
    BY <1>0
  <2> QED
    BY <1>0, <1>5, <2>1
\* The n-th entry of the list is still there.
<1>7. ASSUME NEW n \in Nat, n + 1 <= N, Rest(f[n], n)
      PROVE  /\ l[n + 1] \in ToSet(f[n].list) /\ f[n] \in T /\ Rest(f[n + 1], n + 1)
             /\ f[n + 1] = IF l[n + 1] \in es THEN Unlink(f[n], l[n + 1]) ELSE f[n]
  <2> DEFINE m == n + 1
  <2>1. m \in 1 .. N /\ m - 1 = n
    BY <1>0, <1>7
  <2>2. f[n] \in T /\ f[m] = IF l[m] \in es /\ l[m] \in ToSet(f[n].list) THEN Unlink(f[n], l[m]) ELSE f[n]
    BY <1>4, <2>1
  <2>3. l[m] \in ToSet(l) /\ l[m] \notin gone(n)
    BY <1>0, <2>1 DEF Distinct
  <2>4. gone(m) = gone(n) \cup ({l[m]} \cap es)
    <3>1. 1 .. m = (1 .. n) \cup {m}
      BY <2>1
    <3> HIDE DEF m, l
    <3> QED
      BY <3>1
  <2> HIDE DEF m, gone, l, T, N
  <2>5. l[m] \in ToSet(f[n].list)
    BY <1>7, <2>3
  <2>6. f[m] = IF l[m] \in es THEN Unlink(f[n], l[m]) ELSE f[n]
    BY <2>2, <2>5
  <2>7. Rest(f[m], m)
    <3>1. CASE l[m] \in es
      <4>1. ToSet(f[m].list) = ToSet(f[n].list) \ {l[m]} /\ f[m].count <= f[n].count
        BY <1>1, <2>2, <2>5, <2>6, <3>1
      <4>2. f[m].count \in Nat /\ f[n].count \in Nat
        BY <1>1, <2>2, <2>5, <2>6, <3>1 DEF T, Smaller
      <4>3. f[m].count <= N
        BY <1>0, <1>7, <4>1, <4>2
      <4> QED
        BY <1>7, <2>4, <3>1, <4>1, <4>3
    <3>2. CASE l[m] \notin es
      BY <1>7, <2>4, <2>6, <3>2
    <3> QED
      BY <3>1, <3>2
  <2> QED
    BY <2>2, <2>5, <2>6, <2>7 DEF m
<1>8. ASSUME NEW n \in M PROVE n + 1 \in M
  <2>1. n \in Nat /\ (n <= N => Rest(f[n], n))
    OBVIOUS
  <2>2. n + 1 <= N => Rest(f[n + 1], n + 1)
    <3> HIDE DEF Rest, N
    <3>1. n + 1 <= N => n <= N
      BY <1>0, <2>1
    <3> QED
      BY <1>7, <2>1, <3>1
  <2> HIDE DEF Rest
  <2> QED
    BY <2>1, <2>2
<1>9. M = Nat
  <2>1. M \in SUBSET Nat
    OBVIOUS
  <2> HIDE DEF M
  <2> QED
    BY <1>6, <1>8, <2>1, AllNumbers, Zenon
<1>10. \A n \in 0 .. N : Rest(f[n], n)
  <2> HIDE DEF Rest
  <2> QED
    BY <1>0, <1>9
<1>11. Def(f)
  <2>1. ASSUME NEW i \in 0 .. N
        PROVE  f[i] = IF i = 0 THEN s ELSE IF l[i] \in es THEN Unlink(f[i - 1], l[i]) ELSE f[i - 1]
    <3>1. CASE i # 0
      <4> DEFINE n == i - 1
      <4>1. n \in Nat /\ n + 1 <= N /\ n + 1 = i /\ n \in 0 .. N
        BY <1>0, <3>1
      <4>2. Rest(f[n], n)
        BY <1>10, <4>1
      <4> HIDE DEF n, Rest, l, N
      <4>3. f[n + 1] = IF l[n + 1] \in es THEN Unlink(f[n], l[n + 1]) ELSE f[n]
        BY <1>7, <4>1, <4>2
      <4> QED
        BY <3>1, <4>1, <4>3 DEF n
    <3> QED
      BY <1>5, <3>1
  <2> HIDE DEF T, N
  <2>2. f = [i \in 0 .. N |-> f[i]]
    OBVIOUS
  <2> QED
    BY <2>1, <2>2
<1>12. Def(purged)
  BY <1>11, Zenon
<1>13. Purged(s, es) = purged[N]
  BY Zenon DEF Purged
<1>14. \A n \in 0 .. N : purged[n] = IF n = 0 THEN s
                                     ELSE IF l[n] \in es THEN Unlink(purged[n - 1], l[n]) ELSE purged[n - 1]
  <2> HIDE DEF purged
  <2> QED
    BY <1>12
<1>15. \A n \in 0 .. N : f[n] = IF n = 0 THEN s ELSE IF l[n] \in es THEN Unlink(f[n - 1], l[n]) ELSE f[n - 1]
  BY <1>11
<1> HIDE DEF purged, Def, l, N
<1>16. \A n \in 0 .. N : purged[n] = f[n]
  <2> DEFINE K == {n \in Nat : n <= N => purged[n] = f[n]}
  <2>1. 0 \in K
    <3>1. 0 \in 0 .. N
      BY <1>0
    <3>2. purged[0] = s
      BY <1>14, <3>1, Zenon
    <3>3. f[0] = s
      BY <1>15, <3>1, Zenon
    <3> QED
      BY <3>2, <3>3
  <2>2. ASSUME NEW n \in K PROVE n + 1 \in K
    <3>1. n \in Nat /\ (n <= N => purged[n] = f[n])
      OBVIOUS
    <3>2. ASSUME n + 1 <= N PROVE purged[n + 1] = f[n + 1]
      <4>1. n + 1 \in 0 .. N /\ n + 1 # 0 /\ (n + 1) - 1 = n /\ n <= N
        BY <1>0, <3>1, <3>2
      <4> QED
        BY <1>14, <1>15, <3>1, <4>1
    <3> QED
      BY <3>1, <3>2
  <2>3. K = Nat
    <3>1. K \in SUBSET Nat
      OBVIOUS
    <3> HIDE DEF K
    <3> QED
      BY <2>1, <2>2, <3>1, AllNumbers, Zenon
  <2> QED
    BY <1>0, <2>3
<1>17. N \in 0 .. N
  BY <1>0
<1>18. Purged(s, es) = f[N] /\ f[N] \in T /\ Rest(f[N], N)
  <2> HIDE DEF Rest, T
  <2> QED
    BY <1>10, <1>13, <1>16, <1>17
<1>19. ToSet(l) \ gone(N) = ToSet(l) \ es
  BY <1>0
<1>20. Purged(s, es) \in T /\ ToSet(Purged(s, es).list) = ToSet(l) \ es /\ Purged(s, es).count <= N
  BY <1>18, <1>19
<1> QED
  BY <1>0, <1>20 DEF Smaller, l

-----------------------------------------------------------------------------
(* The inductive invariant                                                   *)

EntryType == [st : {"none", "used", "freed"}, key : CacheKeys \cup {""}, body : Nat, len : Nat,
              status : {0, 200}, refs : Nat, stale : BOOLEAN]
ReaderType == [pc : {"idle", "holds", "writes", "last"}, e : Nat, body : Nat]

Listed == ToSet(shard.list)

\* The readers that have e, and those that counted down to none and have not looked for the mark.
Holds(e) == {r \in Readers : reader[r].pc \in {"holds", "writes"} /\ reader[r].e = e}
Leaves(e) == {r \in Readers : reader[r].pc = "last" /\ reader[r].e = e}

CacheTypes ==
    /\ shard \in [list : Seq(Entries), count : Nat, bytes : Nat]
    /\ entry \in [Entries -> EntryType]
    /\ marking \in SUBSET Entries /\ raced \in SUBSET Entries
    /\ reader \in [Readers -> ReaderType]
    /\ sets \in 0 .. MaxSets

\* Numbers are taken in turn, and no two entries share a body.
EntriesMade ==
    /\ \A r \in Readers : reader[r].pc # "idle" => reader[r].e \in Entries /\ entry[reader[r].e].st # "none"
    /\ \A e \in Entries : entry[e].st = "none" => entry[e] = NoEntry /\ e \notin Listed /\ e \notin marking /\ e \notin raced
    /\ \A e \in Entries : entry[e].st # "none" => e <= sets /\ entry[e].body \in 1 .. sets
    /\ \A e, f \in Entries : entry[e].st # "none" /\ entry[f].st # "none" /\ entry[e].body = entry[f].body => e = f

ListedAlive ==
    /\ \A e \in Listed : entry[e].st = "used" /\ entry[e].status = 200 /\ entry[e].body \in bodies
                         /\ e \notin marking /\ e \notin raced
    /\ \A e, f \in Listed : entry[e].key = entry[f].key => e = f

BooksRight == Books(shard, entry) /\ shard.count <= MaxCount

RefsCount == \A e \in Entries : entry[e].refs = Cardinality(Holds(e))

\* What became of an entry that left the shard: it was in use and waits for its mark, or it was
\* freed, or it is marked and one reader is still to find the mark.
Departs(e) ==
    IF e \in marking THEN entry[e].st = "used" /\ entry[e].refs > 0 /\ Leaves(e) = {}
    ELSE IF entry[e].st = "freed" THEN entry[e].refs = 0 /\ Leaves(e) = {}
    ELSE /\ entry[e].status = Tombstone
         /\ \/ entry[e].refs > 0 /\ Leaves(e) = {}
            \/ entry[e].refs = 0 /\ \E r \in Readers : Leaves(e) = {r}

DepartOnce == \A e \in Entries : e \notin raced /\ e \notin Listed /\ entry[e].st # "none" => Departs(e)

CacheInv == CacheTypes /\ EntriesMade /\ ListedAlive /\ BooksRight /\ RefsCount /\ DepartOnce

LEMMA Lengths ==
    ASSUME CacheTypes
    PROVE  \A x \in Entries : entry[x].len \in Nat
  BY DEF CacheTypes, EntryType

LEMMA FreedIs ==
    ASSUME NEW x \in EntryType
    PROVE  /\ Freed(x) \in EntryType /\ Freed(x).st = "freed" /\ Freed(x).body = x.body /\ Freed(x).len = 0
           /\ Freed(x).status = x.status /\ Freed(x).refs = x.refs
  BY DEF Freed, EntryType

LEMMA FilledIs ==
    ASSUME NEW e \in Nat, NEW k \in CacheKeys, NEW len \in Nat
    PROVE  /\ Filled(e, k, len) \in EntryType /\ Filled(e, k, len).st = "used" /\ Filled(e, k, len).body = e
           /\ Filled(e, k, len).len = len /\ Filled(e, k, len).status = 200 /\ Filled(e, k, len).refs = 0
           /\ Filled(e, k, len).key = k
  BY DEF Filled, EntryType

\* Only the entries in a shard count for its books.
LEMMA BooksKeep ==
    ASSUME NEW en, NEW fn, NEW s, Books(s, en), \A x \in ToSet(s.list) : fn[x].len = en[x].len
    PROVE  Books(s, fn)
<1>1. Weights(s.list, fn) = Weights(s.list, en)
  BY DEF Weights
<1> QED
  BY <1>1 DEF Books

LEMMA ReadersStay ==
    ASSUME reader' = reader
    PROVE  \A e : Holds(e)' = Holds(e) /\ Leaves(e)' = Leaves(e)
  BY DEF Holds, Leaves

LEMMA NobodyHolds == Cardinality({}) = 0
  BY FS_EmptySet

-----------------------------------------------------------------------------
(* Entries that are destroyed                                                *)

\* The entries in new are made by this call of response_cache_set, for a key that is not there.
Fresh(new) ==
    \/ DOMAIN new = {} /\ sets' = sets
    \/ \E k \in CacheKeys, len \in Nat :
         /\ new = [x \in {sets + 1} |-> Filled(x, k, len)]
         /\ sets < MaxSets /\ sets' = sets + 1 /\ Found(k) = {}

Newcomer(x, n) ==
    /\ x = sets + 1 /\ sets' = x /\ x \in Entries /\ entry[x].st = "none"
    /\ n \in EntryType /\ n.st = "used" /\ n.body = x /\ n.status = 200 /\ n.refs = 0
    /\ \A y \in Listed : entry[y].key # n.key

LEMMA NextNumber ==
    ASSUME CacheTypes, EntriesMade, sets < MaxSets
    PROVE  /\ sets + 1 \in Entries /\ sets + 1 \in 0 .. MaxSets
           /\ entry[sets + 1].st = "none" /\ entry[sets + 1] = NoEntry
<1>1. MaxSets \in Nat /\ sets \in Nat
  BY CacheAssumption DEF CacheTypes
<1>2. sets + 1 \in Entries /\ sets + 1 \in 0 .. MaxSets /\ ~(sets + 1 <= sets)
  BY <1>1 DEF Entries
<1> QED
  BY <1>2 DEF EntriesMade

LEMMA FreshIs ==
    ASSUME CacheTypes, EntriesMade, NEW new, Fresh(new)
    PROVE  /\ sets' \in 0 .. MaxSets /\ sets' >= sets /\ DOMAIN new \in SUBSET Entries
           /\ \A x \in DOMAIN new : Newcomer(x, new[x])
<1>1. CASE DOMAIN new = {} /\ sets' = sets
  BY <1>1 DEF CacheTypes
<1>2. CASE \E k \in CacheKeys, len \in Nat :
              /\ new = [x \in {sets + 1} |-> Filled(x, k, len)]
              /\ sets < MaxSets /\ sets' = sets + 1 /\ Found(k) = {}
  <2>1. PICK k \in CacheKeys, len \in Nat :
          /\ new = [x \in {sets + 1} |-> Filled(x, k, len)]
          /\ sets < MaxSets /\ sets' = sets + 1 /\ Found(k) = {}
    BY <1>2
  <2>2. sets + 1 \in Entries /\ sets + 1 \in 0 .. MaxSets /\ entry[sets + 1].st = "none" /\ sets \in Nat
    BY <2>1, NextNumber DEF CacheTypes
  <2>3. DOMAIN new = {sets + 1} /\ new[sets + 1] = Filled(sets + 1, k, len)
    BY <2>1
  <2>4. sets + 1 \in Nat
    BY <2>2
  <2>5. /\ Filled(sets + 1, k, len) \in EntryType /\ Filled(sets + 1, k, len).st = "used"
        /\ Filled(sets + 1, k, len).body = sets + 1 /\ Filled(sets + 1, k, len).status = 200
        /\ Filled(sets + 1, k, len).refs = 0 /\ Filled(sets + 1, k, len).key = k
    BY <2>4, FilledIs
  <2>6. \A y \in Listed : entry[y].key # k
    BY <2>1 DEF Found, Listed
  <2>7. Newcomer(sets + 1, new[sets + 1])
    BY <2>1, <2>2, <2>3, <2>5, <2>6 DEF Newcomer
  <2> QED
    BY <2>1, <2>2, <2>3, <2>7
<1> QED
  BY <1>1, <1>2 DEF Fresh

Unheld(es) == {e \in es : entry[e].refs = 0}
After(es, new) == [e \in Entries |-> IF e \in Unheld(es) THEN Freed(entry[e])
                                     ELSE IF e \in DOMAIN new THEN new[e] ELSE entry[e]]

LEMMA DestroyIs ==
    ASSUME NEW es, NEW new, destroy_entry_internal(es, new)
    PROVE  /\ entry' = After(es, new)
           /\ bodies' = (bodies \ {entry[e].body : e \in Unheld(es)}) \cup DOMAIN new
           /\ marking' = es \ Unheld(es) /\ raced' = raced \cup InWindow(es)
  BY DEF destroy_entry_internal, Unheld, After

LEMMA Destroys ==
    ASSUME CacheInv, Unlocked, NEW es \in SUBSET Listed, NEW new, Fresh(new), destroy_entry_internal(es, new),
           reader' = reader, BooksRight', Listed' = (Listed \ es) \cup DOMAIN new
    PROVE  CacheInv'
<1>0. CacheTypes /\ EntriesMade /\ ListedAlive /\ RefsCount /\ DepartOnce
  BY DEF CacheInv
<1>1. /\ entry' = After(es, new)
      /\ bodies' = (bodies \ {entry[e].body : e \in Unheld(es)}) \cup DOMAIN new
      /\ marking' = es \ Unheld(es) /\ raced' = raced \cup InWindow(es)
  BY DestroyIs, Zenon
<1>2. /\ sets' \in 0 .. MaxSets /\ sets' >= sets /\ DOMAIN new \in SUBSET Entries
      /\ \A x \in DOMAIN new : Newcomer(x, new[x])
  BY <1>0, FreshIs, Zenon
<1>3. \A e : Holds(e)' = Holds(e) /\ Leaves(e)' = Leaves(e)
  BY ReadersStay
<1>4. Listed \in SUBSET Entries /\ marking = {} /\ sets \in Nat
  BY <1>0, SetOf DEF CacheTypes, Listed, Unlocked
<1>5. \A x \in Entries : x \in DOMAIN new => x \notin Listed /\ x \notin raced /\ entry[x].refs = 0
  <2> SUFFICES ASSUME NEW x \in Entries, x \in DOMAIN new
               PROVE  x \notin Listed /\ x \notin raced /\ entry[x].refs = 0
    OBVIOUS
  <2>1. entry[x].st = "none"
    BY <1>2 DEF Newcomer
  <2>2. entry[x] = NoEntry /\ x \notin Listed /\ x \notin raced
    BY <1>0, <2>1 DEF EntriesMade
  <2>3. NoEntry.refs = 0
    BY DEF NoEntry
  <2> QED
    BY <2>2, <2>3
<1> DEFINE free == Unheld(es)
<1>6. free \in SUBSET es /\ \A x \in free : entry[x].refs = 0 /\ x \notin DOMAIN new
  BY <1>4, <1>5 DEF Unheld
<1>7. \A x \in es : entry[x].refs = 0 <=> x \in free
  BY DEF Unheld
<1> HIDE DEF free
<1>8. ASSUME NEW x \in Entries
      PROVE  /\ x \in free => entry'[x] = Freed(entry[x])
             /\ x \in DOMAIN new => entry'[x] = new[x]
             /\ x \notin free /\ x \notin DOMAIN new => entry'[x] = entry[x]
  BY <1>1, <1>6 DEF free, After
<1>9. ASSUME NEW x \in Entries
      PROVE  entry[x] \in EntryType /\ entry'[x] \in EntryType
             /\ (entry[x].st # "none" => entry'[x].st # "none" /\ entry'[x].body = entry[x].body /\ entry'[x].status = entry[x].status)
             /\ entry'[x].refs = entry[x].refs
  <2>1. entry[x] \in EntryType
    BY <1>0 DEF CacheTypes
  <2>2. /\ Freed(entry[x]) \in EntryType /\ Freed(entry[x]).st = "freed" /\ Freed(entry[x]).body = entry[x].body
        /\ Freed(entry[x]).status = entry[x].status /\ Freed(entry[x]).refs = entry[x].refs
    BY <2>1, FreedIs
  <2>3. CASE x \in free
    BY <1>8, <2>1, <2>2, <2>3
  <2>4. CASE x \in DOMAIN new
    BY <1>2, <1>5, <1>8, <2>1, <2>4 DEF Newcomer
  <2>5. CASE x \notin free /\ x \notin DOMAIN new
    BY <1>8, <2>1, <2>5
  <2> QED
    BY <2>3, <2>4, <2>5
<1>10. CacheTypes'
  <2>1. entry' \in [Entries -> EntryType]
    BY <1>1, <1>9 DEF After
  <2>2. shard' \in [list : Seq(Entries), count : Nat, bytes : Nat]
    BY DEF BooksRight, Books
  <2>3. marking' \in SUBSET Entries /\ raced' \in SUBSET Entries
    BY <1>0, <1>1, <1>4 DEF CacheTypes, InWindow
  <2> QED
    BY <1>0, <1>2, <2>1, <2>2, <2>3 DEF CacheTypes
<1>11. EntriesMade'
  <2>1. \A r \in Readers : reader'[r].pc # "idle" => reader'[r].e \in Entries /\ entry'[reader'[r].e].st # "none"
    BY <1>0, <1>9 DEF EntriesMade
  <2>2. ASSUME NEW e \in Entries, entry'[e].st = "none"
        PROVE  entry'[e] = NoEntry /\ e \notin Listed' /\ e \notin marking' /\ e \notin raced'
    <3>1. e \notin free /\ e \notin DOMAIN new /\ entry[e].st = "none" /\ entry'[e] = entry[e]
      BY <1>2, <1>8, <1>9, <2>2, FreedIs DEF Newcomer
    <3>2. entry[e] = NoEntry /\ e \notin Listed /\ e \notin raced
      BY <1>0, <3>1 DEF EntriesMade
    <3> QED
      BY <1>1, <3>1, <3>2 DEF InWindow
  <2>3. ASSUME NEW e \in Entries, entry'[e].st # "none" PROVE e <= sets' /\ entry'[e].body \in 1 .. sets'
    <3>1. CASE e \in DOMAIN new
      BY <1>2, <1>4, <1>8, <3>1 DEF Newcomer
    <3>2. CASE e \notin DOMAIN new
      <4>1. entry[e].st # "none"
        BY <1>4, <1>8, <1>6, <2>3, <3>2, <1>0 DEF ListedAlive
      <4>2. e <= sets /\ entry[e].body \in 1 .. sets /\ e \in Nat
        BY <1>0, <4>1 DEF EntriesMade, Entries
      <4> QED
        BY <1>2, <1>4, <1>9, <4>1, <4>2
    <3> QED
      BY <3>1, <3>2
  <2>4. ASSUME NEW e \in Entries, NEW f \in Entries, entry'[e].st # "none", entry'[f].st # "none",
               entry'[e].body = entry'[f].body
        PROVE  e = f
    <3>1. ASSUME NEW x \in Entries, entry'[x].st # "none", x \notin DOMAIN new
          PROVE  entry[x].st # "none" /\ entry'[x].body = entry[x].body /\ entry[x].body \in 1 .. sets
      <4>1. entry[x].st # "none"
        BY <1>4, <1>8, <1>6, <3>1, <1>0 DEF ListedAlive
      <4> QED
        BY <1>0, <1>9, <4>1 DEF EntriesMade
    <3>2. ASSUME NEW x \in DOMAIN new PROVE x = sets + 1 /\ entry'[x].body = sets + 1 /\ ~(sets + 1 \in 1 .. sets)
      BY <1>2, <1>4, <1>8 DEF Newcomer
    <3>3. CASE e \in DOMAIN new
      BY <2>4, <3>1, <3>2, <3>3
    <3>4. CASE f \in DOMAIN new
      BY <2>4, <3>1, <3>2, <3>4
    <3>5. CASE e \notin DOMAIN new /\ f \notin DOMAIN new
      BY <1>0, <2>4, <3>1, <3>5 DEF EntriesMade
    <3> QED
      BY <3>3, <3>4, <3>5
  <2> QED
    BY <2>1, <2>2, <2>3, <2>4 DEF EntriesMade
<1>12. ListedAlive'
  <2>1. ASSUME NEW e \in Listed', e \notin DOMAIN new
        PROVE  e \in Entries /\ e \in Listed /\ e \notin es /\ entry'[e] = entry[e] /\ entry[e].st = "used"
    BY <1>0, <1>4, <1>6, <1>8, <2>1 DEF ListedAlive
  <2>2. ASSUME NEW e \in Listed'
        PROVE  entry'[e].st = "used" /\ entry'[e].status = 200 /\ entry'[e].body \in bodies'
               /\ e \notin marking' /\ e \notin raced'
    <3>1. CASE e \in DOMAIN new
      BY <1>1, <1>2, <1>4, <1>5, <1>8, <3>1 DEF Newcomer, InWindow
    <3>2. CASE e \notin DOMAIN new
      <4>1. entry[e].st = "used" /\ entry[e].status = 200 /\ entry[e].body \in bodies /\ e \notin raced
        BY <1>0, <2>1, <3>2 DEF ListedAlive
      <4>2. \A x \in Unheld(es) : x \in Entries /\ entry[x].st # "none" /\ x # e
        BY <1>0, <1>4, <2>1, <3>2 DEF ListedAlive, Unheld
      <4>3. \A x \in Unheld(es) : entry[x].body # entry[e].body
        BY <1>0, <2>1, <3>2, <4>1, <4>2 DEF EntriesMade
      <4> QED
        BY <1>1, <2>1, <3>2, <4>1, <4>3 DEF InWindow
    <3> QED
      BY <3>1, <3>2
  <2>3. ASSUME NEW e \in Listed', NEW f \in Listed', entry'[e].key = entry'[f].key PROVE e = f
    <3>1. \A x \in DOMAIN new : x = sets + 1 /\ entry'[x] = new[x] /\ \A y \in Listed : entry[y].key # new[x].key
      BY <1>2, <1>8 DEF Newcomer
    <3>2. CASE e \in DOMAIN new
      BY <2>1, <2>3, <3>1, <3>2
    <3>3. CASE f \in DOMAIN new
      BY <2>1, <2>3, <3>1, <3>3
    <3>4. CASE e \notin DOMAIN new /\ f \notin DOMAIN new
      BY <1>0, <2>1, <2>3, <3>4 DEF ListedAlive
    <3> QED
      BY <3>2, <3>3, <3>4
  <2> QED
    BY <2>2, <2>3 DEF ListedAlive
<1>13. RefsCount'
  BY <1>0, <1>3, <1>9 DEF RefsCount
<1>14. DepartOnce'
  <2> SUFFICES ASSUME NEW e \in Entries, e \notin raced', e \notin Listed', entry'[e].st # "none" PROVE Departs(e)'
    BY DEF DepartOnce
  <2>1. e \notin raced /\ e \notin InWindow(es) /\ e \notin DOMAIN new
    BY <1>1
  <2>2. CASE e \in es
    <3>1. Leaves(e) = {}
      BY <2>1, <2>2 DEF InWindow, Leaves
    <3>2. entry[e].st = "used"
      BY <1>0, <2>2 DEF ListedAlive
    <3>3. CASE e \in free
      <4>1. entry'[e].st = "freed" /\ entry'[e].refs = 0
        BY <1>6, <1>8, <1>9, <3>3, FreedIs
      <4>2. e \notin marking'
        BY <1>1, <3>3 DEF free
      <4> QED
        BY <1>3, <3>1, <4>1, <4>2 DEF Departs
    <3>4. CASE e \notin free
      <4>1. entry'[e] = entry[e] /\ entry[e].refs > 0
        <5>1. entry[e].refs # 0 /\ entry'[e] = entry[e]
          BY <1>7, <1>8, <2>1, <2>2, <3>4
        <5>2. entry[e].refs \in Nat
          BY <1>9 DEF EntryType
        <5> QED
          BY <5>1, <5>2
      <4>2. e \in marking'
        BY <1>1, <2>2, <3>4 DEF free
      <4> QED
        BY <1>3, <3>1, <3>2, <4>1, <4>2 DEF Departs
    <3> QED
      BY <3>3, <3>4
  <2>3. CASE e \notin es
    <3>1. e \notin Listed /\ entry'[e] = entry[e] /\ e \notin marking' /\ e \notin marking
      BY <1>1, <1>4, <1>6, <1>8, <2>1, <2>3
    <3>2. Departs(e)
      BY <1>0, <2>1, <3>1 DEF DepartOnce
    <3> QED
      BY <1>3, <3>1, <3>2 DEF Departs
  <2> QED
    BY <2>2, <2>3
<1> QED
  BY <1>10, <1>11, <1>12, <1>13, <1>14 DEF CacheInv

-----------------------------------------------------------------------------
(* One lemma for each operation                                              *)

\* What the books say of a shard whose list is a part of the old one.
LEMMA BooksOfRest ==
    ASSUME CacheInv, NEW es \in SUBSET Listed, NEW new, Fresh(new), destroy_entry_internal(es, new),
           NEW s, Books(s, entry), ToSet(s.list) \cap es = {}, ToSet(s.list) \in SUBSET Listed
    PROVE  Books(s, entry')
<1>1. CacheTypes /\ EntriesMade /\ ListedAlive
  BY DEF CacheInv
<1>2. \A x \in DOMAIN new : Newcomer(x, new[x])
  BY <1>1, FreshIs, Zenon
<1>3. entry' = After(es, new)
  BY DestroyIs, Zenon
<1>4. ASSUME NEW x \in ToSet(s.list) PROVE entry'[x].len = entry[x].len
  <2>1. x \in Listed /\ x \in Entries /\ x \notin Unheld(es)
    BY <1>1, SetOf DEF CacheTypes, Listed, Unheld
  <2>2. x \notin DOMAIN new
    BY <1>1, <1>2, <2>1 DEF ListedAlive, Newcomer
  <2>3. entry'[x] = entry[x]
    BY <1>3, <2>1, <2>2 DEF After
  <2> QED
    BY <2>3
<1> QED
  BY <1>4, BooksKeep

\* An expired entry is found.
LEMMA StaleInv ==
    ASSUME CacheInv, Unlocked, NEW e \in Listed, shard' = Unlink(shard, e),
           destroy_entry_internal({e}, <<>>), reader' = reader, sets' = sets
    PROVE  CacheInv'
<1>1. CacheTypes /\ BooksRight /\ Fresh(<<>>)
  BY DEF CacheInv, Fresh
<1>2. \A x \in Entries : entry[x].len \in Nat
  BY <1>1, Lengths
<1>3. Emptied(shard', shard, e)
  BY <1>1, <1>2, UnlinkLeaves DEF BooksRight, Listed
<1>4. Books(shard', entry) /\ ToSet(shard'.list) = Listed \ {e}
  BY <1>3 DEF Emptied, Listed
<1>5. {e} \in SUBSET Listed /\ ToSet(shard'.list) \cap {e} = {} /\ ToSet(shard'.list) \in SUBSET Listed
  BY <1>4
<1>6. Books(shard', entry')
  BY <1>1, <1>4, <1>5, BooksOfRest
<1>7. shard'.count <= MaxCount
  <2>1. shard.count = Len(shard.list) /\ shard.count <= MaxCount /\ shard'.count = Len(shard'.list)
        /\ Len(shard'.list) = Len(shard.list) - 1 /\ shard.count \in Nat
    BY <1>1, <1>3 DEF BooksRight, Books, Emptied
  <2> QED
    BY <2>1, CacheAssumption
<1>8. Listed' = (Listed \ {e}) \cup DOMAIN <<>>
  <2>1. DOMAIN <<>> = {}
    OBVIOUS
  <2> QED
    BY <1>4, <2>1 DEF Listed
<1> QED
  BY <1>1, <1>5, <1>6, <1>7, <1>8, Destroys DEF BooksRight

LEMMA PurgeInv ==
    ASSUME CacheInv, NEW ms, response_cache_purge(ms)
    PROVE  CacheInv'
<1> DEFINE es == {e \in ToSet(shard.list) : ModelOf[entry[e].key] \in ms}
<1>0. Unlocked /\ shard' = Purged(shard, es) /\ destroy_entry_internal(es, <<>>) /\ reader' = reader /\ sets' = sets
  BY DEF response_cache_purge
<1>1. CacheTypes /\ BooksRight /\ Fresh(<<>>)
  BY <1>0 DEF CacheInv, Fresh
<1>2. \A x \in Entries : entry[x].len \in Nat
  BY <1>1, Lengths
<1>5. es \in SUBSET Listed
  BY DEF Listed
<1> HIDE DEF es
<1>3. Books(shard', entry) /\ ToSet(shard'.list) = Listed \ es /\ shard'.count <= shard.count
  BY <1>0, <1>1, <1>2, PurgeTakes DEF BooksRight, Listed
<1>4. ToSet(shard'.list) \cap es = {} /\ ToSet(shard'.list) \in SUBSET Listed
  BY <1>3
<1>6. Books(shard', entry')
  BY <1>0, <1>1, <1>3, <1>4, <1>5, BooksOfRest
<1>7. shard'.count <= MaxCount
  BY <1>1, <1>3, CacheAssumption DEF BooksRight, Books
<1>8. Listed' = (Listed \ es) \cup DOMAIN <<>>
  <2>1. DOMAIN <<>> = {}
    OBVIOUS
  <2> QED
    BY <1>3, <2>1 DEF Listed
<1> QED
  BY <1>0, <1>1, <1>5, <1>6, <1>7, <1>8, Destroys DEF BooksRight

LEMMA InsertInv ==
    ASSUME CacheInv, Unlocked, NEW k \in CacheKeys, NEW len \in Nat, sets < MaxSets, sets' = sets + 1,
           Found(k) = {}, Insert(k, len), reader' = reader
    PROVE  CacheInv'
<1> DEFINE room == MadeRoom(shard, len)
           e == sets + 1
           es == ToSet(shard.list) \ ToSet(room.list)
           new == [x \in {e} |-> Filled(x, k, len)]
<1>0. shard' = lru_push_head([list |-> room.list, count |-> room.count + 1, bytes |-> room.bytes + len], e)
      /\ destroy_entry_internal(es, new)
  BY DEF Insert
<1>1. CacheTypes /\ EntriesMade /\ BooksRight /\ Fresh(new)
  BY DEF CacheInv, Fresh
<1>2. \A x \in Entries : entry[x].len \in Nat
  BY <1>1, Lengths
<1>3. room \in Smaller(shard) /\ room.count < MaxCount
  BY <1>1, <1>2, RoomIsMade, Zenon DEF BooksRight
<1> HIDE DEF room
<1>4. /\ Books(room, entry) /\ room \in [list : Seq(Entries), count : Nat, bytes : Nat]
      /\ ToSet(room.list) \subseteq Listed
  BY <1>3 DEF Smaller, Listed
<1>5. es \in SUBSET Listed /\ Listed \ es = ToSet(room.list) /\ ToSet(room.list) \cap es = {}
  BY <1>4 DEF Listed
<1>6. sets + 1 \in Entries /\ entry[sets + 1].st = "none"
  BY <1>1, NextNumber, Zenon
<1>7. e \in Entries /\ e \notin Listed /\ e \in DOMAIN new /\ new[e] = Filled(e, k, len)
  BY <1>1, <1>6 DEF EntriesMade
<1>8. DOMAIN new = {e}
  OBVIOUS
<1> HIDE DEF es, new
<1>9. Books(room, entry')
  BY <1>0, <1>1, <1>4, <1>5, BooksOfRest
<1>10. entry'[e].len = len
  <2>1. entry' = After(es, new)
    BY <1>0, DestroyIs, Zenon
  <2>2. e \notin Unheld(es)
    BY <1>5, <1>7 DEF Unheld
  <2>3. e \in Nat
    BY <1>7 DEF Entries
  <2>4. Filled(e, k, len).len = len
    BY <2>3, FilledIs
  <2> HIDE DEF e
  <2> QED
    BY <1>7, <2>1, <2>2, <2>4 DEF After
<1>11. LengthOf(entry', entry', e)
  <2>1. ASSUME NEW x \in Entries PROVE entry'[x].len \in Nat
    <3>1. entry' = After(es, new)
      BY <1>0, DestroyIs, Zenon
    <3>2. entry[x] \in EntryType
      BY <1>1 DEF CacheTypes
    <3>3. Freed(entry[x]).len = 0
      BY <3>2, FreedIs
    <3>4. CASE x = e
      BY <1>10, <3>4
    <3>5. CASE x # e
      BY <1>2, <1>8, <3>1, <3>3, <3>5 DEF After
    <3> QED
      BY <3>4, <3>5
  <2> QED
    BY <2>1 DEF LengthOf
<1>12. shard' = WithFront(room, e, entry'[e].len)
  <2>1. [list |-> room.list, count |-> room.count + 1, bytes |-> room.bytes + len] \in [list : Seq(Entries), count : Nat, bytes : Nat]
    BY <1>4
  <2>2. shard' = [list |-> <<e>> \o room.list, count |-> room.count + 1, bytes |-> room.bytes + len]
    BY <1>0, <2>1, PushIs
  <2> QED
    BY <1>10, <2>2 DEF WithFront
<1>13. e \notin ToSet(room.list)
  BY <1>4, <1>7
<1>14. Books(WithFront(room, e, entry'[e].len), entry') /\ ToSet(WithFront(room, e, entry'[e].len).list) = ToSet(room.list) \cup {e}
  BY <1>7, <1>9, <1>11, <1>13, PushJoins, SMT
<1>15. Books(shard', entry') /\ Listed' = (Listed \ es) \cup DOMAIN new
  BY <1>5, <1>8, <1>12, <1>14 DEF Listed
<1>16. shard'.count <= MaxCount
  BY <1>3, <1>4, <1>12, CacheAssumption DEF WithFront
<1> QED
  BY <1>0, <1>1, <1>5, <1>15, <1>16, Destroys DEF BooksRight

LEMMA OneEntry ==
    ASSUME NEW en \in [Entries -> EntryType], NEW e \in Entries, NEW v \in EntryType
    PROVE  /\ [en EXCEPT ![e] = v] \in [Entries -> EntryType] /\ [en EXCEPT ![e] = v][e] = v
           /\ \A x \in Entries : x # e => [en EXCEPT ![e] = v][x] = en[x]
  OBVIOUS

LEMMA OtherRefs ==
    ASSUME NEW x \in EntryType, NEW n \in Nat, NEW v, v = [x EXCEPT !.refs = n]
    PROVE  /\ v \in EntryType /\ v.st = x.st /\ v.body = x.body /\ v.len = x.len
           /\ v.status = x.status /\ v.key = x.key /\ v.refs = n
  BY DEF EntryType

LEMMA InFront ==
    ASSUME NEW s \in [list : Seq(Entries), count : Nat, bytes : Nat], NEW e
    PROVE  lru_push_head(lru_remove(s, e), e)
           = [list |-> <<e>> \o RemoveAt(s.list, Place(s.list, e)), count |-> s.count, bytes |-> s.bytes]
<1> DEFINE l == RemoveAt(s.list, Place(s.list, e))
           r == lru_remove(s, e)
<1>1. r = [s EXCEPT !.list = l]
  BY DEF lru_remove
<1> HIDE DEF l, r
<1>2. r.list = l /\ r.count = s.count /\ r.bytes = s.bytes
  BY <1>1
<1>3. lru_push_head(r, e) = [r EXCEPT !.list = <<e>> \o r.list]
  BY DEF lru_push_head
<1>4. r = [list |-> l, count |-> s.count, bytes |-> s.bytes]
  BY <1>1
<1> DEFINE m == <<e>> \o l
<1>5. lru_push_head(r, e) = [r EXCEPT !.list = m]
  BY <1>2, <1>3
<1> HIDE DEF m
<1>6. lru_push_head(r, e) = [list |-> m, count |-> s.count, bytes |-> s.bytes]
  BY <1>4, <1>5
<1> QED
  BY <1>6 DEF r, l, m

LEMMA UpdateInv ==
    ASSUME CacheInv, Unlocked, NEW e \in Listed, NEW len \in Nat, sets < MaxSets, sets' = sets + 1,
           entry[e].key \in CacheKeys, Update(e, len), reader' = reader
    PROVE  CacheInv'
<1> DEFINE f == Filled(sets + 1, entry[e].key, len)
           v == [f EXCEPT !.refs = entry[e].refs]
<1>0. /\ bodies' = (bodies \ {entry[e].body}) \cup {sets + 1} /\ entry' = [entry EXCEPT ![e] = v]
      /\ shard' = lru_push_head(lru_remove([shard EXCEPT !.bytes = Less(shard.bytes, entry[e].len) + len], e), e)
      /\ marking' = marking /\ raced' = raced
  BY DEF Update
<1>1. CacheTypes /\ EntriesMade /\ ListedAlive /\ BooksRight /\ RefsCount /\ DepartOnce
  BY DEF CacheInv
<1>2. e \in Entries /\ entry[e] \in EntryType /\ sets \in Nat /\ sets + 1 \in Nat /\ sets + 1 \in 0 .. MaxSets
  BY <1>1, CacheAssumption, SetOf DEF CacheTypes, Listed
<1>3. /\ v \in EntryType /\ v.st = "used" /\ v.body = sets + 1 /\ v.len = len /\ v.status = 200
      /\ v.refs = entry[e].refs /\ v.key = entry[e].key
  <2>1. /\ f \in EntryType /\ f.st = "used" /\ f.body = sets + 1 /\ f.len = len /\ f.status = 200
        /\ f.key = entry[e].key
    <3>1. sets + 1 \in Nat /\ len \in Nat /\ entry[e].key \in CacheKeys
      BY <1>2
    <3>2. PICK n \in Nat : n = sets + 1
      BY <3>1
    <3>3. PICK k \in CacheKeys : k = entry[e].key
      BY <3>1
    <3>4. PICK g : g = Filled(n, k, len)
      OBVIOUS
    <3>5. g \in EntryType /\ g.st = "used" /\ g.body = n /\ g.len = len /\ g.status = 200 /\ g.key = k
      BY <3>4, FilledIs
    <3>6. f = g
      BY <3>2, <3>3, <3>4
    <3> HIDE DEF f
    <3> QED
      BY <3>2, <3>3, <3>5, <3>6
  <2>2. entry[e].refs \in Nat
    BY <1>2 DEF EntryType
  <2> HIDE DEF f
  <2> QED
    BY <2>1, <2>2 DEF EntryType
<1> HIDE DEF v
<1>4. entry' \in [Entries -> EntryType] /\ entry'[e] = v /\ \A x \in Entries : x # e => entry'[x] = entry[x]
  BY <1>0, <1>1, <1>2, <1>3, OneEntry DEF CacheTypes
<1>5. \A x : Holds(x)' = Holds(x) /\ Leaves(x)' = Leaves(x)
  BY ReadersStay
<1>6. LengthOf(entry, entry', e)
  <2>1. \A x \in Entries : entry[x].len \in Nat
    BY <1>1, Lengths
  <2> QED
    BY <1>3, <1>4, <2>1 DEF LengthOf
<1>7. shard' = Fronted(shard, e, entry'[e].len)
  <2> DEFINE n == Less(shard.bytes, entry[e].len) + len
  <2>1. shard \in [list : Seq(Entries), count : Nat, bytes : Nat] /\ entry[e].len \in Nat
    BY <1>1, <1>2 DEF CacheTypes, EntryType
  <2>2. n \in Nat
    BY <2>1 DEF Less
  <2>3. shard' = lru_push_head(lru_remove([shard EXCEPT !.bytes = n], e), e)
    BY <1>0
  <2> HIDE DEF n
  <2>4. /\ [shard EXCEPT !.bytes = n] \in [list : Seq(Entries), count : Nat, bytes : Nat]
        /\ [shard EXCEPT !.bytes = n].list = shard.list /\ [shard EXCEPT !.bytes = n].count = shard.count
        /\ [shard EXCEPT !.bytes = n].bytes = n
    BY <2>1, <2>2
  <2>5. shard' = [list |-> <<e>> \o RemoveAt(shard.list, Place(shard.list, e)), count |-> shard.count, bytes |-> n]
    BY <2>3, <2>4, InFront
  <2> QED
    BY <1>3, <1>4, <2>5 DEF Fronted, n
<1>8. Books(shard', entry') /\ ToSet(shard'.list) = ToSet(shard.list)
  BY <1>1, <1>6, <1>7, MovesToFront DEF BooksRight, Listed
<1>9. Listed' = Listed /\ BooksRight'
  BY <1>1, <1>7, <1>8 DEF BooksRight, Listed, Fronted
<1>10. CacheTypes'
  BY <1>0, <1>1, <1>2, <1>4, <1>8 DEF CacheTypes, Books
<1>11. entry[e].st = "used" /\ e <= sets
  BY <1>1, <1>2 DEF ListedAlive, EntriesMade
<1>12. \A x \in Entries : (entry'[x].st = entry[x].st) /\ entry'[x].refs = entry[x].refs /\ entry'[x].key = entry[x].key
  BY <1>3, <1>4, <1>11
<1>13. EntriesMade'
  <2>1. \A r \in Readers : reader'[r].pc # "idle" => reader'[r].e \in Entries /\ entry'[reader'[r].e].st # "none"
    BY <1>1, <1>12 DEF EntriesMade
  <2>2. \A x \in Entries : entry'[x].st = "none" => entry'[x] = NoEntry /\ x \notin Listed' /\ x \notin marking' /\ x \notin raced'
    BY <1>0, <1>1, <1>4, <1>9, <1>11, <1>12 DEF EntriesMade
  <2>3. \A x \in Entries : entry'[x].st # "none" /\ x # e => x <= sets /\ entry'[x].body = entry[x].body /\ entry'[x].body \in 1 .. sets
    BY <1>1, <1>4 DEF EntriesMade
  <2>4. entry'[e].body = sets + 1
    BY <1>3, <1>4
  <2>5. ASSUME NEW x \in Entries, entry'[x].st # "none" PROVE x <= sets' /\ entry'[x].body \in 1 .. sets'
    <3>1. x \in Nat
      BY DEF Entries
    <3> QED
      BY <1>2, <1>11, <2>3, <2>4, <2>5, <3>1
  <2>6. ASSUME NEW x \in Entries, NEW y \in Entries, entry'[x].st # "none", entry'[y].st # "none", entry'[x].body = entry'[y].body
        PROVE  x = y
    <3>1. ~(sets + 1 \in 1 .. sets)
      BY <1>2
    <3>2. CASE x = e \/ y = e
      BY <2>3, <2>4, <2>6, <3>1, <3>2
    <3>3. CASE x # e /\ y # e
      BY <1>1, <1>4, <2>6, <3>3 DEF EntriesMade
    <3> QED
      BY <3>2, <3>3
  <2> QED
    BY <2>1, <2>2, <2>5, <2>6 DEF EntriesMade
<1>14. ListedAlive'
  <2>1. ASSUME NEW x \in Listed, x # e PROVE entry'[x] = entry[x] /\ entry[x].body # entry[e].body
    BY <1>1, <1>2, <1>4, <1>11, <2>1, SetOf DEF ListedAlive, EntriesMade, CacheTypes, Listed
  <2>2. \A x \in Listed : entry'[x].st = "used" /\ entry'[x].status = 200 /\ entry'[x].body \in bodies' /\ x \notin marking' /\ x \notin raced'
    BY <1>0, <1>1, <1>3, <1>4, <2>1 DEF ListedAlive
  <2>3. \A x, y \in Listed : entry'[x].key = entry'[y].key => x = y
    <3>1. Listed \in SUBSET Entries
      BY <1>1, SetOf DEF CacheTypes, Listed
    <3> QED
      BY <1>1, <1>12, <3>1 DEF ListedAlive
  <2> QED
    BY <1>9, <2>2, <2>3 DEF ListedAlive
<1>15. RefsCount'
  BY <1>1, <1>5, <1>12 DEF RefsCount
<1>16. DepartOnce'
  <2> SUFFICES ASSUME NEW x \in Entries, x \notin raced', x \notin Listed', entry'[x].st # "none" PROVE Departs(x)'
    BY DEF DepartOnce
  <2>1. x \notin raced /\ x \notin Listed /\ x # e
    BY <1>0, <1>9
  <2>2. entry'[x] = entry[x]
    BY <1>4, <2>1
  <2>3. Departs(x)
    BY <1>1, <2>1, <2>2 DEF DepartOnce
  <2> QED
    BY <1>0, <1>5, <2>2, <2>3 DEF Departs
<1> QED
  BY <1>9, <1>10, <1>13, <1>14, <1>15, <1>16 DEF CacheInv

LEMMA FewHold ==
    ASSUME NEW x
    PROVE  IsFiniteSet(Holds(x)) /\ Cardinality(Holds(x)) \in Nat
<1>1. Holds(x) \in SUBSET Readers /\ IsFiniteSet(Readers)
  BY CacheAssumption DEF Holds
<1> QED
  BY <1>1, FS_Subset, FS_CardinalityType

\* The reader r goes on to w.
LEMMA ReaderMoves ==
    ASSUME CacheTypes, NEW r \in Readers, NEW w \in ReaderType, reader' = [reader EXCEPT ![r] = w]
    PROVE  /\ reader' \in [Readers -> ReaderType] /\ reader'[r] = w
           /\ \A s \in Readers : s # r => reader'[s] = reader[s]
           /\ \A x : Holds(x)' = (Holds(x) \ {r}) \cup {s \in {r} : w.pc \in {"holds", "writes"} /\ w.e = x}
           /\ \A x : Leaves(x)' = (Leaves(x) \ {r}) \cup {s \in {r} : w.pc = "last" /\ w.e = x}
<1>1. /\ reader' \in [Readers -> ReaderType] /\ reader'[r] = w
      /\ \A s \in Readers : s # r => reader'[s] = reader[s]
  BY DEF CacheTypes
<1>2. ASSUME NEW x
      PROVE  Holds(x)' = (Holds(x) \ {r}) \cup {s \in {r} : w.pc \in {"holds", "writes"} /\ w.e = x}
  BY <1>1 DEF Holds
<1>3. ASSUME NEW x
      PROVE  Leaves(x)' = (Leaves(x) \ {r}) \cup {s \in {r} : w.pc = "last" /\ w.e = x}
  BY <1>1 DEF Leaves
<1> QED
  BY <1>1, <1>2, <1>3

\* The reader r finds the entry e.
Hit(r, e) ==
    /\ shard' = lru_push_head(lru_remove(shard, e), e)
    /\ entry' = [entry EXCEPT ![e].refs = @ + 1]
    /\ reader' = [reader EXCEPT ![r] = [pc |-> "holds", e |-> e, body |-> 0]]
    /\ bodies' = bodies /\ marking' = marking /\ raced' = raced /\ sets' = sets

LEMMA HitInv ==
    ASSUME CacheInv, NEW r \in Readers, reader[r].pc = "idle", NEW e \in Listed, Hit(r, e)
    PROVE  CacheInv'
<1> DEFINE v == [entry[e] EXCEPT !.refs = entry[e].refs + 1]
           w == [pc |-> "holds", e |-> e, body |-> 0]
<1>0. bodies' = bodies /\ marking' = marking /\ raced' = raced /\ sets' = sets
  BY DEF Hit
<1>1. CacheTypes /\ EntriesMade /\ ListedAlive /\ BooksRight /\ RefsCount /\ DepartOnce
  BY DEF CacheInv
<1>2. e \in Entries /\ entry[e] \in EntryType /\ e \in Nat /\ Listed \in SUBSET Entries
  BY <1>1, SetOf DEF CacheTypes, Listed, Entries
<1>3. /\ v \in EntryType /\ v.st = entry[e].st /\ v.body = entry[e].body /\ v.len = entry[e].len
      /\ v.status = entry[e].status /\ v.key = entry[e].key /\ v.refs = entry[e].refs + 1
  <2>0. entry[e].refs \in Nat
    BY <1>2 DEF EntryType
  <2>1. entry[e].refs + 1 \in Nat
    BY <2>0
  <2> QED
    BY <1>2, <2>1, OtherRefs
<1>4. entry' = [entry EXCEPT ![e] = v]
  BY DEF Hit
<1> HIDE DEF v
<1>5. entry' \in [Entries -> EntryType] /\ entry'[e] = v /\ \A x \in Entries : x # e => entry'[x] = entry[x]
  BY <1>1, <1>2, <1>3, <1>4, OneEntry DEF CacheTypes
<1>6. w \in ReaderType /\ w.pc = "holds" /\ w.e = e
  BY <1>2 DEF ReaderType
<1>7. /\ reader' \in [Readers -> ReaderType] /\ reader'[r] = w
      /\ \A s \in Readers : s # r => reader'[s] = reader[s]
      /\ \A x : Holds(x)' = (Holds(x) \ {r}) \cup {s \in {r} : w.pc \in {"holds", "writes"} /\ w.e = x}
      /\ \A x : Leaves(x)' = (Leaves(x) \ {r}) \cup {s \in {r} : w.pc = "last" /\ w.e = x}
  <2> HIDE DEF w
  <2> QED
    BY <1>1, <1>6, ReaderMoves DEF w, Hit
<1>8. \A x : r \notin Holds(x) /\ r \notin Leaves(x)
  BY DEF Holds, Leaves
<1> HIDE DEF w
<1>9. \A x : Leaves(x)' = Leaves(x) /\ Holds(x)' = IF x = e THEN Holds(x) \cup {r} ELSE Holds(x)
  BY <1>6, <1>7, <1>8
<1>10. \A x \in Entries : /\ entry'[x].st = entry[x].st /\ entry'[x].body = entry[x].body /\ entry'[x].len = entry[x].len
                          /\ entry'[x].status = entry[x].status /\ entry'[x].key = entry[x].key
  BY <1>3, <1>5
<1>11. LengthOf(entry, entry', e)
  <2>1. \A x \in Entries : entry[x].len \in Nat
    BY <1>1, Lengths
  <2> QED
    BY <1>10, <2>1 DEF LengthOf
<1>12. shard' = Fronted(shard, e, entry'[e].len)
  <2>1. shard \in [list : Seq(Entries), count : Nat, bytes : Nat] /\ entry[e].len \in Nat
    BY <1>1, <1>2 DEF CacheTypes, EntryType
  <2>2. shard' = [list |-> <<e>> \o RemoveAt(shard.list, Place(shard.list, e)), count |-> shard.count, bytes |-> shard.bytes]
    BY <2>1, InFront DEF Hit
  <2>3. entry[e].len <= shard.bytes
    BY <1>1, Lengths, UnlinkLeaves DEF BooksRight, Listed
  <2>4. Less(shard.bytes, entry[e].len) + entry[e].len = shard.bytes
    BY <2>1, <2>3 DEF Less
  <2> QED
    BY <1>2, <1>10, <2>2, <2>4 DEF Fronted
<1>13. Books(shard', entry') /\ ToSet(shard'.list) = ToSet(shard.list)
  <2>1. Books(shard, entry) /\ e \in ToSet(shard.list)
    BY <1>1 DEF BooksRight, Listed
  <2>2. /\ Books(Fronted(shard, e, entry'[e].len), entry')
        /\ ToSet(Fronted(shard, e, entry'[e].len).list) = ToSet(shard.list)
    BY <1>11, <2>1, MovesToFront, SMT
  <2> QED
    BY <1>12, <2>2
<1>14. Listed' = Listed /\ BooksRight'
  BY <1>1, <1>12, <1>13 DEF BooksRight, Listed, Fronted
<1>15. CacheTypes'
  BY <1>0, <1>1, <1>5, <1>7, <1>13 DEF CacheTypes, Books
<1>16. EntriesMade'
  <2>1. entry[e].st = "used"
    BY <1>1 DEF ListedAlive
  <2>2. ASSUME NEW s \in Readers, reader'[s].pc # "idle"
        PROVE  reader'[s].e \in Entries /\ entry'[reader'[s].e].st # "none"
    <3>1. CASE s = r
      BY <1>2, <1>6, <1>7, <1>10, <2>1, <3>1
    <3>2. CASE s # r
      BY <1>1, <1>7, <1>10, <2>2, <3>2 DEF EntriesMade
    <3> QED
      BY <3>1, <3>2
  <2>3. \A x \in Entries : entry'[x].st = "none" => entry'[x] = NoEntry /\ x \notin Listed' /\ x \notin marking' /\ x \notin raced'
    BY <1>0, <1>1, <1>5, <1>10, <1>14, <2>1 DEF EntriesMade
  <2>4. \A x \in Entries : entry'[x].st # "none" => x <= sets' /\ entry'[x].body \in 1 .. sets'
    BY <1>0, <1>1, <1>10 DEF EntriesMade
  <2>5. \A x, y \in Entries : entry'[x].st # "none" /\ entry'[y].st # "none" /\ entry'[x].body = entry'[y].body => x = y
    BY <1>1, <1>10 DEF EntriesMade
  <2> QED
    BY <2>2, <2>3, <2>4, <2>5 DEF EntriesMade
<1>17. ListedAlive'
  BY <1>0, <1>1, <1>2, <1>10, <1>14 DEF ListedAlive
<1>18. RefsCount'
  <2> SUFFICES ASSUME NEW x \in Entries PROVE entry'[x].refs = Cardinality(Holds(x)')
    BY DEF RefsCount
  <2>1. CASE x = e
    <3>1. Cardinality(Holds(e) \cup {r}) = Cardinality(Holds(e)) + 1
      BY <1>8, FewHold, FS_AddElement
    <3> QED
      BY <1>1, <1>3, <1>5, <1>9, <2>1, <3>1 DEF RefsCount
  <2>2. CASE x # e
    BY <1>1, <1>5, <1>9, <2>2 DEF RefsCount
  <2> QED
    BY <2>1, <2>2
<1>19. DepartOnce'
  <2> SUFFICES ASSUME NEW x \in Entries, x \notin raced', x \notin Listed', entry'[x].st # "none" PROVE Departs(x)'
    BY DEF DepartOnce
  <2>1. x \notin raced /\ x \notin Listed /\ x # e
    BY <1>0, <1>14
  <2>2. entry'[x] = entry[x]
    BY <1>5, <2>1
  <2>3. Departs(x)
    BY <1>1, <2>1, <2>2 DEF DepartOnce
  <2> QED
    BY <1>0, <1>9, <2>2, <2>3 DEF Departs
<1> QED
  BY <1>14, <1>15, <1>16, <1>17, <1>18, <1>19 DEF CacheInv

LEMMA GetInv ==
    ASSUME CacheInv, NEW r \in Readers, NEW k \in CacheKeys, response_cache_get(r, k)
    PROVE  CacheInv'
<1>1. Unlocked /\ reader[r].pc = "idle" /\ sets' = sets
  BY DEF response_cache_get
<1>2. PICK e \in Found(k) :
         IF entry[e].stale
         THEN /\ shard' = Unlink(shard, e)
              /\ destroy_entry_internal({e}, <<>>)
              /\ UNCHANGED reader
         ELSE /\ shard' = lru_push_head(lru_remove(shard, e), e)
              /\ entry' = [entry EXCEPT ![e].refs = @ + 1]
              /\ reader' = [reader EXCEPT ![r] = [pc |-> "holds", e |-> e, body |-> 0]]
              /\ UNCHANGED <<bodies, marking, raced>>
  BY DEF response_cache_get
<1>3. e \in Listed
  BY DEF Found, Listed
<1>4. CASE entry[e].stale
  BY <1>1, <1>2, <1>3, <1>4, StaleInv
<1>5. CASE ~entry[e].stale
  <2>1. /\ shard' = lru_push_head(lru_remove(shard, e), e)
        /\ entry' = [entry EXCEPT ![e].refs = @ + 1]
        /\ reader' = [reader EXCEPT ![r] = [pc |-> "holds", e |-> e, body |-> 0]]
        /\ bodies' = bodies /\ marking' = marking /\ raced' = raced
    BY <1>2, <1>5
  <2> QED
    BY <1>1, <1>3, <2>1, HitInv DEF Hit
<1> QED
  BY <1>4, <1>5

LEMMA SetInv ==
    ASSUME CacheInv, NEW k \in CacheKeys, NEW len \in Lens, response_cache_set(k, len)
    PROVE  CacheInv'
<1>1. Unlocked /\ sets < MaxSets /\ sets' = sets + 1 /\ reader' = reader /\ len \in Nat
  BY CacheAssumption DEF response_cache_set
<1>2. CASE Found(k) = {}
  BY <1>1, <1>2, InsertInv DEF response_cache_set
<1>3. CASE Found(k) # {}
  <2>1. PICK e \in Found(k) : Update(e, len)
    BY <1>3 DEF response_cache_set
  <2>2. e \in Listed /\ entry[e].key \in CacheKeys
    BY DEF Found, Listed
  <2> QED
    BY <1>1, <2>1, <2>2, UpdateInv
<1> QED
  BY <1>2, <1>3

LEMMA ReadBodyInv ==
    ASSUME CacheInv, NEW r \in Readers, ReadBody(r)
    PROVE  CacheInv'
<1> DEFINE own == entry[reader[r].e].body
           w == [pc |-> "writes", e |-> reader[r].e, body |-> own]
<1>0. /\ reader[r].pc = "holds" /\ shard' = shard /\ entry' = entry /\ bodies' = bodies /\ marking' = marking
      /\ sets' = sets /\ raced' = raced
  BY DEF ReadBody
<1>1. CacheTypes /\ EntriesMade /\ ListedAlive /\ BooksRight /\ RefsCount /\ DepartOnce
  BY DEF CacheInv
<1>2. reader[r] \in ReaderType /\ reader[r].e \in Entries /\ entry[reader[r].e].body \in Nat
  BY <1>0, <1>1 DEF CacheTypes, EntriesMade, EntryType
<1>3. reader' = [reader EXCEPT ![r] = w]
  BY DEF ReadBody
<1>4. w \in ReaderType /\ w.pc = "writes" /\ w.e = reader[r].e
  <2> HIDE DEF own
  <2> QED
    BY <1>2 DEF ReaderType, own
<1> HIDE DEF w
<1>5. /\ reader' \in [Readers -> ReaderType] /\ reader'[r] = w
      /\ \A s \in Readers : s # r => reader'[s] = reader[s]
      /\ \A x : Holds(x)' = (Holds(x) \ {r}) \cup {s \in {r} : w.pc \in {"holds", "writes"} /\ w.e = x}
      /\ \A x : Leaves(x)' = (Leaves(x) \ {r}) \cup {s \in {r} : w.pc = "last" /\ w.e = x}
  BY <1>1, <1>3, <1>4, ReaderMoves
<1>6. \A x : r \notin Leaves(x) /\ (r \in Holds(x) <=> reader[r].e = x)
  BY <1>0 DEF Holds, Leaves
<1>7. \A x : Leaves(x)' = Leaves(x) /\ Holds(x)' = Holds(x)
  BY <1>4, <1>5, <1>6
<1>8. CacheTypes' /\ Listed' = Listed /\ BooksRight' /\ ListedAlive'
  BY <1>0, <1>1, <1>5 DEF CacheTypes, Listed, BooksRight, ListedAlive
<1>9. EntriesMade'
  <2>1. ASSUME NEW s \in Readers, reader'[s].pc # "idle"
        PROVE  reader'[s].e \in Entries /\ entry'[reader'[s].e].st # "none"
    <3>1. entry[reader[r].e].st # "none"
      BY <1>0, <1>1 DEF EntriesMade
    <3>2. CASE s = r
      BY <1>0, <1>2, <1>4, <1>5, <3>1, <3>2
    <3>3. CASE s # r
      BY <1>0, <1>1, <1>5, <2>1, <3>3 DEF EntriesMade
    <3> QED
      BY <3>2, <3>3
  <2> QED
    BY <1>0, <1>1, <1>8, <2>1 DEF EntriesMade
<1>10. RefsCount'
  BY <1>0, <1>1, <1>7 DEF RefsCount
<1>11. DepartOnce'
  <2>1. \A x : Departs(x) => Departs(x)'
    BY <1>0, <1>7 DEF Departs
  <2> QED
    BY <1>0, <1>1, <1>8, <2>1 DEF DepartOnce
<1> QED
  BY <1>8, <1>9, <1>10, <1>11 DEF CacheInv

LEMMA ReleaseInv ==
    ASSUME CacheInv, NEW r \in Readers, Release(r)
    PROVE  CacheInv'
<1> DEFINE e == reader[r].e
           v == [entry[e] EXCEPT !.refs = entry[e].refs - 1]
           w == IF entry[e].refs <= 1 THEN [pc |-> "last", e |-> e, body |-> 0] ELSE Idle
<1>0. /\ reader[r].pc = "writes" /\ shard' = shard /\ bodies' = bodies /\ marking' = marking /\ sets' = sets
      /\ entry' = [entry EXCEPT ![e] = v] /\ reader' = [reader EXCEPT ![r] = w]
      /\ raced' = IF e \in marking THEN raced \cup {e} ELSE raced
  BY DEF Release
<1>1. CacheTypes /\ EntriesMade /\ ListedAlive /\ BooksRight /\ RefsCount /\ DepartOnce
  BY DEF CacheInv
<1>2. e \in Entries /\ entry[e] \in EntryType /\ entry[e].refs \in Nat /\ entry[e].st # "none" /\ e \in Nat
  <2>1. e \in Entries /\ entry[e].st # "none"
    BY <1>0, <1>1 DEF EntriesMade
  <2> HIDE DEF e
  <2>2. entry[e] \in EntryType /\ e \in Nat
    BY <1>1, <2>1 DEF CacheTypes, Entries
  <2>3. entry[e].refs \in Nat
    BY <2>2 DEF EntryType
  <2> QED
    BY <2>1, <2>2, <2>3
<1>3. r \in Holds(e) /\ \A x : r \notin Leaves(x) /\ (r \in Holds(x) => x = e)
  BY <1>0 DEF Holds, Leaves
<1>4. entry[e].refs = Cardinality(Holds(e))
  BY <1>1, <1>2 DEF RefsCount
<1>5. w \in ReaderType /\ w.pc \in {"idle", "last"} /\ (w.pc = "last" <=> entry[e].refs <= 1) /\ (w.pc = "last" => w.e = e)
  <2> HIDE DEF e
  <2> QED
    BY <1>2 DEF ReaderType, Idle
<1> HIDE DEF v, w, e
<1>6. Cardinality(Holds(e) \ {r}) = Cardinality(Holds(e)) - 1 /\ Cardinality(Holds(e) \ {r}) \in Nat
  BY <1>3, FewHold, FS_RemoveElement, FS_CardinalityType
<1>7. entry[e].refs >= 1 /\ entry[e].refs - 1 \in Nat
  BY <1>2, <1>4, <1>6
<1>8. /\ v \in EntryType /\ v.st = entry[e].st /\ v.body = entry[e].body /\ v.len = entry[e].len
      /\ v.status = entry[e].status /\ v.key = entry[e].key /\ v.refs = entry[e].refs - 1
  BY <1>2, <1>7, OtherRefs DEF v
<1>9. entry' \in [Entries -> EntryType] /\ entry'[e] = v /\ \A x \in Entries : x # e => entry'[x] = entry[x]
  BY <1>0, <1>1, <1>2, <1>8, OneEntry DEF CacheTypes
<1>10. /\ reader' \in [Readers -> ReaderType] /\ reader'[r] = w
       /\ \A s \in Readers : s # r => reader'[s] = reader[s]
       /\ \A x : Holds(x)' = (Holds(x) \ {r}) \cup {s \in {r} : w.pc \in {"holds", "writes"} /\ w.e = x}
       /\ \A x : Leaves(x)' = (Leaves(x) \ {r}) \cup {s \in {r} : w.pc = "last" /\ w.e = x}
  BY <1>0, <1>1, <1>5, ReaderMoves
<1>11. \A x : Holds(x)' = Holds(x) \ {r} /\ Leaves(x)' = Leaves(x) \cup {s \in {r} : w.pc = "last" /\ e = x}
  BY <1>3, <1>5, <1>10
<1>12. \A x \in Entries : /\ entry'[x].st = entry[x].st /\ entry'[x].body = entry[x].body /\ entry'[x].len = entry[x].len
                          /\ entry'[x].status = entry[x].status /\ entry'[x].key = entry[x].key
  BY <1>8, <1>9
<1>13. Listed' = Listed /\ Listed \in SUBSET Entries
  BY <1>0, <1>1, SetOf DEF Listed, CacheTypes
<1>14. BooksRight'
  <2>1. Books(shard, entry')
    BY <1>1, <1>12, <1>13, BooksKeep DEF BooksRight, Listed
  <2> QED
    BY <1>0, <1>1, <2>1 DEF BooksRight
<1>15. CacheTypes'
  BY <1>0, <1>1, <1>2, <1>9, <1>10 DEF CacheTypes
<1>16. raced \subseteq raced' /\ \A x \in raced' : x \in raced \/ (x = e /\ e \in marking)
  BY <1>0
<1>17. EntriesMade'
  <2>1. ASSUME NEW s \in Readers, reader'[s].pc # "idle"
        PROVE  reader'[s].e \in Entries /\ entry'[reader'[s].e].st # "none"
    <3>1. CASE s = r
      BY <1>2, <1>10, <1>12, <1>5, <2>1, <3>1
    <3>2. CASE s # r
      BY <1>1, <1>10, <1>12, <2>1, <3>2 DEF EntriesMade
    <3> QED
      BY <3>1, <3>2
  <2>2. \A x \in Entries : entry'[x].st = "none" => entry'[x] = NoEntry /\ x \notin Listed' /\ x \notin marking' /\ x \notin raced'
    BY <1>0, <1>1, <1>2, <1>9, <1>12, <1>13, <1>16 DEF EntriesMade
  <2>3. \A x \in Entries : entry'[x].st # "none" => x <= sets' /\ entry'[x].body \in 1 .. sets'
    BY <1>0, <1>1, <1>12 DEF EntriesMade
  <2>4. \A x, y \in Entries : entry'[x].st # "none" /\ entry'[y].st # "none" /\ entry'[x].body = entry'[y].body => x = y
    BY <1>1, <1>12 DEF EntriesMade
  <2> QED
    BY <2>1, <2>2, <2>3, <2>4 DEF EntriesMade
<1>18. ListedAlive'
  <2>1. \A x \in Listed : x \in Entries /\ x \notin raced'
    BY <1>1, <1>13, <1>16 DEF ListedAlive
  <2> QED
    BY <1>0, <1>1, <1>12, <1>13, <2>1 DEF ListedAlive
<1>19. RefsCount'
  <2> SUFFICES ASSUME NEW x \in Entries PROVE entry'[x].refs = Cardinality(Holds(x)')
    BY DEF RefsCount
  <2>1. CASE x = e
    BY <1>4, <1>6, <1>8, <1>9, <1>11, <2>1
  <2>2. CASE x # e
    <3>1. Holds(x)' = Holds(x)
      BY <1>3, <1>11, <2>2
    <3> QED
      BY <1>1, <1>9, <2>2, <3>1 DEF RefsCount
  <2> QED
    BY <2>1, <2>2
<1>20. DepartOnce'
  <2> SUFFICES ASSUME NEW x \in Entries, x \notin raced', x \notin Listed', entry'[x].st # "none" PROVE Departs(x)'
    BY DEF DepartOnce
  <2>1. x \notin raced /\ x \notin Listed /\ entry[x].st # "none"
    BY <1>12, <1>13, <1>16
  <2>2. Departs(x)
    BY <1>1, <2>1 DEF DepartOnce
  <2>3. CASE x = e
    <3>1. x \notin marking /\ x \notin marking'
      BY <1>0, <2>3
    <3>2. entry[x].refs \in Nat /\ entry[x].refs > 0 /\ entry'[x].refs = entry[x].refs - 1
      BY <1>2, <1>7, <1>8, <1>9, <2>3
    <3>3. entry[x].st # "freed" /\ entry[x].status = Tombstone /\ Leaves(x) = {}
      BY <2>2, <3>1, <3>2 DEF Departs
    <3>4. entry'[x].st # "freed" /\ entry'[x].status = Tombstone
      BY <1>12, <3>3
    <3>5. Leaves(x)' = {s \in {r} : w.pc = "last"}
      BY <1>11, <2>3, <3>3
    <3>6. CASE w.pc = "last"
      <4>1. Leaves(x)' = {r}
        BY <3>5, <3>6
      <4>2. entry'[x].refs = 0
        BY <1>5, <2>3, <3>2, <3>6
      <4> QED
        BY <3>1, <3>4, <4>1, <4>2 DEF Departs
    <3>7. CASE w.pc # "last"
      <4>1. Leaves(x)' = {}
        BY <3>5, <3>7
      <4>2. entry'[x].refs > 0
        BY <1>5, <2>3, <3>2, <3>7
      <4> QED
        BY <3>1, <3>4, <4>1, <4>2 DEF Departs
    <3> QED
      BY <3>6, <3>7
  <2>4. CASE x # e
    <3>1. Leaves(x)' = Leaves(x) /\ entry'[x] = entry[x]
      BY <1>9, <1>11, <2>4
    <3> QED
      BY <1>0, <2>2, <3>1 DEF Departs
  <2> QED
    BY <2>3, <2>4
<1> QED
  BY <1>14, <1>15, <1>17, <1>18, <1>19, <1>20 DEF CacheInv

LEMMA LastReaderInv ==
    ASSUME CacheInv, NEW r \in Readers, response_cache_release_entry(r)
    PROVE  CacheInv'
<1>1. CacheTypes /\ EntriesMade /\ ListedAlive /\ BooksRight /\ RefsCount /\ DepartOnce
  BY DEF CacheInv
<1>2. PICK e : e = reader[r].e
  OBVIOUS
<1> DEFINE marked == entry[e].status = Tombstone
<1>3. /\ reader[r].pc = "last" /\ reader' = [reader EXCEPT ![r] = Idle]
      /\ entry' = IF marked THEN [entry EXCEPT ![e] = Freed(entry[e])] ELSE entry
      /\ bodies' = IF marked THEN bodies \ {entry[e].body} ELSE bodies
      /\ shard' = shard /\ marking' = marking /\ sets' = sets /\ raced' = raced
  BY <1>2 DEF response_cache_release_entry
<1>4. e \in Entries /\ entry[e].st # "none"
  BY <1>1, <1>2, <1>3 DEF EntriesMade
<1>5. entry[e] \in EntryType
  BY <1>1, <1>4 DEF CacheTypes
<1>6. /\ Freed(entry[e]) \in EntryType /\ Freed(entry[e]).st = "freed" /\ Freed(entry[e]).body = entry[e].body
      /\ Freed(entry[e]).len = 0 /\ Freed(entry[e]).status = entry[e].status /\ Freed(entry[e]).refs = entry[e].refs
  BY <1>5, FreedIs
<1>7. r \in Leaves(e) /\ \A x : r \notin Holds(x) /\ (r \in Leaves(x) => x = e)
  BY <1>2, <1>3 DEF Holds, Leaves
<1>8. e \in Listed => ~marked
  BY <1>1 DEF ListedAlive, Tombstone
<1> HIDE DEF marked
<1>9. entry' \in [Entries -> EntryType]
      /\ (marked => entry'[e] = Freed(entry[e])) /\ (~marked => entry'[e] = entry[e])
      /\ \A x \in Entries : x # e => entry'[x] = entry[x]
  <2>1. CASE marked
    BY <1>1, <1>3, <1>4, <1>6, <2>1, OneEntry DEF CacheTypes
  <2>2. CASE ~marked
    BY <1>1, <1>3, <1>4, <2>2 DEF CacheTypes
  <2> QED
    BY <2>1, <2>2
<1>10. \A x \in Entries : /\ (entry'[x].st = "none" <=> entry[x].st = "none") /\ entry'[x].body = entry[x].body
                          /\ entry'[x].status = entry[x].status /\ entry'[x].refs = entry[x].refs
  BY <1>4, <1>6, <1>9
<1>11. Idle \in ReaderType /\ Idle.pc = "idle"
  BY DEF Idle, ReaderType
<1>12. /\ reader' \in [Readers -> ReaderType] /\ reader'[r] = Idle
       /\ \A s \in Readers : s # r => reader'[s] = reader[s]
       /\ \A x : Holds(x)' = (Holds(x) \ {r}) \cup {s \in {r} : Idle.pc \in {"holds", "writes"} /\ Idle.e = x}
       /\ \A x : Leaves(x)' = (Leaves(x) \ {r}) \cup {s \in {r} : Idle.pc = "last" /\ Idle.e = x}
  BY <1>1, <1>3, <1>11, ReaderMoves
<1>13. \A x : Holds(x)' = Holds(x) /\ Leaves(x)' = Leaves(x) \ {r}
  BY <1>7, <1>11, <1>12
<1>14. Listed' = Listed /\ Listed \in SUBSET Entries
  BY <1>1, <1>3, SetOf DEF Listed, CacheTypes
<1>15. \A x \in Listed : entry'[x] = entry[x] /\ x \in Entries
  BY <1>8, <1>9, <1>14
<1>16. BooksRight'
  <2>1. Books(shard, entry')
    BY <1>1, <1>15, BooksKeep DEF BooksRight, Listed
  <2> QED
    BY <1>1, <1>3, <2>1 DEF BooksRight
<1>17. CacheTypes'
  BY <1>1, <1>3, <1>9, <1>12 DEF CacheTypes
<1>18. EntriesMade'
  <2>1. ASSUME NEW s \in Readers, reader'[s].pc # "idle"
        PROVE  reader'[s].e \in Entries /\ entry'[reader'[s].e].st # "none"
    <3>1. s # r
      BY <1>11, <1>12, <2>1
    <3> QED
      BY <1>1, <1>10, <1>12, <2>1, <3>1 DEF EntriesMade
  <2>2. \A x \in Entries : entry'[x].st = "none" => entry'[x] = NoEntry /\ x \notin Listed' /\ x \notin marking' /\ x \notin raced'
    BY <1>1, <1>3, <1>4, <1>9, <1>10, <1>14 DEF EntriesMade
  <2>3. \A x \in Entries : entry'[x].st # "none" => x <= sets' /\ entry'[x].body \in 1 .. sets'
    BY <1>1, <1>3, <1>10 DEF EntriesMade
  <2>4. \A x, y \in Entries : entry'[x].st # "none" /\ entry'[y].st # "none" /\ entry'[x].body = entry'[y].body => x = y
    BY <1>1, <1>10 DEF EntriesMade
  <2> QED
    BY <2>1, <2>2, <2>3, <2>4 DEF EntriesMade
<1>19. ListedAlive'
  <2>1. ASSUME NEW x \in Listed PROVE entry[x].body \in bodies'
    <3>1. entry[x].body \in bodies /\ entry[x].st = "used" /\ x \in Entries
      BY <1>1, <1>15 DEF ListedAlive
    <3>2. CASE marked
      <4>1. entry[x].body # entry[e].body
        BY <1>1, <1>4, <1>8, <3>1, <3>2 DEF EntriesMade
      <4> QED
        BY <1>3, <3>1, <3>2, <4>1
    <3>3. CASE ~marked
      BY <1>3, <3>1, <3>3
    <3> QED
      BY <3>2, <3>3
  <2> QED
    BY <1>1, <1>3, <1>14, <1>15, <2>1 DEF ListedAlive
<1>20. RefsCount'
  BY <1>1, <1>10, <1>13 DEF RefsCount
<1>21. DepartOnce'
  <2> SUFFICES ASSUME NEW x \in Entries, x \notin raced', x \notin Listed', entry'[x].st # "none" PROVE Departs(x)'
    BY DEF DepartOnce
  <2>1. x \notin raced /\ x \notin Listed /\ entry[x].st # "none"
    BY <1>3, <1>10, <1>14
  <2>2. Departs(x)
    BY <1>1, <2>1 DEF DepartOnce
  <2>3. CASE x = e
    <3>1. x \notin marking /\ entry[x].st # "freed" /\ entry[x].status = Tombstone /\ entry[x].refs = 0
          /\ \E s \in Readers : Leaves(x) = {s}
      BY <1>7, <2>2, <2>3 DEF Departs
    <3>2. entry'[x].st = "freed" /\ entry'[x].refs = 0
      BY <1>6, <1>9, <2>3, <3>1 DEF marked
    <3>3. Leaves(x)' = {}
      BY <1>7, <1>13, <2>3, <3>1
    <3>4. x \notin marking'
      BY <1>3, <3>1
    <3> QED
      BY <3>2, <3>3, <3>4 DEF Departs
  <2>4. CASE x # e
    <3>1. Leaves(x)' = Leaves(x) /\ entry'[x] = entry[x] /\ marking' = marking
      BY <1>3, <1>7, <1>9, <1>13, <2>4
    <3> QED
      BY <2>2, <3>1 DEF Departs
  <2> QED
    BY <2>3, <2>4
<1> QED
  BY <1>16, <1>17, <1>18, <1>19, <1>20, <1>21 DEF CacheInv

\* A mark and the passing of time change one field of one entry.
LEMMA MarkInv ==
    ASSUME CacheInv, NEW e \in Entries, Mark(e)
    PROVE  CacheInv'
<1> DEFINE v == [entry[e] EXCEPT !.status = Tombstone]
<1>0. /\ e \in marking /\ marking' = marking \ {e} /\ entry' = [entry EXCEPT ![e] = v]
      /\ shard' = shard /\ bodies' = bodies /\ reader' = reader /\ sets' = sets /\ raced' = raced
  BY DEF Mark
<1>1. CacheTypes /\ EntriesMade /\ ListedAlive /\ BooksRight /\ RefsCount /\ DepartOnce
  BY DEF CacheInv
<1>2. entry[e] \in EntryType /\ entry[e].st # "none" /\ e \notin Listed
  BY <1>0, <1>1 DEF CacheTypes, EntriesMade, ListedAlive
<1>3. /\ v \in EntryType /\ v.st = entry[e].st /\ v.body = entry[e].body /\ v.status = Tombstone /\ v.refs = entry[e].refs
  BY <1>2 DEF EntryType, Tombstone
<1> HIDE DEF v
<1>4. entry' \in [Entries -> EntryType] /\ entry'[e] = v /\ \A x \in Entries : x # e => entry'[x] = entry[x]
  BY <1>0, <1>1, <1>3, OneEntry DEF CacheTypes
<1>5. \A x : Holds(x)' = Holds(x) /\ Leaves(x)' = Leaves(x)
  BY <1>0, ReadersStay
<1>6. \A x \in Entries : entry'[x].st = entry[x].st /\ entry'[x].body = entry[x].body /\ entry'[x].refs = entry[x].refs
  BY <1>3, <1>4
<1>7. Listed' = Listed /\ \A x \in Listed : entry'[x] = entry[x] /\ x \in Entries
  BY <1>0, <1>1, <1>2, <1>4, SetOf DEF Listed, CacheTypes
<1>8. BooksRight'
  <2>1. Books(shard, entry')
    BY <1>1, <1>7, BooksKeep DEF BooksRight, Listed
  <2> QED
    BY <1>0, <1>1, <2>1 DEF BooksRight
<1>9. CacheTypes' /\ RefsCount' /\ ListedAlive'
  BY <1>0, <1>1, <1>4, <1>5, <1>6, <1>7 DEF CacheTypes, RefsCount, ListedAlive
<1>10. EntriesMade'
  <2>1. \A r \in Readers : reader'[r].pc # "idle" => reader'[r].e \in Entries /\ entry'[reader'[r].e].st # "none"
    BY <1>0, <1>1, <1>6 DEF EntriesMade
  <2>2. \A x \in Entries : entry'[x].st = "none" => entry'[x] = NoEntry /\ x \notin Listed' /\ x \notin marking' /\ x \notin raced'
    BY <1>0, <1>1, <1>2, <1>4, <1>6, <1>7 DEF EntriesMade
  <2> QED
    BY <1>0, <1>1, <1>6, <2>1, <2>2 DEF EntriesMade
<1>11. DepartOnce'
  <2> SUFFICES ASSUME NEW x \in Entries, x \notin raced', x \notin Listed', entry'[x].st # "none" PROVE Departs(x)'
    BY DEF DepartOnce
  <2>1. Departs(x)
    BY <1>0, <1>1, <1>6, <1>7 DEF DepartOnce
  <2>2. CASE x = e
    <3>1. entry[x].st = "used" /\ entry[x].refs > 0 /\ Leaves(x) = {}
      BY <1>0, <2>1, <2>2 DEF Departs
    <3>2. entry'[x].st = "used" /\ entry'[x].refs > 0 /\ entry'[x].status = Tombstone /\ x \notin marking'
      BY <1>0, <1>3, <1>4, <1>6, <2>2, <3>1
    <3> QED
      BY <1>5, <3>1, <3>2 DEF Departs
  <2>3. CASE x # e
    BY <1>0, <1>4, <1>5, <2>1, <2>3 DEF Departs
  <2> QED
    BY <2>2, <2>3
<1> QED
  BY <1>8, <1>9, <1>10, <1>11 DEF CacheInv

LEMMA ExpireInv ==
    ASSUME CacheInv, NEW e \in Entries, Expire(e)
    PROVE  CacheInv'
<1> DEFINE v == [entry[e] EXCEPT !.stale = TRUE]
<1>0. /\ e \in Listed /\ marking' = marking /\ entry' = [entry EXCEPT ![e] = v]
      /\ shard' = shard /\ bodies' = bodies /\ reader' = reader /\ sets' = sets /\ raced' = raced
  BY DEF Expire, Listed
<1>1. CacheTypes /\ EntriesMade /\ ListedAlive /\ BooksRight /\ RefsCount /\ DepartOnce
  BY DEF CacheInv
<1>2. entry[e] \in EntryType /\ entry[e].st = "used"
  BY <1>0, <1>1 DEF CacheTypes, ListedAlive
<1>3. /\ v \in EntryType /\ v.st = entry[e].st /\ v.body = entry[e].body /\ v.status = entry[e].status
      /\ v.refs = entry[e].refs /\ v.key = entry[e].key /\ v.len = entry[e].len
  BY <1>2 DEF EntryType
<1> HIDE DEF v
<1>4. entry' \in [Entries -> EntryType] /\ entry'[e] = v /\ \A x \in Entries : x # e => entry'[x] = entry[x]
  BY <1>0, <1>1, <1>3, OneEntry DEF CacheTypes
<1>5. \A x : Holds(x)' = Holds(x) /\ Leaves(x)' = Leaves(x)
  BY <1>0, ReadersStay
<1>6. \A x \in Entries : /\ entry'[x].st = entry[x].st /\ entry'[x].body = entry[x].body /\ entry'[x].status = entry[x].status
                         /\ entry'[x].refs = entry[x].refs /\ entry'[x].key = entry[x].key /\ entry'[x].len = entry[x].len
  BY <1>3, <1>4
<1>7. Listed' = Listed /\ \A x \in Listed : x \in Entries
  BY <1>0, <1>1, SetOf DEF Listed, CacheTypes
<1>8. BooksRight'
  <2>1. Books(shard, entry')
    BY <1>1, <1>6, <1>7, BooksKeep DEF BooksRight, Listed
  <2> QED
    BY <1>0, <1>1, <2>1 DEF BooksRight
<1>9. CacheTypes' /\ RefsCount' /\ ListedAlive'
  BY <1>0, <1>1, <1>4, <1>5, <1>6, <1>7 DEF CacheTypes, RefsCount, ListedAlive
<1>10. EntriesMade'
  <2>1. \A r \in Readers : reader'[r].pc # "idle" => reader'[r].e \in Entries /\ entry'[reader'[r].e].st # "none"
    BY <1>0, <1>1, <1>6 DEF EntriesMade
  <2>2. \A x \in Entries : entry'[x].st = "none" => entry'[x] = NoEntry /\ x \notin Listed' /\ x \notin marking' /\ x \notin raced'
    BY <1>0, <1>1, <1>2, <1>4, <1>6, <1>7 DEF EntriesMade
  <2> QED
    BY <1>0, <1>1, <1>6, <2>1, <2>2 DEF EntriesMade
<1>11. DepartOnce'
  BY <1>0, <1>1, <1>5, <1>6, <1>7 DEF DepartOnce, Departs
<1> QED
  BY <1>8, <1>9, <1>10, <1>11 DEF CacheInv

LEMMA CacheStutters ==
    ASSUME CacheInv, UNCHANGED cacheVars
    PROVE  CacheInv'
<1>1. shard' = shard /\ entry' = entry /\ bodies' = bodies /\ marking' = marking /\ reader' = reader
      /\ sets' = sets /\ raced' = raced
  BY DEF cacheVars
<1>2. Listed' = Listed /\ \A x : Holds(x)' = Holds(x) /\ Leaves(x)' = Leaves(x)
  BY <1>1 DEF Listed, Holds, Leaves
<1>3. DepartOnce'
  BY <1>1, <1>2 DEF CacheInv, DepartOnce, Departs
<1> QED
  BY <1>1, <1>2, <1>3 DEF CacheInv, CacheTypes, EntriesMade, ListedAlive, BooksRight, RefsCount

LEMMA EmptyCache ==
    ASSUME CacheInit
    PROVE  CacheInv
<1>1. /\ shard = [list |-> <<>>, count |-> 0, bytes |-> 0] /\ entry = [e \in Entries |-> NoEntry]
      /\ bodies = {} /\ marking = {} /\ raced = {} /\ reader = [r \in Readers |-> Idle] /\ sets = 0
  BY DEF CacheInit
<1>2. NoEntry \in EntryType /\ NoEntry.st = "none" /\ NoEntry.refs = 0
  BY DEF NoEntry, EntryType
<1>3. Idle \in ReaderType /\ Idle.pc = "idle"
  BY DEF Idle, ReaderType
<1>4. <<>> \in Seq(Entries) /\ Len(<<>>) = 0 /\ ToSet(<<>>) = {}
  BY DEF ToSet
<1>5. /\ \A e \in Entries : entry[e] = NoEntry
      /\ \A r \in Readers : reader[r] = Idle
  BY <1>1
<1>6. Listed = {} /\ \A e : Holds(e) = {} /\ Leaves(e) = {}
  BY <1>1, <1>3, <1>4, <1>5 DEF Listed, Holds, Leaves
<1>7. CacheTypes
  BY <1>1, <1>2, <1>3, <1>4, CacheAssumption DEF CacheTypes
<1>8. BooksRight
  <2> DEFINE w == Weights(<<>>, entry)
  <2>1. w \in [Entries -> Nat] /\ \A e \in Entries : w[e] = 0
    BY <1>4 DEF Weights
  <2> HIDE DEF w
  <2>2. SumOf(w) = 0
    <3>0. MaxSets \in Nat /\ Entries = 1 .. MaxSets /\ MaxSets \in 0 .. MaxSets
      BY CacheAssumption DEF Entries
    <3>1. PICK f \in [0 .. MaxSets -> Nat] : Adds(f, w) /\ SumOf(w) = f[MaxSets]
      BY <2>1, SumIs
    <3> DEFINE T == {m \in Nat : m <= MaxSets => f[m] = 0}
    <3>2. 0 \in T
      BY <3>0, <3>1 DEF Adds
    <3>3. ASSUME NEW m \in T PROVE m + 1 \in T
      <4>1. m \in Nat /\ (m <= MaxSets => f[m] = 0)
        OBVIOUS
      <4>2. ASSUME m + 1 <= MaxSets PROVE f[m + 1] = 0
        <5>1. m + 1 \in 0 .. MaxSets /\ m + 1 # 0 /\ (m + 1) - 1 = m /\ m <= MaxSets /\ m + 1 \in Entries
          BY <3>0, <4>1, <4>2
        <5>2. f[m + 1] = f[m] + w[m + 1]
          BY <3>1, <5>1 DEF Adds
        <5> QED
          BY <2>1, <4>1, <5>1, <5>2
      <4> QED
        BY <4>1, <4>2
    <3>4. T = Nat
      <4>1. T \in SUBSET Nat
        OBVIOUS
      <4> HIDE DEF T
      <4> QED
        BY <3>2, <3>3, <4>1, AllNumbers, Zenon
    <3> QED
      BY <3>0, <3>1, <3>4
  <2>3. Distinct(<<>>)
    BY <1>4 DEF Distinct
  <2>4. shard.list = <<>> /\ shard.count = 0 /\ shard.bytes = 0
        /\ shard \in [list : Seq(Entries), count : Nat, bytes : Nat]
    BY <1>1, <1>4
  <2> QED
    BY <1>4, <2>2, <2>3, <2>4, CacheAssumption DEF BooksRight, Books, w
<1>9. EntriesMade
  BY <1>1, <1>2, <1>3, <1>5, <1>6 DEF EntriesMade
<1>10. ListedAlive /\ DepartOnce
  BY <1>2, <1>5, <1>6 DEF ListedAlive, DepartOnce
<1>11. RefsCount
  BY <1>2, <1>5, <1>6, NobodyHolds DEF RefsCount
<1> QED
  BY <1>7, <1>8, <1>9, <1>10, <1>11 DEF CacheInv

LEMMA CacheKeeps ==
    ASSUME CacheInv, CacheNext
    PROVE  CacheInv'
<1>1. CASE \E k \in CacheKeys : \E r \in Readers : response_cache_get(r, k)
  BY <1>1, GetInv
<1>2. CASE \E k \in CacheKeys : \E len \in Lens : response_cache_set(k, len)
  BY <1>2, SetInv
<1>3. CASE \E r \in Readers : ReadBody(r)
  BY <1>3, ReadBodyInv
<1>4. CASE \E r \in Readers : Release(r)
  BY <1>4, ReleaseInv
<1>5. CASE \E r \in Readers : response_cache_release_entry(r)
  BY <1>5, LastReaderInv
<1>6. CASE \E ms \in {Models} \cup {{m} : m \in Models} : response_cache_purge(ms)
  BY <1>6, PurgeInv
<1>7. CASE \E e \in Entries : Mark(e)
  BY <1>7, MarkInv
<1>8. CASE \E e \in Entries : Expire(e)
  BY <1>8, ExpireInv
<1> QED
  BY <1>1, <1>2, <1>3, <1>4, <1>5, <1>6, <1>7, <1>8 DEF CacheNext

LEMMA CacheIsInductive == CacheSpec => []CacheInv
<1>1. CacheInv /\ [CacheNext]_cacheVars => CacheInv'
  BY CacheKeeps, CacheStutters
<1> QED
  BY <1>1, EmptyCache, PTL DEF CacheSpec

-----------------------------------------------------------------------------
(* What the cache promises                                                   *)

LEMMA OneForEach ==
    ASSUME NEW l \in Seq(Entries), Distinct(l)
    PROVE  Cardinality(ToSet(l)) = Len(l)
<1>1. Len(l) \in Nat /\ DOMAIN l = 1 .. Len(l) /\ ToSet(l) = {l[i] : i \in 1 .. Len(l)}
  BY SetOf, LenProperties
<1>2. l \in [1 .. Len(l) -> ToSet(l)]
  <2>1. l = [i \in 1 .. Len(l) |-> l[i]]
    BY <1>1, LenProperties
  <2>2. \A i \in 1 .. Len(l) : l[i] \in ToSet(l)
    BY <1>1
  <2> QED
    BY <2>1, <2>2
<1>3. l \in Bijection(1 .. Len(l), ToSet(l))
  BY <1>1, <1>2 DEF Distinct, Bijection, Injection, IsInjective, Surjection
<1>4. ExistsBijection(1 .. Len(l), ToSet(l))
  BY <1>3 DEF ExistsBijection
<1> QED
  BY <1>1, <1>4, FS_CountingElements

\* The books of a shard of policy/response_cache.c: count and bytes_used are those of the entries in
\* it, within max_count, and these are alive, unmarked and one for each key, after any number of
\* insertions with their evictions, replacements, expiries and purges, with any number of readers.
THEOREM ShardIsAccounted == CacheSpec => []ShardAccounted
<1>1. CacheInv => ShardAccounted
  <2> SUFFICES ASSUME CacheInv PROVE ShardAccounted
    OBVIOUS
  <2>1. CacheTypes /\ ListedAlive /\ BooksRight
    BY DEF CacheInv
  <2>2. \A e \in Listed : entry[e].st = "used" /\ entry[e].status = 200 /\ entry[e].body \in bodies
    BY <2>1 DEF ListedAlive
  <2>3. \A e, f \in Listed : entry[e].key = entry[f].key => e = f
    BY <2>1 DEF ListedAlive
  <2>4. shard.count = Len(shard.list) /\ shard.count = Cardinality(Listed) /\ shard.count <= MaxCount
    BY <2>1, OneForEach DEF BooksRight, Books, Listed
  <2>5. shard.bytes = SumOf([e \in Entries |-> IF e \in Listed THEN entry[e].len ELSE 0])
    BY <2>1 DEF BooksRight, Books, Listed, Weights
  <2> QED
    BY <2>2, <2>3, <2>4, <2>5 DEF ShardAccounted, Listed
<1> QED
  BY <1>1, CacheIsInductive, PTL

\* Reference counting of policy/response_cache.c: an entry that readers hold is not freed, its count
\* is their number, and one that left the shard is freed by its last reader, whatever the other
\* threads do; entries whose last reader was overtaken between its two steps are excepted.
THEOREM HeldEntriesLive == CacheSpec => []HeldEntryAlive
<1>1. CacheInv => HeldEntryAlive
  <2> SUFFICES ASSUME CacheInv PROVE HeldEntryAlive
    OBVIOUS
  <2> DEFINE at(x, pcs) == {r \in Readers : reader[r].pc \in pcs /\ reader[r].e = x}
  <2>1. CacheTypes /\ EntriesMade /\ ListedAlive /\ RefsCount /\ DepartOnce
    BY DEF CacheInv
  <2>2. ASSUME NEW e \in Entries, e \notin raced
        PROVE  /\ entry[e].refs = Cardinality(at(e, {"holds", "writes"}))
               /\ at(e, {"holds", "writes"}) # {} => entry[e].st = "used"
               /\ entry[e].st = "used" /\ e \notin ToSet(shard.list) /\ e \notin marking =>
                    at(e, {"holds", "writes", "last"}) # {}
    <3>1. at(e, {"holds", "writes"}) = Holds(e)
      BY DEF Holds
    <3>2. at(e, {"holds", "writes", "last"}) = Holds(e) \cup Leaves(e)
      BY DEF Holds, Leaves
    <3> HIDE DEF at
    <3>3. entry[e].refs = Cardinality(Holds(e)) /\ entry[e].refs \in Nat
      BY <2>1, FewHold DEF RefsCount
    <3>4. Holds(e) # {} => entry[e].refs # 0
      BY <3>3, FewHold, FS_EmptySet
    <3>5. Holds(e) # {} => entry[e].st # "none"
      BY <2>1 DEF EntriesMade, Holds
    <3>6. entry[e].st \in {"none", "used", "freed"}
      BY <2>1 DEF CacheTypes, EntryType
    <3>7. ASSUME Holds(e) # {} PROVE entry[e].st = "used"
      <4>1. CASE e \in Listed
        BY <2>1, <4>1 DEF ListedAlive
      <4>2. CASE e \notin Listed
        <5>1. Departs(e)
          BY <2>1, <2>2, <3>5, <3>7, <4>2 DEF DepartOnce
        <5> QED
          BY <3>4, <3>5, <3>6, <3>7, <5>1 DEF Departs
      <4> QED
        BY <4>1, <4>2
    <3>8. ASSUME entry[e].st = "used", e \notin Listed, e \notin marking PROVE Holds(e) \cup Leaves(e) # {}
      <4>1. Departs(e)
        BY <2>1, <2>2, <3>8 DEF DepartOnce
      <4>2. entry[e].refs > 0 \/ \E r \in Readers : Leaves(e) = {r}
        BY <3>8, <4>1 DEF Departs
      <4> QED
        BY <3>3, <4>2, NobodyHolds
    <3> QED
      BY <3>1, <3>2, <3>3, <3>7, <3>8 DEF Listed
  <2> QED
    BY <2>2 DEF HeldEntryAlive
<1> QED
  BY <1>1, CacheIsInductive, PTL

=============================================================================
