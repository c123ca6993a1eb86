---------------------------- MODULE RecordsProofs ----------------------------
(***************************************************************************)
(* The key cache and the route cache follow the store (Records). The       *)
(* invariant says of every entry of a cache what CachesFollow says of it,  *)
(* and besides: no two entries have one key, so that the entry a lookup    *)
(* finds is the entry; a thread between its two calls works on a name that *)
(* exists; and a row of api_keys is never removed, so that a hash that was *)
(* found absent, when it was presented, is nobody's.                       *)
(***************************************************************************)
EXTENDS Records, SequenceTheorems, TLAPS

-----------------------------------------------------------------------------
(* The LRU map                                                               *)

Unique(s) == \A i, j \in 1 .. Len(s) : s[i].key = s[j].key => i = j

\* The map s has the entry e.
Entry(s, e) == \E i \in 1 .. Len(s) : s[i] = e

LEMMA Removed ==
    ASSUME NEW S, NEW s \in Seq(S), NEW i \in 1 .. Len(s)
    PROVE  /\ RemoveAt(s, i) \in Seq(S) /\ Len(RemoveAt(s, i)) = Len(s) - 1
           /\ \A j \in 1 .. Len(s) - 1 : RemoveAt(s, i)[j] = IF j < i THEN s[j] ELSE s[j + 1]
<1> DEFINE a == SubSeq(s, 1, i - 1)
           b == SubSeq(s, i + 1, Len(s))
<1>1. Len(s) \in Nat
  BY LenProperties
<1>2. /\ a \in Seq(S) /\ Len(a) = i - 1 /\ \A j \in 1 .. i - 1 : a[j] = s[j]
  BY <1>1, SubSeqProperties
<1>3. /\ b \in Seq(S) /\ Len(b) = Len(s) - i /\ \A j \in 1 .. Len(s) - i : b[j] = s[i + j]
  BY <1>1, SubSeqProperties
<1>4. RemoveAt(s, i) = a \o b
  BY DEF RemoveAt
<1> HIDE DEF a, b
<1>5. /\ a \o b \in Seq(S) /\ Len(a \o b) = Len(a) + Len(b)
      /\ \A j \in 1 .. Len(a) + Len(b) : (a \o b)[j] = IF j <= Len(a) THEN a[j] ELSE b[j - Len(a)]
  BY <1>2, <1>3, ConcatProperties
<1>6. ASSUME NEW j \in 1 .. Len(s) - 1 PROVE (a \o b)[j] = IF j < i THEN s[j] ELSE s[j + 1]
  <2>1. CASE j < i
    BY <1>1, <1>2, <1>3, <1>5, <2>1
  <2>2. CASE ~(j < i)
    <3>1. (a \o b)[j] = b[j - (i - 1)]
      BY <1>1, <1>2, <1>3, <1>5, <2>2
    <3>2. j - (i - 1) \in 1 .. Len(s) - i /\ i + (j - (i - 1)) = j + 1
      BY <1>1, <2>2
    <3> QED
      BY <1>3, <2>2, <3>1, <3>2
  <2> QED
    BY <2>1, <2>2
<1> QED
  BY <1>1, <1>2, <1>3, <1>4, <1>5, <1>6

LEMMA IndexFacts ==
    ASSUME NEW S, NEW s \in Seq(S), NEW k
    PROVE  /\ LruHas(s, k) <=> \E i \in 1 .. Len(s) : s[i].key = k
           /\ LruHas(s, k) => LruIndex(s, k) \in 1 .. Len(s) /\ s[LruIndex(s, k)].key = k
<1>1. DOMAIN s = 1 .. Len(s)
  BY LenProperties
<1> QED
  BY <1>1 DEF LruHas, LruKeys, LruIndex

LEMMA DropFacts ==
    ASSUME NEW S, NEW s \in Seq(S), Unique(s), NEW k
    PROVE  /\ LruDrop(s, k) \in Seq(S) /\ Unique(LruDrop(s, k)) /\ Len(LruDrop(s, k)) <= Len(s)
           /\ \A e : Entry(LruDrop(s, k), e) <=> Entry(s, e) /\ e.key # k
<1> DEFINE i == LruIndex(s, k)
           d == LruDrop(s, k)
<1>0. Len(s) \in Nat
  BY LenProperties
<1>1. CASE ~LruHas(s, k)
  <2>1. d = s /\ \A j \in 1 .. Len(s) : s[j].key # k
    BY <1>1, IndexFacts DEF LruDrop
  <2> QED
    BY <1>0, <2>1 DEF Entry
<1>2. CASE LruHas(s, k)
  <2>1. d = RemoveAt(s, i) /\ i \in 1 .. Len(s) /\ s[i].key = k
    BY <1>2, IndexFacts DEF LruDrop
  <2> HIDE DEF i
  <2>2. /\ d \in Seq(S) /\ Len(d) = Len(s) - 1
        /\ \A j \in 1 .. Len(s) - 1 : d[j] = IF j < i THEN s[j] ELSE s[j + 1]
    BY <2>1, Removed
  <2> HIDE DEF d
  <2>3. Unique(d)
    <3> SUFFICES ASSUME NEW x \in 1 .. Len(s) - 1, NEW y \in 1 .. Len(s) - 1, d[x].key = d[y].key PROVE x = y
      BY <2>2 DEF Unique
    <3>1. \E a \in 1 .. Len(s) : d[x] = s[a] /\ a = IF x < i THEN x ELSE x + 1
      BY <1>0, <2>1, <2>2
    <3>2. \E a \in 1 .. Len(s) : d[y] = s[a] /\ a = IF y < i THEN y ELSE y + 1
      BY <1>0, <2>1, <2>2
    <3>3. (IF x < i THEN x ELSE x + 1) = (IF y < i THEN y ELSE y + 1)
      BY <3>1, <3>2 DEF Unique
    <3> QED
      BY <1>0, <2>1, <3>3
  <2>4. ASSUME NEW e, Entry(d, e) PROVE Entry(s, e) /\ e.key # k
    <3>1. PICK x \in 1 .. Len(s) - 1 : d[x] = e
      BY <2>2, <2>4 DEF Entry
    <3> DEFINE a == IF x < i THEN x ELSE x + 1
    <3>2. a \in 1 .. Len(s) /\ a # i /\ s[a] = e
      BY <1>0, <2>1, <2>2, <3>1
    <3> QED
      BY <2>1, <3>2 DEF Entry, Unique
  <2>5. ASSUME NEW e, Entry(s, e), e.key # k PROVE Entry(d, e)
    <3>1. PICK a \in 1 .. Len(s) : s[a] = e
      BY <2>5 DEF Entry
    <3>2. a # i
      BY <2>1, <2>5, <3>1
    <3> DEFINE x == IF a < i THEN a ELSE a - 1
    <3>3. x \in 1 .. Len(s) - 1 /\ d[x] = e
      BY <1>0, <2>1, <2>2, <3>1, <3>2
    <3> QED
      BY <2>2, <3>3 DEF Entry
  <2>6. Len(d) <= Len(s)
    BY <1>0, <2>2
  <2> QED
    BY <2>2, <2>3, <2>4, <2>5, <2>6 DEF d
<1> QED
  BY <1>1, <1>2

\* An entry in front of a map that has none for its key.
LEMMA FrontFacts ==
    ASSUME NEW S, NEW s \in Seq(S), NEW e \in S, Unique(s), \A i \in 1 .. Len(s) : s[i].key # e.key
    PROVE  /\ <<e>> \o s \in Seq(S) /\ Unique(<<e>> \o s) /\ Len(<<e>> \o s) = Len(s) + 1
           /\ \A f : Entry(<<e>> \o s, f) <=> f = e \/ Entry(s, f)
<1> DEFINE o == <<e>>
           c == o \o s
<1>1. o \in Seq(S) /\ Len(o) = 1 /\ o[1] = e /\ Len(s) \in Nat
  BY LenProperties
<1> HIDE DEF o
<1>2. /\ c \in Seq(S) /\ Len(c) = Len(o) + Len(s)
      /\ \A j \in 1 .. Len(o) + Len(s) : c[j] = IF j <= Len(o) THEN o[j] ELSE s[j - Len(o)]
  BY <1>1, ConcatProperties
<1> HIDE DEF c
<1>3. Len(c) = Len(s) + 1 /\ c[1] = e /\ \A j \in 1 .. Len(s) : c[j + 1] = s[j]
  BY <1>1, <1>2
<1>4. \A j \in 1 .. Len(c) : j = 1 \/ (j - 1 \in 1 .. Len(s) /\ c[j] = s[j - 1])
  BY <1>1, <1>2
<1>5. Unique(c)
  <2> SUFFICES ASSUME NEW x \in 1 .. Len(c), NEW y \in 1 .. Len(c), c[x].key = c[y].key PROVE x = y
    BY DEF Unique
  <2>1. CASE x = 1 /\ y = 1
    BY <2>1
  <2>2. CASE x = 1 /\ y # 1
    BY <1>3, <1>4, <2>2
  <2>3. CASE x # 1 /\ y = 1
    BY <1>3, <1>4, <2>3
  <2>4. CASE x # 1 /\ y # 1
    <3>0. x - 1 \in 1 .. Len(s) /\ y - 1 \in 1 .. Len(s) /\ s[x - 1].key = s[y - 1].key
      BY <1>4, <2>4
    <3>1. x - 1 = y - 1
      BY <3>0, Zenon DEF Unique
    <3> QED
      BY <1>1, <1>2, <3>1
  <2> QED
    BY <2>1, <2>2, <2>3, <2>4
<1>6. ASSUME NEW f, Entry(c, f) PROVE f = e \/ Entry(s, f)
  BY <1>3, <1>4, <1>6 DEF Entry
<1>7. ASSUME NEW f, f = e PROVE Entry(c, f)
  BY <1>1, <1>3, <1>7 DEF Entry
<1>8. ASSUME NEW f, Entry(s, f) PROVE Entry(c, f)
  <2>1. PICK j \in 1 .. Len(s) : s[j] = f
    BY <1>8 DEF Entry
  <2>2. j + 1 \in 1 .. Len(c) /\ c[j + 1] = f
    BY <1>1, <1>3, <2>1
  <2> QED
    BY <2>2 DEF Entry
<1> QED
  BY <1>2, <1>3, <1>5, <1>6, <1>7, <1>8 DEF c, o

\* A lookup finds the entry of the key.
LEMMA ValueFacts ==
    ASSUME NEW S, NEW s \in Seq(S), Unique(s), NEW e, Entry(s, e)
    PROVE  LruHas(s, e.key) /\ LruValue(s, e.key) = e.val
<1>1. PICK j \in 1 .. Len(s) : s[j] = e
  BY DEF Entry
<1>2. LruHas(s, e.key)
  BY <1>1, IndexFacts
<1>3. LruIndex(s, e.key) \in 1 .. Len(s) /\ s[LruIndex(s, e.key)].key = e.key
  BY <1>2, IndexFacts
<1>4. LruIndex(s, e.key) = j
  BY <1>1, <1>3 DEF Unique
<1> QED
  BY <1>1, <1>2, <1>4 DEF LruValue

LEMMA KeysFacts ==
    ASSUME NEW S, NEW s \in Seq(S), Unique(s), NEW k \in LruKeys(s)
    PROVE  \E e \in S : Entry(s, e) /\ e.key = k /\ LruValue(s, k) = e.val
<1> DEFINE i == LruIndex(s, k)
<1>1. i \in 1 .. Len(s) /\ s[i].key = k
  BY IndexFacts DEF LruHas
<1>2. s[i] \in S
  BY <1>1, ElementOfSeq
<1> QED
  BY <1>1, <1>2 DEF Entry, LruValue

\* A hit changes the order of the entries and nothing else.
LEMMA GetFacts ==
    ASSUME NEW K, NEW V, NEW s \in Seq([key : K, val : V]), Unique(s), NEW k
    PROVE  /\ LruGet(s, k) \in Seq([key : K, val : V]) /\ Unique(LruGet(s, k))
           /\ \A e : Entry(LruGet(s, k), e) <=> Entry(s, e)
<1> DEFINE S == [key : K, val : V]
           i == LruIndex(s, k)
           e == [key |-> k, val |-> LruValue(s, k)]
           d == LruDrop(s, k)
<1>1. CASE ~LruHas(s, k)
  BY <1>1 DEF LruGet
<1>2. CASE LruHas(s, k)
  <2>1. i \in 1 .. Len(s) /\ s[i].key = k /\ s[i] \in S
    BY <1>2, IndexFacts, ElementOfSeq
  <2>2. e = s[i]
    BY <2>1 DEF LruValue
  <2>3. e \in S /\ e.key = k /\ Entry(s, e)
    BY <2>1, <2>2 DEF Entry
  <2>4. /\ d \in Seq(S) /\ Unique(d)
        /\ \A f : Entry(d, f) <=> Entry(s, f) /\ f.key # k
    BY DropFacts
  <2>5. \A j \in 1 .. Len(d) : d[j].key # e.key
    BY <2>3, <2>4 DEF Entry
  <2>6. LruGet(s, k) = <<e>> \o d
    BY <1>2 DEF LruGet
  <2> HIDE DEF e, d
  <2>7. /\ <<e>> \o d \in Seq(S) /\ Unique(<<e>> \o d)
        /\ \A f : Entry(<<e>> \o d, f) <=> f = e \/ Entry(d, f)
    BY <2>3, <2>4, <2>5, FrontFacts
  <2>8. ASSUME NEW f, Entry(s, f), f.key = k PROVE f = e
    <3>1. PICK j \in 1 .. Len(s) : s[j] = f
      BY <2>8 DEF Entry
    <3>2. j = i
      BY <2>1, <2>8, <3>1 DEF Unique
    <3> QED
      BY <2>2, <3>1, <3>2
  <2>9. \A f : Entry(<<e>> \o d, f) <=> Entry(s, f)
    BY <2>3, <2>4, <2>7, <2>8
  <2> QED
    BY <2>6, <2>7, <2>9
<1> QED
  BY <1>1, <1>2

LEMMA ShorterFacts ==
    ASSUME NEW S, NEW s \in Seq(S), Unique(s)
    PROVE  /\ Front(s) \in Seq(S) /\ Unique(Front(s))
           /\ \A e : Entry(Front(s), e) => Entry(s, e)
<1> DEFINE f == SubSeq(s, 1, Len(s) - 1)
<1>1. Len(s) \in Nat
  BY LenProperties
<1>2. \A i \in 1 .. Len(s) - 1 : s[i] \in S
  BY <1>1, ElementOfSeq
<1>3. /\ f \in Seq(S) /\ Len(f) = IF 1 <= Len(s) - 1 THEN Len(s) - 1 ELSE 0
      /\ \A i \in 1 .. Len(s) - 1 : f[i] = s[i]
  BY <1>1, <1>2, SubSeqProperties
<1>4. Front(s) = f
  BY DEF Front
<1> HIDE DEF f
<1>5. \A i \in 1 .. Len(f) : i \in 1 .. Len(s) /\ f[i] = s[i]
  BY <1>1, <1>3
<1>6. Unique(f) /\ \A e : Entry(f, e) => Entry(s, e)
  BY <1>5 DEF Unique, Entry
<1> QED
  BY <1>3, <1>4, <1>6

\* What a put leaves: the new entry and some of those of the other keys.
LEMMA PutFacts ==
    ASSUME NEW S, NEW s \in Seq(S), Unique(s), NEW k, NEW v, [key |-> k, val |-> v] \in S, NEW cap
    PROVE  /\ LruPut(s, k, v, cap) \in Seq(S) /\ Unique(LruPut(s, k, v, cap))
           /\ \A e : Entry(LruPut(s, k, v, cap), e) =>
                       e = [key |-> k, val |-> v] \/ (Entry(s, e) /\ e.key # k)
<1> DEFINE d == LruDrop(s, k)
           t == IF ~LruHas(s, k) /\ Len(s) = cap THEN Front(d) ELSE d
           e == [key |-> k, val |-> v]
<1>1. d \in Seq(S) /\ Unique(d) /\ \A f : Entry(d, f) <=> Entry(s, f) /\ f.key # k
  BY DropFacts
<1>2. e.key = k /\ e \in S
  OBVIOUS
<1>3. LruPut(s, k, v, cap) = <<e>> \o t
  BY DEF LruPut
<1> HIDE DEF d, e
<1>4. Front(d) \in Seq(S) /\ Unique(Front(d)) /\ \A f : Entry(Front(d), f) => Entry(d, f)
  BY <1>1, ShorterFacts
<1>5. t \in Seq(S) /\ Unique(t) /\ \A f : Entry(t, f) => Entry(s, f) /\ f.key # k
  BY <1>1, <1>4
<1> HIDE DEF t
<1>6. \A j \in 1 .. Len(t) : t[j].key # e.key
  BY <1>2, <1>5 DEF Entry
<1>7. /\ <<e>> \o t \in Seq(S) /\ Unique(<<e>> \o t)
      /\ \A f : Entry(<<e>> \o t, f) <=> f = e \/ Entry(t, f)
  BY <1>2, <1>5, <1>6, FrontFacts
<1> QED
  BY <1>3, <1>5, <1>7 DEF e

-----------------------------------------------------------------------------
(* The invariant                                                             *)

Provs == [st : {"absent", "off", "on"}, cfg : Cfgs, models : SUBSET Models]
KeyPoints == {"patch_key", "inval_key"}
ModelPoints == {"patch_model", "inval", "sync_update", "sync_create", "sync_inval"}
AdminStates ==
    {x \in [pc : {"idle", "sync", "patch_provider"} \cup KeyPoints \cup ModelPoints, key : Keys \cup {"none"},
            model : Models \cup {"none"}, prov : Provs, todo : SUBSET Models] :
       (x.pc \in KeyPoints => x.key \in Keys) /\ (x.pc \in ModelPoints => x.model \in Models)}
ReqStates ==
    {q \in [pc : {"idle", "key_query", "key_fill", "route_query", "route_fill"},
            on : Hashes \cup Models \cup {"none"}, key : KeyRows, route : ModelRows] :
       /\ q.pc \in {"key_query", "key_fill"} => q.on \in Hashes
       /\ q.pc \in {"route_query", "route_fill"} => q.on \in Models}

AdmTypes == adm \in [Admins -> AdminStates] /\ provRow \in Provs

RecEntries == [key : Keys, val : KeyRows]
NegEntries == [key : Bogus, val : {"absent"}]
RouteEntries == [key : Models, val : ModelRows]

\* A row that was there stays there, which is why a hash of the negative cache is nobody's key.
KeyCore ==
    /\ keyRow \in [Hashes -> KeyRows] /\ \A b \in Bogus : keyRow[b].st = "absent"
    /\ recs \in Seq(RecEntries) /\ Unique(recs) /\ neg \in Seq(NegEntries) /\ Unique(neg)
    /\ keyRaced \in [Keys -> BOOLEAN]
    /\ \A e \in RecEntries : Entry(recs, e) =>
         /\ keyRow[e.key].st # "absent"
         /\ e.val = keyRow[e.key] \/ KeyPending(e.key) \/ keyRaced[e.key]

RouteCore ==
    /\ modelRow \in [Models -> ModelRows]
    /\ routes \in Seq(RouteEntries) /\ Unique(routes)
    /\ routeRaced \in [Models -> BOOLEAN]
    /\ \A e \in RouteEntries : Entry(routes, e) =>
         e.val = modelRow[e.key] \/ RoutePending(e.key) \/ routeRaced[e.key]

\* What a request between the store and the cache knows of its row.
ReqOk(q, row) ==
    /\ q.pc \in {"key_query", "key_fill"} /\ q.on \notin Bogus => row[q.on].st # "absent"
    /\ q.pc = "key_fill" => (q.key.st = "absent" <=> q.on \in Bogus)

ReqInv == req \in [Threads -> ReqStates] /\ \A t \in Threads : ReqOk(req[t], keyRow)

RecordsInv == AdmTypes /\ KeyCore /\ RouteCore /\ ReqInv

LEMMA CoreFollows == RecordsInv => CachesFollow
<1> SUFFICES ASSUME RecordsInv PROVE CachesFollow
  OBVIOUS
<1>1. ASSUME NEW k \in LruKeys(recs) PROVE LruValue(recs, k) = keyRow[k] \/ KeyPending(k) \/ keyRaced[k]
  <2>1. PICK e \in RecEntries : Entry(recs, e) /\ e.key = k /\ LruValue(recs, k) = e.val
    BY KeysFacts DEF RecordsInv, KeyCore
  <2> QED
    BY <2>1 DEF RecordsInv, KeyCore
<1>2. ASSUME NEW m \in LruKeys(routes) PROVE LruValue(routes, m) = modelRow[m] \/ RoutePending(m) \/ routeRaced[m]
  <2>1. PICK e \in RouteEntries : Entry(routes, e) /\ e.key = m /\ LruValue(routes, m) = e.val
    BY KeysFacts DEF RecordsInv, RouteCore
  <2> QED
    BY <2>1 DEF RecordsInv, RouteCore
<1>3. ASSUME NEW k \in LruKeys(neg) PROVE keyRow[k].st = "absent"
  <2>1. PICK e \in NegEntries : Entry(neg, e) /\ e.key = k
    BY KeysFacts DEF RecordsInv, KeyCore
  <2>2. k \in Bogus
    BY <2>1 DEF NegEntries
  <2> QED
    BY <2>2 DEF RecordsInv, KeyCore
<1> QED
  BY <1>1, <1>2, <1>3 DEF CachesFollow

LEMMA Constants ==
    /\ NoKey \in KeyRows /\ NoKey.st = "absent" /\ NoModel \in ModelRows /\ NoProvider \in Provs
    /\ Idle \in AdminStates /\ Idle.pc = "idle" /\ IdleReq \in ReqStates /\ IdleReq.pc = "idle"
<1>1. NoKey \in KeyRows /\ NoKey.st = "absent" /\ NoModel \in ModelRows /\ NoProvider \in Provs
  BY DEF NoKey, KeyRows, Traits, NoModel, ModelRows, Cfgs, NoProvider, Provs
<1> QED
  BY <1>1 DEF Idle, IdleReq, AdminStates, ReqStates, KeyPoints, ModelPoints

LEMMA InitRecords == Init => RecordsInv
<1> SUFFICES ASSUME Init PROVE RecordsInv
  OBVIOUS
<1>1. recs = <<>> /\ neg = <<>> /\ routes = <<>>
  BY DEF Init
<1>2. /\ recs \in Seq(RecEntries) /\ neg \in Seq(NegEntries) /\ routes \in Seq(RouteEntries)
      /\ Len(recs) = 0 /\ Len(neg) = 0 /\ Len(routes) = 0
  BY <1>1, EmptySeq
<1>3. /\ Unique(recs) /\ Unique(neg) /\ Unique(routes)
      /\ \A e : ~Entry(recs, e) /\ ~Entry(routes, e)
  BY <1>2 DEF Unique, Entry
<1>4. KeyCore
  <2> DEFINE live == [NoKey EXCEPT !.st = "live"]
  <2>1. live \in KeyRows
    BY DEF NoKey, KeyRows, Traits
  <2>2. keyRow = [k \in Hashes |-> IF k \in Keys \ NewKeys THEN live ELSE NoKey]
        /\ keyRaced = [k \in Keys |-> FALSE]
    BY DEF Init
  <2> HIDE DEF live
  <2>3. keyRow \in [Hashes -> KeyRows] /\ \A b \in Bogus : keyRow[b].st = "absent"
    BY <2>1, <2>2, Constants, RecordsAssumption DEF Hashes
  <2> QED
    BY <1>2, <1>3, <2>2, <2>3 DEF KeyCore
<1>5. RouteCore
  <2>1. modelRow \in [Models -> ModelRows] /\ routeRaced \in [Models -> BOOLEAN]
    BY DEF Init, ModelRows, Cfgs
  <2> QED
    BY <1>2, <1>3, <2>1 DEF RouteCore
<1>6. AdmTypes
  BY Constants DEF Init, AdmTypes, Provs, Cfgs
<1>7. ReqInv
  <2>1. req \in [Threads -> ReqStates] /\ \A t \in Threads : req[t].pc = "idle"
    BY Constants DEF Init
  <2> QED
    BY <2>1 DEF ReqInv, ReqOk
<1> QED
  BY <1>4, <1>5, <1>6, <1>7 DEF RecordsInv

-----------------------------------------------------------------------------
(* What does not change                                                      *)

KeyPendingKept == \A k \in Keys : KeyPending(k) => KeyPending(k)'
RoutePendingKept == \A m \in Models : RoutePending(m) => RoutePending(m)'

LEMMA SameKeys ==
    ASSUME KeyCore, UNCHANGED <<keyRow, recs, neg, keyRaced>>, KeyPendingKept
    PROVE  KeyCore'
<1>1. ASSUME NEW e \in RecEntries, Entry(recs, e)
      PROVE  keyRow'[e.key].st # "absent" /\ (e.val = keyRow'[e.key] \/ KeyPending(e.key)' \/ keyRaced'[e.key])
  <2>1. e.key \in Keys
    BY DEF RecEntries
  <2> QED
    BY <1>1, <2>1 DEF KeyCore, KeyPendingKept
<1> QED
  BY <1>1 DEF KeyCore, Unique, Entry

LEMMA SameRoutes ==
    ASSUME RouteCore, UNCHANGED <<modelRow, routes, routeRaced>>, RoutePendingKept
    PROVE  RouteCore'
<1>1. ASSUME NEW e \in RouteEntries, Entry(routes, e)
      PROVE  e.val = modelRow'[e.key] \/ RoutePending(e.key)' \/ routeRaced'[e.key]
  <2>1. e.key \in Models
    BY DEF RouteEntries
  <2> QED
    BY <1>1, <2>1 DEF RouteCore, RoutePendingKept
<1> QED
  BY <1>1 DEF RouteCore, Unique, Entry

\* Rows of keys come and never go.
RowsStay == \A k \in Hashes : keyRow[k].st # "absent" => keyRow'[k].st # "absent"

LEMMA SameReqs ==
    ASSUME ReqInv, UNCHANGED req, RowsStay
    PROVE  ReqInv'
<1>1. ASSUME NEW t \in Threads PROVE ReqOk(req[t], keyRow')
  <2>1. req[t] \in ReqStates /\ ReqOk(req[t], keyRow)
    BY DEF ReqInv
  <2>2. req[t].pc \in {"key_query", "key_fill"} => req[t].on \in Hashes
    BY <2>1 DEF ReqStates
  <2> QED
    BY <2>1, <2>2 DEF ReqOk, RowsStay
<1> QED
  BY <1>1 DEF ReqInv, ReqOk

LEMMA SamePending ==
    ASSUME UNCHANGED adm
    PROVE  KeyPendingKept /\ RoutePendingKept
  BY DEF KeyPendingKept, RoutePendingKept, KeyPending, RoutePending

-----------------------------------------------------------------------------
(* The administrators' threads                                               *)

LEMMA Becomes ==
    ASSUME AdmTypes, NEW a \in Admins, NEW st \in AdminStates, Become(a, st)
    PROVE  /\ adm' \in [Admins -> AdminStates] /\ adm'[a] = st
           /\ adm[a].pc # "inval_key" => KeyPendingKept
           /\ \A k \in Keys : KeyPending(k) /\ k # adm[a].key => KeyPending(k)'
           /\ adm[a].pc \notin {"inval", "sync_inval"} => RoutePendingKept
           /\ \A m \in Models : RoutePending(m) /\ m # adm[a].model => RoutePending(m)'
           /\ st.pc = "inval_key" => KeyPending(st.key)'
           /\ st.pc \in {"inval", "sync_inval"} => RoutePending(st.model)'
<1>1. /\ adm' \in [Admins -> AdminStates] /\ adm'[a] = st
      /\ \A b \in Admins : b # a => adm'[b] = adm[b]
  BY DEF AdmTypes, Become
<1>2. adm[a].pc # "inval_key" => KeyPendingKept
  BY <1>1 DEF KeyPendingKept, KeyPending
<1>3. \A k \in Keys : KeyPending(k) /\ k # adm[a].key => KeyPending(k)'
  BY <1>1 DEF KeyPending
<1>4. adm[a].pc \notin {"inval", "sync_inval"} => RoutePendingKept
  BY <1>1 DEF RoutePendingKept, RoutePending
<1>5. \A m \in Models : RoutePending(m) /\ m # adm[a].model => RoutePending(m)'
  BY <1>1 DEF RoutePending
<1>6. st.pc = "inval_key" => KeyPending(st.key)'
  BY <1>1 DEF KeyPending
<1>7. st.pc \in {"inval", "sync_inval"} => RoutePending(st.model)'
  BY <1>1 DEF RoutePending
<1> QED
  BY <1>1, <1>2, <1>3, <1>4, <1>5, <1>6, <1>7

LEMMA KeyStates ==
    ASSUME NEW pc \in KeyPoints, NEW k \in Keys
    PROVE  OnKey(pc, k) \in AdminStates /\ OnKey(pc, k).pc = pc /\ OnKey(pc, k).key = k
<1>1. OnKey(pc, k) = [Idle EXCEPT !.pc = pc, !.key = k]
  BY DEF OnKey
<1> QED
  BY <1>1, Constants DEF AdminStates, KeyPoints, ModelPoints

LEMMA ModelStates ==
    ASSUME NEW pc \in ModelPoints, NEW m \in Models
    PROVE  OnModel(pc, m) \in AdminStates /\ OnModel(pc, m).pc = pc /\ OnModel(pc, m).model = m
<1>1. OnModel(pc, m) = [Idle EXCEPT !.pc = pc, !.model = m]
  BY DEF OnModel
<1> QED
  BY <1>1, Constants DEF AdminStates, KeyPoints, ModelPoints

LEMMA SyncStates ==
    ASSUME NEW p \in Provs
    PROVE  Syncing(p) \in AdminStates /\ Syncing(p).pc \in {"idle", "sync"}
<1>1. CASE p.models = {}
  BY <1>1, Constants DEF Syncing
<1>2. CASE p.models # {}
  <2>1. Syncing(p) = [pc |-> "sync", key |-> "none", model |-> "none", prov |-> p, todo |-> p.models]
    BY <1>2 DEF Syncing, Idle
  <2>2. p.models \in SUBSET Models
    BY DEF Provs
  <2> QED
    BY <2>1, <2>2 DEF AdminStates, KeyPoints, ModelPoints
<1> QED
  BY <1>1, <1>2

\* A step of an administrator that leaves the rows and the caches alone.
LEMMA OnlyAdm ==
    ASSUME RecordsInv, NEW a \in Admins, NEW st \in AdminStates, Become(a, st), provRow' \in Provs,
           adm[a].pc \notin {"inval_key", "inval", "sync_inval"},
           UNCHANGED <<keyVars, modelRow, routes, routeRaced, req>>
    PROVE  RecordsInv'
<1>1. UNCHANGED <<keyRow, recs, neg, keyRaced>> /\ RowsStay
  BY DEF keyVars, RowsStay
<1>2. adm' \in [Admins -> AdminStates] /\ KeyPendingKept /\ RoutePendingKept
  BY Becomes DEF RecordsInv
<1>3. KeyCore' /\ RouteCore' /\ ReqInv'
  BY <1>1, <1>2, SameKeys, SameRoutes, SameReqs DEF RecordsInv
<1> QED
  BY <1>2, <1>3 DEF RecordsInv, AdmTypes

-----------------------------------------------------------------------------
(* Keys                                                                      *)

\* A row is written, and the entry of its key is not there or is about to be dropped.
LEMMA RowWritten ==
    ASSUME RecordsInv, NEW k \in Keys, NEW r \in KeyRows, keyRow' = [keyRow EXCEPT ![k] = r],
           keyRow[k].st # "absent" => r.st # "absent",
           UNCHANGED <<recs, neg, keyRaced, modelRow, routes, routeRaced, req>>, AdmTypes',
           keyRow[k].st = "absent" \/ KeyPending(k)', KeyPendingKept, RoutePendingKept
    PROVE  RecordsInv'
<1>1. k \in Hashes /\ k \notin Bogus
  BY RecordsAssumption DEF Hashes
<1>2. keyRow' \in [Hashes -> KeyRows] /\ keyRow'[k] = r /\ \A j \in Hashes : j # k => keyRow'[j] = keyRow[j]
  BY <1>1 DEF RecordsInv, KeyCore
<1>3. \A b \in Bogus : keyRow'[b].st = "absent"
  BY <1>1, <1>2 DEF RecordsInv, KeyCore, Hashes
<1>4. ASSUME NEW e \in RecEntries, Entry(recs, e)
      PROVE  keyRow'[e.key].st # "absent" /\ (e.val = keyRow'[e.key] \/ KeyPending(e.key)' \/ keyRaced'[e.key])
  <2>1. e.key \in Keys /\ e.key \in Hashes
    BY DEF RecEntries, Hashes
  <2>2. /\ keyRow[e.key].st # "absent"
        /\ e.val = keyRow[e.key] \/ KeyPending(e.key) \/ keyRaced[e.key]
    BY <1>4 DEF RecordsInv, KeyCore
  <2>3. CASE e.key = k
    BY <1>2, <2>2, <2>3
  <2>4. CASE e.key # k
    BY <1>2, <2>1, <2>2, <2>4 DEF KeyPendingKept
  <2> QED
    BY <2>3, <2>4
<1>5. KeyCore'
  BY <1>2, <1>3, <1>4 DEF RecordsInv, KeyCore, Unique, Entry
<1>6. RowsStay
  BY <1>2 DEF RowsStay
<1>7. ReqInv' /\ RouteCore'
  BY <1>6, SameReqs, SameRoutes DEF RecordsInv
<1> QED
  BY <1>5, <1>7 DEF RecordsInv

LEMMA CreateStep ==
    ASSUME RecordsInv, NEW a \in Admins, key_create(a)
    PROVE  RecordsInv'
<1>1. PICK k \in Keys, trait \in Traits :
        keyRow[k].st = "absent" /\ keyRow' = [keyRow EXCEPT ![k] = [st |-> "live", trait |-> trait]]
  BY DEF key_create, pq_create_key
<1>2. UNCHANGED <<recs, neg, keyRaced, modelRow, provRow, routes, routeRaced, req, adm>>
  BY DEF key_create, routeVars
<1>3. [st |-> "live", trait |-> trait] \in KeyRows
  BY DEF KeyRows
<1>4. AdmTypes'
  BY <1>2 DEF RecordsInv, AdmTypes
<1> QED
  BY <1>1, <1>2, <1>3, <1>4, SamePending, RowWritten

LEMMA PatchStep ==
    ASSUME RecordsInv, NEW a \in Admins, key_patch(a)
    PROVE  RecordsInv'
<1>1. CASE /\ Begin(a) /\ \E k \in Keys : pq_get_key_by_id(k) /\ Become(a, OnKey("patch_key", k))
           /\ UNCHANGED <<keyVars, routeVars, req>>
  <2>1. PICK k \in Keys : Become(a, OnKey("patch_key", k))
    BY <1>1
  <2>2. /\ adm[a].pc = "idle" /\ UNCHANGED <<keyVars, modelRow, provRow, routes, routeRaced, req>>
        /\ provRow' \in Provs /\ OnKey("patch_key", k) \in AdminStates
    BY <1>1, KeyStates DEF Begin, routeVars, RecordsInv, AdmTypes, KeyPoints
  <2> QED
    BY <2>1, <2>2, OnlyAdm
<1>2. CASE /\ adm[a].pc = "patch_key"
           /\ \/ /\ \E masked \in BOOLEAN, trait \in Traits : pq_update_key(adm[a].key, masked, trait)
                 /\ Become(a, OnKey("inval_key", adm[a].key))
              \/ Become(a, Idle) /\ UNCHANGED keyRow
           /\ UNCHANGED <<late, recs, neg, keyRaced, routeVars, req, ops>>
  <2>0. PICK k \in Keys : k = adm[a].key
    BY <1>2 DEF RecordsInv, AdmTypes, AdminStates, KeyPoints
  <2> DEFINE st == OnKey("inval_key", k)
  <2>1. adm[a].pc = "patch_key" /\ provRow \in Provs
    BY <1>2 DEF RecordsInv, AdmTypes
  <2>2. UNCHANGED <<late, recs, neg, keyRaced, modelRow, provRow, routes, routeRaced, req>>
    BY <1>2 DEF routeVars
  <2>3. CASE Become(a, Idle) /\ UNCHANGED keyRow
    BY <2>1, <2>2, <2>3, Constants, OnlyAdm DEF keyVars
  <2>4. ASSUME NEW masked \in BOOLEAN, NEW trait \in Traits, pq_update_key(k, masked, trait), Become(a, st)
        PROVE  RecordsInv'
    <3>1. st \in AdminStates /\ st.pc = "inval_key" /\ st.key = k
      BY <2>1, KeyStates DEF KeyPoints
    <3> HIDE DEF st
    <3>2. adm' \in [Admins -> AdminStates] /\ KeyPendingKept /\ RoutePendingKept /\ KeyPending(k)'
      BY <2>1, <2>4, <3>1, Becomes DEF RecordsInv
    <3>3. CASE ~masked
      <4>1. UNCHANGED keyRow /\ RowsStay
        BY <2>4, <3>3 DEF pq_update_key, RowsStay
      <4>2. KeyCore' /\ RouteCore' /\ ReqInv'
        BY <2>2, <3>2, <4>1, SameKeys, SameRoutes, SameReqs DEF RecordsInv
      <4> QED
        BY <2>1, <2>2, <3>2, <4>2 DEF RecordsInv, AdmTypes
    <3>4. CASE masked
      <4> DEFINE r == [keyRow[k] EXCEPT !.trait = trait]
      <4>1. keyRow' = [keyRow EXCEPT ![k] = r]
        BY <2>4, <3>4 DEF pq_update_key
      <4>2. keyRow[k] \in KeyRows
        BY <2>1 DEF RecordsInv, KeyCore, Hashes
      <4>3. r \in KeyRows /\ r.st = keyRow[k].st
        BY <4>2 DEF KeyRows
      <4> HIDE DEF r
      <4>4. AdmTypes'
        BY <2>1, <2>2, <3>2 DEF AdmTypes
      <4>5. keyRow[k].st # "absent" => r.st # "absent"
        BY <4>3
      <4>6. UNCHANGED <<recs, neg, keyRaced, modelRow, routes, routeRaced, req>>
        BY <2>2
      <4> QED
        BY <2>1, <3>2, <4>1, <4>3, <4>4, <4>5, <4>6, RowWritten
    <3> QED
      BY <3>3, <3>4
  <2> QED
    BY <1>2, <2>0, <2>3, <2>4
<1> QED
  BY <1>1, <1>2 DEF key_patch

LEMMA RevokeStep ==
    ASSUME RecordsInv, NEW a \in Admins, key_revoke(a)
    PROVE  RecordsInv'
<1>1. PICK k \in Keys : /\ keyRow[k].st = "live" /\ keyRow' = [keyRow EXCEPT ![k].st = "revoked"]
                        /\ Become(a, OnKey("inval_key", k))
  BY DEF key_revoke, pq_revoke_key
<1> DEFINE st == OnKey("inval_key", k)
           r == [keyRow[k] EXCEPT !.st = "revoked"]
<1>2. /\ adm[a].pc = "idle"
      /\ UNCHANGED <<recs, neg, keyRaced, modelRow, provRow, routes, routeRaced, req>>
  BY DEF key_revoke, Begin, routeVars
<1>3. st \in AdminStates /\ st.pc = "inval_key" /\ st.key = k
  BY KeyStates DEF KeyPoints
<1> HIDE DEF st
<1>4. adm' \in [Admins -> AdminStates] /\ KeyPendingKept /\ RoutePendingKept /\ KeyPending(k)'
  BY <1>1, <1>2, <1>3, Becomes DEF RecordsInv, st
<1>5. keyRow[k] \in KeyRows
  BY DEF RecordsInv, KeyCore, Hashes
<1>6. r \in KeyRows /\ r.st # "absent" /\ keyRow' = [keyRow EXCEPT ![k] = r]
  BY <1>1, <1>5 DEF KeyRows
<1> HIDE DEF r
<1>7. AdmTypes'
  BY <1>2, <1>4 DEF RecordsInv, AdmTypes
<1> QED
  BY <1>2, <1>4, <1>6, <1>7, RowWritten

\* The caches of keys hold less than before; what a thread was about to drop is gone.
LEMMA InvalidateStep ==
    ASSUME RecordsInv, NEW a \in Admins, InvalidateKey(a)
    PROVE  RecordsInv'
<1>1. PICK k \in Keys : k = adm[a].key
  BY DEF InvalidateKey, RecordsInv, AdmTypes, AdminStates, KeyPoints
<1>2. /\ recs' = LruDrop(recs, k) /\ neg' = LruDrop(neg, k) /\ Become(a, Idle) /\ adm[a].pc = "inval_key"
      /\ UNCHANGED <<keyRow, late, keyRaced, modelRow, provRow, routes, routeRaced, req>>
  BY <1>1 DEF InvalidateKey, auth_key_invalidate, routeVars
<1>3. /\ adm' \in [Admins -> AdminStates] /\ RoutePendingKept
      /\ \A j \in Keys : KeyPending(j) /\ j # k => KeyPending(j)'
  BY <1>1, <1>2, Constants, Becomes DEF RecordsInv
<1>4. /\ recs' \in Seq(RecEntries) /\ Unique(recs') /\ neg' \in Seq(NegEntries) /\ Unique(neg')
      /\ \A e : Entry(recs', e) => Entry(recs, e) /\ e.key # k
  BY <1>2, DropFacts DEF RecordsInv, KeyCore
<1>5. ASSUME NEW e \in RecEntries, Entry(recs', e)
      PROVE  keyRow'[e.key].st # "absent" /\ (e.val = keyRow'[e.key] \/ KeyPending(e.key)' \/ keyRaced'[e.key])
  <2>1. e.key \in Keys /\ e.key # k /\ Entry(recs, e)
    BY <1>4, <1>5 DEF RecEntries
  <2> QED
    BY <1>2, <1>3, <2>1 DEF RecordsInv, KeyCore
<1>6. KeyCore'
  BY <1>2, <1>4, <1>5 DEF RecordsInv, KeyCore, Unique, Entry
<1>7. RowsStay
  BY <1>2 DEF RowsStay
<1>8. RouteCore' /\ ReqInv'
  BY <1>2, <1>3, <1>7, SameRoutes, SameReqs DEF RecordsInv
<1> QED
  BY <1>2, <1>3, <1>6, <1>8 DEF RecordsInv, AdmTypes

LEMMA ExpiryStep ==
    ASSUME RecordsInv, UNCHANGED <<keyRow, recs, neg, keyRaced, routeVars, req, adm>>
    PROVE  RecordsInv'
<1>1. UNCHANGED <<keyRow, recs, neg, keyRaced, modelRow, provRow, routes, routeRaced, req, adm>>
  BY DEF routeVars
<1>2. KeyPendingKept /\ RoutePendingKept /\ RowsStay
  BY <1>1, SamePending DEF RowsStay
<1>3. KeyCore' /\ RouteCore' /\ ReqInv'
  BY <1>1, <1>2, SameKeys, SameRoutes, SameReqs DEF RecordsInv
<1> QED
  BY <1>1, <1>3 DEF RecordsInv, AdmTypes

-----------------------------------------------------------------------------
(* The requests' threads                                                     *)

LEMMA ReqBecomes ==
    ASSUME ReqInv, NEW t \in Threads, NEW q \in ReqStates, req' = [req EXCEPT ![t] = q],
           ReqOk(q, keyRow), UNCHANGED keyRow
    PROVE  ReqInv'
<1>1. /\ req' \in [Threads -> ReqStates] /\ req'[t] = q
      /\ \A u \in Threads : u # t => req'[u] = req[u]
  BY DEF ReqInv
<1>2. \A u \in Threads : ReqOk(req'[u], keyRow')
  BY <1>1 DEF ReqInv
<1> QED
  BY <1>1, <1>2 DEF ReqInv, ReqOk

LEMMA IdleReqOk ==
    IdleReq \in ReqStates /\ ReqOk(IdleReq, keyRow)
  BY Constants DEF ReqOk

\* A lookup or a fill: what is in the cache of records after it is right.
LEMMA KeysServed ==
    ASSUME KeyCore, UNCHANGED <<keyRow, adm>>, recs' \in Seq(RecEntries), Unique(recs'),
           neg' \in Seq(NegEntries), Unique(neg'), keyRaced' \in [Keys -> BOOLEAN],
           \A e \in RecEntries : Entry(recs', e) =>
              /\ keyRow[e.key].st # "absent"
              /\ e.val = keyRow[e.key] \/ KeyPending(e.key) \/ keyRaced'[e.key]
    PROVE  KeyCore'
<1>1. \A k \in Keys : KeyPending(k) => KeyPending(k)'
  BY SamePending DEF KeyPendingKept
<1>2. \A e \in RecEntries : e.key \in Keys
  BY DEF RecEntries
<1>3. \A e \in RecEntries : Entry(recs', e) =>
              /\ keyRow'[e.key].st # "absent"
              /\ e.val = keyRow'[e.key] \/ KeyPending(e.key)' \/ keyRaced'[e.key]
  BY <1>1, <1>2
<1> QED
  BY <1>3 DEF KeyCore, Unique, Entry

LEMMA KeyLookupStep ==
    ASSUME RecordsInv, NEW t \in Threads, NEW k \in Presentable, KeyLookup(t, k), UNCHANGED adm
    PROVE  KeyCore' /\ ReqInv'
<1>1. /\ recs \in Seq(RecEntries) /\ Unique(recs) /\ neg \in Seq(NegEntries) /\ Unique(neg)
      /\ keyRaced \in [Keys -> BOOLEAN]
  BY DEF RecordsInv, KeyCore
<1>2. /\ recs' \in Seq(RecEntries) /\ Unique(recs')
      /\ \A e : Entry(recs', e) <=> Entry(recs, e)
  BY <1>1, GetFacts DEF KeyLookup, RecEntries
<1>3. neg' \in Seq(NegEntries) /\ Unique(neg')
  <2>1. LruGet(neg, k) \in Seq(NegEntries) /\ Unique(LruGet(neg, k))
    BY <1>1, GetFacts DEF NegEntries
  <2> QED
    BY <1>1, <2>1 DEF KeyLookup
<1>4. UNCHANGED <<keyRow, keyRaced>>
  BY DEF KeyLookup
<1>5. KeyCore'
  BY <1>1, <1>2, <1>3, <1>4, KeysServed DEF RecordsInv, KeyCore
<1>6. CASE UNCHANGED req
  BY <1>4, <1>5, <1>6, SameReqs DEF RecordsInv, RowsStay
<1>7. CASE req' = [req EXCEPT ![t] = [IdleReq EXCEPT !.pc = "key_query", !.on = k]]
  <2> DEFINE q == [IdleReq EXCEPT !.pc = "key_query", !.on = k]
  <2>1. k \in Hashes /\ (k \notin Bogus => keyRow[k].st # "absent")
    BY DEF Presentable
  <2>2. q \in ReqStates /\ q.pc = "key_query" /\ q.on = k
    BY <2>1, Constants DEF ReqStates
  <2> HIDE DEF q
  <2>3. ReqOk(q, keyRow)
    BY <2>1, <2>2 DEF ReqOk
  <2> QED
    BY <1>4, <1>5, <1>7, <2>2, <2>3, ReqBecomes DEF RecordsInv, q
<1> QED
  BY <1>5, <1>6, <1>7 DEF KeyLookup

LEMMA KeyQueryStep ==
    ASSUME RecordsInv, NEW t \in Threads, KeyQuery(t), UNCHANGED adm
    PROVE  KeyCore' /\ ReqInv'
<1>1. UNCHANGED <<keyRow, recs, neg, keyRaced>> /\ req[t].pc = "key_query"
  BY DEF KeyQuery, keyVars
<1>2. KeyCore'
  BY <1>1, SamePending, SameKeys DEF RecordsInv
<1>3. CASE req' = [req EXCEPT ![t] = IdleReq]
  BY <1>1, <1>2, <1>3, IdleReqOk, ReqBecomes DEF RecordsInv
<1>4. CASE req' = [req EXCEPT ![t].pc = "key_fill", ![t].key = pq_get_key_by_hash(req[t].on)]
  <2> DEFINE row == keyRow[req[t].on]
             q == [req[t] EXCEPT !.pc = "key_fill", !.key = row]
  <2>1. req \in [Threads -> ReqStates] /\ req[t] \in ReqStates /\ ReqOk(req[t], keyRow)
    BY DEF RecordsInv, ReqInv
  <2>2. req' = [req EXCEPT ![t] = q]
    BY <1>4, <2>1 DEF pq_get_key_by_hash
  <2>3. req[t].on \in Hashes
    BY <1>1, <2>1 DEF ReqStates
  <2>4. row \in KeyRows /\ (req[t].on \in Bogus => row.st = "absent")
        /\ (req[t].on \notin Bogus => row.st # "absent")
    BY <1>1, <2>1, <2>3 DEF RecordsInv, KeyCore, ReqOk
  <2>5. q.pc = "key_fill" /\ q.on = req[t].on /\ q.key = row /\ q \in ReqStates
    <3> HIDE DEF row
    <3> QED
      BY <2>1, <2>3, <2>4 DEF ReqStates
  <2> HIDE DEF q
  <2>6. ReqOk(q, keyRow)
    BY <2>4, <2>5 DEF ReqOk
  <2> QED
    BY <1>1, <1>2, <2>2, <2>5, <2>6, ReqBecomes DEF RecordsInv
<1> QED
  BY <1>2, <1>3, <1>4 DEF KeyQuery

LEMMA KeyFillStep ==
    ASSUME RecordsInv, NEW t \in Threads, KeyFill(t), UNCHANGED adm
    PROVE  KeyCore' /\ ReqInv'
<1> DEFINE k == req[t].on
           rec == req[t].key
<1>1. req[t] \in ReqStates /\ ReqOk(req[t], keyRow) /\ req[t].pc = "key_fill"
  BY DEF KeyFill, RecordsInv, ReqInv
<1>2. /\ k \in Hashes /\ rec \in KeyRows /\ (rec.st = "absent" <=> k \in Bogus)
      /\ (k \notin Bogus => keyRow[k].st # "absent")
  BY <1>1 DEF ReqStates, ReqOk
<1>3. UNCHANGED keyRow /\ req' = [req EXCEPT ![t] = IdleReq]
  BY DEF KeyFill
<1>4. ReqInv'
  BY <1>3, IdleReqOk, ReqBecomes DEF RecordsInv
<1>5. /\ recs \in Seq(RecEntries) /\ Unique(recs) /\ neg \in Seq(NegEntries) /\ Unique(neg)
      /\ keyRaced \in [Keys -> BOOLEAN]
  BY DEF RecordsInv, KeyCore
<1> HIDE DEF k, rec
<1>6. CASE k \in Bogus /\ neg' = LruPut(neg, k, "absent", NegCap) /\ UNCHANGED <<recs, keyRaced>>
  <2>1. [key |-> k, val |-> "absent"] \in NegEntries
    BY <1>6 DEF NegEntries
  <2>2. neg' \in Seq(NegEntries) /\ Unique(neg')
    BY <1>5, <1>6, <2>1, PutFacts
  <2>3. KeyCore'
    BY <1>3, <1>5, <1>6, <2>2, KeysServed DEF RecordsInv, KeyCore
  <2> QED
    BY <1>4, <2>3
<1>7. CASE /\ k \notin Bogus /\ recs' = LruPut(recs, k, rec, CacheCap) /\ UNCHANGED neg
           /\ keyRaced' = [keyRaced EXCEPT ![k] = rec # keyRow[k]]
  <2> DEFINE f == [key |-> k, val |-> rec]
  <2>1. k \in Keys /\ f \in RecEntries /\ f.key = k /\ f.val = rec
    BY <1>2, <1>7 DEF RecEntries, Hashes
  <2> HIDE DEF f
  <2>2. /\ recs' \in Seq(RecEntries) /\ Unique(recs')
        /\ \A e : Entry(recs', e) => e = f \/ (Entry(recs, e) /\ e.key # k)
    BY <1>5, <1>7, <2>1, PutFacts DEF f
  <2>3. /\ keyRaced' \in [Keys -> BOOLEAN] /\ keyRaced'[k] = (rec # keyRow[k])
        /\ \A j \in Keys : j # k => keyRaced'[j] = keyRaced[j]
    BY <1>5, <1>7, <2>1
  <2>4. ASSUME NEW e \in RecEntries, Entry(recs', e)
        PROVE  /\ keyRow[e.key].st # "absent"
               /\ e.val = keyRow[e.key] \/ KeyPending(e.key) \/ keyRaced'[e.key]
    <3>1. CASE e = f
      BY <1>2, <1>7, <2>1, <2>3, <3>1
    <3>2. CASE Entry(recs, e) /\ e.key # k
      <4>1. e.key \in Keys
        BY DEF RecEntries
      <4> QED
        BY <2>3, <3>2, <4>1 DEF RecordsInv, KeyCore
    <3> QED
      BY <2>2, <2>4, <3>1, <3>2
  <2>5. KeyCore'
    BY <1>3, <1>5, <1>7, <2>2, <2>3, <2>4, KeysServed DEF RecordsInv
  <2> QED
    BY <1>4, <2>5
<1>8. CASE UNCHANGED <<recs, neg, keyRaced>>
  BY <1>3, <1>4, <1>8, SamePending, SameKeys DEF RecordsInv
<1> QED
  BY <1>2, <1>6, <1>7, <1>8 DEF KeyFill, k, rec

LEMMA ResolveKeyStep ==
    ASSUME RecordsInv, NEW t \in Threads, auth_key_resolve(t)
    PROVE  RecordsInv'
<1>1. UNCHANGED <<modelRow, provRow, routes, routeRaced, adm>>
  BY DEF auth_key_resolve, routeVars
<1>2. KeyCore' /\ ReqInv'
  BY <1>1, KeyLookupStep, KeyQueryStep, KeyFillStep DEF auth_key_resolve
<1>3. RouteCore' /\ AdmTypes'
  BY <1>1, SamePending, SameRoutes DEF RecordsInv, AdmTypes
<1> QED
  BY <1>2, <1>3 DEF RecordsInv

\* A lookup or a fill: what is in the cache of routes after it is right.
LEMMA RoutesServed ==
    ASSUME RouteCore, UNCHANGED <<modelRow, adm>>, routes' \in Seq(RouteEntries), Unique(routes'),
           routeRaced' \in [Models -> BOOLEAN],
           \A e \in RouteEntries : Entry(routes', e) =>
              e.val = modelRow[e.key] \/ RoutePending(e.key) \/ routeRaced'[e.key]
    PROVE  RouteCore'
<1>1. \A m \in Models : RoutePending(m) => RoutePending(m)'
  BY SamePending DEF RoutePendingKept
<1>2. \A e \in RouteEntries : e.key \in Models
  BY DEF RouteEntries
<1>3. \A e \in RouteEntries : Entry(routes', e) =>
              e.val = modelRow'[e.key] \/ RoutePending(e.key)' \/ routeRaced'[e.key]
  BY <1>1, <1>2
<1> QED
  BY <1>3 DEF RouteCore, Unique, Entry

LEMMA RouteLookupStep ==
    ASSUME RecordsInv, NEW t \in Threads, NEW m \in Models, RouteLookup(t, m), UNCHANGED <<keyRow, modelRow, adm>>
    PROVE  RouteCore' /\ ReqInv'
<1>1. routes \in Seq(RouteEntries) /\ Unique(routes) /\ routeRaced \in [Models -> BOOLEAN]
  BY DEF RecordsInv, RouteCore
<1>2. /\ routes' \in Seq(RouteEntries) /\ Unique(routes')
      /\ \A e : Entry(routes', e) <=> Entry(routes, e)
  BY <1>1, GetFacts DEF RouteLookup, RouteEntries
<1>3. UNCHANGED routeRaced
  BY DEF RouteLookup
<1>4. RouteCore'
  BY <1>1, <1>2, <1>3, RoutesServed DEF RecordsInv, RouteCore
<1>5. CASE UNCHANGED req
  BY <1>4, <1>5, SameReqs DEF RecordsInv, RowsStay
<1>6. CASE req' = [req EXCEPT ![t] = [IdleReq EXCEPT !.pc = "route_query", !.on = m]]
  <2> DEFINE q == [IdleReq EXCEPT !.pc = "route_query", !.on = m]
  <2>1. q \in ReqStates /\ q.pc = "route_query"
    BY Constants DEF ReqStates
  <2> HIDE DEF q
  <2>2. ReqOk(q, keyRow)
    BY <2>1 DEF ReqOk
  <2> QED
    BY <1>4, <1>6, <2>1, <2>2, ReqBecomes DEF RecordsInv, q
<1> QED
  BY <1>4, <1>5, <1>6 DEF RouteLookup

LEMMA RouteQueryStep ==
    ASSUME RecordsInv, NEW t \in Threads, RouteQuery(t), UNCHANGED <<keyRow, modelRow, adm>>
    PROVE  RouteCore' /\ ReqInv'
<1>1. UNCHANGED <<routes, routeRaced>> /\ req[t].pc = "route_query"
  BY DEF RouteQuery
<1>2. RouteCore'
  BY <1>1, SamePending, SameRoutes DEF RecordsInv
<1>3. CASE req' = [req EXCEPT ![t] = IdleReq]
  BY <1>2, <1>3, IdleReqOk, ReqBecomes DEF RecordsInv
<1>4. CASE req' = [req EXCEPT ![t].pc = "route_fill", ![t].route = fill_model_row(req[t].on)]
  <2> DEFINE row == modelRow[req[t].on]
             q == [req[t] EXCEPT !.pc = "route_fill", !.route = row]
  <2>1. req \in [Threads -> ReqStates] /\ req[t] \in ReqStates
    BY DEF RecordsInv, ReqInv
  <2>2. req' = [req EXCEPT ![t] = q]
    BY <1>4, <2>1 DEF fill_model_row
  <2>3. req[t].on \in Models
    BY <1>1, <2>1 DEF ReqStates
  <2>4. row \in ModelRows
    BY <2>3 DEF RecordsInv, RouteCore
  <2>5. q.pc = "route_fill" /\ q \in ReqStates
    <3> HIDE DEF row
    <3> QED
      BY <2>1, <2>3, <2>4 DEF ReqStates
  <2> HIDE DEF q
  <2>6. ReqOk(q, keyRow)
    BY <2>5 DEF ReqOk
  <2> QED
    BY <1>2, <2>2, <2>5, <2>6, ReqBecomes DEF RecordsInv
<1> QED
  BY <1>3, <1>4 DEF RouteQuery

LEMMA RouteFillStep ==
    ASSUME RecordsInv, NEW t \in Threads, RouteFill(t), UNCHANGED <<keyRow, modelRow, adm>>
    PROVE  RouteCore' /\ ReqInv'
<1> DEFINE m == req[t].on
           row == req[t].route
           f == [key |-> m, val |-> row]
<1>1. req[t] \in ReqStates /\ req[t].pc = "route_fill"
  BY DEF RouteFill, RecordsInv, ReqInv
<1>2. m \in Models /\ row \in ModelRows
  BY <1>1 DEF ReqStates
<1>3. /\ req' = [req EXCEPT ![t] = IdleReq] /\ routes' = LruPut(routes, m, row, CacheCap)
      /\ routeRaced' = [routeRaced EXCEPT ![m] = row # modelRow[m]]
  BY DEF RouteFill
<1>4. ReqInv'
  BY <1>3, IdleReqOk, ReqBecomes DEF RecordsInv
<1>5. routes \in Seq(RouteEntries) /\ Unique(routes) /\ routeRaced \in [Models -> BOOLEAN]
  BY DEF RecordsInv, RouteCore
<1> HIDE DEF m, row
<1>6. f \in RouteEntries /\ f.key = m /\ f.val = row
  BY <1>2 DEF RouteEntries
<1> HIDE DEF f
<1>7. /\ routes' \in Seq(RouteEntries) /\ Unique(routes')
      /\ \A e : Entry(routes', e) => e = f \/ (Entry(routes, e) /\ e.key # m)
  BY <1>3, <1>5, <1>6, PutFacts DEF f
<1>8. /\ routeRaced' \in [Models -> BOOLEAN] /\ routeRaced'[m] = (row # modelRow[m])
      /\ \A j \in Models : j # m => routeRaced'[j] = routeRaced[j]
  BY <1>2, <1>3, <1>5
<1>9. ASSUME NEW e \in RouteEntries, Entry(routes', e)
      PROVE  e.val = modelRow[e.key] \/ RoutePending(e.key) \/ routeRaced'[e.key]
  <2>1. CASE e = f
    BY <1>6, <1>8, <2>1
  <2>2. CASE Entry(routes, e) /\ e.key # m
    <3>1. e.key \in Models
      BY DEF RouteEntries
    <3> QED
      BY <1>8, <2>2, <3>1 DEF RecordsInv, RouteCore
  <2> QED
    BY <1>7, <1>9, <2>1, <2>2
<1> QED
  BY <1>4, <1>7, <1>8, <1>9, RoutesServed DEF RecordsInv

LEMMA ResolveRouteStep ==
    ASSUME RecordsInv, NEW t \in Threads, model_router_resolve(t)
    PROVE  RecordsInv'
<1>1. UNCHANGED <<keyRow, recs, neg, keyRaced, modelRow, provRow, adm>>
  BY DEF model_router_resolve, keyVars
<1>2. RouteCore' /\ ReqInv'
  BY <1>1, RouteLookupStep, RouteQueryStep, RouteFillStep DEF model_router_resolve
<1>3. KeyCore' /\ AdmTypes'
  BY <1>1, SamePending, SameKeys DEF RecordsInv, AdmTypes
<1> QED
  BY <1>2, <1>3 DEF RecordsInv

-----------------------------------------------------------------------------
(* Models and providers                                                      *)

\* The row of a model is written by a thread that has its route to drop.
LEMMA ModelWritten ==
    ASSUME RecordsInv, NEW m \in Models, modelRow' \in [Models -> ModelRows],
           \A n \in Models : n # m => modelRow'[n] = modelRow[n],
           UNCHANGED <<keyVars, routes, routeRaced, req>>, AdmTypes',
           RoutePending(m)', KeyPendingKept, RoutePendingKept
    PROVE  RecordsInv'
<1>1. UNCHANGED <<keyRow, recs, neg, keyRaced>> /\ RowsStay
  BY DEF keyVars, RowsStay
<1>2. ASSUME NEW e \in RouteEntries, Entry(routes, e)
      PROVE  e.val = modelRow'[e.key] \/ RoutePending(e.key)' \/ routeRaced'[e.key]
  <2>1. e.key \in Models
    BY DEF RouteEntries
  <2>2. e.val = modelRow[e.key] \/ RoutePending(e.key) \/ routeRaced[e.key]
    BY <1>2 DEF RecordsInv, RouteCore
  <2>3. CASE e.key = m
    BY <2>3
  <2>4. CASE e.key # m
    BY <2>1, <2>2, <2>4 DEF RoutePendingKept
  <2> QED
    BY <2>3, <2>4
<1>3. RouteCore'
  BY <1>2 DEF RecordsInv, RouteCore, Unique, Entry
<1>4. KeyCore' /\ ReqInv'
  BY <1>1, SameKeys, SameReqs DEF RecordsInv
<1> QED
  BY <1>3, <1>4 DEF RecordsInv

\* The three writers of a model's row touch no other row.
LEMMA Created ==
    ASSUME RouteCore, NEW m \in Models, NEW cfg \in Cfgs, pq_create_model(m, cfg)
    PROVE  modelRow' \in [Models -> ModelRows] /\ \A n \in Models : n # m => modelRow'[n] = modelRow[n]
<1>1. [st |-> "on", cfg |-> cfg] \in ModelRows
  BY DEF ModelRows
<1> QED
  BY <1>1 DEF pq_create_model, RouteCore

LEMMA Deleted ==
    ASSUME RouteCore, NEW m \in Models, pq_delete_model(m)
    PROVE  modelRow' \in [Models -> ModelRows] /\ \A n \in Models : n # m => modelRow'[n] = modelRow[n]
  BY Constants DEF pq_delete_model, RouteCore

LEMMA Updated ==
    ASSUME RouteCore, NEW m \in Models, NEW mask, NEW st \in {"absent", "off", "on"}, NEW cfg \in Cfgs,
           pq_update_model(m, mask, st, cfg)
    PROVE  modelRow' \in [Models -> ModelRows] /\ \A n \in Models : n # m => modelRow'[n] = modelRow[n]
<1> DEFINE row == modelRow[m]
           new == [st |-> IF "enabled" \in mask THEN st ELSE row.st,
                   cfg |-> IF "endpoint" \in mask THEN cfg ELSE row.cfg]
           r == IF row.st = "absent" THEN row ELSE new
<1>1. modelRow' = [modelRow EXCEPT ![m] = r]
  BY DEF pq_update_model, RouteCore
<1>2. row \in ModelRows
  BY DEF RouteCore
<1> HIDE DEF row
<1>3. r \in ModelRows
  BY <1>2 DEF ModelRows
<1> HIDE DEF r
<1> QED
  BY <1>1, <1>3 DEF RouteCore

\* A writer that goes on to drop the route.
LEMMA WritesModel ==
    ASSUME RecordsInv, NEW a \in Admins, NEW st \in AdminStates, Become(a, st), NEW m \in Models,
           st.pc \in {"inval", "sync_inval"}, st.model = m,
           adm[a].pc \notin {"inval_key", "inval", "sync_inval"},
           modelRow' \in [Models -> ModelRows], \A n \in Models : n # m => modelRow'[n] = modelRow[n],
           UNCHANGED <<keyVars, provRow, routes, routeRaced, req>>
    PROVE  RecordsInv'
<1>1. /\ adm' \in [Admins -> AdminStates] /\ KeyPendingKept /\ RoutePendingKept /\ RoutePending(m)'
  BY Becomes DEF RecordsInv
<1>2. AdmTypes' /\ UNCHANGED <<keyVars, routes, routeRaced, req>>
  BY <1>1 DEF RecordsInv, AdmTypes
<1> QED
  BY <1>1, <1>2, ModelWritten

LEMMA DropsRoute ==
    ASSUME RecordsInv, NEW a \in Admins, NEW st \in AdminStates, Become(a, st), NEW m \in Models,
           m = adm[a].model, adm[a].pc \in {"inval", "sync_inval"}, model_router_invalidate(m),
           UNCHANGED <<keyVars, modelRow, provRow, routeRaced, req>>
    PROVE  RecordsInv'
<1>1. /\ adm' \in [Admins -> AdminStates] /\ KeyPendingKept
      /\ \A n \in Models : RoutePending(n) /\ n # m => RoutePending(n)'
  BY Becomes DEF RecordsInv
<1>2. /\ routes' \in Seq(RouteEntries) /\ Unique(routes')
      /\ \A e : Entry(routes', e) => Entry(routes, e) /\ e.key # m
  BY DropFacts DEF RecordsInv, RouteCore, model_router_invalidate
<1>3. ASSUME NEW e \in RouteEntries, Entry(routes', e)
      PROVE  e.val = modelRow'[e.key] \/ RoutePending(e.key)' \/ routeRaced'[e.key]
  <2>1. e.key \in Models /\ e.key # m /\ Entry(routes, e)
    BY <1>2, <1>3 DEF RouteEntries
  <2> QED
    BY <1>1, <2>1 DEF RecordsInv, RouteCore
<1>4. RouteCore'
  BY <1>2, <1>3 DEF RecordsInv, RouteCore, Unique, Entry
<1>5. UNCHANGED <<keyRow, recs, neg, keyRaced>> /\ RowsStay
  BY DEF keyVars, RowsStay
<1>6. KeyCore' /\ ReqInv'
  BY <1>1, <1>5, SameKeys, SameReqs DEF RecordsInv
<1> QED
  BY <1>1, <1>4, <1>6 DEF RecordsInv, AdmTypes

LEMMA ModelCreateStep ==
    ASSUME RecordsInv, NEW a \in Admins, model_create(a)
    PROVE  RecordsInv'
<1>1. PICK m \in Models, cfg \in Cfgs : pq_create_model(m, cfg) /\ Become(a, OnModel("inval", m))
  BY DEF model_create
<1>2. adm[a].pc = "idle" /\ UNCHANGED <<keyVars, provRow, routes, routeRaced, req>>
  BY DEF model_create, Begin
<1>3. /\ OnModel("inval", m) \in AdminStates /\ OnModel("inval", m).pc = "inval"
      /\ OnModel("inval", m).model = m
  BY ModelStates DEF ModelPoints
<1>4. modelRow' \in [Models -> ModelRows] /\ \A n \in Models : n # m => modelRow'[n] = modelRow[n]
  BY <1>1, Created DEF RecordsInv
<1> QED
  BY <1>1, <1>2, <1>3, <1>4, WritesModel

LEMMA ModelDeleteStep ==
    ASSUME RecordsInv, NEW a \in Admins, model_delete(a)
    PROVE  RecordsInv'
<1>1. PICK m \in Models : pq_delete_model(m) /\ Become(a, OnModel("inval", m))
  BY DEF model_delete
<1>2. adm[a].pc = "idle" /\ UNCHANGED <<keyVars, provRow, routes, routeRaced, req>>
  BY DEF model_delete, Begin
<1>3. /\ OnModel("inval", m) \in AdminStates /\ OnModel("inval", m).pc = "inval"
      /\ OnModel("inval", m).model = m
  BY ModelStates DEF ModelPoints
<1>4. modelRow' \in [Models -> ModelRows] /\ \A n \in Models : n # m => modelRow'[n] = modelRow[n]
  BY <1>1, Deleted DEF RecordsInv
<1> QED
  BY <1>1, <1>2, <1>3, <1>4, WritesModel

LEMMA ModelPatchStep ==
    ASSUME RecordsInv, NEW a \in Admins, model_patch(a)
    PROVE  RecordsInv'
<1>1. CASE /\ Begin(a) /\ \E m \in Models : pq_get_model(m) /\ Become(a, OnModel("patch_model", m))
           /\ UNCHANGED <<keyVars, routeVars, req>>
  <2>1. PICK m \in Models : Become(a, OnModel("patch_model", m))
    BY <1>1
  <2>2. /\ adm[a].pc = "idle" /\ UNCHANGED <<keyVars, modelRow, provRow, routes, routeRaced, req>>
        /\ provRow' \in Provs /\ OnModel("patch_model", m) \in AdminStates
    BY <1>1, ModelStates DEF Begin, routeVars, RecordsInv, AdmTypes, ModelPoints
  <2> QED
    BY <2>1, <2>2, OnlyAdm
<1>2. CASE /\ adm[a].pc = "patch_model"
           /\ \/ /\ \E mask \in SUBSET {"enabled", "endpoint"}, st \in {"on", "off"}, cfg \in Cfgs :
                      pq_update_model(adm[a].model, mask, st, cfg)
                 /\ Become(a, OnModel("inval", adm[a].model))
              \/ Become(a, Idle) /\ UNCHANGED modelRow
           /\ UNCHANGED <<keyVars, provRow, routes, routeRaced, req, ops>>
  <2>1. PICK m \in Models : m = adm[a].model
    BY <1>2 DEF RecordsInv, AdmTypes, AdminStates, ModelPoints
  <2>2. adm[a].pc = "patch_model" /\ UNCHANGED <<keyVars, provRow, routes, routeRaced, req>> /\ provRow \in Provs
    BY <1>2 DEF RecordsInv, AdmTypes
  <2>3. CASE Become(a, Idle) /\ UNCHANGED modelRow
    BY <2>2, <2>3, Constants, OnlyAdm
  <2>4. ASSUME NEW mask, NEW st \in {"on", "off"}, NEW cfg \in Cfgs, pq_update_model(m, mask, st, cfg),
               Become(a, OnModel("inval", m))
        PROVE  RecordsInv'
    <3>1. /\ OnModel("inval", m) \in AdminStates /\ OnModel("inval", m).pc = "inval"
          /\ OnModel("inval", m).model = m
      BY ModelStates DEF ModelPoints
    <3>2. modelRow' \in [Models -> ModelRows] /\ \A n \in Models : n # m => modelRow'[n] = modelRow[n]
      BY <2>4, Updated DEF RecordsInv
    <3> QED
      BY <2>2, <2>4, <3>1, <3>2, WritesModel
  <2> QED
    BY <1>2, <2>1, <2>3, <2>4
<1> QED
  BY <1>1, <1>2 DEF model_patch

LEMMA RouteInvalidateStep ==
    ASSUME RecordsInv, NEW a \in Admins, InvalidateRoute(a)
    PROVE  RecordsInv'
<1>1. PICK m \in Models : m = adm[a].model
  BY DEF InvalidateRoute, RecordsInv, AdmTypes, AdminStates, ModelPoints
<1>2. /\ model_router_invalidate(m) /\ Become(a, Idle) /\ adm[a].pc = "inval"
      /\ UNCHANGED <<keyVars, modelRow, provRow, routeRaced, req>>
  BY <1>1 DEF InvalidateRoute
<1> QED
  BY <1>1, <1>2, Constants, DropsRoute

LEMMA ProviderCreateStep ==
    ASSUME RecordsInv, NEW a \in Admins, provider_create(a)
    PROVE  RecordsInv'
<1>1. PICK p \in Bodies : pq_create_provider(p) /\ Become(a, Syncing(p))
  BY DEF provider_create
<1>2. p \in Provs /\ provRow' \in Provs
  BY <1>1 DEF Bodies, Provs, pq_create_provider
<1>3. Syncing(p) \in AdminStates
  BY <1>2, SyncStates
<1>4. adm[a].pc = "idle" /\ UNCHANGED <<keyVars, modelRow, routes, routeRaced, req>>
  BY DEF provider_create, Begin
<1> QED
  BY <1>1, <1>2, <1>3, <1>4, OnlyAdm

\* The columns of the mask over those of a record.
LEMMA Masked ==
    ASSUME NEW p \in Provs, NEW q \in Provs, NEW mask
    PROVE  [c \in DOMAIN p |-> IF c \in mask THEN p[c] ELSE q[c]] \in Provs
<1> DEFINE n == [st |-> IF "st" \in mask THEN p.st ELSE q.st,
                 cfg |-> IF "cfg" \in mask THEN p.cfg ELSE q.cfg,
                 models |-> IF "models" \in mask THEN p.models ELSE q.models]
<1>1. n \in Provs
  BY DEF Provs
<1>2. DOMAIN p = {"st", "cfg", "models"}
  BY DEF Provs
<1>3. [c \in DOMAIN p |-> IF c \in mask THEN p[c] ELSE q[c]] = n
  BY <1>2
<1> QED
  BY <1>1, <1>3

LEMMA ProviderPatchStep ==
    ASSUME RecordsInv, NEW a \in Admins, provider_patch(a)
    PROVE  RecordsInv'
<1>0. adm[a] \in AdminStates /\ adm[a].prov \in Provs /\ provRow \in Provs
  BY DEF RecordsInv, AdmTypes, AdminStates
<1>1. CASE /\ Begin(a) /\ pq_get_provider
           /\ Become(a, [Idle EXCEPT !.pc = "patch_provider", !.prov = provRow])
           /\ UNCHANGED <<keyVars, routeVars, req>>
  <2> DEFINE st == [Idle EXCEPT !.pc = "patch_provider", !.prov = provRow]
  <2>1. st \in AdminStates
    BY <1>0, Constants DEF AdminStates, KeyPoints, ModelPoints
  <2>2. /\ adm[a].pc = "idle" /\ UNCHANGED <<keyVars, modelRow, provRow, routes, routeRaced, req>>
        /\ Become(a, st)
    BY <1>1 DEF Begin, routeVars
  <2> HIDE DEF st
  <2> QED
    BY <1>0, <2>1, <2>2, OnlyAdm
<1>2. CASE /\ adm[a].pc = "patch_provider"
           /\ \/ \E body \in Bodies, mask \in SUBSET DOMAIN NoProvider :
                   LET p == [c \in DOMAIN body |-> IF c \in mask THEN body[c] ELSE adm[a].prov[c]]
                   IN  pq_update_provider(p, mask) /\ Become(a, Syncing(p))
              \/ Become(a, Idle) /\ UNCHANGED provRow
           /\ UNCHANGED <<keyVars, modelRow, routes, routeRaced, req, ops>>
  <2>1. CASE Become(a, Idle) /\ UNCHANGED provRow
    BY <1>0, <1>2, <2>1, Constants, OnlyAdm
  <2>2. ASSUME NEW body \in Bodies, NEW mask, NEW p,
               p = [c \in DOMAIN body |-> IF c \in mask THEN body[c] ELSE adm[a].prov[c]],
               pq_update_provider(p, mask), Become(a, Syncing(p))
        PROVE  RecordsInv'
    <3>1. body \in Provs
      BY DEF Bodies, Provs
    <3>2. p \in Provs
      BY <1>0, <2>2, <3>1, Masked
    <3>3. provRow' \in Provs
      BY <1>0, <2>2, <3>2, Masked DEF pq_update_provider
    <3>4. Syncing(p) \in AdminStates
      BY <3>2, SyncStates
    <3> QED
      BY <1>2, <2>2, <3>3, <3>4, OnlyAdm
  <2> QED
    BY <1>2, <2>1, <2>2
<1> QED
  BY <1>1, <1>2 DEF provider_patch

LEMMA ProviderDeleteStep ==
    ASSUME RecordsInv, NEW a \in Admins, provider_delete(a)
    PROVE  RecordsInv'
<1>1. UNCHANGED <<keyVars, modelRow, routes, routeRaced, req, adm>> /\ provRow' = NoProvider
  BY DEF provider_delete, pq_delete_provider
<1>2. UNCHANGED <<keyRow, recs, neg, keyRaced>> /\ KeyPendingKept /\ RoutePendingKept /\ RowsStay
  BY <1>1, SamePending DEF keyVars, RowsStay
<1>3. KeyCore' /\ RouteCore' /\ ReqInv'
  BY <1>1, <1>2, SameKeys, SameRoutes, SameReqs DEF RecordsInv
<1> QED
  BY <1>1, <1>3, Constants DEF RecordsInv, AdmTypes

LEMMA SyncPicks ==
    ASSUME RecordsInv, NEW a \in Admins, adm[a].pc = "sync", NEW n \in adm[a].todo,
           adm' = [adm EXCEPT ![a].pc = IF pq_get_model(n) THEN "sync_update" ELSE "sync_create",
                              ![a].model = n],
           UNCHANGED <<keyVars, modelRow, provRow, routes, routeRaced, req>>
    PROVE  RecordsInv'
<1> DEFINE pc == IF pq_get_model(n) THEN "sync_update" ELSE "sync_create"
           st == [adm[a] EXCEPT !.pc = pc, !.model = n]
<1>1. adm \in [Admins -> AdminStates] /\ adm[a] \in AdminStates /\ provRow' \in Provs
  BY DEF RecordsInv, AdmTypes
<1>2. n \in Models
  BY <1>1 DEF AdminStates
<1>3. Become(a, st)
  BY <1>1 DEF Become
<1>4. pc \in {"sync_update", "sync_create"}
  OBVIOUS
<1> HIDE DEF pc
<1>5. st \in AdminStates
  BY <1>1, <1>2, <1>4 DEF AdminStates, KeyPoints, ModelPoints
<1> HIDE DEF st
<1> QED
  BY <1>1, <1>3, <1>5, OnlyAdm

LEMMA SyncWrites ==
    ASSUME RecordsInv, NEW a \in Admins, adm[a].pc \in {"sync_update", "sync_create"},
           \/ pq_update_model(adm[a].model, {"enabled", "endpoint"}, adm[a].prov.st, adm[a].prov.cfg)
           \/ pq_create_model(adm[a].model, adm[a].prov.cfg)
           \/ UNCHANGED modelRow,
           adm' = [adm EXCEPT ![a].pc = "sync_inval"],
           UNCHANGED <<keyVars, provRow, routes, routeRaced, req>>
    PROVE  RecordsInv'
<1> DEFINE st == [adm[a] EXCEPT !.pc = "sync_inval"]
<1>1. adm \in [Admins -> AdminStates] /\ adm[a] \in AdminStates
  BY DEF RecordsInv, AdmTypes
<1>2. PICK m \in Models : m = adm[a].model
  BY <1>1 DEF AdminStates, ModelPoints
<1>3. PICK p \in Provs : p = adm[a].prov
  BY <1>1 DEF AdminStates
<1>4. p.st \in {"absent", "off", "on"} /\ p.cfg \in Cfgs
  BY DEF Provs
<1>5. Become(a, st)
  BY <1>1 DEF Become
<1>6. st \in AdminStates /\ st.pc = "sync_inval" /\ st.model = m
  BY <1>1, <1>2 DEF AdminStates, KeyPoints, ModelPoints
<1> HIDE DEF st
<1>7. modelRow' \in [Models -> ModelRows] /\ \A n \in Models : n # m => modelRow'[n] = modelRow[n]
  <2>1. CASE pq_update_model(m, {"enabled", "endpoint"}, p.st, p.cfg)
    BY <1>4, <2>1, Updated DEF RecordsInv
  <2>2. CASE pq_create_model(m, p.cfg)
    BY <1>4, <2>2, Created DEF RecordsInv
  <2>3. CASE UNCHANGED modelRow
    BY <2>3 DEF RecordsInv, RouteCore
  <2> QED
    BY <1>2, <1>3, <2>1, <2>2, <2>3
<1> QED
  BY <1>5, <1>6, <1>7, WritesModel

LEMMA SyncDrops ==
    ASSUME RecordsInv, NEW a \in Admins, adm[a].pc = "sync_inval", model_router_invalidate(adm[a].model),
           Become(a, IF adm[a].todo = {adm[a].model} THEN Idle
                     ELSE [adm[a] EXCEPT !.pc = "sync", !.model = "none",
                                         !.todo = adm[a].todo \ {adm[a].model}]),
           UNCHANGED <<keyVars, modelRow, provRow, routeRaced, req>>
    PROVE  RecordsInv'
<1> DEFINE left == adm[a].todo \ {adm[a].model}
           more == [adm[a] EXCEPT !.pc = "sync", !.model = "none", !.todo = left]
           st == IF adm[a].todo = {adm[a].model} THEN Idle ELSE more
<1>1. adm \in [Admins -> AdminStates] /\ adm[a] \in AdminStates
  BY DEF RecordsInv, AdmTypes
<1>2. PICK m \in Models : m = adm[a].model
  BY <1>1 DEF AdminStates, ModelPoints
<1>3. Become(a, st)
  OBVIOUS
<1>4. left \in SUBSET Models
  BY <1>1 DEF AdminStates
<1> HIDE DEF left
<1>5. more \in AdminStates
  BY <1>1, <1>4 DEF AdminStates, KeyPoints, ModelPoints
<1> HIDE DEF more
<1>6. st \in AdminStates
  BY <1>5, Constants
<1> HIDE DEF st
<1> QED
  BY <1>2, <1>3, <1>6, DropsRoute

LEMMA SyncSteps ==
    ASSUME RecordsInv, NEW a \in Admins, SyncStep(a)
    PROVE  RecordsInv'
<1>1. UNCHANGED <<keyVars, provRow, routeRaced, req>>
  BY DEF SyncStep
<1>2. CASE /\ adm[a].pc = "sync"
           /\ \E n \in adm[a].todo :
                adm' = [adm EXCEPT ![a].pc = IF pq_get_model(n) THEN "sync_update" ELSE "sync_create",
                                   ![a].model = n]
           /\ UNCHANGED <<modelRow, routes>>
  BY <1>1, <1>2, SyncPicks
<1>3. CASE /\ adm[a].pc \in {"sync_update", "sync_create"}
           /\ \/ pq_update_model(adm[a].model, {"enabled", "endpoint"}, adm[a].prov.st, adm[a].prov.cfg)
              \/ pq_create_model(adm[a].model, adm[a].prov.cfg)
              \/ UNCHANGED modelRow
           /\ adm' = [adm EXCEPT ![a].pc = "sync_inval"]
           /\ UNCHANGED routes
  BY <1>1, <1>3, SyncWrites
<1>4. CASE /\ adm[a].pc = "sync_inval" /\ model_router_invalidate(adm[a].model)
           /\ Become(a, IF adm[a].todo = {adm[a].model} THEN Idle
                        ELSE [adm[a] EXCEPT !.pc = "sync", !.model = "none",
                                            !.todo = adm[a].todo \ {adm[a].model}])
           /\ UNCHANGED modelRow
  BY <1>1, <1>4, SyncDrops
<1> QED
  BY <1>2, <1>3, <1>4 DEF SyncStep, sync_provider_models

-----------------------------------------------------------------------------
LEMMA RecordsStep == RecordsInv /\ [Next]_vars => RecordsInv'
<1> SUFFICES ASSUME RecordsInv, [Next]_vars PROVE RecordsInv'
  OBVIOUS
<1>1. ASSUME NEW t \in Threads, auth_key_resolve(t) \/ model_router_resolve(t) PROVE RecordsInv'
  BY <1>1, ResolveKeyStep, ResolveRouteStep
<1>2. ASSUME NEW a \in Admins, key_create(a) \/ key_patch(a) \/ key_revoke(a) \/ InvalidateKey(a)
      PROVE  RecordsInv'
  BY <1>2, CreateStep, PatchStep, RevokeStep, InvalidateStep
<1>3. ASSUME NEW a \in Admins, model_create(a) \/ model_patch(a) \/ model_delete(a) \/ InvalidateRoute(a)
      PROVE  RecordsInv'
  BY <1>3, ModelCreateStep, ModelPatchStep, ModelDeleteStep, RouteInvalidateStep
<1>4. ASSUME NEW a \in Admins, provider_create(a) \/ provider_patch(a) \/ provider_delete(a) \/ SyncStep(a)
      PROVE  RecordsInv'
  BY <1>4, ProviderCreateStep, ProviderPatchStep, ProviderDeleteStep, SyncSteps
<1>5. CASE ExpiryPasses
  BY <1>5, ExpiryStep DEF ExpiryPasses
<1>6. CASE UNCHANGED vars
  BY <1>6, ExpiryStep DEF vars, keyVars
<1> QED
  BY <1>1, <1>2, <1>3, <1>4, <1>5, <1>6 DEF Next

\* What the request path reads from the key cache and the route cache is what the store holds,
\* whatever handlers and requests do between their store and cache calls, except for a key or a
\* model whose handler has its invalidation to come, or whose entry was filled from a row that
\* changed under the fill; and the negative cache names no key that exists. For every number of
\* keys, models, threads, administrators and both capacities.
THEOREM CachesAreRight == Spec => []CachesFollow
<1>1. Spec => []RecordsInv
  BY InitRecords, RecordsStep, PTL DEF Spec
<1> QED
  BY <1>1, CoreFollows, PTL
=============================================================================
