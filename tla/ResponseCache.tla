---------------------------- MODULE ResponseCache ----------------------------
(***************************************************************************)
(* One shard of policy/response_cache.c: entries in a recency list under   *)
(* the shard's lock, and readers that keep an entry after the lock with a  *)
(* reference count.  Releasing an entry takes no lock: it counts down, and *)
(* then looks for the mark that destroy_entry_internal leaves on an entry  *)
(* it found in use.                                                        *)
(*                                                                         *)
(* An entry and its body are numbered by the call of response_cache_set    *)
(* that made them.  The hash chains are left out (a key has one entry),    *)
(* and so are the counters of hits, misses and saved tokens.               *)
(***************************************************************************)
EXTENDS Naturals, Sequences, FiniteSets, SequencesExt

CONSTANTS
    CacheKeys,
    ModelOf,          \* the model of a key: the fingerprint covers it
    Readers,
    Lens,             \* lengths of a body
    MaxBytes,         \* shard->max_bytes
    MaxCount,         \* shard->max_count
    MaxSets           \* bound: calls of response_cache_set

\* response_cache_new replaces limits of zero; a request is served by a thread of its own.
ASSUME CacheAssumption ==
    /\ MaxCount \in Nat \ {0} /\ MaxBytes \in Nat /\ MaxSets \in Nat
    /\ Lens \subseteq Nat /\ IsFiniteSet(Readers)

VARIABLES
    shard,     \* list (head first), count, bytes_used
    entry,     \* cache_entry_t by number
    bodies,    \* bodies that are allocated
    marking,   \* entries found in use, whose mark is about to be written; the lock is held
    reader,
    sets,
    raced      \* history: entries destroyed while their last reader was between counting down and
               \* looking for the mark

cacheVars == <<shard, entry, bodies, marking, reader, sets, raced>>

Entries == 1 .. MaxSets
Models == {ModelOf[k] : k \in CacheKeys}
Tombstone == 0   \* status_code = -1
NoEntry == [st |-> "none", key |-> "", body |-> 0, len |-> 0,
            status |-> 0, refs |-> 0, stale |-> FALSE]
\* What a late reader may still find in an entry that was freed.
Freed(x) ==
    [st |-> "freed", key |-> "", body |-> x.body, len |-> 0, status |-> x.status, refs |-> x.refs, stale |-> FALSE]
Idle == [pc |-> "idle", e |-> 0, body |-> 0]

CacheInit ==
    /\ shard = [list |-> <<>>, count |-> 0, bytes |-> 0]
    /\ entry = [e \in Entries |-> NoEntry]
    /\ bodies = {} /\ marking = {} /\ raced = {}
    /\ reader = [r \in Readers |-> Idle]
    /\ sets = 0

Unlocked == marking = {}
Found(k) == {e \in ToSet(shard.list) : entry[e].key = k}

\* bytes_used never goes below zero.
Less(a, n) == IF a >= n THEN a - n ELSE 0

Place(list, e) == CHOOSE i \in DOMAIN list : list[i] = e
lru_remove(s, e) == [s EXCEPT !.list = RemoveAt(s.list, Place(s.list, e))]
lru_push_head(s, e) == [s EXCEPT !.list = <<e>> \o s.list]

\* Mutant: the bytes of an entry that leaves the shard are not given back.
UnlinkKeepsBytes(s, e) == [lru_remove(s, e) EXCEPT !.count = @ - 1]

Unlink(s, e) ==
    [list |-> lru_remove(s, e).list, count |-> s.count - 1, bytes |-> Less(s.bytes, entry[e].len)]

InWindow(es) == {e \in es : \E r \in Readers : reader[r].pc = "last" /\ reader[r].e = e}

\* Mutant: an entry is freed although readers hold it.
DestroyHeld(es, new) ==
    /\ entry' = [e \in Entries |-> IF e \in es THEN Freed(entry[e])
                                   ELSE IF e \in DOMAIN new THEN new[e] ELSE entry[e]]
    /\ bodies' = (bodies \ {entry[e].body : e \in es}) \cup DOMAIN new
    /\ marking' = {}
    /\ raced' = raced \cup InWindow(es)

\* destroy_entry_internal for some entries, up to the mark: those without readers are freed. The
\* entries in new are created under the same lock.
destroy_entry_internal(es, new) ==
    LET free == {e \in es : entry[e].refs = 0} IN
    /\ entry' = [e \in Entries |-> IF e \in free THEN Freed(entry[e])
                                   ELSE IF e \in DOMAIN new THEN new[e] ELSE entry[e]]
    /\ bodies' = (bodies \ {entry[e].body : e \in free}) \cup DOMAIN new
    /\ marking' = es \ free
    /\ raced' = raced \cup InWindow(es)

Mark(e) ==
    /\ e \in marking
    /\ marking' = marking \ {e}
    /\ entry' = [entry EXCEPT ![e].status = Tombstone]
    /\ UNCHANGED <<shard, bodies, reader, sets, raced>>

\* The entry at the tail leaves; the caller destroys it.
evict_one_lru_locked(s) == Unlink(s, Last(s.list))

\* Before an insertion entries are evicted one by one until the new body fits.
TooFull(s, len) == s.count >= MaxCount \/ (s.bytes + len > MaxBytes /\ s.count > 0)
MadeRoom(s, len) ==
    LET evicted[n \in 0 .. Len(s.list)] ==
          IF n = 0 THEN s
          ELSE IF TooFull(evicted[n - 1], len) THEN evict_one_lru_locked(evicted[n - 1]) ELSE evicted[n - 1]
    IN  evicted[Len(s.list)]

\* A purge takes the entries es out of the shard.
Purged(s, es) ==
    LET purged[n \in 0 .. Len(s.list)] ==
          IF n = 0 THEN s
          ELSE IF s.list[n] \in es THEN Unlink(purged[n - 1], s.list[n]) ELSE purged[n - 1]
    IN  purged[Len(s.list)]

(***************************************************************************)
(* The operations                                                          *)
(***************************************************************************)
\* An expired entry is destroyed, a good one moves to the head and is held by the reader.
response_cache_get(r, k) ==
    /\ Unlocked /\ reader[r].pc = "idle"
    /\ \E e \in Found(k) :
         IF entry[e].stale
         THEN /\ shard' = Unlink(shard, e)
              /\ destroy_entry_internal({e}, <<>>)
              /\ UNCHANGED reader
         ELSE /\ shard' = lru_push_head(lru_remove(shard, e), e)
              /\ entry' = [entry EXCEPT ![e].refs = @ + 1]
              /\ reader' = [reader EXCEPT ![r] = [pc |-> "holds", e |-> e, body |-> 0]]
              /\ UNCHANGED <<bodies, marking, raced>>
    /\ UNCHANGED sets

\* The reader takes response_body from the entry, and writes it to its client.
ReadBody(r) ==
    /\ reader[r].pc = "holds"
    /\ reader' = [reader EXCEPT ![r] = [pc |-> "writes", e |-> reader[r].e, body |-> entry[reader[r].e].body]]
    /\ UNCHANGED <<shard, entry, bodies, marking, sets, raced>>

\* response_cache_release_entry counts down; the last reader goes on to look for the mark.
Release(r) ==
    LET e == reader[r].e IN
    /\ reader[r].pc = "writes"
    /\ entry' = [entry EXCEPT ![e].refs = @ - 1]
    /\ reader' = [reader EXCEPT ![r] = IF entry[e].refs <= 1 THEN [pc |-> "last", e |-> e, body |-> 0] ELSE Idle]
    /\ raced' = IF e \in marking THEN raced \cup {e} ELSE raced
    /\ UNCHANGED <<shard, bodies, marking, sets>>

response_cache_release_entry(r) ==
    LET e == reader[r].e
        marked == entry[e].status = Tombstone
    IN
    /\ reader[r].pc = "last"
    /\ reader' = [reader EXCEPT ![r] = Idle]
    /\ entry' = IF marked THEN [entry EXCEPT ![e] = Freed(@)] ELSE entry
    /\ bodies' = IF marked THEN bodies \ {entry[e].body} ELSE bodies
    /\ UNCHANGED <<shard, marking, sets, raced>>

Filled(e, k, len) ==
    [st |-> "used", key |-> k, body |-> e, len |-> len, status |-> 200, refs |-> 0, stale |-> FALSE]

\* A key that is there gets the new body, and the old one is freed.
Update(e, len) ==
    /\ bodies' = (bodies \ {entry[e].body}) \cup {sets + 1}
    /\ entry' = [entry EXCEPT ![e] = [Filled(sets + 1, entry[e].key, len) EXCEPT !.refs = entry[e].refs]]
    /\ shard' = lru_push_head(lru_remove([shard EXCEPT !.bytes = Less(shard.bytes, entry[e].len) + len], e), e)
    /\ UNCHANGED <<marking, raced>>

Insert(k, len) ==
    LET room == MadeRoom(shard, len)
        e == sets + 1
    IN  /\ shard' = lru_push_head([list |-> room.list, count |-> room.count + 1, bytes |-> room.bytes + len], e)
        /\ destroy_entry_internal(ToSet(shard.list) \ ToSet(room.list), [x \in {e} |-> Filled(x, k, len)])

response_cache_set(k, len) ==
    /\ Unlocked /\ sets < MaxSets
    /\ sets' = sets + 1
    /\ IF Found(k) = {} THEN Insert(k, len) ELSE \E e \in Found(k) : Update(e, len)
    /\ UNCHANGED reader

\* POST /admin/v1/cache/purge, for one model or for all of them.
response_cache_purge(ms) ==
    LET es == {e \in ToSet(shard.list) : ModelOf[entry[e].key] \in ms} IN
    /\ Unlocked /\ es # {}
    /\ shard' = Purged(shard, es)
    /\ destroy_entry_internal(es, <<>>)
    /\ UNCHANGED <<reader, sets>>

\* time(NULL) passes expires_at.
Expire(e) ==
    /\ e \in ToSet(shard.list) /\ ~entry[e].stale
    /\ entry' = [entry EXCEPT ![e].stale = TRUE]
    /\ UNCHANGED <<shard, bodies, marking, reader, sets, raced>>

CacheNext ==
    \/ \E k \in CacheKeys :
         \/ \E r \in Readers : response_cache_get(r, k)
         \/ \E len \in Lens : response_cache_set(k, len)
    \/ \E r \in Readers : ReadBody(r) \/ Release(r) \/ response_cache_release_entry(r)
    \/ \E ms \in {Models} \cup {{m} : m \in Models} : response_cache_purge(ms)
    \/ \E e \in Entries : Mark(e) \/ Expire(e)

CacheSpec == CacheInit /\ [][CacheNext]_cacheVars

(***************************************************************************)
(* Properties                                                              *)
(***************************************************************************)
SumOf(w) ==
    LET sum[n \in 0 .. MaxSets] == IF n = 0 THEN 0 ELSE sum[n - 1] + w[n] IN sum[MaxSets]

\* What the shard counts is what is in it: its entries are alive and unmarked, one for a key,
\* their number is count and within max_count, the sum of their lengths is bytes_used.
ShardAccounted ==
    LET list == ToSet(shard.list) IN
    /\ \A e \in list : entry[e].st = "used" /\ entry[e].status = 200 /\ entry[e].body \in bodies
    /\ \A e, f \in list : entry[e].key = entry[f].key => e = f
    /\ shard.count = Len(shard.list) /\ shard.count = Cardinality(list) /\ shard.count <= MaxCount
    /\ shard.bytes = SumOf([e \in Entries |-> IF e \in list THEN entry[e].len ELSE 0])

\* Whatever is evicted, expired, purged or replaced meanwhile, the entry that a reader got is not
\* freed before it counted down, its count is the number of readers that have not, and an entry
\* that left the shard is freed by its last reader. Entries whose last reader was overtaken
\* between its two steps are excepted: they may be freed under a reader, or leak.
HeldEntryAlive ==
    \A e \in Entries \ raced :
        LET at(pcs) == {r \in Readers : reader[r].pc \in pcs /\ reader[r].e = e}
        IN  /\ entry[e].refs = Cardinality(at({"holds", "writes"}))
            /\ at({"holds", "writes"}) # {} => entry[e].st = "used"
            /\ entry[e].st = "used" /\ e \notin ToSet(shard.list) /\ e \notin marking =>
                 at({"holds", "writes", "last"}) # {}

\* "with live readers only marks a status=-1 tombstone (freed on reader release)"
\* (policy/response_cache.c): the body that a reader is writing is allocated.
ReadersKeepBody == \A r \in Readers : reader[r].pc = "writes" => reader[r].body \in bodies
=============================================================================
