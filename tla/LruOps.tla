------------------------------- MODULE LruOps -------------------------------
(* An LRU map as its callers see it: a sequence of entries, the most       *)
(* recently used first, with one entry per key (lru.h).                    *)
EXTENDS Naturals, Sequences, SequencesExt

LruKeys(items) == {items[i].key : i \in DOMAIN items}
LruHas(items, k) == k \in LruKeys(items)
LruIndex(items, k) == CHOOSE i \in DOMAIN items : items[i].key = k
LruValue(items, k) == items[LruIndex(items, k)].val

LruDrop(items, k) == IF LruHas(items, k) THEN RemoveAt(items, LruIndex(items, k)) ELSE items

\* A hit moves the entry to the front.
LruGet(items, k) ==
    IF LruHas(items, k) THEN <<[key |-> k, val |-> LruValue(items, k)]>> \o LruDrop(items, k)
    ELSE items

\* A new key displaces the least recently used entry of a full map.
LruPut(items, k, v, capacity) ==
    LET others == LruDrop(items, k)
        kept == IF ~LruHas(items, k) /\ Len(items) = capacity THEN Front(others) ELSE others
    IN  <<[key |-> k, val |-> v]>> \o kept
=============================================================================
