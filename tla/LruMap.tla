------------------------------- MODULE LruMap -------------------------------
(***************************************************************************)
(* What lru.h promises: gets, puts and invalidations of a bounded map in   *)
(* recency order. Values are distinct objects; the map owns the ones it    *)
(* holds and gives each displaced value back to its owner once.            *)
(***************************************************************************)
EXTENDS LruOps

CONSTANTS Keys, Values, Capacity

VARIABLES
    items,      \* the entries, the most recently used first
    unused,     \* the values not yet put in
    evicted     \* how often each value was handed back

Init == items = <<>> /\ unused = Values /\ evicted = [v \in Values |-> 0]

Held(s) == {s[i].val : i \in DOMAIN s}

\* The values that leave the map go back to their owner.
HandBack ==
    evicted' = [v \in Values |-> evicted[v] + IF v \in Held(items) \ Held(items') THEN 1 ELSE 0]

Get(k) == items' = LruGet(items, k) /\ UNCHANGED <<unused, evicted>>

Put(k, v) ==
    /\ v \in unused
    /\ items' = LruPut(items, k, v, Capacity)
    /\ unused' = unused \ {v}
    /\ HandBack

Invalidate(k) == items' = LruDrop(items, k) /\ HandBack /\ UNCHANGED unused

Next == \E k \in Keys : Get(k) \/ Invalidate(k) \/ \E v \in Values : Put(k, v)

Spec == Init /\ [][Next]_<<items, unused, evicted>>
=============================================================================
