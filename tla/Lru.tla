--------------------------------- MODULE Lru ---------------------------------
(***************************************************************************)
(* common/lru.c: a recency list and a chained hash table over the same     *)
(* nodes. Every operation runs under the map's mutex, so that each is one  *)
(* step; what can go wrong is in the pointers. Implements LruMap.          *)
(***************************************************************************)
EXTENDS Naturals, Sequences, FiniteSets

CONSTANTS
    Keys,        \* numbers: fnv1a(key) is abstracted to a remainder, so that keys collide
    Values,      \* distinct values; each is put into the map once
    Nodes,       \* addresses malloc can return
    Capacity,
    TableCap     \* buckets

ASSUME LruAssumption ==
    /\ Keys \subseteq Nat
    /\ Capacity \in Nat \ {0} /\ TableCap \in Nat \ {0}
    /\ IsFiniteSet(Nodes) /\ Cardinality(Nodes) > Capacity

Nil == 0
ASSUME NodeAssumption == Nil \notin Nodes

VARIABLES
    lr,        \* struct lru: count, head, tail, table; and the fields of its live nodes
    unused,    \* values the callers have not put in yet
    evicted    \* values handed to on_evict, each with how often

lruVars == <<lr, unused, evicted>>

NoRec == [key |-> 0, val |-> 0, prev |-> Nil, next |-> Nil, next_bkt |-> Nil, live |-> FALSE]

fnv1a(k) == k % TableCap

lru_new == [count |-> 0, head |-> Nil, tail |-> Nil,
            table |-> [b \in 0 .. TableCap - 1 |-> Nil],
            node |-> [n \in Nodes |-> NoRec]]

rec_link_head(s, n) ==
    LET linked == [s.node EXCEPT ![n].next = s.head, ![n].prev = Nil]
    IN  [s EXCEPT !.node = IF s.head # Nil THEN [linked EXCEPT ![s.head].prev = n] ELSE linked,
                  !.head = n,
                  !.tail = IF @ = Nil THEN n ELSE @]

\* Mutant: the tail still points at the node that was unlinked.
UnlinkKeepsTail(s, n) ==
    LET p == s.node[n].prev
        x == s.node[n].next
        fromPrev == IF p # Nil THEN [s.node EXCEPT ![p].next = x] ELSE s.node
        fromNext == IF x # Nil THEN [fromPrev EXCEPT ![x].prev = p] ELSE fromPrev
    IN  [s EXCEPT !.node = [fromNext EXCEPT ![n].prev = Nil, ![n].next = Nil],
                  !.head = IF p = Nil THEN x ELSE @]

rec_unlink(s, n) ==
    LET p == s.node[n].prev
        x == s.node[n].next
        fromPrev == IF p # Nil THEN [s.node EXCEPT ![p].next = x] ELSE s.node
        fromNext == IF x # Nil THEN [fromPrev EXCEPT ![x].prev = p] ELSE fromPrev
    IN  [s EXCEPT !.node = [fromNext EXCEPT ![n].prev = Nil, ![n].next = Nil],
                  !.head = IF p = Nil THEN x ELSE @,
                  !.tail = IF x = Nil THEN p ELSE @]

rec_move_to_head(s, n) == IF s.head = n THEN s ELSE rec_link_head(rec_unlink(s, n), n)

find_node(s, k) ==
    LET walk[n \in Nodes \cup {Nil}] ==
            IF n = Nil \/ s.node[n].key = k THEN n ELSE walk[s.node[n].next_bkt]
    IN  walk[s.table[fnv1a(k)]]

bkt_insert(s, n) ==
    LET h == fnv1a(s.node[n].key)
    IN  [s EXCEPT !.node[n].next_bkt = s.table[h], !.table[h] = n]

bkt_remove(s, n) ==
    LET h == fnv1a(s.node[n].key)
        x == s.node[n].next_bkt
    IN  [s EXCEPT !.table[h] = IF @ = n THEN x ELSE @,
                  !.node = [m \in Nodes |->
                              IF m = n THEN [s.node[n] EXCEPT !.next_bkt = Nil]
                              ELSE IF s.node[m].next_bkt = n THEN [s.node[m] EXCEPT !.next_bkt = x]
                              ELSE s.node[m]]]

destroy_node(s, n) == [s EXCEPT !.node[n] = NoRec]

RemoveNode(s, n) ==
    [destroy_node(bkt_remove(rec_unlink(s, n), n), n) EXCEPT !.count = @ - 1]

OnEvict(v) == evicted' = [evicted EXCEPT ![v] = @ + 1]

LruInit ==
    /\ lr = lru_new
    /\ unused = Values
    /\ evicted = [v \in Values |-> 0]

lru_get(k) ==
    LET n == find_node(lr, k) IN
    /\ lr' = IF n # Nil THEN rec_move_to_head(lr, n) ELSE lr
    /\ UNCHANGED <<unused, evicted>>

Full(s) == s.count = Capacity /\ s.tail # Nil

\* A key that is there gets the new value; a new one may displace the tail first.
lru_put(k, v) ==
    LET old == find_node(lr, k)
        new == CHOOSE n \in Nodes : ~lr.node[n].live
        room == IF Full(lr) THEN RemoveNode(lr, lr.tail) ELSE lr
        filled == [room EXCEPT !.node[new] = [NoRec EXCEPT !.key = k, !.val = v, !.live = TRUE],
                               !.count = @ + 1]
    IN  /\ v \in unused
        /\ unused' = unused \ {v}
        /\ IF old # Nil
           THEN /\ lr' = rec_move_to_head([lr EXCEPT !.node[old].val = v], old)
                /\ OnEvict(lr.node[old].val)
           ELSE /\ lr' = bkt_insert(rec_link_head(filled, new), new)
                /\ IF Full(lr) THEN OnEvict(lr.node[lr.tail].val) ELSE UNCHANGED evicted

lru_invalidate(k) ==
    LET n == find_node(lr, k) IN
    /\ n # Nil
    /\ lr' = RemoveNode(lr, n)
    /\ OnEvict(lr.node[n].val)
    /\ UNCHANGED unused

LruNext == \E k \in Keys : lru_get(k) \/ lru_invalidate(k) \/ \E v \in Values : lru_put(k, v)

LruSpec == LruInit /\ [][LruNext]_lruVars

-----------------------------------------------------------------------------
\* The nodes from the head along the next pointers.
RecencyList(s) ==
    LET walk[n \in Nodes \cup {Nil}] == IF n = Nil THEN <<>> ELSE <<n>> \o walk[s.node[n].next]
    IN  walk[s.head]

Entries(s, nodes) == [i \in DOMAIN nodes |-> [key |-> s.node[nodes[i]].key, val |-> s.node[nodes[i]].val]]

\* The recency list, read from the head, is the abstract map: get, put and invalidate do what
\* lru.h says through both of their pointer structures, the entry a full map displaces is the
\* least recently used one, and each displaced value is handed to on_evict once.
Map == INSTANCE LruMap WITH items <- Entries(lr, RecencyList(lr))
ImplementsMap == Map!Spec
=============================================================================
