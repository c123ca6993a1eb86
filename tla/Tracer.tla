-------------------------------- MODULE Tracer --------------------------------
(***************************************************************************)
(* The tracer of src/observe/tracer.c: requests that are to be sampled     *)
(* push their trace onto a ring as they end (chat_req_cleanup), a worker   *)
(* pops them in batches, adds each to the cache of recent traces that the  *)
(* admin API reads, and posts the batch to the collector.  tracer_manager_ *)
(* stop pushes an empty trace to wake the worker, which then drains the    *)
(* ring into the cache.                                                    *)
(*                                                                         *)
(* Traces are numbered as they are pushed, 0 is the empty one.             *)
(***************************************************************************)
EXTENDS Integers, Sequences, FiniteSets

CONSTANTS
    TraceCap,      \* capacity of the ring
    RecentCap,     \* TRACE_RECENT_CACHE_CAPACITY
    TraceBatch,    \* traces of a batch
    MaxTraces,     \* bound: traces pushed
    MaxConfigs     \* bound: changes of the configuration

\* trace_ring_buffer_create makes a capacity of 0 the default one.
ASSUME TraceAssumption ==
    /\ TraceCap \in Nat \ {0} /\ RecentCap \in Nat \ {0} /\ TraceBatch \in Nat \ {0}
    /\ MaxTraces \in Nat /\ MaxConfigs \in Nat

VARIABLES
    traceRing,  \* items, oldest first
    traceDrops, \* dropped_count
    batch,      \* the worker's batch
    export,     \* enabled and with an endpoint
    cache,      \* items of the recent cache
    cacheNext,  \* next_idx
    cacheCount,
    tracerOn,   \* "on", then "waking" and "stopping" until the worker is joined, "off"
    traced      \* history: traces pushed, in the order they reached the cache, sent, not sent

traceVars == <<traceRing, traceDrops, batch, export, cache, cacheNext, cacheCount, tracerOn, traced>>
recent == <<cache, cacheNext, cacheCount>>

TraceInit ==
    /\ traceRing = <<>> /\ traceDrops = 0 /\ batch = <<>>
    /\ export \in BOOLEAN
    /\ cache = [i \in 0 .. RecentCap - 1 |-> 0] /\ cacheNext = 0 /\ cacheCount = 0
    /\ tracerOn = "on"
    /\ traced = [n |-> 0, added |-> <<>>, sent |-> 0, unsent |-> 0, configs |-> 0]

\* A full ring loses its oldest trace.
trace_ring_buffer_push(t) ==
    IF Len(traceRing) = TraceCap
    THEN traceRing' = Append(Tail(traceRing), t) /\ traceDrops' = traceDrops + 1
    ELSE traceRing' = Append(traceRing, t) /\ UNCHANGED traceDrops

\* chat_req_cleanup, for a trace that tracer_should_sample lets through.
EndTrace ==
    /\ tracerOn = "on" /\ traced.n < MaxTraces
    /\ trace_ring_buffer_push(traced.n + 1)
    /\ traced' = [traced EXCEPT !.n = @ + 1]
    /\ UNCHANGED <<batch, export, recent, tracerOn>>

\* Mutant: the index wraps one slot late, over what is not there.
CacheAddOne(t) ==
    /\ cache' = [cache EXCEPT ![cacheNext] = t]
    /\ cacheNext' = IF cacheNext = RecentCap - 1 THEN cacheNext ELSE cacheNext + 1
    /\ cacheCount' = IF cacheCount < RecentCap THEN cacheCount + 1 ELSE cacheCount

\* The empty trace is not added.
tracer_cache_add(t) ==
    IF t = 0 THEN UNCHANGED recent
    ELSE /\ cache' = [cache EXCEPT ![cacheNext] = t]
         /\ cacheNext' = (cacheNext + 1) % RecentCap
         /\ cacheCount' = IF cacheCount < RecentCap THEN cacheCount + 1 ELSE cacheCount

\* One pop of the worker, which goes on until the ring is empty or the batch full.
trace_ring_buffer_pop ==
    /\ traceRing # <<>> /\ Len(batch) < TraceBatch
    /\ tracerOn \in {"on", "waking"} \/ batch # <<>>
    /\ traceRing' = Tail(traceRing) /\ batch' = Append(batch, Head(traceRing))
    /\ tracer_cache_add(Head(traceRing))
    /\ traced' = [traced EXCEPT !.added = IF Head(traceRing) = 0 THEN @ ELSE Append(@, Head(traceRing))]
    /\ tracerOn' = IF tracerOn = "waking" THEN "stopping" ELSE tracerOn
    /\ UNCHANGED <<traceDrops, export>>

\* Posted, or not: the batch is gone.
trace_exporter_worker ==
    /\ batch # <<>> /\ (traceRing = <<>> \/ Len(batch) = TraceBatch)
    /\ \E ok \in BOOLEAN :
         traced' = IF export /\ ok THEN [traced EXCEPT !.sent = @ + Len(batch)]
                   ELSE [traced EXCEPT !.unsent = @ + Len(batch)]
    /\ batch' = <<>>
    /\ UNCHANGED <<traceRing, traceDrops, export, recent, tracerOn>>

tracer_manager_update_config ==
    /\ tracerOn = "on" /\ traced.configs < MaxConfigs
    /\ export' = ~export
    /\ traced' = [traced EXCEPT !.configs = @ + 1]
    /\ UNCHANGED <<traceRing, traceDrops, batch, recent, tracerOn>>

\* A worker without a batch may be in the middle of a pop, and makes one more batch.
tracer_manager_stop ==
    /\ tracerOn = "on"
    /\ tracerOn' \in IF batch = <<>> THEN {"waking", "stopping"} ELSE {"stopping"}
    /\ trace_ring_buffer_push(0)
    /\ UNCHANGED <<batch, export, recent, traced>>

\* Outside its loop the worker adds what is left.
DrainTraces ==
    /\ tracerOn = "stopping" /\ batch = <<>> /\ traceRing # <<>>
    /\ traceRing' = Tail(traceRing)
    /\ tracer_cache_add(Head(traceRing))
    /\ traced' = [traced EXCEPT !.added = IF Head(traceRing) = 0 THEN @ ELSE Append(@, Head(traceRing))]
    /\ UNCHANGED <<traceDrops, batch, export, tracerOn>>

TracerJoined ==
    /\ tracerOn = "stopping" /\ batch = <<>> /\ traceRing = <<>>
    /\ tracerOn' = "off"
    /\ UNCHANGED <<traceRing, traceDrops, batch, export, recent, traced>>

TraceNext ==
    \/ EndTrace \/ trace_ring_buffer_pop \/ trace_exporter_worker \/ tracer_manager_update_config
    \/ tracer_manager_stop \/ DrainTraces \/ TracerJoined

TraceSpec == TraceInit /\ [][TraceNext]_traceVars

\* What tracer_cache_list_recent returns for a long enough array.
tracer_cache_list_recent ==
    [i \in 1 .. cacheCount |-> cache[(cacheNext + RecentCap - i) % RecentCap]]

\* A sampled trace reaches the cache unless the full ring dropped it, and the drop is counted, also
\* across a stop; the list of recent traces is the last ones that did, newest first
\* (trace_ring_buffer_push, tracer_cache_add, tracer_cache_list_recent, tracer_manager_stop).
TraceAccounted ==
    LET waiting == {i \in DOMAIN traceRing : traceRing[i] # 0}
        k == Len(traced.added)
    IN  /\ traced.n = k + Cardinality(waiting) + traceDrops
        /\ tracer_cache_list_recent = [i \in 1 .. (IF k < RecentCap THEN k ELSE RecentCap) |-> traced.added[k - i + 1]]
=============================================================================
