------------------------------ MODULE MCServices ------------------------------
(***************************************************************************)
(* The parts that work beside the requests, for model checking: the audit  *)
(* log, the event bus, the shadow engine, the tracer, the pool of Redis    *)
(* connections, the LRU map under the caches, and the rotation of the      *)
(* master key.  They share no state and no lock, so a behaviour runs one   *)
(* of them and leaves the others in their first state.                     *)
(***************************************************************************)
EXTENDS AuditLog, EventBus, Shadow, Tracer, RedisPool, Lru, KeyRotation

VARIABLE part

observers == <<auditVars, busVars, shadowVars, traceVars>>
upkeep == <<poolVars, lruVars, rotVars>>
vars == <<observers, upkeep, part>>

MCChannels == {{"file"}, {"hook", "poll"}}

\* The parts with more than one first state have one when they do not run.
Init ==
    /\ AuditInit /\ BusInit /\ ShadowInit /\ TraceInit
    /\ PoolInit /\ LruInit /\ RotInit
    /\ part \in {"audit", "bus", "shadow", "trace", "pool", "lru", "rotation"}
    /\ part = "audit" \/ channels = {"file"}
    /\ part = "trace" \/ export
    /\ part = "rotation" \/ rows = [r \in KeyRows |-> [p \in Places(r) |-> [v |-> 1, m |-> "old"]]]

Next ==
    \/ part = "audit" /\ AuditNext /\ UNCHANGED <<busVars, shadowVars, traceVars, upkeep, part>>
    \/ part = "bus" /\ BusNext /\ UNCHANGED <<auditVars, shadowVars, traceVars, upkeep, part>>
    \/ part = "shadow" /\ ShadowNext /\ UNCHANGED <<auditVars, busVars, traceVars, upkeep, part>>
    \/ part = "trace" /\ TraceNext /\ UNCHANGED <<auditVars, busVars, shadowVars, upkeep, part>>
    \/ part = "pool" /\ PoolNext /\ UNCHANGED <<observers, lruVars, rotVars, part>>
    \/ part = "lru" /\ LruNext /\ UNCHANGED <<observers, poolVars, rotVars, part>>
    \/ part = "rotation" /\ RotNext /\ UNCHANGED <<observers, poolVars, lruVars, part>>

Spec == Init /\ [][Next]_vars /\ AuditFairness
===============================================================================
