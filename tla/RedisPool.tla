------------------------------ MODULE RedisPool ------------------------------
(***************************************************************************)
(* The pool of Redis connections that the limiter, the breaker and the     *)
(* admin lockout share (store/redis_pool.c).  The pool's mutex is held for *)
(* the book-keeping only: dialling, reconnecting and using a connection    *)
(* happen outside it, so a thread's call is several steps.  Redis may be   *)
(* out of reach at any of them.                                            *)
(*                                                                         *)
(* A connection is its error flag and whether it is logged in and on the   *)
(* configured database: redisReconnect (external) opens the socket again   *)
(* and no more.                                                            *)
(***************************************************************************)
EXTENDS Integers, Sequences, FiniteSets

CONSTANTS
    PoolThreads,
    PoolSize,        \* capacity
    MaxPoolCalls,    \* bound: calls of redis_pool_acquire
    MaxPoolFaults    \* bound: commands, dials and reconnects that fail

ASSUME PoolAssumption == PoolSize \in Nat \ {0} /\ IsFiniteSet(PoolThreads)

VARIABLES
    pool,       \* count, the stack of idle connections, open
    caller,     \* thread -> pc and the connection it has in hand
    poolCalls, poolFaults

poolVars == <<pool, caller, poolCalls, poolFaults>>

NoConn == [err |-> FALSE, ready |-> FALSE]
Dialled == [err |-> FALSE, ready |-> TRUE]
Out == [pc |-> "out", c |-> NoConn]

\* redis_pool_create: the first connection proves that Redis is there.
PoolInit ==
    /\ pool = [count |-> 1, idle |-> <<Dialled>>, open |-> TRUE]
    /\ caller = [t \in PoolThreads |-> Out]
    /\ poolCalls = 0 /\ poolFaults = 0

Moves(t, pc, c) == caller' = [caller EXCEPT ![t] = [pc |-> pc, c |-> c]]
Fault == poolFaults < MaxPoolFaults /\ poolFaults' = poolFaults + 1
NoFault == UNCHANGED poolFaults

\* Taking the lock in redis_pool_acquire: an idle connection, a new slot, or the wait.
Lends(t) ==
    IF Len(pool.idle) > 0
    THEN LET c == pool.idle[Len(pool.idle)] IN
         /\ pool' = [pool EXCEPT !.idle = SubSeq(@, 1, Len(@) - 1)]
         /\ Moves(t, IF c.err THEN "check" ELSE "uses", c)
    ELSE IF pool.count < PoolSize
    THEN pool' = [pool EXCEPT !.count = @ + 1] /\ Moves(t, "new", NoConn)
    ELSE Moves(t, "waits", NoConn) /\ UNCHANGED pool

redis_pool_acquire(t) ==
    /\ pool.open /\ caller[t].pc = "out" /\ poolCalls < MaxPoolCalls
    /\ poolCalls' = poolCalls + 1
    /\ Lends(t) /\ NoFault

\* A signal, or a spurious wake-up: the loop looks again.
Wakes(t) ==
    /\ caller[t].pc = "waits"
    /\ Len(pool.idle) > 0 \/ pool.count < PoolSize
    /\ Lends(t) /\ NoFault /\ UNCHANGED poolCalls

TimesOut(t) ==
    /\ caller[t].pc = "waits"
    /\ Moves(t, "out", NoConn)
    /\ UNCHANGED <<pool, poolCalls, poolFaults>>

\* redis_connect_url with its AUTH and SELECT. Only a dial that took a slot gives one back.
Dial(t) ==
    /\ caller[t].pc \in {"new", "redial"}
    /\ \/ Moves(t, "uses", Dialled) /\ UNCHANGED pool /\ NoFault
       \/ /\ Moves(t, "out", NoConn) /\ Fault
          /\ pool' = IF caller[t].pc = "new" THEN [pool EXCEPT !.count = @ - 1] ELSE pool
    /\ UNCHANGED poolCalls

\* The caller's commands; a lost or late answer leaves the connection's error flag set.
Use(t) ==
    /\ caller[t].pc = "uses"
    /\ \/ Moves(t, "back", caller[t].c) /\ NoFault
       \/ Moves(t, "back", [caller[t].c EXCEPT !.err = TRUE]) /\ Fault
    /\ UNCHANGED <<pool, poolCalls>>

\* Mutant: the slot of a connection that is given up is not given back.
ReconnectKeepsSlot(t) ==
    /\ caller[t].pc \in {"check", "back"} /\ caller[t].c.err
    /\ \/ Moves(t, IF caller[t].pc = "check" THEN "uses" ELSE "back", [err |-> FALSE, ready |-> FALSE])
          /\ UNCHANGED pool /\ NoFault
       \/ Moves(t, IF caller[t].pc = "check" THEN "redial" ELSE "out", NoConn) /\ Fault /\ UNCHANGED pool
    /\ UNCHANGED poolCalls

\* The health check of both calls: reconnect, or free the connection and give up its slot.
Reconnect(t) ==
    /\ caller[t].pc \in {"check", "back"} /\ caller[t].c.err
    /\ \/ Moves(t, IF caller[t].pc = "check" THEN "uses" ELSE "back", [err |-> FALSE, ready |-> FALSE])
          /\ UNCHANGED pool /\ NoFault
       \/ /\ Moves(t, IF caller[t].pc = "check" THEN "redial" ELSE "out", NoConn) /\ Fault
          /\ pool' = [pool EXCEPT !.count = @ - 1]
    /\ UNCHANGED poolCalls

\* redis_pool_release of a sound connection; on a full stack it is freed.
redis_pool_release(t) ==
    /\ caller[t].pc = "back" /\ ~caller[t].c.err
    /\ pool' = IF Len(pool.idle) < PoolSize
               THEN [pool EXCEPT !.idle = Append(@, caller[t].c)]
               ELSE [pool EXCEPT !.count = @ - 1]
    /\ Moves(t, "out", NoConn)
    /\ UNCHANGED <<poolCalls, poolFaults>>

\* main destroys the pool when its users have ended.
redis_pool_destroy ==
    /\ pool.open /\ \A t \in PoolThreads : caller[t].pc = "out"
    /\ pool' = [count |-> 0, idle |-> <<>>, open |-> FALSE]
    /\ UNCHANGED <<caller, poolCalls, poolFaults>>

PoolNext ==
    \/ \E t \in PoolThreads :
         \/ redis_pool_acquire(t) \/ Wakes(t) \/ TimesOut(t) \/ Dial(t)
         \/ Use(t) \/ Reconnect(t) \/ redis_pool_release(t)
    \/ redis_pool_destroy

PoolSpec == PoolInit /\ [][PoolNext]_poolVars

(***************************************************************************)
(* Properties                                                              *)
(***************************************************************************)
OutOfPool == {t \in PoolThreads : caller[t].pc \in {"new", "uses", "back", "check"}}

\* Through every failed dial, failed reconnect and timeout, count is the number of connections
\* that are idle, in use or being dialled, never above the capacity: no slot is lost and no
\* connection escapes the limit. It rests on the stack holding no connection with an error,
\* so that redis_pool_acquire's health check, which would dial without a slot, finds none.
PoolCounted ==
    /\ pool.count = Len(pool.idle) + Cardinality(OutOfPool)
    /\ pool.count \in 0..PoolSize
    /\ \A i \in DOMAIN pool.idle : ~pool.idle[i].err
=============================================================================
