-------------------------------- MODULE Gate --------------------------------
(***************************************************************************)
(* The limits a request passes before it reaches a provider and pays into  *)
(* after the answer: requests per second and tokens per day (ratelimit.c,  *)
(* in this process or in Redis), the monthly budgets of its key and its    *)
(* group (budget_enforce.c), and the administration of groups. Every gate  *)
(* and every payment takes its lock for itself, so requests, midnight, the *)
(* month's end, the usage worker's rollover, an outage of Redis, a restart *)
(* and an administrator interleave between them.                           *)
(*                                                                         *)
(* Tokens and dollars are counted in the unit one answer costs. A second   *)
(* has Scale ticks and a request costs Scale parts of the QPS bucket, so   *)
(* that a tick refills one part per unit of rate.                          *)
(***************************************************************************)
EXTENDS Integers, FiniteSets, FiniteSetsExt

CONSTANTS
    Reqs,          \* threads serving API requests
    Keys, Groups,
    GroupOf,       \* the group of a key
    Modes,         \* "local": no Redis; "open", "closed": ratelimit_set_fail_open
    Rates,         \* rates a key may have, 0 for no limit
    Quota,         \* daily_token_quota of every key, 0 for no limit
    Budget,        \* monthly budget of every key, 0 for no limit
    Amounts,       \* budgets and reasoning quotas of groups
    Scale,
    MonthDays,     \* days of a month
    MaxArrivals,   \* bounds: requests; ticks, midnights, faults, restarts and admin requests;
    MaxEvents, MaxTotal       \* both together

ASSUME GateAssumption ==
    /\ IsFiniteSet(Reqs) /\ GroupOf \in [Keys -> Groups]
    /\ Modes \subseteq {"local", "open", "closed"}
    /\ Rates \subseteq Nat /\ Amounts \subseteq Nat /\ 0 \in Amounts
    /\ Quota \in Nat /\ Budget \in Nat
    /\ Scale \in Nat \ {0} /\ MonthDays \in Nat \ {0}
    /\ {MaxArrivals, MaxEvents, MaxTotal} \subseteq Nat

VARIABLES
    mode, redisUp,    \* how the limiter is configured; Redis answers
    now, day,    \* ticks of the clock; days since the start
    rate,        \* rate_qps of the keys (auth_key.c's record)
    bucket,      \* ratelimit.b: the local bucket of a key
    shared,      \* the keys in Redis: QPS bucket and the two counters of today
    rolled,      \* um.last_rollover_day
    ym,          \* budget_enforce_mgr.current_ym
    spent,       \* key_buckets: spending of a key this month
    node,        \* group_buckets: spending, budget and reasoning quota of a group
    row,         \* the groups table
    req,         \* the requests
    adm,         \* the administrator's request
    counts,      \* what the bounds bound
    burst,       \* per key, requests admitted at its present rate, and since when (history)
    apart,       \* fields of a group that are lost in memory or were never stored (history)
    outage       \* Redis has been unreachable (history)

limits == <<mode, redisUp, now, rate, bucket, shared, burst, outage>>
money == <<ym, spent, node, apart>>
gateVars == <<limits, day, rolled, money, row, req, adm, counts>>

NoBucket == [tokens |-> 0, cap |-> 0, last |-> 0, used |-> 0, rused |-> 0]
NoNode == [in |-> FALSE, spent |-> 0, budget |-> 0, rquota |-> 0]
NoRow == [st |-> "none", budget |-> 0, rquota |-> 0]
Free == [pc |-> "free", key |-> "none", plain |-> TRUE]
NoOp == [pc |-> "idle", new |-> FALSE, on |-> "none", todo |-> {}, budget |-> 0, rquota |-> 0]
Fields == {"budget", "rquota"}

Event ==
    /\ counts.events < MaxEvents /\ counts.arrivals + counts.events < MaxTotal
    /\ counts' = [counts EXCEPT !.events = @ + 1]

Month(d) == d \div MonthDays

\* A node is made from the rows by budget_enforce_init_from_db. The spending it records from
\* the usage rows has cost 0.0, and no row names a key.
Loaded(g) ==
    IF row[g].st # "live" THEN NoNode
    ELSE [NoNode EXCEPT !.in = TRUE, !.budget = row[g].budget, !.rquota = row[g].rquota]

\* The groups of keys exist; the others can be created.
GateInit ==
    /\ mode \in Modes /\ redisUp = TRUE /\ outage = FALSE
    /\ now = 1 /\ day = 0 /\ rolled = 0 /\ ym = 0
    /\ \E q \in Rates : rate = [k \in Keys |-> q]
    /\ bucket = [k \in Keys |-> NoBucket]
    /\ shared = [k \in Keys |-> NoBucket]
    /\ spent = [k \in Keys |-> 0]
    /\ row = [g \in Groups |-> IF \E k \in Keys : GroupOf[k] = g
                               THEN [NoRow EXCEPT !.st = "live"] ELSE NoRow]
    /\ node = [g \in Groups |-> Loaded(g)]
    /\ req = [r \in Reqs |-> Free]
    /\ adm = NoOp
    /\ counts = [arrivals |-> 0, events |-> 0]
    /\ burst = [k \in Keys |-> [n |-> 0, from |-> 1]]
    /\ apart = [g \in Groups |-> {}]

(***************************************************************************)
(* Requests per second                                                     *)
(***************************************************************************)
\* Mutant: any time passed fills the bucket.
RefillFull(b, qps) ==
    IF b.cap = 0 \/ b.last # now
    THEN [b EXCEPT !.cap = qps * Scale, !.tokens = qps * Scale, !.last = now] ELSE b

\* The bucket starts full and keeps the capacity it started with, whatever the rate is later.
RefillLocal(b, qps) ==
    LET fresh == b.cap = 0 \/ b.last = 0
        size == IF fresh THEN qps * Scale ELSE b.cap
    IN  [b EXCEPT !.last = now, !.cap = size,
                  !.tokens = IF fresh THEN size ELSE Min({size, b.tokens + (now - b.last) * qps})]

\* SCRIPT_QPS_TOKEN_BUCKET: the capacity is the rate of the call.
RefillShared(b, qps) ==
    [b EXCEPT !.last = now, !.cap = qps * Scale,
              !.tokens = IF b.last = 0 THEN qps * Scale
                         ELSE Min({qps * Scale, b.tokens + (now - b.last) * qps})]

Taken(b) == IF b.tokens >= Scale THEN [b EXCEPT !.tokens = @ - Scale] ELSE b

\* Which table a call of the limiter uses: none when Redis fails and local fallback is off.
Table == IF mode = "local" THEN "bucket"
         ELSE IF redisUp THEN "shared" ELSE IF mode = "open" THEN "bucket" ELSE "none"

\* An admitted request, one without a limit included, goes on to the next gate.
rl_allow_request(r, k) ==
    LET qps == rate[k]
        b == IF Table = "shared" THEN RefillShared(shared[k], qps) ELSE RefillLocal(bucket[k], qps)
        admit == qps = 0 \/ (Table # "none" /\ b.tokens >= Scale)
    IN  /\ IF qps = 0
           THEN /\ bucket' = IF mode = "local" THEN [bucket EXCEPT ![k].cap = 0, ![k].tokens = 0]
                             ELSE bucket
                /\ UNCHANGED <<shared, burst>>
           ELSE /\ bucket' = IF Table = "bucket" THEN [bucket EXCEPT ![k] = Taken(b)] ELSE bucket
                /\ shared' = IF Table = "shared" THEN [shared EXCEPT ![k] = Taken(b)] ELSE shared
                /\ burst' = IF admit THEN [burst EXCEPT ![k].n = @ + 1] ELSE burst
        /\ IF admit THEN req' = [req EXCEPT ![r].pc = "quota", ![r].key = k] ELSE UNCHANGED req
        /\ UNCHANGED <<mode, redisUp, now, rate, outage>>

\* The handlers authenticate and ask the QPS gate first. GET /v1/models comes this way too.
Arrive(r, k) ==
    /\ req[r].pc = "free" /\ counts.arrivals < MaxArrivals /\ counts.arrivals + counts.events < MaxTotal
    /\ rl_allow_request(r, k)
    /\ counts' = [counts EXCEPT !.arrivals = @ + 1]
    /\ UNCHANGED <<day, rolled, money, row, adm>>

(***************************************************************************)
(* Tokens per day                                                          *)
(***************************************************************************)
\* The remaining tokens, or -1 for the sentinel of an unreachable Redis.
rl_remaining_daily(k) ==
    IF Quota = 0 THEN 1
    ELSE IF Table = "none" THEN -1
    ELSE Quota - (IF Table = "shared" THEN shared[k].used ELSE bucket[k].used)

GateQuota(r) ==
    /\ req[r].pc = "quota"
    /\ req' = [req EXCEPT ![r] = IF rl_remaining_daily(@.key) > 0
                                 THEN [@ EXCEPT !.pc = "budget"] ELSE Free]
    /\ UNCHANGED <<limits, day, rolled, money, row, adm, counts>>

\* rl_reserve_tokens records first and then compares, which nobody looks at. Without a table
\* the tokens are not recorded anywhere.
rl_reserve_tokens(k, n) ==
    /\ bucket' = IF Table = "bucket" THEN [bucket EXCEPT ![k].used = @ + n] ELSE bucket
    /\ shared' = IF Table = "shared" THEN [shared EXCEPT ![k].used = @ + n] ELSE shared
    /\ UNCHANGED <<mode, redisUp, now, rate, burst, outage>>

rl_reserve_reasoning_tokens(k, n) ==
    /\ bucket' = IF Table = "bucket" THEN [bucket EXCEPT ![k].rused = @ + n] ELSE bucket
    /\ shared' = IF Table = "shared" THEN [shared EXCEPT ![k].rused = @ + n] ELSE shared
    /\ UNCHANGED <<mode, redisUp, now, rate, burst, outage>>

rl_remaining_daily_reasoning(k, quota) ==
    IF Table = "none" THEN -1
    ELSE quota - (IF Table = "shared" THEN shared[k].rused ELSE bucket[k].rused)

\* Every bucket in use: its day is an earlier midnight whenever the worker calls this.
rl_reset_day == bucket' = [k \in Keys |-> [bucket[k] EXCEPT !.used = 0, !.rused = 0]]

\* The usage worker (usage_meter.c) looks at the day before each flush.
Rollover ==
    /\ day # rolled
    /\ rolled' = day
    /\ rl_reset_day
    /\ UNCHANGED <<mode, redisUp, now, rate, shared, burst, outage, day, money, row, req, adm, counts>>

(***************************************************************************)
(* The month's budgets                                                     *)
(***************************************************************************)
\* The tables after the first call in a new month has cleared them, budgets and all.
clear_buckets ==
    [spent |-> [k \in Keys |-> 0], node |-> [g \in Groups |-> NoNode],
     apart |-> [g \in Groups |-> Fields]]

\* Mutant: the new month starts with the groups' nodes of the old one.
CurrentKeepsGroups ==
    IF Month(day) # ym THEN [clear_buckets EXCEPT !.node = node, !.apart = apart]
    ELSE [spent |-> spent, node |-> node, apart |-> apart]

Current ==
    IF Month(day) # ym THEN clear_buckets ELSE [spent |-> spent, node |-> node, apart |-> apart]

Roll(t) == ym' = Month(day) /\ spent' = t.spent /\ node' = t.node /\ apart' = t.apart

\* Mutant: a budget must be exceeded, not reached, to stop a request.
OverBudgetLate(t, k) ==
    LET g == GroupOf[k]
    IN  \/ Budget > 0 /\ t.spent[k] > Budget
        \/ t.node[g].in /\ t.node[g].budget > 0 /\ t.node[g].spent > t.node[g].budget

OverBudget(t, k) ==
    LET g == GroupOf[k]
    IN  \/ Budget > 0 /\ t.spent[k] >= Budget
        \/ t.node[g].in /\ t.node[g].budget > 0 /\ t.node[g].spent >= t.node[g].budget

budget_enforce_check(r) ==
    /\ req[r].pc = "budget"
    /\ LET t == Current
       IN  /\ Roll(t)
           /\ req' = [req EXCEPT ![r] = IF OverBudget(t, @.key) THEN Free ELSE [@ EXCEPT !.pc = "go"]]
    /\ UNCHANGED <<limits, day, rolled, row, adm, counts>>

Paid(t, k, n) ==
    LET g == GroupOf[k]
        paid == [t.node[g] EXCEPT !.in = TRUE, !.spent = t.node[g].spent + n]
    IN  [spent |-> [t.spent EXCEPT ![k] = t.spent[k] + n],
         node |-> [t.node EXCEPT ![g] = paid], apart |-> t.apart]

budget_enforce_record(r, n) ==
    /\ Roll(Paid(Current, req[r].key, n))
    /\ UNCHANGED <<limits, day, rolled, row, adm, counts>>

(***************************************************************************)
(* A request that is let in                                                *)
(***************************************************************************)
\* GET /v1/models, and what is refused or fails before there are tokens to pay.
EndUnpaid(r) ==
    /\ req[r].pc \in {"go", "chat"}
    /\ req' = [req EXCEPT ![r] = Free]
    /\ UNCHANGED <<limits, day, rolled, money, row, adm, counts>>

\* The group's quota: the keys of this instance have none of their own.
ReasoningQuota(k) == IF node[GroupOf[k]].in THEN node[GroupOf[k]].rquota ELSE 0

\* A chat request over the reasoning quota goes on without reasoning. The other endpoints have
\* no such step and stay at "go".
chat_apply_reasoning_quota_and_degradation(r) ==
    /\ req[r].pc = "go"
    /\ LET k == req[r].key
           q == ReasoningQuota(k)
       IN  req' = [req EXCEPT ![r].pc = "chat",
                              ![r].plain = q > 0 /\ rl_remaining_daily_reasoning(k, q) <= 0]
    /\ UNCHANGED <<limits, day, rolled, money, row, adm, counts>>

\* A hit of the response cache pays like an answer of the provider, without reasoning.
prepare_chat_cache(r) ==
    /\ req[r].pc = "chat"
    /\ budget_enforce_record(r, 1)
    /\ req' = [req EXCEPT ![r].pc = "reserve", ![r].plain = TRUE]

\* An answer, or a stream that broke off after some tokens.
SettleBudget(r) ==
    /\ req[r].pc \in {"go", "chat"}
    /\ budget_enforce_record(r, 1)
    /\ req' = [req EXCEPT ![r].pc = "reserve"]

\* chat_record_tokens_and_reasoning: the reasoning tokens come after the others.
SettleTokens(r) ==
    /\ req[r].pc = "reserve"
    /\ rl_reserve_tokens(req[r].key, 1)
    /\ req' = [req EXCEPT ![r] = IF ~@.plain THEN [@ EXCEPT !.pc = "reason"] ELSE Free]
    /\ UNCHANGED <<day, rolled, money, row, adm, counts>>

\* An answer without reasoning tokens ends where one with them records them.
SettleReasoning(r) ==
    /\ req[r].pc = "reason"
    /\ \E n \in 0 .. 1 : rl_reserve_reasoning_tokens(req[r].key, n)
    /\ req' = [req EXCEPT ![r] = Free]
    /\ UNCHANGED <<day, rolled, money, row, adm, counts>>

(***************************************************************************)
(* Groups                                                                  *)
(***************************************************************************)
StartOp(new, g, todo, b, q) ==
    /\ adm.pc = "idle" /\ Event
    /\ "budget" \in todo \/ b = 0
    /\ "rquota" \in todo \/ q = 0
    /\ adm' = [pc |-> "patch", new |-> new, on |-> g, todo |-> todo, budget |-> b, rquota |-> q]

\* The row is inserted without the two columns; positive values are patched in after it.
group_create(g, b, q) ==
    /\ row[g].st = "none"
    /\ row' = [row EXCEPT ![g].st = "live"]
    /\ StartOp(TRUE, g, {f \in Fields : (f = "budget" /\ b > 0) \/ (f = "rquota" /\ q > 0)}, b, q)
    /\ UNCHANGED <<limits, day, rolled, money, req>>

\* Renaming is all that happens to the row before the fields of the request are patched.
group_patch(g, todo, b, q) ==
    /\ row[g].st = "live" /\ todo # {}
    /\ StartOp(FALSE, g, todo, b, q)
    /\ UNCHANGED <<limits, day, rolled, money, row, req>>

\* The budget comes before the reasoning quota.
NextField == IF "budget" \in adm.todo THEN "budget" ELSE "rquota"

\* pq_patch_group_budget and pq_patch_group_reasoning_quota update one column.
pq_patch_group_budget(g, b) == row' = [row EXCEPT ![g].budget = b]
pq_patch_group_reasoning_quota(g, q) == row' = [row EXCEPT ![g].rquota = q]

PatchRow ==
    /\ adm.pc = "patch" /\ adm.todo # {}
    /\ IF NextField = "budget" THEN pq_patch_group_budget(adm.on, adm.budget)
       ELSE pq_patch_group_reasoning_quota(adm.on, adm.rquota)
    /\ adm' = [adm EXCEPT !.pc = "set"]
    /\ UNCHANGED <<limits, day, rolled, money, req, counts>>

\* A patch that fails ends a PATCH request, and the fields patched before it stay. The POST
\* does not look: the value is set in memory all the same.
PatchFails ==
    /\ adm.pc = "patch" /\ adm.todo # {} /\ Event
    /\ adm' = IF adm.new THEN [adm EXCEPT !.pc = "unstored"] ELSE NoOp
    /\ UNCHANGED <<limits, day, rolled, money, row, req>>

\* Neither setter looks at the month.
budget_enforce_set_group_budget(g, b) == node' = [node EXCEPT ![g].in = TRUE, ![g].budget = b]
budget_enforce_set_group_reasoning_quota(g, q) == node' = [node EXCEPT ![g].in = TRUE, ![g].rquota = q]

SetNode ==
    /\ adm.pc \in {"set", "unstored"}
    /\ IF NextField = "budget" THEN budget_enforce_set_group_budget(adm.on, adm.budget)
       ELSE budget_enforce_set_group_reasoning_quota(adm.on, adm.rquota)
    /\ apart' = [apart EXCEPT ![adm.on] = IF adm.pc = "set" THEN @ \ {NextField} ELSE @ \cup {NextField}]
    /\ adm' = [adm EXCEPT !.pc = "patch", !.todo = @ \ {NextField}]
    /\ UNCHANGED <<limits, day, rolled, ym, spent, row, req, counts>>

OpDone ==
    /\ adm.pc = "patch" /\ adm.todo = {}
    /\ adm' = NoOp
    /\ UNCHANGED <<limits, day, rolled, money, row, req, counts>>

\* Refused while the group has keys; the node in memory stays.
group_delete(g) ==
    /\ adm.pc = "idle" /\ Event
    /\ row[g].st = "live" /\ \A k \in Keys : GroupOf[k] # g
    /\ row' = [row EXCEPT ![g].st = "gone"]
    /\ UNCHANGED <<limits, day, rolled, money, req, adm>>

(***************************************************************************)
(* The surroundings                                                        *)
(***************************************************************************)
Tick ==
    /\ Event
    /\ now' = now + 1
    /\ UNCHANGED <<mode, redisUp, rate, bucket, shared, burst, outage, day, rolled, money, row, req, adm>>

\* Midnight: the counters of a day have names of their own in Redis.
NextDay ==
    /\ Event
    /\ day' = day + 1
    /\ shared' = [k \in Keys |-> [shared[k] EXCEPT !.used = 0, !.rused = 0]]
    /\ UNCHANGED <<mode, redisUp, now, rate, bucket, burst, outage, rolled, money, row, req, adm>>

\* PATCH /admin/v1/keys, once the key's record is read again.
SetRate(k, q) ==
    /\ Event /\ q # rate[k]
    /\ rate' = [rate EXCEPT ![k] = q]
    /\ burst' = [burst EXCEPT ![k] = [n |-> 0, from |-> now]]
    /\ UNCHANGED <<mode, redisUp, now, bucket, shared, outage, day, rolled, money, row, req, adm>>

RedisGoes ==
    /\ mode # "local" /\ redisUp /\ Event
    /\ redisUp' = FALSE /\ outage' = TRUE
    /\ UNCHANGED <<mode, now, rate, bucket, shared, burst, day, rolled, money, row, req, adm>>

RedisReturns ==
    /\ ~redisUp /\ redisUp' = TRUE
    /\ UNCHANGED <<mode, now, rate, bucket, shared, burst, outage, day, rolled, money, row, req, adm, counts>>

\* Everything in memory is lost; budget_enforce_init_from_db reads the groups.
Restart ==
    /\ Event
    /\ bucket' = [k \in Keys |-> NoBucket]
    /\ burst' = [k \in Keys |-> [n |-> 0, from |-> now]]
    /\ rolled' = day /\ ym' = Month(day)
    /\ spent' = [k \in Keys |-> 0]
    /\ node' = [g \in Groups |-> Loaded(g)]
    /\ apart' = [g \in Groups |-> {}]
    /\ req' = [r \in Reqs |-> Free]
    /\ adm' = NoOp
    /\ UNCHANGED <<mode, redisUp, now, rate, shared, outage, day, row>>

GateNext ==
    \/ \E r \in Reqs, k \in Keys : Arrive(r, k)
    \/ \E r \in Reqs :
         \/ GateQuota(r) \/ budget_enforce_check(r) \/ EndUnpaid(r)
         \/ chat_apply_reasoning_quota_and_degradation(r) \/ prepare_chat_cache(r)
         \/ SettleBudget(r) \/ SettleTokens(r) \/ SettleReasoning(r)
    \/ \E g \in Groups, b, q \in Amounts :
         \/ group_create(g, b, q)
         \/ \E todo \in SUBSET Fields : group_patch(g, todo, b, q)
    \/ \E g \in Groups : group_delete(g)
    \/ PatchRow \/ PatchFails \/ SetNode \/ OpDone
    \/ Tick \/ NextDay \/ Rollover \/ RedisGoes \/ RedisReturns \/ Restart
    \/ \E k \in Keys, q \in Rates : SetRate(k, q)

GateSpec == GateInit /\ [][GateNext]_gateVars

(***************************************************************************)
(* Properties                                                              *)
(***************************************************************************)
\* The requests of a key that are at one of the given points.
At(k, pcs) == Cardinality({r \in Reqs : req[r].pc \in pcs /\ req[r].key = k})

\* The monthly budget and the daily quota are checked before a request and charged after it.
\* However requests, months, midnights, the worker's rollover and restarts interleave, a key
\* exceeds either by less than the answers in flight (the quota while Redis is reachable).
LimitsHold ==
    \A k \in Keys :
      /\ Budget > 0 => spent[k] + At(k, {"go", "chat"}) <= Budget - 1 + Cardinality(Reqs)
      /\ Quota > 0 /\ ~outage =>
           (IF mode = "local" THEN bucket[k].used ELSE shared[k].used)
             + At(k, {"budget", "go", "chat", "reserve"}) <= Quota - 1 + Cardinality(Reqs)

\* Since the last change of its rate a key was given no more requests than one full bucket and
\* the refill of the time passed. In Redis the bucket holds one second of the rate; the local
\* one keeps the size it was made with.
BurstBounded ==
    ~outage => \A k \in Keys : rate[k] > 0 =>
        LET size == IF mode = "local" THEN bucket[k].cap ELSE rate[k] * Scale
        IN  burst[k].n * Scale <= size + (now - burst[k].from) * rate[k]

\* The units that the keys of a group have paid this month, each key's numbered.
Payments(g) == UNION {{k} \X (1 .. spent[k]) : k \in {k \in Keys : GroupOf[k] = g}}

\* A group has spent what its keys have spent: a payment reaches both tables, and the month's
\* end and a restart forget both, whichever call comes first in the new month. And once the
\* administrator's request has ended, the budget and the reasoning quota that requests are held
\* to are the stored ones, except where the month's end dropped them or a new group's value was
\* not stored.
GroupsFollow ==
    \A g \in Groups :
      /\ node[g].spent = Cardinality(Payments(g))
      /\ adm.pc = "idle" /\ row[g].st = "live" =>
           /\ "budget" \in apart[g] \/ node[g].budget = row[g].budget
           /\ "rquota" \in apart[g] \/ node[g].rquota = row[g].rquota

(***************************************************************************)
(* What the headers say and the code does not do                           *)
(***************************************************************************)
\* What budget_enforce.h promises of a monthly budget that was set for a group with keys: it is
\* the limit. The first call in a new month drops it with the spending it clears.
GroupBudgetStays ==
    adm.pc = "idle" => \A k \in Keys : node[GroupOf[k]].budget = row[GroupOf[k]].budget
=============================================================================
