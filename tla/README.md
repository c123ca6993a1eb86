# A TLA+ model of aigate

aigate is an LLM gateway in C: clients send OpenAI, Anthropic or Gemini requests,
the gateway authenticates them, applies limits and filters, picks an upstream
target of the requested model, fails over between targets, translates the stream
of answers, meters what was used and writes it to PostgreSQL. It serves every
request on a thread of its own and runs a handful of background threads. Paths
below are relative to `src/src/`.

## The parts of the system

| Part | State | Operations | What is hard about it | What makes it correct |
|---|---|---|---|---|
| Circuit breaker, `policy/circuit_breaker.c` | per model and endpoint: state, failure count, deadline, probe flag, ring of latency samples | allow, record success, failure and sample, override, configure, query | answers that arrive after a trip; time advances an entry only when a call looks at it | one probe per half-open episode; the cool-off is neither shortened nor extended; trips on consecutive failures |
| Model router, `upstream/model_router.c` | global table of in-flight slots; route cache | resolve, select candidates, acquire, release | selection uses breaker and slot values that are old when used; the non-atomic release | slots return; tiers are respected |
| Pipelines, `core/pipeline_*.c` | per request: candidates, attempt, outcome | failover loops, hedged attempt, ends of streams | many exits; streams that break half-way | every step gets closer to an answer; each outcome is told to the breaker |
| Hedged call, `upstream/upstream_hedged.c` | control block shared by three threads | start, delay, hedge, harvest, cancel, release | lifetime of the block and of the buffers, late answers | freed once by the last; a 200 is never hidden; the loser is cancelled |
| Health prober, `observe/health_prober.c` | health table, prober thread | probe all, test one, start, stop | results for records read long before, providers that change meanwhile | the table catches up with the store |
| Usage meter, `store/usage_meter.c` | daily table, audit ring, worker | record, drain, flush, unflush, re-queue, free | the mutex is given up while the database is written; failures, midnight, shutdown, full tables | usage is counted once; drops are counted; everything is flushed in the end |
| Key cache and route cache, `policy/auth_key.c`, `upstream/model_router.c`, over `common/lru.c` | LRU maps of records, a negative cache | resolve, invalidate | a fill that races with an invalidation | a cached record is the stored one |
| Rule tables, `server/admin_api.c`, `core/aigate_core.c` | six tables and the engines that hold a copy | create, update, delete, reload | admins interleave; list queries fail | the engine ends with what the table has |
| Rate limiter, budgets, `policy/ratelimit.c`, `policy/budget_enforce.c` | buckets by key, counters by day, spending by month, groups | allow, reserve, check, record, rollover | check before, record after; midnight, month's end, Redis outages | limits are exceeded by what is in flight and no more |
| Stream bridges, `upstream/provider_*.c`, accumulator and replay in `core/aigate_core.c` | line buffer, open blocks and tags, tokens | feed, finish, store, replay | events split over chunks, early ends, retries | text arrives once and in order; the client's protocol is kept; tokens are billed |
| Response cache, `policy/response_cache.c` | shards of entries with reference counts | get, release, set, purge | replacement and eviction while a reader holds an entry | entries stay alive while held; the books are right |
| Audit logger, `observe/audit_logger.c`, `observe/audit_hash_chain.c` | three rings, two workers, a file with backups, a hash chain | record, rotate, sign, verify, poll, stop | full rings, a file that cannot be opened, stop with work left | losses are accounted for; the chain spans rotations |
| Event bus, `observe/event_bus.c` | subscriber slots with queues | subscribe, pop, publish, unsubscribe | full queues, slots given to others | drops are counted; nobody gets another's events |
| Shadow engine, `policy/shadow.c` | pairing slots, task queue, evaluations | pair, submit, record | answers in either order, refused tasks | a pair is committed once |
| Tracer, `observe/tracer.c` | ring, recent traces, exporter | push, pop, export, stop | full ring, stop | traces are accounted for |
| Redis pool, `store/redis_pool.c` | idle stack, count | acquire, release | dial and reconnect fail outside the lock | count is the number of connections |
| Store, `store/pg_store.c` | tables, transactions | statements on keys, models, providers, groups, rules; flushes; master key rotation | partial failure, lost answers to COMMIT | all or nothing |
| Filters, plugins, text engines, transport, admin UI, metrics, configuration | rule copies, counters | | text processing and I/O | |

A request passes `aigate_handle_request`: gate (key, rate, quota, budget), route,
candidate selection (asks the breaker), filters, response cache, then a pipeline's
failover loop (slots, upstream call, breaker record, stream bridge), settlement
(tokens, usage meter, budget, audit, events, shadow, trace). The parts share state
only through the tables above, each behind its own mutex or atomics, which is why
parts that do not call each other are checked one at a time.

## Modules

| Module | Models | State and actions |
|---|---|---|
| `CbEntry` | one `cb_entry_t` and what each call does to it | operators from entry to entry: the critical sections of the breaker's mutex |
| `CircuitBreaker` | the breaker's table with the threads that call it | `entry`, `req`, and the history `hist`; one action per `cb_*` function, `Tick` for time |
| `Failover` | selection, slots and the failover loops, over `CbEntry` | `entry`, `slot`, `req`; one action per breaker call and per atomic operation on a slot |
| `HedgedCall` | the hedged call and the hedge budget | `race[c]` is the control block and its three threads |
| `HealthProber` | prober thread, "probe now", test of one provider, changes of providers | `provs` (the store), `health` (the table), `walk` (who is on the way with which records) |
| `UsageMeter` | the meter, its worker, the two flush transactions and shutdown | daily table (`acc`, `rows`, `stored`, `lost`), audit ring (`ring`, `head`, `tail`, `out`, `saved`), `pc` of the worker |
| `RuleAdmin` | the handlers, statements and reloads of the six rule tables | `table`, `engine`, `adm` (what an admin thread is about to do), `gr`/`held`/`freed` for the guardrails context |
| `Records` | handlers, statements and caches of keys, models and providers | rows, `recs`/`neg`/`routes` (caches, over `LruOps`), requests between query and fill, admins between write and invalidation |
| `LruMap`, `LruOps`, `Lru` | `common/lru.c`: the map its callers see, and the list, chains and callbacks that implement it | `Lru` implements `LruMap` (see below) |
| `Gate` | limits before a request, payments after it, groups, time | `bucket` (memory), `shared` (Redis), `spent`, `node` (budget tables), `row` (groups in the store), `req` |
| `Stream` | one streamed answer on each of seven routes | `up` (what the upstream sent), `b` (the bridge), `acc`, `cached`, `call`; one operator per event handler of the bridges |
| `ResponseCache` | one shard with concurrent readers and writers | `entry`, `shard`, `reader`, `bodies` |
| `AuditLog` | rings, workers, files, chain, polling client, restart | `fileRing`, `hookRing`, `file`, `backups`, `client`, `phase` |
| `EventBus`, `Shadow`, `Tracer`, `RedisPool` | the component of that name | one action per function |
| `KeyRotation` | `aigate --rotate-master-key` against a running gateway | `rows`, `cmd`, `tx` |
| `MCFailover`, `MCGate`, `MCRecords`, `MCRuleAdmin` | instances for TLC | constants, symmetry |
| `MCUpstream` | `HedgedCall` and `HealthProber` | a behaviour runs one of the two |
| `MCAnswers` | `Stream` and `ResponseCache` | a behaviour runs one of the two |
| `MCServices` | `AuditLog`, `EventBus`, `Shadow`, `Tracer`, `RedisPool`, `Lru`, `KeyRotation` | a behaviour runs one of them |
| `CircuitBreakerProofs`, `FailoverProofs`, `UsageMeterProofs`, `RecordsProofs`, `StreamProofs` | theorems about the module of that name | |
| `AdminProofs` | theorems about `RuleAdmin` and `AuditLog` | |
| `PolicyProofs` | theorems about `Gate` and `ResponseCache` | |
| `ServicesProofs` | theorems about `HedgedCall`, `EventBus`, `RedisPool`, `KeyRotation`, `Shadow`, `Tracer` and `Lru` | |

The composed MC modules put parts that share no state, no lock and no call into
one state space as alternatives, so nothing is lost by not interleaving them.
`Failover` composes with `CbEntry`, `Records` with `LruOps`, `Gate` has limiter,
budgets and group administration together, and `Stream` the bridges with the
accumulator, the cache's store and its replay, because those do interact.

What is abstracted:

- A deadline is the number of seconds left; a failure counter stops at the
  threshold it is compared with; a latency sample is within or beyond the limits.
- A request of `Failover` is its kind, and what an upstream call returned is one of
  six outcomes. The load-balancing policies are an arbitrary order inside a tier.
- Usage of a request is its number; sums are sets of numbers, which is what lets a
  double or a lost count be seen. A flush is stored, fails, or is lost in a `COMMIT`
  whose result `pg_store.c` does not look at.
- A rule, a key, a model is the number of the write that made it what it is. A
  handler that refuses its input changes nothing and is not an action.
- Tokens and dollars are counted in the unit one answer costs; a second has `Scale`
  ticks.
- A line of a stream is one event with a length; a text is a number, "wide" when a
  character takes several bytes. Tool calls are one kind of item; ids and JSON
  formats are left out.
- A signature of the audit chain is the sequence of what it signs; an encrypted
  key is its value with the master it is under.
- Failed allocations are modelled where they change control, and left out elsewhere.

## Runs

| Run | Question | Result |
|---|---|---|
| `breaker` | Do late answers, samples, overrides and time ever give a second probe, a shorter or an endless window, a trip on scattered failures, or a judgement on stale samples? | no |
| `failover` | Do slots leak, is a tier skipped, can a request go round in circles? | no |
| `upstream` | Is the control block freed once and not used after, has a buffer one owner, is a 200 ever hidden, does a loser run on? Does the health table catch up with the store? | holds |
| `usage` | Is usage counted once, never on an earlier day, are rows doubled, drops uncounted, or anything kept for ever? | holds |
| `rules` | Do the engines that list under their lock end with the table, and does a deleted rule stay deleted under a concurrent update? | holds |
| `records` | Does a cache differ from the store except through a fill that raced with the change? | no |
| `gate` | Do limits hold up to what is in flight, is a burst at most one bucket and the refill, do groups follow their keys and their rows? | holds |
| `answers` | Does every item reach the client once and in order, is the protocol kept, are tokens billed, does the cache hold the answer? Are a shard's books right and held entries alive? | holds |
| `services` | Are drops of every queue accounted for, does the chain span rotations, does stop drain, are pairs settled once and connections counted, is the rotation atomic, does the LRU list implement a map? | holds |
| `failover_probe` | Is a probe pending whenever a half-open target turns requests away (`circuit_breaker.h:65`)? | violated |
| `answers_cached` | Is a cached answer one that the upstream finished (`aigate_core.c:1644`)? | violated |
| `answers_readers` | Is the body a reader copies allocated (`response_cache.c:87`)? | violated |

Bounds and why they are enough:

- `breaker`: one key (entries do not interact), two requests (a probe and a late
  answer), threshold 2, cool-off of 2 s, window of 3 samples with a ratio that needs
  two of them: every counter passes its threshold and the ring wraps.
- `failover`: two targets in two tiers, the first with one slot; one thread serves
  hedged and direct requests, the other streams, so that every pair of a request
  with slots and another one occurs.
- `upstream`: one call at a time (calls share two counters), two in sequence, so
  that one has a hedge and one is denied it. Two provider names, two ids, a table of
  two rows, three edits: a name is reused, the table is full, and a pass is under way
  while its provider changes.
- `usage`: a table of one slot for two keys, a ring of two rows, batches of one,
  three requests and one midnight: both tables overflow, a batch is overwritten while
  it is out, and a row comes back after midnight.
- `rules`: two admins, two ids, lists of one row, four operations, one failed query
  and one restart: reloads overlap, an update and a deletion race, a list is cut.
- `records`: caches of one entry for two keys and two models, two admins and one
  request thread. The key and the route cache share no state, so behaviours that
  fill both are cut off by a constraint.
- `gate`: two requests, two keys in one group, limits of 1, three arrivals and two
  events (tick, midnight, month's end, rate change, outage, group operation,
  restart), four together: every limit is reached and every pair of events occurs.
- `answers`: two items in two blocks, lines of 2 to 4 bytes in a buffer of 4 (too
  long, just fitting, fitting), a chunk cut once; two keys, two readers, three calls
  of `response_cache_set` in a shard of 3 bytes and two entries: eviction by number
  and by size, replacement, and a purge with readers.
- `services`: queues of one or two places with four to five elements, two lives of
  the audit logger, three threads for two connections with three faults, four keys
  in two hash chains of a map of three, three rows of keys and two runs of the
  command.

Fairness:

- `CircuitBreaker`: time passes (`WF` of `Tick`). Nothing is assumed of clients.
- `HedgedCall`, `HealthProber`: threads run, timed waits end and a transfer ends,
  because it has a timeout (`CURLOPT_TIMEOUT_MS`).
- `UsageMeter`: the worker runs (`WF`), and a flush that is tried again and again
  succeeds at some time (`SF`): the database is not away for ever.
- `AuditLog`: both workers run and the thread that stops them goes on after the join
  (`WF`); a webhook post may fail, but it ends.
- The other modules assume no fairness; `EveryStepAdvances` states termination as a
  rank that every step of a request lowers.

Deadlock is not checked where the model may come to its end (bounded numbers of
operations, a process that has shut down); it is checked in `breaker` and `failover`.

Operators whose comment calls them a mutant, and the wrong variants near the top of
the first modules, are slips that the properties are checked to notice; no
specification uses them.

### Refinement

`LruMap` is what `lru.h` promises: a map of at most `Capacity` entries in the order
of their use, whose displaced values are handed to the eviction callback once.
`Lru` is `lru.c` with its doubly linked list, hash chains and nodes. `ImplementsMap`
(`Map!Spec`, with the entries read off the list from its head) is checked in
`services` and proved for every capacity, table, set of keys and set of values
(`LruImplementsMap`); a node that stays linked, a chain that loses a node, a count that drifts
or a value freed twice would break it. `Records` uses the same operators, `LruOps`,
so the caches are built on what the refinement shows.

## What does not hold

Three runs state a promise of the sources that the code breaks (see `findings` in
`PROJECT.json`): a probe taken and never made, a broken-off answer that is cached,
and a body freed under its reader. The modules state more promises under "What the
headers say and the code does not do"; TLC refutes each of them, and no other
property depends on them:

| Definition | What the sources say | What happens |
|---|---|---|
| `Failover!WithinLimit` | `pg_store.h:58`: in-flight limit | `model_router_release_target` decrements and then stores 0; a slot acquired in between is forgotten |
| `HedgedCall!DeniedOnlyOverBudget` | `pg_store.h:79`: share of requests that may hedge | `latency_tracker_record_request` has no caller outside tests: the budget is spent after one hedge |
| `UsageMeter!PendingRowsStay` | `usage_meter.c:369`: a full ring drops the new row | the row was already written over the oldest pending one |
| `UsageMeter!FinalDrainComplete` | `usage_meter.h:24`: final drain and flush | `um_drain` clears slots before it finds its buffer of 256 rows too small |
| `RuleAdmin!PluginsFollow`, `WhitelistFollows` | a reload installs the table | the list is read before the lock: an older one may be installed last; the whitelist is not loaded at start, because `ac->ps` is set later |
| `RuleAdmin!GuardrailsAlive` | | the context is swapped without a lock and destroyed while a request is in it |
| `Records!RevokedNotCached` | revocation takes effect | a record read before the revocation is cached after it, and a second DELETE does not invalidate |
| `Gate!GroupBudgetStays` | `budget_enforce.h`: monthly budget of a group | the first call in a new month drops it with the spending |
| `AuditLog!UntouchedVerifies` | `audit_hash_chain.h`: valid unless tampered with | a file that begins after a rotation or a restart does not verify |

Met while modelling, outside what the properties say: `redisReconnect` does not log
in or select the database again (`redis_pool.c:179`); compressor and cache optimizer
rules deleted during an update come back, because the update is an upsert; after a
provider is deleted and its name used again, a health row can stay paused; a shadow
task that is refused keeps its pairing slot; an unsigned line breaks the audit
chain; `/v1/messages` over OpenAI ends a broken stream with `message_stop` and then
an error; `[DONE]` may be followed by a closing tag.

## Proofs

A run checks a small instance; the theorems hold for every value of the constants
that satisfies the assumptions below. Every theorem about states is proved from an
inductive invariant (it holds initially, every step keeps it, it implies the
property), and the proofs follow the program: one lemma per action, under it one
step per conjunct the action can disturb. The properties named are the ones the runs
check, so that a mistake in a property shows up in TLC first.

| Module | Theorems | Why the property is not inductive, and what the invariant adds |
|---|---|---|
| `CircuitBreakerProofs` | `TypeCorrect`; `OneProbe`: `OneProbePerEpisode`; `Cooloffs`: `CooloffUnlessRelieved`; `Consecutive`: `FailuresAreConsecutive`; `RingWindow`: `RingIsLastWindow`; `WindowKept`: `OpenWindowNotExtended` | A half-open entry with a free probe has admitted nobody; for an open entry the seconds left and the seconds since the trip make up the cool-off; `RingInv` says where in the ring each of the last samples is. By key: what each operator of `CbEntry` does to an entry and its history, then one step per action for the table |
| `FailoverProofs` | `FailoverInvariant`; `SlotsAreReturned`: `SlotsReturn`; `TiersInOrder`: `BestTierFirst`; `TargetsOnce`: `NoTargetTwice`; `StepsAdvance`: `EveryStepAdvances` | `ReqOK`, a shape of each request that no other thread disturbs: which slots it holds at which step, that the candidates ahead are distinct and untried and in the order of their tiers. `StepsAdvance` is an action property: the rank of a request that moves goes down, so that every request ends |
| `UsageMeterProofs` | `UsageTypes`; `UsageIsCountedOnce`: `UsageCountedOnce`; `UsageNeverBackdated`: `NeverBackdated`; `DropsAreAllCounted`: `DropsAreCounted`; `NoRowSavedTwice`: `NoRowTwice` | No drained rows outside a flush; a slot filled after a drain is no older than what was drained from it; which slots of the ring still hold a batch that was copied out |
| `AdminProofs`, rule tables | `EnginesFollow`: `LockedEnginesFollow`; `NoRuleReturns`: `DeletedStays` | Inductive with the ranges of the variables: a handler that changed a table has its reload before it from that step on |
| `AdminProofs`, audit log | `AuditIsAccounted`: `AuditAccounted`; `ChainIsWhole`: `ChainSpansRotation` | `FileAccounted`: what is signed, with the worker and in the ring is embedded in what was pushed, in order, and the rest is counted. `HookAccounted`: the same as a sum, for the webhook. `LiveAccounted`: the slots of the live ring hold the last numbers given out, so that a page read from them is the page that was asked for. `LogIsChain`: the lines of this process, deleted ones included, put together over backups and file, are those the chain signs one after the other, however they are cut into files |
| `StreamProofs`, the answer | `AnswersAreWhole`: `AnswerWhole`; `UsageIsReported`: `BilledAsReported`; `CacheHasAnswer`: `CacheHoldsAnswer` | `Buffered`: what arrived of the current line is in the bridge's line buffer, however it was cut. `Followed`: of the lines before, the bridge has sent the items due and read the usage they report, and has its block open where the upstream has. `AccHolds`: the accumulator has the texts that were sent, or overflowed. `Shapes` and `Arrives`: what the variables look like, and which line may arrive next |
| `StreamProofs`, the client's protocol | `ProtocolIsKept`: `ClientProtocol` | `Orderly`, on top of the above. `Steps`: how the line under way moves the upstream on, which events bring a thought, and after which none may come. `ChatOk`: the flags of a chat bridge say which tags are in its frames, every thought is behind an open tag and every text is not, and the tag is closed only when no thought can follow; `[DONE]` comes with the end. `MsgGood`: from five flags of the bridge follows where the blocks of a message were started, filled and stopped |
| `RecordsProofs` | `CachesAreRight`: `CachesFollow` | One entry per key in an LRU map; a thread between two calls works on a name that exists; rows of keys are never removed, so that a hash that was found absent is nobody's. The lemmas on `LruDrop`, `LruGet` and `LruPut` say which entries each leaves |
| `PolicyProofs`, gates | `RateIsBounded`: `BurstBounded`; `LimitsAreHeld`: `LimitsHold`; `GroupsAgree`: `GroupsFollow` | What a bucket has given out *and what is left in it* is at most a full bucket and the refill up to its last call; a request past a check stands for the payment it may still make, and is counted with its key at one point only; the month's ledger is a set of numbered payments, and fields of a group follow the row while its administrator is between the row and the node |
| `PolicyProofs`, response cache | `ShardIsAccounted`: `ShardAccounted`; `HeldEntriesLive`: `HeldEntryAlive` | `Books`: the list has no entry twice, `count` is its length and `bytes_used` the sum of the lengths of its entries (`SumOf`), through the loops that make room and purge. `RefsCount`: an entry counts its readers, listed or not. `Departs`: an entry that was unlinked is in use, and its mark still to be seen, until its last reader frees it, once |
| `ServicesProofs`, services | `BusIsAccounted`: `BusAccounted`; `PoolIsCounted`: `PoolCounted`; `PoolNoHealthCheck`; `RotationIsAtomic`: `RotationAtomic`; `PairsAreSettled`: `PairsSettle`; `TracesAreAccounted`: `TraceAccounted` | Subscriptions are unique among slots and among streams, and no queue holds an event still to come; idle, lent and connecting places of the pool together are its count; what the transaction has rewritten, and under which master, while the command is under way; which of its two reports a pairing slot still waits for, and that what is committed has none to come; where in the cache of traces each of the last ones is, and that the empty trace is pushed last |
| `ServicesProofs`, hedged call | `HedgeInvariant`; `HedgeMemorySafe`: `NoUseAfterFree`; `HedgeBodyOwned`: `BodyHasOneOwner`; `HedgeAnswer`: `AnswerIfAny`; `HedgeLoser`: `LoserCancelled` | `CallInv`, about one control block: the reference count is the number of threads that have still to let go; how far each of the three threads can be when the others are where they are; who owns each buffer |
| `ServicesProofs`, LRU map | `LruImplementsMap`: `ImplementsMap` | `LruInv`: there are a list of nodes and one for each bucket that the pointers follow forwards and backwards; the nodes of the list are the allocated ones, each in the chain of its key; no two have one key or one value, and no value in the map is still to be put in. Then each operation on the pointers is one on the lists, and each of `LruMap`'s on the entries |

Assumptions, each an `ASSUME` of the module that declares the constants and evaluated
by TLC in the runs:

- `CbAssumption`: threshold, window and recovery count are positive and the ratio a
  percentage: `cb_create` and the callers of `cb_configure_sla` pass constants that are,
  and a window of 0 is made 10.
- `FailoverAssumption`: at least one target, natural priorities and limits, and
  finitely many requests at a time.
- `HedgeAssumption`: the budget is a percentage.
- `UsageAssumption`: finitely many keys, capacities and batches of at least one.
- `RuleAssumption`: ids are 1, 2, ... as a serial column gives them.
- `RecordsAssumption`: capacities of at least one; hashes that are nobody's key are
  not the hash of a key.
- `GateAssumption`: finitely many requests at a time, natural rates and amounts, and
  a key is in one group.
- `BusAssumption`, `PoolAssumption`: queues and pools of at least one place, and
  finitely many threads.
- `AuditAssumption`: capacities, batches, pages and the number of backups of at least
  one: `audit_logger_create` and `audit_ring_create` replace smaller ones.
- `CacheAssumption`: at least one entry per shard, natural sizes, and finitely many
  readers at a time; entries may be larger than the shard.
- `StreamAssumption`: routes are of the seven kinds, and only a chat route emulates
  tags; the line buffer is not empty and a replayed piece has at least one byte. Any
  lengths of lines, any size of the accumulator, also 0.
- `LruAssumption`, `NodeAssumption`: a capacity and a table of at least one, as
  `lru_new` makes them; natural keys, because a key stands for its hash; finitely many
  nodes and more of them than the capacity, so that an allocation succeeds; `NULL` is
  not one of them.
- `ShadowAssumption`, `TraceAssumption`: a ring of evaluations, a ring of traces, a
  cache and a batch of at least one place (`trace_ring_buffer_create` makes a capacity
  of 0 the default one); the number of pairing slots and the capacity of the task
  queue may be 0.

The bounds on numbers of operations (`MaxOps`, `MaxRequests` and the like) are
natural numbers of any size.

Induction over data is made without the library's rules, whose parameter is an
operator: `AllNumbers` says that a set of numbers with 0 and the successors of its
members has all numbers, and is proved from the well-foundedness of `<`. What a loop
computes (`MadeRoom`, `Purged`), what a sum over a set is (`SumOf`), what
`FlattenSeq` does to a concatenation and what a walk along the pointers of the LRU map
finds (`Listed`, `Found`) follow from it.

What the proofs brought to light: the outcome of two transfers that end together was
an overlapping `CASE` in `HedgedCall`, and now follows the order of the code's tests
(`Chosen`); the weights in
`Rank` were large enough for a few targets only, and now depend on their number; `audit_file_rotate` was written as
a `SubSeq` that asked for more backups than there are while the log was young, and is
now the shift the code makes (`Shifted`); the health check of an idle connection in `redis_pool_acquire` is
never reached (`PoolNoHealthCheck`), because a connection with an error is not put
back.

Only model-checked is liveness (`OpenWindowEnds`, `Reclaimed`, `HealthFollows`,
`EventuallyFlushed`, `StopDrains`): TLAPS does not prove it under fairness. Every
other property of a passing run has a theorem.

## Plan

1. Done: the breaker and its theorems, failover, hedged calls, usage meter; caches,
   rules, limits, streams, response cache, audit log, event bus, shadow engine,
   tracer, Redis pool, health prober, key rotation.
2. Done: theorems about all of these but the health prober, whose property is
   liveness.
3. Later, if at all: the breaker's Redis mode, canary rules and SLA fallback, IP bans
   and lockout, migrations.

Not modelled, and why: text transformations (guardrail patterns, scripts, prompt
compression, watermarks, templates), JSON conversions of requests and unstreamed
answers, formatting and reporting queries of the admin API, cryptography,
configuration, metrics and the HTTP layer have no state that other parts depend on,
or are string processing that a finite model says nothing about. `PROJECT.json`
lists every part with its status.
