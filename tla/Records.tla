------------------------------- MODULE Records -------------------------------
(***************************************************************************)
(* API keys, models and providers: the rows in PostgreSQL, the admin       *)
(* handlers that change them, and the two LRU caches the request path      *)
(* reads instead (auth_key.c for keys, model_router.c for routes). A       *)
(* handler writes the store first and invalidates the cache entry after;   *)
(* a request that misses reads the store first and fills the cache after.  *)
(* Handlers and requests interleave between their store and cache calls.   *)
(*                                                                         *)
(* A handler that refuses its input, or whose first store call fails,      *)
(* changes nothing and is not an action.                                   *)
(***************************************************************************)
EXTENDS LruOps, FiniteSets

CONSTANTS
    Keys,        \* hashes of keys that exist or can be created
    NewKeys,     \* the ones that do not exist in the initial state
    Bogus,       \* hashes nobody creates: bearer tokens that are no key
    Models,      \* model names
    Admins,      \* threads serving admin requests
    Threads,     \* threads serving API requests
    CacheCap,    \* capacity of the record and route caches (4096 and the router's)
    NegCap,      \* capacity of the negative cache (256)
    MaxOps       \* bound: admin requests

ASSUME RecordsAssumption ==
    /\ CacheCap \in Nat \ {0} /\ NegCap \in Nat \ {0} /\ MaxOps \in Nat
    /\ NewKeys \subseteq Keys /\ Keys \cap Bogus = {}

VARIABLES
    keyRow,     \* api_keys, by hash
    late,       \* the expiry date of the keys that have one has passed
    recs,       \* auth_key_cache.recs
    neg,        \* auth_key_cache.neg: hashes known to have no row
    keyRaced,   \* per key, its record was filled from a row that had changed (history)
    modelRow,   \* models, by name
    provRow,    \* the row of one provider
    routes,     \* model_router.routes
    routeRaced, \* as keyRaced, per model
    req,        \* per thread, the resolve call it is in
    adm,        \* per admin thread, its request
    ops

keyVars == <<keyRow, late, recs, neg, keyRaced>>
routeVars == <<modelRow, provRow, routes, routeRaced>>
vars == <<keyVars, routeVars, req, adm, ops>>

\* The columns a verdict depends on, besides revoked_at: a canary, or a date of expiry.
Traits == {"plain", "canary", "expiring"}
NoKey == [st |-> "absent", trait |-> "plain"]
NoModel == [st |-> "absent", cfg |-> 0]
NoProvider == [st |-> "absent", cfg |-> 0, models |-> {}]
Idle == [pc |-> "idle", key |-> "none", model |-> "none", prov |-> NoProvider, todo |-> {}]
IdleReq == [pc |-> "idle", on |-> "none", key |-> NoKey, route |-> NoModel]

Cfgs == 0 .. 1                  \* two endpoints a model or a provider may name
Hashes == Keys \cup Bogus

\* A gateway that has just started, over a store with some keys, models and a provider.
Init ==
    /\ keyRow = [k \in Hashes |-> IF k \in Keys \ NewKeys THEN [NoKey EXCEPT !.st = "live"] ELSE NoKey]
    /\ late = FALSE
    /\ recs = <<>> /\ neg = <<>>
    /\ keyRaced = [k \in Keys |-> FALSE]
    /\ modelRow = [m \in Models |-> [st |-> "on", cfg |-> 0]]
    /\ provRow = [st |-> "on", cfg |-> 0, models |-> Models]
    /\ routes = <<>>
    /\ routeRaced = [m \in Models |-> FALSE]
    /\ req = [t \in Threads |-> IdleReq]
    /\ adm = [a \in Admins |-> Idle]
    /\ ops = 0

(***************************************************************************)
(* Keys in the store                                                       *)
(***************************************************************************)
pq_get_key_by_hash(k) == keyRow[k]
pq_get_key_by_id(k) == keyRow[k].st # "absent"
pq_create_key(k, row) == keyRow' = [keyRow EXCEPT ![k] = row]

\* Only the columns in the mask are written; revoked_at is in no mask.
pq_update_key(k, masked, trait) ==
    keyRow' = IF masked THEN [keyRow EXCEPT ![k].trait = trait] ELSE keyRow

\* UPDATE ... WHERE revoked_at IS NULL: an error when no row is affected.
pq_revoke_key(k) ==
    /\ keyRow[k].st = "live"
    /\ keyRow' = [keyRow EXCEPT ![k].st = "revoked"]

(***************************************************************************)
(* The key cache                                                           *)
(***************************************************************************)
Verdict(rec) ==
    IF rec.trait = "canary" THEN "canary"
    ELSE IF rec.st = "revoked" THEN "revoked"
    ELSE IF rec.trait = "expiring" /\ late THEN "expired"
    ELSE "ok"

\* Keys are random: a hash is only presented once its key exists, or if it never will.
Presentable == {k \in Hashes : k \in Bogus \/ keyRow[k].st # "absent"}

\* A hit in recs, then in neg, answers without the store.
KeyLookup(t, k) ==
    /\ req[t].pc = "idle"
    /\ recs' = LruGet(recs, k)
    /\ neg' = IF LruHas(recs, k) THEN neg ELSE LruGet(neg, k)
    /\ req' = IF LruHas(recs, k) \/ LruHas(neg, k) THEN req
              ELSE [req EXCEPT ![t] = [IdleReq EXCEPT !.pc = "key_query", !.on = k]]
    /\ UNCHANGED <<keyRow, late, keyRaced>>

\* The store answers, or fails; a failure is answered 401 and cached nowhere.
KeyQuery(t) ==
    /\ req[t].pc = "key_query"
    /\ \/ req' = [req EXCEPT ![t].pc = "key_fill", ![t].key = pq_get_key_by_hash(req[t].on)]
       \/ req' = [req EXCEPT ![t] = IdleReq]
    /\ UNCHANGED keyVars

KeyFill(t) ==
    LET k == req[t].on
        rec == req[t].key
    IN  /\ req[t].pc = "key_fill"
        /\ req' = [req EXCEPT ![t] = IdleReq]
        /\ \/ /\ rec.st = "absent"
              /\ neg' = LruPut(neg, k, "absent", NegCap)
              /\ UNCHANGED <<recs, keyRaced>>
           \/ /\ rec.st # "absent" /\ Verdict(rec) \in {"ok", "canary"}
              /\ recs' = LruPut(recs, k, rec, CacheCap)
              /\ keyRaced' = [keyRaced EXCEPT ![k] = rec # keyRow[k]]
              /\ UNCHANGED neg
           \/ /\ rec.st # "absent" /\ Verdict(rec) \notin {"ok", "canary"}
              /\ UNCHANGED <<recs, neg, keyRaced>>
        /\ UNCHANGED <<keyRow, late>>

auth_key_resolve(t) ==
    /\ \/ \E k \in Presentable : KeyLookup(t, k)
       \/ KeyQuery(t)
       \/ KeyFill(t)
    /\ UNCHANGED <<routeVars, adm, ops>>

\* Mutant: only the negative entry is dropped.
InvalidateNegative(k) ==
    /\ neg' = LruDrop(neg, k)
    /\ UNCHANGED <<recs, keyRow, late, keyRaced>>

\* Both caches forget the hash.
auth_key_invalidate(k) ==
    /\ recs' = LruDrop(recs, k)
    /\ neg' = LruDrop(neg, k)
    /\ UNCHANGED <<keyRow, late, keyRaced>>

(***************************************************************************)
(* Keys in the admin API. pc "inval_key" is the invalidation to come.      *)
(***************************************************************************)
Begin(a) == adm[a].pc = "idle" /\ ops < MaxOps /\ ops' = ops + 1
Become(a, st) == adm' = [adm EXCEPT ![a] = st]
OnKey(pc, k) == [Idle EXCEPT !.pc = pc, !.key = k]

\* A new hash is in no cache: nothing to invalidate.
key_create(a) ==
    /\ Begin(a)
    /\ \E k \in Keys, trait \in Traits :
         /\ keyRow[k].st = "absent"
         /\ pq_create_key(k, [st |-> "live", trait |-> trait])
    /\ UNCHANGED <<late, recs, neg, keyRaced, routeVars, req, adm>>

\* The record is read, the columns of the body are put in the mask, then written; an empty
\* mask writes nothing and is followed by the invalidation all the same.
key_patch(a) ==
    \/ /\ Begin(a)
       /\ \E k \in Keys : pq_get_key_by_id(k) /\ Become(a, OnKey("patch_key", k))
       /\ UNCHANGED <<keyVars, routeVars, req>>
    \/ /\ adm[a].pc = "patch_key"
       /\ \/ /\ \E masked \in BOOLEAN, trait \in Traits :
                  pq_update_key(adm[a].key, masked, trait)
             /\ Become(a, OnKey("inval_key", adm[a].key))
          \/ Become(a, Idle) /\ UNCHANGED keyRow
       /\ UNCHANGED <<late, recs, neg, keyRaced, routeVars, req, ops>>

\* A key that is revoked already is answered 404, without an invalidation.
key_revoke(a) ==
    /\ Begin(a)
    /\ \E k \in Keys :
         /\ pq_get_key_by_id(k)
         /\ pq_revoke_key(k)
         /\ Become(a, OnKey("inval_key", k))
    /\ UNCHANGED <<late, recs, neg, keyRaced, routeVars, req>>

InvalidateKey(a) ==
    /\ adm[a].pc = "inval_key"
    /\ auth_key_invalidate(adm[a].key)
    /\ Become(a, Idle)
    /\ UNCHANGED <<routeVars, req, ops>>

ExpiryPasses ==
    /\ ~late /\ late' = TRUE
    /\ UNCHANGED <<keyRow, recs, neg, keyRaced, routeVars, req, adm, ops>>

(***************************************************************************)
(* Models in the store and the route cache                                 *)
(***************************************************************************)
\* WHERE model_name = $1 AND enabled = true
pq_get_model(m) == modelRow[m].st = "on"

\* The column enabled is not among the inserted ones: its default is true.
pq_create_model(m, cfg) ==
    /\ modelRow[m].st = "absent"
    /\ modelRow' = [modelRow EXCEPT ![m] = [st |-> "on", cfg |-> cfg]]

\* UPDATE ... WHERE model_name: a name without a row is no error.
pq_update_model(m, mask, st, cfg) ==
    modelRow' = [modelRow EXCEPT ![m] =
        IF @.st = "absent" THEN @
        ELSE [st |-> IF "enabled" \in mask THEN st ELSE @.st,
              cfg |-> IF "endpoint" \in mask THEN cfg ELSE @.cfg]]

pq_delete_model(m) ==
    /\ modelRow[m].st # "absent"
    /\ modelRow' = [modelRow EXCEPT ![m] = NoModel]

fill_model_row(m) == modelRow[m]

RouteLookup(t, m) ==
    /\ req[t].pc = "idle"
    /\ routes' = LruGet(routes, m)
    /\ req' = IF LruHas(routes, m) THEN req
              ELSE [req EXCEPT ![t] = [IdleReq EXCEPT !.pc = "route_query", !.on = m]]
    /\ UNCHANGED routeRaced

\* Unknown or disabled, a store error, or a key reference resolve_key cannot resolve:
\* nothing is cached.
RouteQuery(t) ==
    /\ req[t].pc = "route_query"
    /\ \/ /\ pq_get_model(req[t].on)
          /\ req' = [req EXCEPT ![t].pc = "route_fill", ![t].route = fill_model_row(req[t].on)]
       \/ req' = [req EXCEPT ![t] = IdleReq]
    /\ UNCHANGED <<routes, routeRaced>>

RouteFill(t) ==
    LET m == req[t].on IN
    /\ req[t].pc = "route_fill"
    /\ req' = [req EXCEPT ![t] = IdleReq]
    /\ routes' = LruPut(routes, m, req[t].route, CacheCap)
    /\ routeRaced' = [routeRaced EXCEPT ![m] = req[t].route # modelRow[m]]

model_router_resolve(t) ==
    /\ \/ \E m \in Models : RouteLookup(t, m)
       \/ RouteQuery(t)
       \/ RouteFill(t)
    /\ UNCHANGED <<keyVars, modelRow, provRow, adm, ops>>

model_router_invalidate(m) == routes' = LruDrop(routes, m)

(***************************************************************************)
(* Models and providers in the admin API                                   *)
(***************************************************************************)
OnModel(pc, m) == [Idle EXCEPT !.pc = pc, !.model = m]

model_create(a) ==
    /\ Begin(a)
    /\ \E m \in Models, cfg \in Cfgs : pq_create_model(m, cfg) /\ Become(a, OnModel("inval", m))
    /\ UNCHANGED <<keyVars, provRow, routes, routeRaced, req>>

\* Only an enabled model is found, and a body may leave any column out.
model_patch(a) ==
    \/ /\ Begin(a)
       /\ \E m \in Models : pq_get_model(m) /\ Become(a, OnModel("patch_model", m))
       /\ UNCHANGED <<keyVars, routeVars, req>>
    \/ /\ adm[a].pc = "patch_model"
       /\ \/ /\ \E mask \in SUBSET {"enabled", "endpoint"}, st \in {"on", "off"}, cfg \in Cfgs :
                  pq_update_model(adm[a].model, mask, st, cfg)
             /\ Become(a, OnModel("inval", adm[a].model))
          \/ Become(a, Idle) /\ UNCHANGED modelRow
       /\ UNCHANGED <<keyVars, provRow, routes, routeRaced, req, ops>>

model_delete(a) ==
    /\ Begin(a)
    /\ \E m \in Models : pq_delete_model(m) /\ Become(a, OnModel("inval", m))
    /\ UNCHANGED <<keyVars, provRow, routes, routeRaced, req>>

InvalidateRoute(a) ==
    /\ adm[a].pc = "inval"
    /\ model_router_invalidate(adm[a].model)
    /\ Become(a, Idle)
    /\ UNCHANGED <<keyVars, modelRow, provRow, routeRaced, req, ops>>

pq_create_provider(p) == provRow.st = "absent" /\ provRow' = p
pq_get_provider == provRow.st # "absent"
pq_update_provider(p, mask) ==
    provRow' = IF provRow.st = "absent" THEN provRow
               ELSE [c \in DOMAIN p |-> IF c \in mask THEN p[c] ELSE provRow[c]]
pq_delete_provider == provRow.st # "absent" /\ provRow' = NoProvider

Bodies == [st : {"on", "off"}, cfg : Cfgs, models : SUBSET Models]

\* The sync of the provider's models is the last thing the handler does.
Syncing(p) ==
    IF p.models = {} THEN Idle ELSE [Idle EXCEPT !.pc = "sync", !.prov = p, !.todo = p.models]

provider_create(a) ==
    /\ Begin(a)
    /\ \E p \in Bodies : pq_create_provider(p) /\ Become(a, Syncing(p))
    /\ UNCHANGED <<keyVars, modelRow, routes, routeRaced, req>>

\* The sync uses the record read before the update, with the body's columns over it.
provider_patch(a) ==
    \/ /\ Begin(a)
       /\ pq_get_provider
       /\ Become(a, [Idle EXCEPT !.pc = "patch_provider", !.prov = provRow])
       /\ UNCHANGED <<keyVars, routeVars, req>>
    \/ /\ adm[a].pc = "patch_provider"
       /\ \/ \E body \in Bodies, mask \in SUBSET DOMAIN NoProvider :
               LET p == [c \in DOMAIN body |-> IF c \in mask THEN body[c] ELSE adm[a].prov[c]]
               IN  pq_update_provider(p, mask) /\ Become(a, Syncing(p))
          \/ Become(a, Idle) /\ UNCHANGED provRow
       /\ UNCHANGED <<keyVars, modelRow, routes, routeRaced, req, ops>>

\* The rows of its models stay.
provider_delete(a) ==
    /\ Begin(a)
    /\ pq_delete_provider
    /\ UNCHANGED <<keyVars, modelRow, routes, routeRaced, req, adm>>

\* For each model: read it, update it or insert it (either may fail), forget its route.
sync_provider_models(a) ==
    LET p == adm[a].prov
        m == adm[a].model
        todo == adm[a].todo
    IN  \/ /\ adm[a].pc = "sync"
           /\ \E n \in todo :
                adm' = [adm EXCEPT ![a].pc = IF pq_get_model(n) THEN "sync_update" ELSE "sync_create",
                                   ![a].model = n]
           /\ UNCHANGED <<modelRow, routes>>
        \/ /\ adm[a].pc \in {"sync_update", "sync_create"}
           /\ \/ adm[a].pc = "sync_update" /\ pq_update_model(m, {"enabled", "endpoint"}, p.st, p.cfg)
              \/ adm[a].pc = "sync_create" /\ pq_create_model(m, p.cfg)
              \/ UNCHANGED modelRow
           /\ adm' = [adm EXCEPT ![a].pc = "sync_inval"]
           /\ UNCHANGED routes
        \/ /\ adm[a].pc = "sync_inval"
           /\ model_router_invalidate(m)
           /\ Become(a, IF todo = {m} THEN Idle
                        ELSE [adm[a] EXCEPT !.pc = "sync", !.model = "none", !.todo = todo \ {m}])
           /\ UNCHANGED modelRow

SyncStep(a) ==
    sync_provider_models(a) /\ UNCHANGED <<keyVars, provRow, routeRaced, req, ops>>

Next ==
    \/ \E t \in Threads : auth_key_resolve(t) \/ model_router_resolve(t)
    \/ \E a \in Admins :
         \/ key_create(a) \/ key_patch(a) \/ key_revoke(a) \/ InvalidateKey(a)
         \/ model_create(a) \/ model_patch(a) \/ model_delete(a) \/ InvalidateRoute(a)
         \/ provider_create(a) \/ provider_patch(a) \/ provider_delete(a) \/ SyncStep(a)
    \/ ExpiryPasses

Spec == Init /\ [][Next]_vars

-----------------------------------------------------------------------------
KeyRows == [st : {"absent", "live", "revoked"}, trait : Traits]
ModelRows == [st : {"absent", "off", "on"}, cfg : Cfgs]

\* Every variable stays in its domain and no cache outgrows its capacity.
TypeOK ==
    /\ keyRow \in [Hashes -> KeyRows]
    /\ Len(recs) <= CacheCap /\ Len(routes) <= CacheCap /\ Len(neg) <= NegCap
    /\ \A i \in DOMAIN recs : recs[i].key \in Keys /\ recs[i].val \in KeyRows
    /\ \A i \in DOMAIN routes : routes[i].key \in Models /\ routes[i].val \in ModelRows
    /\ modelRow \in [Models -> ModelRows]
    /\ provRow.st \in {"absent", "off", "on"} /\ provRow.models \subseteq Models
    /\ \A a \in Admins : adm[a].todo \subseteq Models
    /\ ops \in 0 .. MaxOps

KeyPending(k) == \E a \in Admins : adm[a].pc = "inval_key" /\ adm[a].key = k
RoutePending(m) == \E a \in Admins : adm[a].pc \in {"inval", "sync_inval"} /\ adm[a].model = m

\* What the request path reads from a cache is what the store holds, unless the handler that
\* changed the row is about to invalidate the entry, or the entry was filled from a row that
\* changed between the read and the fill: no handler forgets an entry it must drop. And the
\* negative cache only holds hashes without a row: "an outage cannot turn valid keys into 401s
\* for the life of the process" (auth_key.c).
CachesFollow ==
    /\ \A k \in LruKeys(recs) :
         LruValue(recs, k) = keyRow[k] \/ KeyPending(k) \/ keyRaced[k]
    /\ \A m \in LruKeys(routes) :
         LruValue(routes, m) = modelRow[m] \/ RoutePending(m) \/ routeRaced[m]
    /\ \A k \in LruKeys(neg) : keyRow[k].st = "absent"

-----------------------------------------------------------------------------
(* What the comments say and the code does not do                            *)

\* Once the handler that revoked a key has finished, no request is served from a cached
\* record of the valid key: "the admin plane is the source of truth" (auth_key.c).
RevokedNotCached ==
    \A k \in LruKeys(recs) :
        keyRow[k].st = "revoked" /\ ~KeyPending(k) => LruValue(recs, k).st = "revoked"
=============================================================================
