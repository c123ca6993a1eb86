------------------------------ MODULE RuleAdmin ------------------------------
(***************************************************************************)
(* The six rule tables an administrator edits while requests are served:   *)
(* guardrails, shadow, compressor, cache optimizer, threat whitelist and   *)
(* script plugins. Every handler of admin_api.c writes the table through   *)
(* pg_store.c and then calls the aigate_core_reload_* function that copies *)
(* the table into the engine's memory. Nothing serialises the handlers.    *)
(*                                                                         *)
(* A row is its creation stamp and the number of the handler that wrote    *)
(* its contents last. A handler that refuses its input (400), or whose     *)
(* first store call fails (500), changes nothing and is not an action.     *)
(***************************************************************************)
EXTENDS Naturals, FiniteSets

CONSTANTS
    Admins,        \* threads that serve admin requests
    Readers,       \* threads that run the guardrails of a chat request
    Ids,           \* rule ids of one table, 1 .. n
    Cap,           \* rows a capped list returns: the arrays of 256, 128 and 64
    MaxOps,        \* bound: admin requests
    MaxFaults,     \* bound: list queries that fail
    MaxRestarts    \* bound: restarts of the process

ASSUME RuleAssumption ==
    /\ Ids = 1 .. Cardinality(Ids)
    /\ {Cap, MaxOps, MaxFaults, MaxRestarts} \subseteq Nat

Locked == {"shadow", "compressor", "cache_optimizer"}  \* reloaded inside one lock
Named  == {"compressor", "cache_optimizer"}            \* the id comes with the request
Serial == {"guardrails", "shadow", "whitelist", "plugins"}
Kinds  == Named \cup Serial

VARIABLES
    table,      \* per kind, the rows in PostgreSQL
    last,       \* per kind, the last value of its id sequence
    engine,     \* per kind, the contents the engine applies: id -> writer, 0 if absent
    lost,       \* per kind, the latest reload could not list the table (history)
    gr,         \* generation of the guardrails context ac->gr points to
    freed,      \* generations that were destroyed
    held,       \* per reader, the generation it is using, 0 if none
    adm,        \* per admin thread, its request
    ops, faults, restarts

vars == <<table, last, engine, lost, gr, freed, held, adm, ops, faults, restarts>>
grVars == <<gr, freed>>

Absent == [born |-> 0, by |-> 0]
NoRules == [id \in Ids |-> 0]
Idle == [pc |-> "idle", kind |-> "none", id |-> 0, n |-> 0, row |-> Absent, list |-> NoRules]

Reloading(k) == [Idle EXCEPT !.pc = "reload", !.kind = k]

Present(t) == {id \in Ids : t[id] # Absent}

\* The rows an ORDER BY with a capped output array returns.
FirstRows(t, cap) ==
    {id \in Present(t) :
        Cardinality({o \in Present(t) : t[o].born < t[id].born}) < cap}

Contents(t, ids) == [id \in Ids |-> IF id \in ids THEN t[id].by ELSE 0]
InsertRow(t, id, n) == [t EXCEPT ![id] = [born |-> n, by |-> n]]
UpdateRow(t, id, n) == IF id \in Present(t) THEN [t EXCEPT ![id].by = n] ELSE t
DeleteRow(t, id) == [t EXCEPT ![id] = Absent]
\* INSERT ... ON CONFLICT(id) DO UPDATE: created_at is only written by the insert.
UpsertRow(t, id, born, n) ==
    IF id \in Present(t) THEN UpdateRow(t, id, n)
    ELSE [t EXCEPT ![id] = [born |-> born, by |-> n]]

(***************************************************************************)
(* pg_store.c: what each statement does to its table.                      *)
(***************************************************************************)
pq_list_guardrails_rules(t) == FirstRows(t, Cap)
pq_create_guardrails_rule(t, id, n) == InsertRow(t, id, n)
pq_update_guardrails_rule(t, id, n) == UpdateRow(t, id, n)
pq_delete_guardrails_rule(t, id) == DeleteRow(t, id)
pq_list_shadow_rules(t) == FirstRows(t, Cap)
pq_create_shadow_rule(t, id, n) == InsertRow(t, id, n)

\* Mutant: an update that inserts the row when it is gone.
UpdateUpserts(t, id, n) == UpsertRow(t, id, n, n)
pq_update_shadow_rule(t, id, n) == UpdateRow(t, id, n)
pq_delete_shadow_rule(t, id) == DeleteRow(t, id)
pq_list_compressor_rules(t) == FirstRows(t, Cap)
pq_upsert_compressor_rule(t, id, born, n) == UpsertRow(t, id, born, n)
pq_delete_compressor_rule(t, id) == DeleteRow(t, id)
pq_list_cache_optimizer_rules(t) == FirstRows(t, Cap)
pq_upsert_cache_optimizer_rule(t, id, born, n) == UpsertRow(t, id, born, n)
pq_delete_cache_optimizer_rule(t, id) == DeleteRow(t, id)
pq_list_threat_whitelists(t) == Present(t)
pq_create_threat_whitelist(t, id, n) == InsertRow(t, id, n)
pq_delete_threat_whitelist(t, id) == DeleteRow(t, id)
pq_list_script_plugins(t) == Present(t)
pq_get_script_plugin(t) == Present(t)
pq_create_script_plugin(t, id, n) == InsertRow(t, id, n)
pq_update_script_plugin(t, id, n) == UpdateRow(t, id, n)
pq_delete_script_plugin(t, id) == DeleteRow(t, id)

\* The list functions of pg_ops_t, by table.
Listed(k) ==
    LET t == table[k] IN
    Contents(t, CASE k = "guardrails" -> pq_list_guardrails_rules(t)
                  [] k = "shadow" -> pq_list_shadow_rules(t)
                  [] k = "compressor" -> pq_list_compressor_rules(t)
                  [] k = "cache_optimizer" -> pq_list_cache_optimizer_rules(t)
                  [] k = "whitelist" -> pq_list_threat_whitelists(t)
                  [] k = "plugins" -> pq_list_script_plugins(t))

\* A running gateway: one rule in each table, none in the whitelist.
Init ==
    /\ last = [k \in Kinds |-> IF k = "whitelist" THEN 0 ELSE 1]
    /\ table = [k \in Kinds |-> [id \in Ids |-> IF id <= last[k] THEN [born |-> 1, by |-> 1]
                                                  ELSE Absent]]
    /\ engine = [k \in Kinds |-> Listed(k)]
    /\ lost = [k \in Kinds |-> FALSE]
    /\ gr = 1 /\ freed = {}
    /\ held = [r \in Readers |-> 0]
    /\ adm = [a \in Admins |-> Idle]
    /\ ops = 1 /\ faults = 0 /\ restarts = 0

(***************************************************************************)
(* The steps the handlers share. A handler that wrote its table goes on to *)
(* the reload of that table; pc names the step it is about to take.        *)
(***************************************************************************)
\* A handler's first store call is its write: creations and deletions.
Write(a, k, t) ==
    /\ adm[a].pc = "idle" /\ ops < MaxOps
    /\ ops' = ops + 1
    /\ table' = [table EXCEPT ![k] = t]
    /\ adm' = [adm EXCEPT ![a] = Reloading(k)]
    /\ UNCHANGED <<engine, lost, held, faults, restarts>> /\ UNCHANGED grVars

\* INSERT ... RETURNING id: the id is the sequence's next value, never used before.
CreateSerial(a, k, create(_, _, _)) ==
    /\ last[k] + 1 \in Ids
    /\ last' = [last EXCEPT ![k] = @ + 1]
    /\ Write(a, k, create(table[k], last[k] + 1, ops + 1))

CreateNamed(a, k, upsert(_, _, _, _)) ==
    \E id \in Ids : Write(a, k, upsert(table[k], id, ops + 1, ops + 1)) /\ UNCHANGED last

\* A deletion that finds no row is answered with an error, without a reload.
Delete(a, k, delete(_, _)) ==
    \E id \in Present(table[k]) : Write(a, k, delete(table[k], id)) /\ UNCHANGED last

\* An update first reads the row from the list, then writes all its columns.
ReadForUpdate(a, k, readable) ==
    /\ adm[a].pc = "idle" /\ ops < MaxOps
    /\ ops' = ops + 1
    /\ \E id \in readable :
         adm' = [adm EXCEPT ![a] = [pc |-> "update", kind |-> k, id |-> id, n |-> ops + 1,
                                    row |-> table[k][id], list |-> NoRules]]
    /\ UNCHANGED <<table, last, engine, lost, held, faults, restarts>> /\ UNCHANGED grVars

\* The body was refused, or the UPDATE found no row: no reload.
AbandonUpdate(a, k) ==
    /\ adm[a].pc = "update" /\ adm[a].kind = k
    /\ adm' = [adm EXCEPT ![a] = Idle]
    /\ UNCHANGED <<table, last, engine, lost, held, ops, faults, restarts>>
    /\ UNCHANGED grVars

\* t differs from the table exactly when the statement wrote a row.
FinishUpdate(a, k, t) ==
    /\ adm[a].pc = "update" /\ adm[a].kind = k
    /\ t # table[k]
    /\ table' = [table EXCEPT ![k] = t]
    /\ adm' = [adm EXCEPT ![a] = Reloading(k)]
    /\ UNCHANGED <<last, engine, lost, held, ops, faults, restarts>> /\ UNCHANGED grVars

Update(a, k, readable, t) ==
    \/ ReadForUpdate(a, k, readable)
    \/ AbandonUpdate(a, k)
    \/ FinishUpdate(a, k, t)

\* The list query of a reload answers, or it fails and a fault is counted.
ListAnswers(k) == lost' = [lost EXCEPT ![k] = FALSE] /\ UNCHANGED faults
ListFails(k) ==
    /\ faults < MaxFaults /\ faults' = faults + 1
    /\ lost' = [lost EXCEPT ![k] = TRUE]

\* Mutant: the list is read before the lock is taken, and installed under it.
ReloadListedBefore(a, k) ==
    /\ adm[a].kind = k
    /\ \/ /\ adm[a].pc = "reload" /\ ListAnswers(k)
          /\ adm' = [adm EXCEPT ![a].pc = "load", ![a].list = Listed(k)]
          /\ UNCHANGED engine
       \/ /\ adm[a].pc = "load"
          /\ engine' = [engine EXCEPT ![k] = adm[a].list]
          /\ adm' = [adm EXCEPT ![a] = Idle] /\ UNCHANGED <<lost, faults>>
    /\ UNCHANGED <<table, last, held, ops, restarts>> /\ UNCHANGED grVars

\* Lock, forget the rules, list, unlock: a failed list leaves no rule at all.
ReloadLocked(a, k) ==
    /\ adm[a].pc = "reload" /\ adm[a].kind = k
    /\ \/ ListAnswers(k) /\ engine' = [engine EXCEPT ![k] = Listed(k)]
       \/ ListFails(k) /\ engine' = [engine EXCEPT ![k] = NoRules]
    /\ adm' = [adm EXCEPT ![a] = Idle]
    /\ UNCHANGED <<table, last, held, ops, restarts>> /\ UNCHANGED grVars

\* The list is read with no lock held; a later step installs it.
ListUnlocked(a, k, afterFailure) ==
    /\ adm[a].pc = "reload" /\ adm[a].kind = k
    /\ \/ ListAnswers(k) /\ adm' = [adm EXCEPT ![a].pc = "load", ![a].list = Listed(k)]
       \/ ListFails(k) /\ adm' = [adm EXCEPT ![a] = afterFailure]
    /\ UNCHANGED <<table, last, engine, held, ops, restarts>> /\ UNCHANGED grVars

Install(a, k) ==
    /\ adm[a].pc = "load" /\ adm[a].kind = k
    /\ engine' = [engine EXCEPT ![k] = adm[a].list]
    /\ adm' = [adm EXCEPT ![a] = Idle]
    /\ UNCHANGED <<table, last, lost, held, ops, faults, restarts>>

(***************************************************************************)
(* guardrails                                                              *)
(***************************************************************************)
guardrails_rule_create(a) == CreateSerial(a, "guardrails", pq_create_guardrails_rule)

guardrails_rule_update(a) ==
    Update(a, "guardrails", pq_list_guardrails_rules(table["guardrails"]),
           pq_update_guardrails_rule(table["guardrails"], adm[a].id, adm[a].n))

guardrails_rule_delete(a) == Delete(a, "guardrails", pq_delete_guardrails_rule)

\* POST /admin/v1/guardrails/reload writes nothing.
guardrails_reload(a) == Write(a, "guardrails", table["guardrails"]) /\ UNCHANGED last

\* The rules go into a new context; a failed list leaves it without rules. The pointer is swapped and the old context destroyed.
aigate_core_reload_guardrails(a) ==
    \/ ListUnlocked(a, "guardrails", [adm[a] EXCEPT !.pc = "load", !.list = NoRules])
    \/ /\ Install(a, "guardrails")
       /\ gr' = gr + 1 /\ freed' = freed \cup {gr}

\* A chat request inspects its body, or its answer, with the context it finds.
EnterGuardrails(r) ==
    /\ held[r] = 0
    /\ held' = [held EXCEPT ![r] = gr]
    /\ UNCHANGED <<table, last, engine, lost, adm, ops, faults, restarts>> /\ UNCHANGED grVars

LeaveGuardrails(r) ==
    /\ held[r] # 0
    /\ held' = [held EXCEPT ![r] = 0]
    /\ UNCHANGED <<table, last, engine, lost, adm, ops, faults, restarts>> /\ UNCHANGED grVars

(***************************************************************************)
(* shadow, compressor and cache optimizer                                  *)
(***************************************************************************)
admin_shadow_rules_create(a) == CreateSerial(a, "shadow", pq_create_shadow_rule)
admin_shadow_rules_update(a) ==
    Update(a, "shadow", pq_list_shadow_rules(table["shadow"]),
           pq_update_shadow_rule(table["shadow"], adm[a].id, adm[a].n))
admin_shadow_rules_delete(a) == Delete(a, "shadow", pq_delete_shadow_rule)
aigate_core_reload_shadow_rules(a) == ReloadLocked(a, "shadow")

admin_compressor_rules_create(a) == CreateNamed(a, "compressor", pq_upsert_compressor_rule)
admin_compressor_rules_update(a) ==
    Update(a, "compressor", pq_list_compressor_rules(table["compressor"]),
           pq_upsert_compressor_rule(table["compressor"], adm[a].id, adm[a].row.born, adm[a].n))
admin_compressor_rules_delete(a) == Delete(a, "compressor", pq_delete_compressor_rule)
aigate_core_reload_compressor_rules(a) == ReloadLocked(a, "compressor")

admin_cache_optimizer_rules_create(a) ==
    CreateNamed(a, "cache_optimizer", pq_upsert_cache_optimizer_rule)
admin_cache_optimizer_rules_update(a) ==
    Update(a, "cache_optimizer", pq_list_cache_optimizer_rules(table["cache_optimizer"]),
           pq_upsert_cache_optimizer_rule(table["cache_optimizer"], adm[a].id,
                                          adm[a].row.born, adm[a].n))
admin_cache_optimizer_rules_delete(a) ==
    Delete(a, "cache_optimizer", pq_delete_cache_optimizer_rule)
aigate_core_reload_cache_optimizer_rules(a) == ReloadLocked(a, "cache_optimizer")

(***************************************************************************)
(* threat whitelist and script plugins                                     *)
(***************************************************************************)
admin_threat_whitelists_post(a) == CreateSerial(a, "whitelist", pq_create_threat_whitelist)
\* The whitelist's DELETE statement succeeds without a row, too.
admin_threat_whitelists_delete(a) ==
    \E id \in Ids :
        /\ Write(a, "whitelist", pq_delete_threat_whitelist(table["whitelist"], id))
        /\ UNCHANGED last
threat_whitelist_load(a) == Install(a, "whitelist") /\ UNCHANGED grVars
\* A failed list leaves the engine as it was.
aigate_core_reload_threat_whitelist(a) ==
    \/ ListUnlocked(a, "whitelist", Idle)
    \/ threat_whitelist_load(a)

admin_plugins_post(a) == CreateSerial(a, "plugins", pq_create_script_plugin)
admin_plugins_put_id(a) ==
    Update(a, "plugins", pq_get_script_plugin(table["plugins"]),
           pq_update_script_plugin(table["plugins"], adm[a].id, adm[a].n))
admin_plugins_delete_id(a) == Delete(a, "plugins", pq_delete_script_plugin)
lua_plugin_mgr_set_plugins(a) == Install(a, "plugins") /\ UNCHANGED grVars
aigate_core_reload_plugins(a) ==
    \/ ListUnlocked(a, "plugins", Idle)
    \/ lua_plugin_mgr_set_plugins(a)

(***************************************************************************)
(* The process stops at any moment and starts again. aigate_core_init      *)
(* loads every engine, but calls the whitelist's reload before it sets     *)
(* ac->ps, so that this one finds no store to read.                        *)
(***************************************************************************)
aigate_core_init ==
    /\ restarts < MaxRestarts
    /\ restarts' = restarts + 1
    /\ engine' = [k \in Kinds |-> IF k = "whitelist" THEN NoRules ELSE Listed(k)]
    /\ lost' = [k \in Kinds |-> FALSE]
    /\ gr' = 1 /\ freed' = {}
    /\ held' = [r \in Readers |-> 0]
    /\ adm' = [a \in Admins |-> Idle]
    /\ UNCHANGED <<table, last, ops, faults>>

AdminStep(a) ==
    \/ guardrails_rule_create(a) \/ guardrails_rule_update(a) \/ guardrails_rule_delete(a)
    \/ guardrails_reload(a) \/ aigate_core_reload_guardrails(a)
    \/ admin_shadow_rules_create(a) \/ admin_shadow_rules_update(a)
    \/ admin_shadow_rules_delete(a) \/ aigate_core_reload_shadow_rules(a)
    \/ admin_compressor_rules_create(a) \/ admin_compressor_rules_update(a)
    \/ admin_compressor_rules_delete(a) \/ aigate_core_reload_compressor_rules(a)
    \/ admin_cache_optimizer_rules_create(a) \/ admin_cache_optimizer_rules_update(a)
    \/ admin_cache_optimizer_rules_delete(a) \/ aigate_core_reload_cache_optimizer_rules(a)
    \/ admin_threat_whitelists_post(a) \/ admin_threat_whitelists_delete(a)
    \/ aigate_core_reload_threat_whitelist(a)
    \/ admin_plugins_post(a) \/ admin_plugins_put_id(a) \/ admin_plugins_delete_id(a)
    \/ aigate_core_reload_plugins(a)

Next ==
    \/ \E a \in Admins : AdminStep(a)
    \/ \E r \in Readers : EnterGuardrails(r) \/ LeaveGuardrails(r)
    \/ aigate_core_init

Spec == Init /\ [][Next]_vars

-----------------------------------------------------------------------------
Rows == [born : 0 .. MaxOps, by : 0 .. MaxOps]
Lists == [Ids -> 0 .. MaxOps]

\* Every variable stays in its domain, and a list never overruns the array it is read into.
TypeOK ==
    /\ table \in [Kinds -> [Ids -> Rows]]
    /\ last \in [Kinds -> Ids \cup {0}]
    /\ engine \in [Kinds -> Lists]
    /\ \A k \in Locked \cup {"guardrails"} : Cardinality({id \in Ids : engine[k][id] # 0}) <= Cap
    /\ lost \in [Kinds -> BOOLEAN]
    /\ gr \in 1 .. MaxOps /\ freed \subseteq 1 .. MaxOps
    /\ held \in [Readers -> 0 .. MaxOps]
    /\ adm \in [Admins -> [pc : {"idle", "update", "reload", "load"},
                           kind : Kinds \cup {"none"}, id : Ids \cup {0},
                           n : 0 .. MaxOps, row : Rows, list : Lists]]
    /\ ops \in 1 .. MaxOps /\ faults \in 0 .. MaxFaults /\ restarts \in 0 .. MaxRestarts

Pending(k) == \E a \in Admins : adm[a].kind = k /\ adm[a].pc \in {"reload", "load"}

\* The engines that are reloaded inside their lock apply exactly what their table lists,
\* except while a handler still has its reload to do, or after a list query that failed:
\* handlers that interleave in any order never leave an older list behind.
LockedEnginesFollow ==
    \A k \in Locked : engine[k] = Listed(k) \/ Pending(k) \/ lost[k]

\* A rule that was deleted stays deleted: an update that read the row before the deletion
\* and writes after it finds no row (the tables whose update is an UPDATE by serial id).
DeletedStays ==
    [][\A k \in Serial : \A id \in Ids :
         id <= last[k] /\ table[k][id] = Absent => table'[k][id] = Absent]_vars

-----------------------------------------------------------------------------
(* What the documents say and the code does not do                           *)

\* A plugin change has reached memory once no handler is at work: the design document's
\* "instant in-memory propagation". The list is read before the manager's lock is taken.
PluginsFollow ==
    engine["plugins"] = Listed("plugins") \/ Pending("plugins") \/ lost["plugins"]

\* The whitelist in memory is the one in the store, in the same sense.
WhitelistFollows ==
    engine["whitelist"] = Listed("whitelist") \/ Pending("whitelist") \/ lost["whitelist"]

\* The guardrails of a request are not destroyed while the request inspects with them:
\* what the "Rule hot-reload rwlock" of guardrails_ctx is for.
GuardrailsAlive == \A r \in Readers : held[r] \notin freed
=============================================================================
