----------------------------- MODULE HealthProber -----------------------------
(***************************************************************************)
(* The prober of observe/health_prober.c: a thread that probes all         *)
(* providers once per interval, the admin API's "probe now", which walks   *)
(* the same list in its own thread, and its test of one provider.  Each    *)
(* walks over records it read from the store and talks to the provider     *)
(* without the lock, so that a result may be older than the row it is      *)
(* written to.  Providers are created, deleted, switched on and off        *)
(* meanwhile; rows of the health table are never removed.                  *)
(*                                                                         *)
(* What a probe finds is abstracted to the classes the status depends on,  *)
(* and the failure count to what is below and at its threshold of 2.       *)
(* Publishing on the event bus is left out, see EventBus.                  *)
(***************************************************************************)
EXTENDS Integers, Sequences, SequencesExt

CONSTANTS
    ProviderNames,
    Answers,         \* what probes find: "good", "slow", "busy" (429), "denied" (401, 403), "failed"
    MaxIds,          \* bound: providers ever created
    TrackedCap,      \* MAX_TRACKED_PROVIDERS
    MaxProvEdits,    \* bound: changes of providers
    MaxAsked         \* bound: probes and tests the admin asks for

VARIABLES
    provs,       \* the stored providers, a sequence of [id, name, on, kind] in the order of ids
    nextId,
    health,      \* the table: a sequence of [id, name, status, fails]
    walk,        \* "thread", "admin", "test" -> pc and the records to go
    running,     \* running
    reused,      \* history: names that were given to a second provider
    edits, asked

proberVars == <<provs, nextId, health, walk, running, reused, edits, asked>>
store == <<provs, nextId, reused>>

Walkers == {"thread", "admin", "test"}
Kinds == {"probed", "unsupported", "keyless"}   \* keyless: its key cannot be resolved
Ended == [pc |-> "off", todo |-> <<>>]

\* A store with one provider.
ProberInit ==
    /\ provs = <<[id |-> 1, name |-> CHOOSE n \in ProviderNames : TRUE, on |-> TRUE, kind |-> "probed"]>>
    /\ nextId = 2 /\ health = <<>>
    /\ walk = [w \in Walkers |-> Ended]
    /\ running = FALSE /\ reused = {} /\ edits = 0 /\ asked = 0

-------------------------------------------------------------------------------
\* The first row that the test holds of, 0 if there is none.
FirstRow(Test(_)) == SelectInSeq(health, Test)

\* health_prober_record_result looks for the id or the name.
FindRow(id, name) == FirstRow(LAMBDA r : r.id = id \/ r.name = name)

\* The status after a result, for the failures in a row, this one included.
Verdict(found, fails) ==
    CASE found = "good" -> "healthy"
      [] found \in {"slow", "busy"} -> "degraded"
      [] found = "denied" -> "down"
      [] found = "failed" -> IF fails >= 2 THEN "down" ELSE "degraded"

FailsAfter(found, fails) ==
    IF found \in {"good", "slow"} THEN 0 ELSE IF fails >= 2 THEN 2 ELSE fails + 1

\* Without a row a new one is used, or the first one with the counts that are in it.
health_prober_record_result(p, found) ==
    LET i == FindRow(p.id, p.name)
        new == i = 0 /\ Len(health) < TrackedCap
        at == IF i # 0 THEN i ELSE 1
        fails == FailsAfter(found, IF new THEN 0 ELSE health[at].fails)
        row == [id |-> p.id, name |-> p.name, status |-> Verdict(found, fails), fails |-> fails]
    IN health' = IF new THEN Append(health, row) ELSE [health EXCEPT ![at] = row]

\* Mutant: a full pass leaves the rows of disabled providers alone.
MarkNothing(p, status) == UNCHANGED health

\* What a pass does for a provider it does not probe: the row with this id, or a new one.
MarkRow(p, status) ==
    LET i == FirstRow(LAMBDA r : r.id = p.id) IN
    health' = IF i # 0 THEN [health EXCEPT ![i].name = p.name, ![i].status = status]
              ELSE IF Len(health) < TrackedCap
              THEN Append(health, [id |-> p.id, name |-> p.name, status |-> status, fails |-> 0])
              ELSE health

-------------------------------------------------------------------------------
health_prober_start ==
    /\ ~running /\ walk["thread"].pc = "off"
    /\ running' = TRUE /\ walk' = [walk EXCEPT !["thread"].pc = "sleep"]
    /\ UNCHANGED <<store, health, edits, asked>>

Listed == SubSeq(provs, 1, IF Len(provs) < TrackedCap THEN Len(provs) ELSE TrackedCap)

\* list_providers of a pass, the first TrackedCap of them. A query that fails ends the pass, and
\* leaves the thread asleep.
health_prober_probe_all(w) ==
    /\ \/ w = "thread" /\ walk[w].pc = "sleep" /\ running /\ asked' = asked
       \/ w = "admin" /\ walk[w].pc = "off" /\ asked < MaxAsked /\ asked' = asked + 1
    /\ \E ok \in BOOLEAN :
         /\ ok \/ w = "admin"
         /\ walk' = [walk EXCEPT ![w] = IF ok THEN [pc |-> "walk", todo |-> Listed] ELSE Ended]
    /\ UNCHANGED <<store, health, running, edits>>

\* provider_test reads its one provider; it does not ask whether it is enabled.
provider_test(i) ==
    /\ walk["test"].pc = "off" /\ asked < MaxAsked /\ asked' = asked + 1
    /\ walk' = [walk EXCEPT !["test"] = [pc |-> "walk", todo |-> <<provs[i]>>]]
    /\ UNCHANGED <<store, health, running, edits>>

Past(w) == walk' = [walk EXCEPT ![w].todo = Tail(@)]
Current(w) == Head(walk[w].todo)
Walking(w) == walk[w].pc = "walk" /\ walk[w].todo # <<>>

\* A provider that is disabled, of an unknown type, or without a key that can be resolved.
Skip(w) ==
    /\ Walking(w) /\ Past(w)
    /\ LET p == Current(w) IN
       \/ w # "test" /\ ~p.on /\ MarkRow(p, "paused")
       \/ w # "test" /\ p.on /\ p.kind = "unsupported" /\ MarkRow(p, "down")
       \/ w # "test" /\ p.on /\ p.kind = "keyless" /\ health_prober_record_result(p, "failed")
       \/ w = "test" /\ p.kind # "probed" /\ UNCHANGED health
    /\ UNCHANGED <<store, running, edits, asked>>

\* upstream_probe and the record of what it found.
upstream_probe(w, found) ==
    /\ Walking(w) /\ Current(w).kind = "probed" /\ (Current(w).on \/ w = "test")
    /\ Past(w) /\ health_prober_record_result(Current(w), found)
    /\ UNCHANGED <<store, running, edits, asked>>

\* The end of a pass; the thread sleeps again, or ends when it has been stopped.
EndPass(w) ==
    /\ walk[w].pc = "walk" /\ walk[w].todo = <<>>
    /\ walk' = [walk EXCEPT ![w] = [Ended EXCEPT !.pc = IF w = "thread" THEN "sleep" ELSE "off"]]
    /\ UNCHANGED <<store, health, running, edits, asked>>

\* health_prober_stop, and the thread that sees it.
health_prober_stop ==
    /\ running /\ running' = FALSE
    /\ UNCHANGED <<store, health, walk, edits, asked>>

prober_thread_func ==
    /\ ~running /\ walk["thread"].pc = "sleep"
    /\ walk' = [walk EXCEPT !["thread"] = Ended]
    /\ UNCHANGED <<store, health, running, edits, asked>>

-------------------------------------------------------------------------------
\* The admin's changes of providers. Names are unique among those that exist.
Edit == edits < MaxProvEdits /\ edits' = edits + 1 /\ UNCHANGED <<health, walk, running, asked>>

CreateProvider(name, on, kind) ==
    /\ Edit /\ nextId <= MaxIds
    /\ \A i \in DOMAIN provs : provs[i].name # name
    /\ provs' = Append(provs, [id |-> nextId, name |-> name, on |-> on, kind |-> kind])
    /\ nextId' = nextId + 1 /\ UNCHANGED reused

SwitchProvider(i) ==
    /\ Edit /\ provs' = [provs EXCEPT ![i].on = ~@]
    /\ UNCHANGED <<nextId, reused>>

DeleteProvider(i) ==
    /\ Edit /\ provs' = RemoveAt(provs, i)
    /\ reused' = reused \cup {provs[i].name} /\ UNCHANGED nextId

ProberNext ==
    \/ health_prober_start \/ health_prober_stop \/ prober_thread_func
    \/ \E w \in Walkers :
         \/ w # "test" /\ health_prober_probe_all(w)
         \/ Skip(w) \/ EndPass(w)
         \/ \E found \in Answers : upstream_probe(w, found)
    \/ \E i \in DOMAIN provs : provider_test(i) \/ SwitchProvider(i) \/ DeleteProvider(i)
    \/ \E n \in ProviderNames, on \in BOOLEAN, k \in Kinds : CreateProvider(n, on, k)

\* A pass goes on, and the thread wakes after its interval. Every call to a provider has a
\* timeout, so the walks of the admin's threads end too.
PassStep(w) ==
    \/ Skip(w) \/ EndPass(w)
    \/ \E found \in Answers : upstream_probe(w, found)

ProberFairness ==
    /\ WF_proberVars(health_prober_probe_all("thread"))
    /\ WF_proberVars(prober_thread_func)
    /\ \A w \in Walkers : WF_proberVars(PassStep(w))

(***************************************************************************)
(* Properties                                                              *)
(***************************************************************************)
RowsOf(id) == {i \in DOMAIN health : health[i].id = id}
Stored(id, on) == \E i \in DOMAIN Listed : Listed[i].id = id /\ Listed[i].on = on

\* The table catches up with the store, whatever passes and tests were under way with older
\* records: a provider that stays disabled while the thread runs is in the end shown as paused,
\* if it has a row or there is room for one, and one that stays enabled is in the end shown as
\* paused in no row. The second needs that its name was never another provider's: a result goes
\* to the first row with the id or the name, a pause to the row with the id.
HealthFollows ==
    \A id \in 1 .. MaxIds :
      /\ <>[](running /\ Stored(id, FALSE) /\ (RowsOf(id) # {} \/ Len(health) < TrackedCap))
           => <>[](\E i \in RowsOf(id) : health[i].status = "paused")
      /\ <>[](running /\ Stored(id, TRUE) /\ \A i \in DOMAIN provs : provs[i].name \notin reused)
           => <>[](\A i \in RowsOf(id) : health[i].status # "paused")
===============================================================================
