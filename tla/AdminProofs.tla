------------------------------ MODULE AdminProofs ------------------------------
(***************************************************************************)
(* Proofs about the two parts the admin API changes or shows: the rule     *)
(* tables (RuleAdmin), for every number of admin threads, rule ids,        *)
(* requests, failed queries and restarts, and the audit logger (AuditLog), *)
(* for any number of request threads, any capacities, batches, rotations,  *)
(* crashes and restarts.                                                   *)
(*                                                                         *)
(* RuleAdmin: a handler changes the table first and has its reload before  *)
(* it from that moment on, so LockedEnginesFollow is inductive once it is  *)
(* known what the variables range over.                                    *)
(*                                                                         *)
(* AuditAccounted speaks of three paths, and each has its own part of the  *)
(* invariant.  FileAccounted: what is signed, with the worker and in the   *)
(* ring is embedded in what was pushed, in order, and the rest is counted. *)
(* HookAccounted: the same as a sum, for the webhook.  LiveAccounted: the  *)
(* slots of the live ring hold the last LiveCap numbers, so that a page    *)
(* read from them is the page that was asked for.  LogIsChain carries both *)
(* theorems: the lines of this process, deleted ones included, put         *)
(* together over backups and file, are those the chain signs one after the *)
(* other.  It says nothing about how they are cut into files; that a       *)
(* rotation keeps it is a fact about FlattenSeq and Reverse (WholeFacts).  *)
(*                                                                         *)
(* The facts about FlattenSeq are inductions over the number of files.     *)
(* They are made over a set of numbers (AllNumbers), because the rules of  *)
(* the library are about operators.                                        *)
(***************************************************************************)
EXTENDS AuditLog, RuleAdmin, Integers, SequenceTheorems, WellFoundedInduction, NaturalsInduction, TLAPS

-----------------------------------------------------------------------------
(* The rule tables                                                           *)


Request == [pc : {"idle", "update", "reload", "load"}, kind : Kinds \cup {"none"},
            id : Ids \cup {0}, n : Nat, row : [born : Nat, by : Nat], list : [Ids -> Nat]]

Ranges ==
    /\ table \in [Kinds -> [Ids -> [born : Nat, by : Nat]]]
    /\ last \in [Kinds -> Nat]
    /\ engine \in [Kinds -> [Ids -> Nat]]
    /\ lost \in [Kinds -> BOOLEAN]
    /\ adm \in [Admins -> Request]
    /\ ops \in Nat

RuleInv == Ranges /\ LockedEnginesFollow

-----------------------------------------------------------------------------
(* The tables and the requests.                                             *)

LEMMA IdsAreNumbers == Ids \subseteq Nat
<1>1. Cardinality(Ids) \in Int => 1 .. Cardinality(Ids) \subseteq Nat
  OBVIOUS
<1>2. ASSUME NEW n, n = Cardinality(Ids), Ids = 1 .. n PROVE Ids \subseteq Nat
  BY <1>2
<1> QED
  BY <1>2, RuleAssumption

Tables == [Ids -> [born : Nat, by : Nat]]
Follows(k) == engine[k] = Listed(k) \/ Pending(k) \/ lost[k]

LEMMA StatementTypes ==
    ASSUME NEW t \in Tables, NEW id \in Ids, NEW born \in Nat, NEW n \in Nat
    PROVE  /\ InsertRow(t, id, n) \in Tables
           /\ UpdateRow(t, id, n) \in Tables
           /\ DeleteRow(t, id) \in Tables
           /\ UpsertRow(t, id, born, n) \in Tables
  BY DEF Tables, InsertRow, UpdateRow, DeleteRow, UpsertRow, Absent

\* An update by an id that no row has, 0 included, writes nothing.
LEMMA UpdateTypes ==
    ASSUME NEW t \in Tables, NEW id \in Ids \cup {0}, NEW n \in Nat
    PROVE  UpdateRow(t, id, n) \in Tables
  BY DEF Tables, UpdateRow, Present

LEMMA ListTypes ==
    ASSUME Ranges, NEW k \in Kinds
    PROVE  Listed(k) \in [Ids -> Nat]
<1>1. table[k] \in Tables
  BY DEF Ranges, Tables
<1>2. \A ids : Contents(table[k], ids) \in [Ids -> Nat]
  BY <1>1 DEF Tables, Contents
<1> QED
  BY <1>2 DEF Listed

LEMMA RequestTypes ==
    /\ Idle \in Request /\ NoRules \in [Ids -> Nat]
    /\ \A k \in Kinds : Reloading(k) \in Request
  BY DEF Idle, Request, NoRules, Absent, Reloading

\* The list of a table depends on that table alone.
LEMMA ListKept ==
    ASSUME NEW k, table'[k] = table[k]
    PROVE  Listed(k)' = Listed(k)
  BY DEF Listed

\* An engine follows its table through a step that touches neither, and that takes no reload of
\* this table away.
LEMMA FollowsKept ==
    ASSUME NEW k, Follows(k), table'[k] = table[k], engine'[k] = engine[k], lost'[k] = lost[k],
           Pending(k) => Pending(k)'
    PROVE  Follows(k)'
  BY ListKept DEF Follows

\* A request of another kind may change without a reload being taken away.
LEMMA PendingKept ==
    ASSUME adm \in [Admins -> Request], NEW a \in Admins, NEW q,
           adm' = [adm EXCEPT ![a] = q], NEW k, adm[a].kind # k \/ adm[a].pc \notin {"reload", "load"}
    PROVE  Pending(k) => Pending(k)'
  BY DEF Pending

-----------------------------------------------------------------------------
(* The steps the handlers share.                                            *)

LEMMA WriteInv ==
    ASSUME RuleInv, NEW a \in Admins, NEW k \in Kinds, NEW t \in Tables, Write(a, k, t),
           last' \in [Kinds -> Nat]
    PROVE  RuleInv'
<1>1. /\ adm[a].pc = "idle" /\ ops' = ops + 1 /\ table' = [table EXCEPT ![k] = t]
      /\ adm' = [adm EXCEPT ![a] = Reloading(k)] /\ UNCHANGED <<engine, lost>>
  BY DEF Write
<1>2. Ranges'
  BY <1>1, RequestTypes DEF RuleInv, Ranges, Tables
<1>3. ASSUME NEW j \in Locked PROVE Follows(j)'
  <2>1. CASE j = k
    BY <1>1, <2>1 DEF RuleInv, Ranges, Follows, Pending, Reloading, Idle
  <2>2. CASE j # k
    <3>1. j \in Kinds /\ Follows(j) /\ (Pending(j) => Pending(j)')
      BY <1>1, PendingKept DEF RuleInv, Ranges, LockedEnginesFollow, Follows, Locked, Kinds, Named, Serial
    <3> QED
      BY <1>1, <2>2, <3>1, FollowsKept DEF RuleInv, Ranges
  <2> QED
    BY <2>1, <2>2
<1> QED
  BY <1>2, <1>3 DEF RuleInv, LockedEnginesFollow, Follows

LEMMA FinishUpdateInv ==
    ASSUME RuleInv, NEW a \in Admins, NEW k \in Kinds, NEW t \in Tables, FinishUpdate(a, k, t)
    PROVE  RuleInv'
<1>1. /\ adm[a].pc = "update" /\ table' = [table EXCEPT ![k] = t]
      /\ adm' = [adm EXCEPT ![a] = Reloading(k)] /\ UNCHANGED <<engine, lost, last, ops>>
  BY DEF FinishUpdate
<1>2. Ranges'
  BY <1>1, RequestTypes DEF RuleInv, Ranges, Tables
<1>3. ASSUME NEW j \in Locked PROVE Follows(j)'
  <2>1. CASE j = k
    BY <1>1, <2>1 DEF RuleInv, Ranges, Follows, Pending, Reloading, Idle
  <2>2. CASE j # k
    <3>1. j \in Kinds /\ Follows(j) /\ (Pending(j) => Pending(j)')
      BY <1>1, PendingKept DEF RuleInv, Ranges, LockedEnginesFollow, Follows, Locked, Kinds, Named, Serial
    <3> QED
      BY <1>1, <2>2, <3>1, FollowsKept DEF RuleInv, Ranges
  <2> QED
    BY <2>1, <2>2
<1> QED
  BY <1>2, <1>3 DEF RuleInv, LockedEnginesFollow, Follows

\* A step that only changes a request that has no reload to do.
LEMMA QuietInv ==
    ASSUME RuleInv, NEW a \in Admins, NEW q \in Request, adm' = [adm EXCEPT ![a] = q],
           adm[a].pc \in {"idle", "update"}, ops' \in Nat, UNCHANGED <<table, last, engine, lost>>
    PROVE  RuleInv'
<1>1. Ranges'
  BY DEF RuleInv, Ranges
<1>2. ASSUME NEW j \in Locked PROVE Follows(j)'
  <2>1. Follows(j) /\ (Pending(j) => Pending(j)')
    BY PendingKept DEF RuleInv, Ranges, LockedEnginesFollow, Follows
  <2> QED
    BY <2>1, FollowsKept
<1> QED
  BY <1>1, <1>2 DEF RuleInv, LockedEnginesFollow, Follows

LEMMA UpdateInv ==
    ASSUME RuleInv, NEW a \in Admins, NEW k \in Kinds, NEW readable \in SUBSET Ids, NEW t \in Tables,
           Update(a, k, readable, t)
    PROVE  RuleInv'
<1>1. CASE ReadForUpdate(a, k, readable)
  <2>1. PICK id \in readable :
           adm' = [adm EXCEPT ![a] = [pc |-> "update", kind |-> k, id |-> id, n |-> ops + 1,
                                      row |-> table[k][id], list |-> NoRules]]
    BY <1>1 DEF ReadForUpdate
  <2> DEFINE q == [pc |-> "update", kind |-> k, id |-> id, n |-> ops + 1,
                   row |-> table[k][id], list |-> NoRules]
  <2>2. q \in Request
    BY RequestTypes DEF RuleInv, Ranges, Request
  <2> HIDE DEF q
  <2>3. adm' = [adm EXCEPT ![a] = q]
    BY <2>1 DEF q
  <2>4. adm[a].pc = "idle" /\ ops' \in Nat /\ UNCHANGED <<table, last, engine, lost>>
    BY <1>1 DEF ReadForUpdate, RuleInv, Ranges
  <2> QED
    BY <2>2, <2>3, <2>4, QuietInv
<1>2. CASE AbandonUpdate(a, k)
  BY <1>2, RequestTypes, QuietInv DEF AbandonUpdate, RuleInv, Ranges
<1> QED
  BY <1>1, <1>2, FinishUpdateInv DEF Update

LEMMA ReloadLockedInv ==
    ASSUME RuleInv, NEW a \in Admins, NEW k \in Locked, ReloadLocked(a, k)
    PROVE  RuleInv'
<1>1. /\ adm[a].kind = k /\ adm' = [adm EXCEPT ![a] = Idle] /\ UNCHANGED <<table, last, ops>>
      /\ \/ engine' = [engine EXCEPT ![k] = Listed(k)] /\ lost' = [lost EXCEPT ![k] = FALSE]
         \/ engine' = [engine EXCEPT ![k] = NoRules] /\ lost' = [lost EXCEPT ![k] = TRUE]
  BY DEF ReloadLocked, ListAnswers, ListFails
<1>2. Locked \subseteq Kinds
  BY DEF Locked, Kinds, Named, Serial
<1>3. Ranges'
  <2>1. Listed(k) \in [Ids -> Nat] /\ NoRules \in [Ids -> Nat] /\ Idle \in Request
    BY <1>2, ListTypes, RequestTypes DEF RuleInv
  <2>2. \E new \in [Ids -> Nat] : engine' = [engine EXCEPT ![k] = new]
    BY <1>1, <2>1
  <2>3. \E b \in BOOLEAN : lost' = [lost EXCEPT ![k] = b]
    BY <1>1
  <2>4. engine' \in [Kinds -> [Ids -> Nat]]
    BY <1>2, <2>2 DEF RuleInv, Ranges
  <2>5. lost' \in [Kinds -> BOOLEAN]
    BY <1>2, <2>3 DEF RuleInv, Ranges
  <2> QED
    BY <1>1, <2>1, <2>4, <2>5 DEF RuleInv, Ranges
<1>4. ASSUME NEW j \in Locked PROVE Follows(j)'
  <2>1. CASE j = k
    <3>1. Listed(k)' = Listed(k)
      BY <1>1, ListKept
    <3>2. engine'[k] = Listed(k) \/ lost'[k] = TRUE
      BY <1>1, <1>2 DEF RuleInv, Ranges
    <3> QED
      BY <2>1, <3>1, <3>2 DEF Follows
  <2>2. CASE j # k
    <3>1. j \in Kinds /\ Follows(j) /\ (Pending(j) => Pending(j)')
      BY <1>1, <1>2, <2>2, PendingKept DEF RuleInv, Ranges, LockedEnginesFollow, Follows
    <3> QED
      BY <1>1, <1>2, <2>2, <3>1, FollowsKept DEF RuleInv, Ranges
  <2> QED
    BY <2>1, <2>2
<1> QED
  BY <1>3, <1>4 DEF RuleInv, LockedEnginesFollow, Follows

\* The reloads of the other three tables do not touch the engines with a lock.
LEMMA ListUnlockedInv ==
    ASSUME RuleInv, NEW a \in Admins, NEW k \in Kinds \ Locked, NEW q \in Request, ListUnlocked(a, k, q)
    PROVE  RuleInv'
<1> DEFINE loading == [adm[a] EXCEPT !.pc = "load", !.list = Listed(k)]
<1>1. /\ adm[a].kind = k /\ UNCHANGED <<table, last, engine, ops>>
      /\ \/ lost' = [lost EXCEPT ![k] = FALSE] /\ adm' = [adm EXCEPT ![a] = loading]
         \/ lost' = [lost EXCEPT ![k] = TRUE] /\ adm' = [adm EXCEPT ![a] = q]
  BY DEF ListUnlocked, ListAnswers, ListFails
<1>2. loading \in Request
  <2>1. adm[a] \in Request /\ Listed(k) \in [Ids -> Nat]
    BY ListTypes DEF RuleInv, Ranges
  <2> QED
    BY <2>1 DEF Request
<1> HIDE DEF loading
<1>3. Ranges'
  <2>1. lost' \in [Kinds -> BOOLEAN]
    BY <1>1 DEF RuleInv, Ranges
  <2>2. adm' \in [Admins -> Request]
    BY <1>1, <1>2 DEF RuleInv, Ranges
  <2> QED
    BY <1>1, <2>1, <2>2, Zenon DEF RuleInv, Ranges
<1>4. ASSUME NEW j \in Locked PROVE Follows(j)'
  <2>1. j \in Kinds /\ j # k
    BY DEF Locked, Kinds, Named, Serial
  <2>2. Follows(j) /\ (Pending(j) => Pending(j)')
    BY <1>1, <2>1, PendingKept DEF RuleInv, Ranges, LockedEnginesFollow, Follows
  <2> QED
    BY <1>1, <2>1, <2>2, FollowsKept DEF RuleInv, Ranges
<1> QED
  BY <1>3, <1>4 DEF RuleInv, LockedEnginesFollow, Follows

LEMMA InstallInv ==
    ASSUME RuleInv, NEW a \in Admins, NEW k \in Kinds \ Locked, Install(a, k)
    PROVE  RuleInv'
<1>1. /\ adm[a].kind = k /\ UNCHANGED <<table, last, lost, ops>>
      /\ engine' = [engine EXCEPT ![k] = adm[a].list] /\ adm' = [adm EXCEPT ![a] = Idle]
  BY DEF Install
<1>2. Ranges'
  <2>1. adm[a].list \in [Ids -> Nat]
    BY DEF RuleInv, Ranges, Request
  <2> QED
    BY <1>1, <2>1, RequestTypes DEF RuleInv, Ranges
<1>3. ASSUME NEW j \in Locked PROVE Follows(j)'
  <2>1. j \in Kinds /\ j # k
    BY DEF Locked, Kinds, Named, Serial
  <2>2. Follows(j) /\ (Pending(j) => Pending(j)')
    BY <1>1, <2>1, PendingKept DEF RuleInv, Ranges, LockedEnginesFollow, Follows
  <2> QED
    BY <1>1, <2>1, <2>2, FollowsKept DEF RuleInv, Ranges
<1> QED
  BY <1>2, <1>3 DEF RuleInv, LockedEnginesFollow, Follows

-----------------------------------------------------------------------------
LEMMA InitRules == Init => RuleInv
<1> SUFFICES ASSUME Init PROVE RuleInv
  OBVIOUS
<1>1. table \in [Kinds -> Tables] /\ last \in [Kinds -> Nat]
  BY DEF Init, Tables, Absent
<1>3. \A k \in Kinds : Listed(k) \in [Ids -> Nat]
  <2>1. \A k \in Kinds : \A ids : Contents(table[k], ids) \in [Ids -> Nat]
    BY <1>1 DEF Tables, Contents
  <2> QED
    BY <2>1 DEF Listed
<1>4. engine = [k \in Kinds |-> Listed(k)]
  BY DEF Init
<1>5. Ranges
  BY <1>1, <1>3, <1>4, RequestTypes DEF Init, Ranges, Tables
<1>6. Locked \subseteq Kinds
  BY DEF Locked, Kinds, Named, Serial
<1> QED
  BY <1>4, <1>5, <1>6 DEF RuleInv, LockedEnginesFollow

\* A restart lists every table anew.
LEMMA RestartInv ==
    ASSUME RuleInv, aigate_core_init
    PROVE  RuleInv'
<1>1. /\ engine' = [k \in Kinds |-> IF k = "whitelist" THEN NoRules ELSE Listed(k)]
      /\ lost' = [k \in Kinds |-> FALSE] /\ adm' = [a \in Admins |-> Idle]
      /\ UNCHANGED <<table, last, ops>>
  BY DEF aigate_core_init
<1>2. \A k \in Kinds : Listed(k) \in [Ids -> Nat]
  BY ListTypes DEF RuleInv
<1>3. Ranges'
  BY <1>1, <1>2, RequestTypes DEF RuleInv, Ranges
<1>4. ASSUME NEW k \in Locked PROVE engine'[k] = Listed(k)'
  <2>1. k \in Kinds /\ k # "whitelist"
    BY DEF Locked, Kinds, Named, Serial
  <2>2. Listed(k)' = Listed(k)
    BY <1>1, ListKept
  <2> QED
    BY <1>1, <2>1, <2>2
<1> QED
  BY <1>3, <1>4 DEF RuleInv, LockedEnginesFollow

\* The statements that each handler runs.
LEMMA CreateSerialInv ==
    ASSUME RuleInv, NEW a \in Admins, NEW k \in Kinds, last[k] + 1 \in Ids,
           last' = [last EXCEPT ![k] = @ + 1], Write(a, k, InsertRow(table[k], last[k] + 1, ops + 1))
    PROVE  RuleInv'
<1>1. table[k] \in Tables /\ ops + 1 \in Nat /\ last' \in [Kinds -> Nat]
  BY DEF RuleInv, Ranges, Tables
<1>2. InsertRow(table[k], last[k] + 1, ops + 1) \in Tables
  BY <1>1, StatementTypes
<1> QED
  BY <1>1, <1>2, WriteInv

LEMMA CreateNamedInv ==
    ASSUME RuleInv, NEW a \in Admins, NEW k \in Kinds, NEW id \in Ids, UNCHANGED last,
           Write(a, k, UpsertRow(table[k], id, ops + 1, ops + 1))
    PROVE  RuleInv'
<1>1. table[k] \in Tables /\ ops + 1 \in Nat /\ last' \in [Kinds -> Nat]
  BY DEF RuleInv, Ranges, Tables
<1>2. UpsertRow(table[k], id, ops + 1, ops + 1) \in Tables
  BY <1>1, StatementTypes
<1> QED
  BY <1>1, <1>2, WriteInv

LEMMA DeleteInv ==
    ASSUME RuleInv, NEW a \in Admins, NEW k \in Kinds, NEW id \in Ids, UNCHANGED last,
           Write(a, k, DeleteRow(table[k], id))
    PROVE  RuleInv'
<1>1. table[k] \in Tables /\ last' \in [Kinds -> Nat]
  BY DEF RuleInv, Ranges, Tables
<1>2. DeleteRow(table[k], id) \in Tables
  BY <1>1, StatementTypes
<1> QED
  BY <1>1, <1>2, WriteInv

LEMMA UpdateByIdInv ==
    ASSUME RuleInv, NEW a \in Admins, NEW k \in Kinds, NEW readable \in SUBSET Ids,
           Update(a, k, readable, UpdateRow(table[k], adm[a].id, adm[a].n))
    PROVE  RuleInv'
<1>1. table[k] \in Tables /\ adm[a].id \in Ids \cup {0} /\ adm[a].n \in Nat
  BY DEF RuleInv, Ranges, Tables, Request
<1>2. UpdateRow(table[k], adm[a].id, adm[a].n) \in Tables
  BY <1>1, UpdateTypes
<1> QED
  BY <1>2, UpdateInv

LEMMA UpsertInv ==
    ASSUME RuleInv, NEW a \in Admins, NEW k \in Kinds, NEW readable \in SUBSET Ids,
           Update(a, k, readable, UpsertRow(table[k], adm[a].id, adm[a].row.born, adm[a].n))
    PROVE  RuleInv'
<1>1. /\ table[k] \in Tables /\ adm[a].id \in Ids \cup {0} /\ adm[a].n \in Nat
      /\ adm[a].row.born \in Nat
  BY DEF RuleInv, Ranges, Tables, Request
<1>2. UpsertRow(table[k], adm[a].id, adm[a].row.born, adm[a].n) \in Tables
  <2>1. CASE adm[a].id \in Ids
    BY <1>1, <2>1, StatementTypes
  <2>2. CASE adm[a].id \notin Ids
    BY <1>1, <2>2 DEF Tables, UpsertRow, UpdateRow
  <2> QED
    BY <2>1, <2>2
<1> QED
  BY <1>2, UpdateInv

LEMMA Readable ==
    ASSUME NEW t
    PROVE  Present(t) \subseteq Ids /\ FirstRows(t, Cap) \subseteq Ids
  BY DEF Present, FirstRows

LEMMA GuardrailsInv ==
    ASSUME RuleInv, NEW a \in Admins,
           \/ guardrails_rule_create(a) \/ guardrails_rule_update(a) \/ guardrails_rule_delete(a)
           \/ guardrails_reload(a) \/ aigate_core_reload_guardrails(a)
    PROVE  RuleInv'
<1> DEFINE k == "guardrails"
<1>1. k \in Kinds \ Locked /\ k \in Kinds
  BY DEF Kinds, Named, Serial, Locked
<1>2. CASE guardrails_rule_create(a)
  BY <1>1, <1>2, CreateSerialInv DEF guardrails_rule_create, CreateSerial, pq_create_guardrails_rule
<1>3. CASE guardrails_rule_update(a)
  BY <1>1, <1>3, Readable, UpdateByIdInv
  DEF guardrails_rule_update, pq_list_guardrails_rules, pq_update_guardrails_rule
<1>4. CASE guardrails_rule_delete(a)
  BY <1>1, <1>4, Readable, DeleteInv DEF guardrails_rule_delete, Delete, pq_delete_guardrails_rule
<1>5. CASE guardrails_reload(a)
  <2>1. table[k] \in Tables /\ last' \in [Kinds -> Nat]
    BY <1>1, <1>5 DEF guardrails_reload, RuleInv, Ranges, Tables
  <2> QED
    BY <1>1, <1>5, <2>1, WriteInv DEF guardrails_reload
<1>6. CASE aigate_core_reload_guardrails(a)
  <2>1. [adm[a] EXCEPT !.pc = "load", !.list = NoRules] \in Request
    <3>1. adm[a] \in Request
      BY DEF RuleInv, Ranges
    <3> QED
      BY <3>1, RequestTypes DEF Request
  <2> QED
    BY <1>1, <1>6, <2>1, ListUnlockedInv, InstallInv DEF aigate_core_reload_guardrails
<1> QED
  BY <1>2, <1>3, <1>4, <1>5, <1>6

LEMMA ShadowInv ==
    ASSUME RuleInv, NEW a \in Admins,
           \/ admin_shadow_rules_create(a) \/ admin_shadow_rules_update(a)
           \/ admin_shadow_rules_delete(a) \/ aigate_core_reload_shadow_rules(a)
    PROVE  RuleInv'
<1> DEFINE k == "shadow"
<1>1. k \in Kinds /\ k \in Locked
  BY DEF Kinds, Named, Serial, Locked
<1>2. CASE admin_shadow_rules_create(a)
  BY <1>1, <1>2, CreateSerialInv DEF admin_shadow_rules_create, CreateSerial, pq_create_shadow_rule
<1>3. CASE admin_shadow_rules_update(a)
  BY <1>1, <1>3, Readable, UpdateByIdInv
  DEF admin_shadow_rules_update, pq_list_shadow_rules, pq_update_shadow_rule
<1>4. CASE admin_shadow_rules_delete(a)
  BY <1>1, <1>4, Readable, DeleteInv DEF admin_shadow_rules_delete, Delete, pq_delete_shadow_rule
<1>5. CASE aigate_core_reload_shadow_rules(a)
  BY <1>1, <1>5, ReloadLockedInv DEF aigate_core_reload_shadow_rules
<1> QED
  BY <1>2, <1>3, <1>4, <1>5

LEMMA CompressorInv ==
    ASSUME RuleInv, NEW a \in Admins,
           \/ admin_compressor_rules_create(a) \/ admin_compressor_rules_update(a)
           \/ admin_compressor_rules_delete(a) \/ aigate_core_reload_compressor_rules(a)
    PROVE  RuleInv'
<1> DEFINE k == "compressor"
<1>1. k \in Kinds /\ k \in Locked
  BY DEF Kinds, Named, Serial, Locked
<1>2. CASE admin_compressor_rules_create(a)
  BY <1>1, <1>2, CreateNamedInv DEF admin_compressor_rules_create, CreateNamed, pq_upsert_compressor_rule
<1>3. CASE admin_compressor_rules_update(a)
  BY <1>1, <1>3, Readable, UpsertInv
  DEF admin_compressor_rules_update, pq_list_compressor_rules, pq_upsert_compressor_rule
<1>4. CASE admin_compressor_rules_delete(a)
  BY <1>1, <1>4, Readable, DeleteInv DEF admin_compressor_rules_delete, Delete, pq_delete_compressor_rule
<1>5. CASE aigate_core_reload_compressor_rules(a)
  BY <1>1, <1>5, ReloadLockedInv DEF aigate_core_reload_compressor_rules
<1> QED
  BY <1>2, <1>3, <1>4, <1>5

LEMMA CacheOptimizerInv ==
    ASSUME RuleInv, NEW a \in Admins,
           \/ admin_cache_optimizer_rules_create(a) \/ admin_cache_optimizer_rules_update(a)
           \/ admin_cache_optimizer_rules_delete(a) \/ aigate_core_reload_cache_optimizer_rules(a)
    PROVE  RuleInv'
<1> DEFINE k == "cache_optimizer"
<1>1. k \in Kinds /\ k \in Locked
  BY DEF Kinds, Named, Serial, Locked
<1>2. CASE admin_cache_optimizer_rules_create(a)
  BY <1>1, <1>2, CreateNamedInv
  DEF admin_cache_optimizer_rules_create, CreateNamed, pq_upsert_cache_optimizer_rule
<1>3. CASE admin_cache_optimizer_rules_update(a)
  BY <1>1, <1>3, Readable, UpsertInv
  DEF admin_cache_optimizer_rules_update, pq_list_cache_optimizer_rules, pq_upsert_cache_optimizer_rule
<1>4. CASE admin_cache_optimizer_rules_delete(a)
  BY <1>1, <1>4, Readable, DeleteInv
  DEF admin_cache_optimizer_rules_delete, Delete, pq_delete_cache_optimizer_rule
<1>5. CASE aigate_core_reload_cache_optimizer_rules(a)
  BY <1>1, <1>5, ReloadLockedInv DEF aigate_core_reload_cache_optimizer_rules
<1> QED
  BY <1>2, <1>3, <1>4, <1>5

LEMMA WhitelistInv ==
    ASSUME RuleInv, NEW a \in Admins,
           \/ admin_threat_whitelists_post(a) \/ admin_threat_whitelists_delete(a)
           \/ aigate_core_reload_threat_whitelist(a)
    PROVE  RuleInv'
<1> DEFINE k == "whitelist"
<1>1. k \in Kinds \ Locked /\ k \in Kinds
  BY DEF Kinds, Named, Serial, Locked
<1>2. CASE admin_threat_whitelists_post(a)
  BY <1>1, <1>2, CreateSerialInv DEF admin_threat_whitelists_post, CreateSerial, pq_create_threat_whitelist
<1>3. CASE admin_threat_whitelists_delete(a)
  BY <1>1, <1>3, DeleteInv DEF admin_threat_whitelists_delete, pq_delete_threat_whitelist
<1>4. CASE aigate_core_reload_threat_whitelist(a)
  BY <1>1, <1>4, RequestTypes, ListUnlockedInv, InstallInv
  DEF aigate_core_reload_threat_whitelist, threat_whitelist_load
<1> QED
  BY <1>2, <1>3, <1>4

LEMMA PluginsInv ==
    ASSUME RuleInv, NEW a \in Admins,
           \/ admin_plugins_post(a) \/ admin_plugins_put_id(a) \/ admin_plugins_delete_id(a)
           \/ aigate_core_reload_plugins(a)
    PROVE  RuleInv'
<1> DEFINE k == "plugins"
<1>1. k \in Kinds \ Locked /\ k \in Kinds
  BY DEF Kinds, Named, Serial, Locked
<1>2. CASE admin_plugins_post(a)
  BY <1>1, <1>2, CreateSerialInv DEF admin_plugins_post, CreateSerial, pq_create_script_plugin
<1>3. CASE admin_plugins_put_id(a)
  BY <1>1, <1>3, Readable, UpdateByIdInv
  DEF admin_plugins_put_id, pq_get_script_plugin, pq_update_script_plugin
<1>4. CASE admin_plugins_delete_id(a)
  BY <1>1, <1>4, Readable, DeleteInv DEF admin_plugins_delete_id, Delete, pq_delete_script_plugin
<1>5. CASE aigate_core_reload_plugins(a)
  BY <1>1, <1>5, RequestTypes, ListUnlockedInv, InstallInv
  DEF aigate_core_reload_plugins, lua_plugin_mgr_set_plugins
<1> QED
  BY <1>2, <1>3, <1>4, <1>5

\* A request's pass through the guardrails changes nothing that the tables or engines hold.
LEMMA ReadersInv ==
    ASSUME RuleInv, UNCHANGED <<table, last, engine, lost, adm, ops>>
    PROVE  RuleInv'
<1>1. ASSUME NEW k \in Locked PROVE Follows(k)'
  <2>1. Follows(k) /\ (Pending(k) => Pending(k)')
    BY DEF RuleInv, LockedEnginesFollow, Follows, Pending
  <2> QED
    BY <2>1, FollowsKept
<1> QED
  BY <1>1 DEF RuleInv, Ranges, LockedEnginesFollow, Follows

LEMMA RuleNext == RuleInv /\ [Next]_vars => RuleInv'
<1> SUFFICES ASSUME RuleInv, [Next]_vars PROVE RuleInv'
  OBVIOUS
<1>1. ASSUME NEW a \in Admins, AdminStep(a) PROVE RuleInv'
  BY <1>1, GuardrailsInv, ShadowInv, CompressorInv, CacheOptimizerInv, WhitelistInv, PluginsInv
  DEF AdminStep
<1>2. ASSUME NEW r \in Readers, EnterGuardrails(r) \/ LeaveGuardrails(r) PROVE RuleInv'
  BY <1>2, ReadersInv DEF EnterGuardrails, LeaveGuardrails
<1>3. CASE UNCHANGED vars
  BY <1>3, ReadersInv DEF vars
<1> QED
  BY <1>1, <1>2, <1>3, RestartInv DEF Next

-----------------------------------------------------------------------------
\* The inductive invariant holds of every behaviour of the handlers and reloads.
THEOREM RulesInvariant == Spec => []RuleInv
  BY InitRules, RuleNext, PTL DEF Spec

\* However any number of administrators interleave their writes and reloads, the engines reloaded
\* under their lock never keep an older list than the table's (aigate_core_reload_shadow_rules,
\* aigate_core_reload_compressor_rules, aigate_core_reload_cache_optimizer_rules).
THEOREM EnginesFollow == Spec => []LockedEnginesFollow
<1>1. RuleInv => LockedEnginesFollow
  BY DEF RuleInv
<1> QED
  BY <1>1, RulesInvariant, PTL

-----------------------------------------------------------------------------
(* Deleted rules.                                                           *)

\* What a step may do to the rows of a table: rows that are gone stay gone.
Stays(t, u, top) == \A id \in Ids : id <= top /\ t[id] = Absent => u[id] = Absent

LEMMA StatementsStay ==
    ASSUME NEW t \in Tables, NEW id, NEW n \in Nat, NEW top \in Nat
    PROVE  /\ Stays(t, UpdateRow(t, id, n), top)
           /\ Stays(t, DeleteRow(t, id), top)
           /\ Stays(t, InsertRow(t, top + 1, n), top)
<1>1. Stays(t, UpdateRow(t, id, n), top)
  <2>1. ASSUME id \in Present(t), NEW i \in Ids, t[i] = Absent
        PROVE  [t EXCEPT ![id].by = n][i] = Absent
    BY <2>1 DEF Present, Tables
  <2> QED
    BY <2>1 DEF Stays, UpdateRow
<1>2. Stays(t, DeleteRow(t, id), top)
  BY DEF Stays, DeleteRow, Tables
<1>3. Stays(t, InsertRow(t, top + 1, n), top)
  <2>1. ASSUME NEW i \in Ids, i <= top PROVE i # top + 1
    BY <2>1, IdsAreNumbers
  <2> QED
    BY <2>1 DEF Stays, InsertRow, Tables
<1> QED
  BY <1>1, <1>2, <1>3

\* A write to one table leaves the others alone.
LEMMA OneTable ==
    ASSUME RuleInv, NEW k \in Kinds, NEW t, table' = [table EXCEPT ![k] = t],
           k \in Serial => Stays(table[k], t, last[k]), NEW j \in Serial
    PROVE  Stays(table[j], table'[j], last[j])
<1>1. j \in Kinds
  BY DEF Kinds
<1> QED
  BY <1>1 DEF RuleInv, Ranges, Stays

AllStay == \A k \in Serial : Stays(table[k], table'[k], last[k])

LEMMA SerialStay ==
    ASSUME RuleInv, NEW a \in Admins, NEW k \in Kinds,
           \/ Write(a, k, InsertRow(table[k], last[k] + 1, ops + 1))
           \/ \E id \in Ids : Write(a, k, DeleteRow(table[k], id))
           \/ Write(a, k, table[k])
           \/ \E readable : Update(a, k, readable, UpdateRow(table[k], adm[a].id, adm[a].n))
    PROVE  AllStay
<1>1. /\ table[k] \in Tables /\ last[k] \in Nat /\ ops + 1 \in Nat /\ adm[a].n \in Nat
  BY DEF RuleInv, Ranges, Tables, Request
<1>2. UNCHANGED table => AllStay
  BY DEF AllStay, Stays
<1>3. ASSUME NEW t, Stays(table[k], t, last[k]), table' = [table EXCEPT ![k] = t] PROVE AllStay
  BY <1>3, OneTable DEF AllStay
<1>4. CASE Write(a, k, InsertRow(table[k], last[k] + 1, ops + 1))
  <2>1. Stays(table[k], InsertRow(table[k], last[k] + 1, ops + 1), last[k])
    BY <1>1, StatementsStay
  <2> QED
    BY <1>3, <1>4, <2>1 DEF Write
<1>5. ASSUME NEW id \in Ids, Write(a, k, DeleteRow(table[k], id)) PROVE AllStay
  <2>1. Stays(table[k], DeleteRow(table[k], id), last[k])
    BY <1>1, StatementsStay
  <2> QED
    BY <1>3, <1>5, <2>1 DEF Write
<1>6. CASE Write(a, k, table[k])
  <2>1. Stays(table[k], table[k], last[k])
    BY DEF Stays
  <2> QED
    BY <1>3, <1>6, <2>1 DEF Write
<1>7. ASSUME NEW readable, Update(a, k, readable, UpdateRow(table[k], adm[a].id, adm[a].n))
      PROVE  AllStay
  <2>1. Stays(table[k], UpdateRow(table[k], adm[a].id, adm[a].n), last[k])
    BY <1>1, StatementsStay
  <2> QED
    BY <1>2, <1>3, <1>7, <2>1 DEF Update, ReadForUpdate, AbandonUpdate, FinishUpdate
<1> QED
  BY <1>4, <1>5, <1>6, <1>7

\* The tables with named ids are not among the serial ones.
LEMMA NamedStay ==
    ASSUME RuleInv, NEW a \in Admins, NEW k \in Named,
           \/ \E t : Write(a, k, t)
           \/ \E readable, t : Update(a, k, readable, t)
    PROVE  AllStay
<1>1. k \in Kinds /\ k \notin Serial
  BY DEF Kinds, Named, Serial
<1>2. UNCHANGED table => AllStay
  BY DEF AllStay, Stays
<1>3. ASSUME NEW t, table' = [table EXCEPT ![k] = t] PROVE AllStay
  BY <1>1, <1>3, OneTable DEF AllStay
<1> QED
  BY <1>2, <1>3 DEF Write, Update, ReadForUpdate, AbandonUpdate, FinishUpdate

\* A reload reads its table.
LEMMA ReloadsStay ==
    ASSUME NEW a, NEW k, NEW q, ReloadLocked(a, k) \/ ListUnlocked(a, k, q) \/ Install(a, k)
    PROVE  AllStay
  BY DEF ReloadLocked, ListUnlocked, Install, AllStay, Stays

LEMMA AdminStay ==
    ASSUME RuleInv, NEW a \in Admins, AdminStep(a)
    PROVE  AllStay
<1>1. /\ {"guardrails", "shadow", "whitelist", "plugins"} \subseteq Kinds
      /\ {"compressor", "cache_optimizer"} \subseteq Named
  BY DEF Kinds, Named, Serial
<1>2. ASSUME \/ guardrails_rule_create(a) \/ guardrails_rule_update(a) \/ guardrails_rule_delete(a)
             \/ guardrails_reload(a)
      PROVE  AllStay
  BY <1>1, <1>2, Readable, SerialStay
  DEF guardrails_rule_create, guardrails_rule_update, guardrails_rule_delete, guardrails_reload,
      CreateSerial, Delete, pq_create_guardrails_rule, pq_update_guardrails_rule,
      pq_delete_guardrails_rule
<1>3. ASSUME \/ admin_shadow_rules_create(a) \/ admin_shadow_rules_update(a)
             \/ admin_shadow_rules_delete(a)
      PROVE  AllStay
  BY <1>1, <1>3, Readable, SerialStay
  DEF admin_shadow_rules_create, admin_shadow_rules_update, admin_shadow_rules_delete, CreateSerial,
      Delete, pq_create_shadow_rule, pq_update_shadow_rule, pq_delete_shadow_rule
<1>4. ASSUME \/ admin_compressor_rules_create(a) \/ admin_compressor_rules_update(a)
             \/ admin_compressor_rules_delete(a)
      PROVE  AllStay
  BY <1>1, <1>4, NamedStay
  DEF admin_compressor_rules_create, admin_compressor_rules_update, admin_compressor_rules_delete,
      CreateNamed, Delete
<1>5. ASSUME \/ admin_cache_optimizer_rules_create(a) \/ admin_cache_optimizer_rules_update(a)
             \/ admin_cache_optimizer_rules_delete(a)
      PROVE  AllStay
  BY <1>1, <1>5, NamedStay
  DEF admin_cache_optimizer_rules_create, admin_cache_optimizer_rules_update,
      admin_cache_optimizer_rules_delete, CreateNamed, Delete
<1>6. ASSUME admin_threat_whitelists_post(a) \/ admin_threat_whitelists_delete(a) PROVE AllStay
  BY <1>1, <1>6, SerialStay
  DEF admin_threat_whitelists_post, admin_threat_whitelists_delete, CreateSerial,
      pq_create_threat_whitelist, pq_delete_threat_whitelist
<1>7. ASSUME admin_plugins_post(a) \/ admin_plugins_put_id(a) \/ admin_plugins_delete_id(a) PROVE AllStay
  BY <1>1, <1>7, Readable, SerialStay
  DEF admin_plugins_post, admin_plugins_put_id, admin_plugins_delete_id, CreateSerial, Delete,
      pq_create_script_plugin, pq_update_script_plugin, pq_delete_script_plugin
<1>8. ASSUME \/ aigate_core_reload_guardrails(a) \/ aigate_core_reload_shadow_rules(a)
             \/ aigate_core_reload_compressor_rules(a) \/ aigate_core_reload_cache_optimizer_rules(a)
             \/ aigate_core_reload_threat_whitelist(a) \/ aigate_core_reload_plugins(a)
      PROVE  AllStay
  BY <1>8, ReloadsStay
  DEF aigate_core_reload_guardrails, aigate_core_reload_shadow_rules, aigate_core_reload_compressor_rules,
      aigate_core_reload_cache_optimizer_rules, aigate_core_reload_threat_whitelist,
      aigate_core_reload_plugins, threat_whitelist_load, lua_plugin_mgr_set_plugins
<1> QED
  BY <1>2, <1>3, <1>4, <1>5, <1>6, <1>7, <1>8 DEF AdminStep

\* For any number of administrators: a rule that was deleted stays deleted, although an update may
\* have read its row before the deletion (pq_update_guardrails_rule, pq_update_shadow_rule,
\* pq_update_script_plugin).
THEOREM NoRuleReturns == Spec => DeletedStays
<1> DEFINE A == \A k \in Serial : \A id \in Ids :
                   id <= last[k] /\ table[k][id] = Absent => table'[k][id] = Absent
<1>1. AllStay => A
  BY DEF AllStay, Stays
<1>2. UNCHANGED table => AllStay
  BY DEF AllStay, Stays
<1>3. RuleInv /\ [Next]_vars => [A]_vars
  <2> SUFFICES ASSUME RuleInv, Next PROVE AllStay
    BY <1>1
  <2> QED
    BY <1>2, AdminStay DEF Next, EnterGuardrails, LeaveGuardrails, aigate_core_init
<1> QED
  BY <1>3, RulesInvariant, PTL DEF Spec, DeletedStays

-----------------------------------------------------------------------------
(* Numbers                                                                   *)

LEMMA SmallerIsWellFounded == IsWellFoundedOn({pair \in Nat \X Nat : pair[1] < pair[2]}, Nat)
  BY NatLessThanWellFounded DEF OpToRel

LEMMA LeastNumber ==
    ASSUME NEW T \in SUBSET Nat, T # {}
    PROVE  \E n \in T : \A m \in T : n <= m
<1> DEFINE Smaller == {pair \in Nat \X Nat : pair[1] < pair[2]}
<1>1. IsWellFoundedOn(Smaller, Nat)
  BY SmallerIsWellFounded
<1> HIDE DEF Smaller
<1>2. PICK n \in T : \A m \in T : ~(<<m, n>> \in Smaller)
  BY <1>1, WFMin
<1>3. \A m \in T : ~(m < n)
  BY <1>2 DEF Smaller
<1> QED
  BY <1>3

\* Induction, over a set of numbers: the provers cannot use the library's rule, which takes an operator.
LEMMA AllNumbers ==
    ASSUME NEW T \in SUBSET Nat, 0 \in T, \A n \in T : n + 1 \in T
    PROVE  T = Nat
<1> SUFFICES ASSUME T # Nat PROVE FALSE
  OBVIOUS
<1>1. PICK n \in Nat \ T : \A m \in Nat \ T : n <= m
  BY LeastNumber
<1>2. n - 1 \in Nat /\ n - 1 \in T
  BY <1>1
<1> QED
  BY <1>1, <1>2

LEMMA DivMod ==
    ASSUME NEW c \in Int, c > 0, NEW x \in Int
    PROVE  x = c * (x \div c) + (x % c) /\ x \div c \in Int /\ x % c \in 0 .. c - 1
  BY SMT

LEMMA TimesFacts ==
    ASSUME NEW c \in Int, c > 0, NEW d \in Int
    PROVE  (d >= 1 => c * d >= c) /\ (d <= 0 => c * d <= 0)
  OBVIOUS

\* Numbers less than the capacity apart have slots of their own.
LEMMA SlotsApart ==
    ASSUME NEW c \in Int, c > 0, NEW x \in Int, NEW y \in Int, x < y, y - x < c
    PROVE  x % c # y % c
<1> SUFFICES ASSUME x % c = y % c PROVE FALSE
  OBVIOUS
<1> DEFINE a == x \div c
           b == y \div c
           u == x % c
           v == y % c
<1>1. x = c * a + u /\ y = c * b + v /\ a \in Int /\ b \in Int /\ u \in Int /\ v \in Int /\ u = v
  BY DivMod
<1> HIDE DEF a, b, u, v
<1>2. y - x = c * (b - a) /\ b - a \in Int
  BY <1>1
<1>3. CASE b - a >= 1
  BY <1>2, <1>3, TimesFacts
<1>4. CASE b - a <= 0
  BY <1>2, <1>4, TimesFacts
<1> QED
  BY <1>2, <1>3, <1>4

-----------------------------------------------------------------------------
(* Sequences                                                                 *)

LEMMA CutSeq ==
    ASSUME NEW S, NEW s \in Seq(S), NEW k \in 0 .. Len(s)
    PROVE  /\ SubSeq(s, 1, k) \in Seq(S) /\ SubSeq(s, k + 1, Len(s)) \in Seq(S)
           /\ SubSeq(s, 1, k) \o SubSeq(s, k + 1, Len(s)) = s
           /\ Len(SubSeq(s, 1, k)) = k /\ Len(SubSeq(s, k + 1, Len(s))) = Len(s) - k
<1>1. Len(s) \in Nat /\ k \in Nat /\ k <= Len(s) /\ k \in Int /\ k + 1 \in Int /\ Len(s) \in Int
  BY LenProperties
<1>2. \A i \in 1 .. Len(s) : s[i] \in S
  BY ElementOfSeq
<1>3. /\ SubSeq(s, 1, k) \in Seq(S)
      /\ Len(SubSeq(s, 1, k)) = IF 1 <= k THEN k - 1 + 1 ELSE 0
  <2>1. \A i \in 1 .. k : s[i] \in S
    BY <1>1, <1>2
  <2> QED
    BY <1>1, <2>1, SubSeqProperties
<1>4. /\ SubSeq(s, k + 1, Len(s)) \in Seq(S)
      /\ Len(SubSeq(s, k + 1, Len(s))) = IF k + 1 <= Len(s) THEN Len(s) - (k + 1) + 1 ELSE 0
  <2>1. \A i \in k + 1 .. Len(s) : s[i] \in S
    BY <1>1, <1>2
  <2> QED
    BY <1>1, <2>1, SubSeqProperties
<1>5. 1 \in 1 .. Len(s) + 1 /\ k \in 1 - 1 .. Len(s) /\ Len(s) \in k .. Len(s)
  BY <1>1
<1>6. SubSeq(s, 1, k) \o SubSeq(s, k + 1, Len(s)) = SubSeq(s, 1, Len(s))
  BY <1>5, ConcatAdjacentSubSeq
<1>7. SubSeq(s, 1, Len(s)) = s
  BY SubSeqFull
<1>8. Len(SubSeq(s, 1, k)) = k /\ Len(SubSeq(s, k + 1, Len(s))) = Len(s) - k
  <2> DEFINE x == Len(SubSeq(s, 1, k))
             y == Len(SubSeq(s, k + 1, Len(s)))
             n == Len(s)
  <2>1. /\ n \in Nat /\ k \in Nat /\ k <= n
        /\ x = IF 1 <= k THEN k - 1 + 1 ELSE 0
        /\ y = IF k + 1 <= n THEN n - (k + 1) + 1 ELSE 0
    BY <1>1, <1>3, <1>4
  <2> HIDE DEF x, y, n
  <2>2. x = k /\ y = n - k
    BY <2>1
  <2> QED
    BY <2>2 DEF x, y, n
<1> QED
  BY <1>3, <1>4, <1>6, <1>7, <1>8

\* What is left of s \o t after the first n elements, n in s.
LEMMA CutConcat ==
    ASSUME NEW S, NEW s \in Seq(S), NEW t \in Seq(S), NEW n \in 0 .. Len(s)
    PROVE  SubSeq(s \o t, n + 1, Len(s \o t)) = SubSeq(s, n + 1, Len(s)) \o t
<1> DEFINE a == SubSeq(s, 1, n)
           b == SubSeq(s, n + 1, Len(s))
           c == SubSeq(s \o t, 1, n)
           d == SubSeq(s \o t, n + 1, Len(s \o t))
<1>1. Len(s) \in Nat /\ Len(t) \in Nat /\ s \o t \in Seq(S) /\ Len(s \o t) = Len(s) + Len(t)
  BY LenProperties, ConcatProperties
<1>2. a \in Seq(S) /\ b \in Seq(S) /\ a \o b = s /\ Len(a) = n
  BY CutSeq
<1>3. n \in 0 .. Len(s \o t)
  BY <1>1
<1>4. c \in Seq(S) /\ d \in Seq(S) /\ c \o d = s \o t
  BY <1>1, <1>3, CutSeq
<1>5. a = c
  <2>1. CASE n = 0
    BY <1>1, <2>1, SubSeqEmpty
  <2>2. CASE n # 0
    <3>1. 1 \in 1 .. Len(s) /\ n \in 1 .. Len(s)
      BY <1>1, <2>2
    <3> QED
      BY <3>1, SubSeqOfConcat1
  <2> QED
    BY <2>1, <2>2
<1> HIDE DEF a, b, c, d
<1>6. (a \o b) \o t = a \o (b \o t) /\ b \o t \in Seq(S)
  <2>3. (a \o b) \o t = a \o (b \o t)
    <3>1. a \in Seq(S) /\ b \in Seq(S) /\ t \in Seq(S)
      BY <1>2
    <3> QED
      BY <3>1
  <2>2. b \o t \in Seq(S)
    BY <1>2, ConcatProperties, Zenon
  <2> QED
    BY <2>2, <2>3, Zenon
<1>7. a \o d = a \o (b \o t)
  BY <1>2, <1>4, <1>5, <1>6, Zenon
<1>8. d = b \o t
  BY <1>2, <1>4, <1>6, <1>7, ConcatSimplifications
<1> QED
  BY <1>8 DEF b, d

-----------------------------------------------------------------------------
(* What is kept of what was pushed                                           *)

\* kept is pushed without some of its elements, in the same order.
Embeds(kept, pushed) ==
    \E f \in [DOMAIN kept -> DOMAIN pushed] :
       /\ \A i, j \in DOMAIN kept : i < j => f[i] < f[j]
       /\ \A i \in DOMAIN kept : pushed[f[i]] = kept[i]

LEMMA EmbedAppend ==
    ASSUME NEW S, NEW k \in Seq(S), NEW p \in Seq(S), NEW e \in S, Embeds(k, p)
    PROVE  Embeds(Append(k, e), Append(p, e))
<1> DEFINE m == Len(k)
           n == Len(p)
           k2 == Append(k, e)
           p2 == Append(p, e)
<1>1. /\ m \in Nat /\ n \in Nat /\ DOMAIN k = 1 .. m /\ DOMAIN p = 1 .. n
      /\ DOMAIN k2 = 1 .. m + 1 /\ DOMAIN p2 = 1 .. n + 1
  <2>1. k2 \in Seq(S) /\ Len(k2) = m + 1 /\ p2 \in Seq(S) /\ Len(p2) = n + 1
    BY AppendProperties
  <2>2. DOMAIN k2 = 1 .. Len(k2) /\ DOMAIN p2 = 1 .. Len(p2)
    BY <2>1, LenProperties
  <2>3. m \in Nat /\ n \in Nat /\ DOMAIN k = 1 .. m /\ DOMAIN p = 1 .. n
    BY LenProperties
  <2> QED
    BY <2>1, <2>2, <2>3
<1>2. /\ \A i \in 1 .. m : k2[i] = k[i]
      /\ \A i \in 1 .. n : p2[i] = p[i]
      /\ k2[m + 1] = e /\ p2[n + 1] = e
  BY AppendProperties
<1>3. PICK f \in [1 .. m -> 1 .. n] :
        /\ \A i, j \in 1 .. m : i < j => f[i] < f[j]
        /\ \A i \in 1 .. m : p[f[i]] = k[i]
  BY <1>1, Zenon DEF Embeds
<1> HIDE DEF m, n, k2, p2
<1> DEFINE g == [i \in 1 .. m + 1 |-> IF i = m + 1 THEN n + 1 ELSE f[i]]
<1>4. g \in [1 .. m + 1 -> 1 .. n + 1]
  BY <1>1, <1>3
<1>5. g[m + 1] = n + 1 /\ \A i \in 1 .. m : g[i] = f[i] /\ f[i] \in 1 .. n
  BY <1>1, <1>3
<1> HIDE DEF g
<1>6. \A i, j \in 1 .. m + 1 : i < j => g[i] < g[j]
  <2> SUFFICES ASSUME NEW i \in 1 .. m + 1, NEW j \in 1 .. m + 1, i < j PROVE g[i] < g[j]
    OBVIOUS
  <2>1. i \in 1 .. m
    BY <1>1
  <2>2. CASE j = m + 1
    BY <1>1, <1>5, <2>1, <2>2
  <2>3. CASE j # m + 1
    <3>1. j \in 1 .. m
      BY <1>1, <2>3
    <3> QED
      BY <1>3, <1>5, <2>1, <3>1
  <2> QED
    BY <2>2, <2>3
<1>7. \A i \in 1 .. m + 1 : p2[g[i]] = k2[i]
  <2> SUFFICES ASSUME NEW i \in 1 .. m + 1 PROVE p2[g[i]] = k2[i]
    OBVIOUS
  <2>1. CASE i = m + 1
    BY <1>2, <1>5, <2>1
  <2>2. CASE i # m + 1
    <3>1. i \in 1 .. m
      BY <1>1, <2>2
    <3>2. p2[f[i]] = p[f[i]]
      BY <1>2, <1>5, <3>1
    <3> QED
      BY <1>2, <1>3, <1>5, <3>1, <3>2
  <2> QED
    BY <2>1, <2>2
<1>8. Embeds(k2, p2)
  BY <1>1, <1>4, <1>6, <1>7, Zenon DEF Embeds
<1> QED
  BY <1>8 DEF k2, p2

\* Elements in the middle are thrown away.
LEMMA EmbedDrop ==
    ASSUME NEW S, NEW a \in Seq(S), NEW b \in Seq(S), NEW c \in Seq(S), NEW p \in Seq(S),
           Embeds((a \o b) \o c, p)
    PROVE  Embeds(a \o c, p)
<1> DEFINE x == Len(a)
           y == Len(b)
           z == Len(c)
           long == (a \o b) \o c
           short == a \o c
<1>1. /\ x \in Nat /\ y \in Nat /\ z \in Nat
      /\ DOMAIN long = 1 .. x + y + z /\ DOMAIN short = 1 .. x + z
  <2>1. a \o b \in Seq(S) /\ Len(a \o b) = x + y /\ short \in Seq(S) /\ Len(short) = x + z
    BY ConcatProperties
  <2>2. long \in Seq(S) /\ Len(long) = x + y + z
    BY <2>1, ConcatProperties
  <2>3. DOMAIN long = 1 .. Len(long) /\ DOMAIN short = 1 .. Len(short)
    BY <2>1, <2>2, LenProperties
  <2>4. x \in Nat /\ y \in Nat /\ z \in Nat
    BY LenProperties
  <2> QED
    BY <2>1, <2>2, <2>3, <2>4
<1>2. \A i \in 1 .. x + z : short[i] = long[IF i <= x THEN i ELSE i + y]
  <2> SUFFICES ASSUME NEW i \in 1 .. x + z PROVE short[i] = long[IF i <= x THEN i ELSE i + y]
    OBVIOUS
  <2>1. a \o b \in Seq(S) /\ Len(a \o b) = x + y
    BY ConcatProperties
  <2>2. \A j \in 1 .. x + y + z : long[j] = IF j <= x + y THEN (a \o b)[j] ELSE c[j - (x + y)]
    BY <2>1, ConcatProperties
  <2>3. \A j \in 1 .. x + y : (a \o b)[j] = IF j <= x THEN a[j] ELSE b[j - x]
    BY ConcatProperties
  <2>4. short[i] = IF i <= x THEN a[i] ELSE c[i - x]
    BY ConcatProperties
  <2> HIDE DEF x, y, z, long, short
  <2>5. CASE i <= x
    <3>1. i \in 1 .. x + y /\ i \in 1 .. x + y + z /\ i <= x + y
      BY <1>1, <2>5
    <3> QED
      BY <2>2, <2>3, <2>4, <2>5, <3>1
  <2>6. CASE ~(i <= x)
    <3>1. PICK j \in Nat : j = i + y
      BY <1>1
    <3>5. j \in 1 .. x + y + z /\ ~(j <= x + y) /\ j - (x + y) = i - x
      BY <1>1, <2>6, <3>1
    <3>6. long[j] = c[i - x]
      <4>1. long[j] = IF j <= x + y THEN (a \o b)[j] ELSE c[j - (x + y)]
        BY <2>2, <3>5
      <4> QED
        BY <3>5, <4>1
    <3>3. long[i + y] = c[i - x]
      BY <3>1, <3>6
    <3>4. short[i] = c[i - x]
      BY <2>4, <2>6
    <3> QED
      BY <2>6, <3>3, <3>4
  <2> QED
    BY <2>5, <2>6
<1>3. PICK f \in [1 .. x + y + z -> DOMAIN p] :
        /\ \A i, j \in 1 .. x + y + z : i < j => f[i] < f[j]
        /\ \A i \in 1 .. x + y + z : p[f[i]] = long[i]
  BY <1>1, Zenon DEF Embeds
<1> HIDE DEF x, y, z, long, short
<1> DEFINE h == [i \in 1 .. x + z |-> IF i <= x THEN i ELSE i + y]
           g == [i \in 1 .. x + z |-> f[h[i]]]
<1>4. \A i \in 1 .. x + z : h[i] = (IF i <= x THEN i ELSE i + y) /\ h[i] \in 1 .. x + y + z
  BY <1>1
<1>5. \A i, j \in 1 .. x + z : i < j => h[i] < h[j]
  BY <1>1
<1> HIDE DEF h
<1>6. g \in [1 .. x + z -> DOMAIN p]
  BY <1>3, <1>4
<1>7. \A i, j \in 1 .. x + z : i < j => g[i] < g[j]
  BY <1>3, <1>4, <1>5
<1>8. \A i \in 1 .. x + z : p[g[i]] = short[i]
  BY <1>2, <1>3, <1>4
<1>9. Embeds(short, p)
  BY <1>1, <1>6, <1>7, <1>8, Zenon DEF Embeds
<1> QED
  BY <1>9 DEF short

\* What embedding means, in the words of AuditAccounted.
Found(k, p) ==
    /\ \A i \in DOMAIN k : \E j \in DOMAIN p : p[j] = k[i]
    /\ \A i, j \in DOMAIN k : i < j => \E a, b \in DOMAIN p : a < b /\ p[a] = k[i] /\ p[b] = k[j]

LEMMA EmbedGives ==
    ASSUME NEW k, NEW p, Embeds(k, p)
    PROVE  Found(k, p)
<1>1. PICK f \in [DOMAIN k -> DOMAIN p] :
        /\ \A i, j \in DOMAIN k : i < j => f[i] < f[j]
        /\ \A i \in DOMAIN k : p[f[i]] = k[i]
  BY Zenon DEF Embeds
<1>2. \A i \in DOMAIN k : f[i] \in DOMAIN p /\ p[f[i]] = k[i]
  BY <1>1
<1> QED
  BY <1>1, <1>2, Zenon DEF Found

-----------------------------------------------------------------------------
(* Lines of the log                                                          *)

Ev == [n : Nat, sev : Severities]
Line == [ev : Ev, seq : Nat, prev : Seq(Ev), hash : Seq(Ev)]

LEMMA SignedLine ==
    ASSUME NEW signed \in Seq(Ev), NEW ev \in Ev
    PROVE  /\ audit_hash_chain_sign(signed, ev) \in Line
           /\ audit_hash_chain_sign(signed, ev).ev = ev
<1>1. <<>> \in Seq(Ev) /\ Len(signed) \in Nat /\ Len(signed) + 1 \in Nat /\ 0 \in Nat
  BY EmptySeq, LenProperties
<1>2. Append(signed, ev) \in Seq(Ev)
  BY AppendProperties
<1>3. CASE ev.sev = "long"
  BY <1>1, <1>3 DEF audit_hash_chain_sign, Line
<1>4. CASE ev.sev # "long"
  BY <1>1, <1>2, <1>4 DEF audit_hash_chain_sign, Line
<1> QED
  BY <1>3, <1>4

\* What was signed before the i-th of some events.
Signed(signed, evs, i) == signed \o SubSeq(evs, 1, i - 1)

LEMMA SignedSeq ==
    ASSUME NEW signed \in Seq(Ev), NEW evs \in Seq(Ev), NEW i \in 1 .. Len(evs)
    PROVE  /\ Signed(signed, evs, i) \in Seq(Ev) /\ Len(Signed(signed, evs, i)) = Len(signed) + i - 1
           /\ SubSeq(evs, 1, i - 1) \in Seq(Ev) /\ Len(SubSeq(evs, 1, i - 1)) = i - 1
<1>1. Len(signed) \in Nat /\ Len(evs) \in Nat /\ i - 1 \in 0 .. Len(evs)
  BY LenProperties
<1>2. SubSeq(evs, 1, i - 1) \in Seq(Ev) /\ Len(SubSeq(evs, 1, i - 1)) = i - 1
  BY <1>1, CutSeq
<1>3. /\ signed \o SubSeq(evs, 1, i - 1) \in Seq(Ev)
      /\ Len(signed \o SubSeq(evs, 1, i - 1)) = Len(signed) + Len(SubSeq(evs, 1, i - 1))
  BY <1>2, ConcatProperties
<1> QED
  BY <1>1, <1>2, <1>3 DEF Signed

LEMMA LinesSeq ==
    ASSUME NEW signed \in Seq(Ev), NEW evs \in Seq(Ev)
    PROVE  /\ Lines(signed, evs) \in Seq(Line) /\ Len(Lines(signed, evs)) = Len(evs)
           /\ \A i \in 1 .. Len(evs) : Lines(signed, evs)[i] = audit_hash_chain_sign(Signed(signed, evs, i), evs[i])
           /\ EventsOf(Lines(signed, evs)) = evs
<1>1. Len(evs) \in Nat /\ DOMAIN evs = 1 .. Len(evs) /\ \A i \in 1 .. Len(evs) : evs[i] \in Ev
  BY LenProperties, ElementOfSeq
<1>2. Lines(signed, evs) = [i \in 1 .. Len(evs) |-> audit_hash_chain_sign(Signed(signed, evs, i), evs[i])]
  BY <1>1 DEF Lines, Signed
<1>3. \A i \in 1 .. Len(evs) : /\ audit_hash_chain_sign(Signed(signed, evs, i), evs[i]) \in Line
                               /\ audit_hash_chain_sign(Signed(signed, evs, i), evs[i]).ev = evs[i]
  BY <1>1, SignedSeq, SignedLine
<1>4. Lines(signed, evs) \in [1 .. Len(evs) -> Line]
  BY <1>2, <1>3
<1>5. Lines(signed, evs) \in Seq(Line) /\ Len(Lines(signed, evs)) = Len(evs)
  <2>1. Lines(signed, evs) \in Seq(Line)
    BY <1>1, <1>4, SeqDef
  <2>2. DOMAIN Lines(signed, evs) = 1 .. Len(evs) /\ DOMAIN Lines(signed, evs) = 1 .. Len(Lines(signed, evs))
        /\ Len(Lines(signed, evs)) \in Nat
    BY <1>4, <2>1, LenProperties
  <2> QED
    BY <1>1, <2>1, <2>2
<1>6. \A i \in 1 .. Len(evs) : Lines(signed, evs)[i] = audit_hash_chain_sign(Signed(signed, evs, i), evs[i])
  BY <1>2
<1>7. EventsOf(Lines(signed, evs)) = evs
  <2>1. DOMAIN Lines(signed, evs) = 1 .. Len(evs)
    BY <1>4
  <2>2. \A i \in 1 .. Len(evs) : Lines(signed, evs)[i].ev = evs[i]
    BY <1>3, <1>6
  <2>3. EventsOf(Lines(signed, evs)) = [i \in 1 .. Len(evs) |-> evs[i]]
    BY <2>1, <2>2 DEF EventsOf
  <2>4. evs = [i \in 1 .. Len(evs) |-> evs[i]]
    <3>1. evs \in [1 .. Len(evs) -> Ev]
      BY LenProperties
    <3> QED
      BY <3>1
  <2> QED
    BY <2>3, <2>4
<1> QED
  BY <1>5, <1>6, <1>7

\* The lines of two batches are those of one batch, signed from where the first ended.
LEMMA LinesConcat ==
    ASSUME NEW c \in Seq(Ev), NEW p \in Seq(Ev)
    PROVE  Lines(<<>>, c \o p) = Lines(<<>>, c) \o Lines(c, p)
<1> DEFINE m == Len(c)
           n == Len(p)
           all == Lines(<<>>, c \o p)
           one == Lines(<<>>, c)
           two == Lines(c, p)
<1>0. <<>> \in Seq(Ev)
  BY EmptySeq
<1>1. /\ m \in Nat /\ n \in Nat /\ c \o p \in Seq(Ev) /\ Len(c \o p) = m + n
      /\ \A i \in 1 .. m + n : (c \o p)[i] = IF i <= m THEN c[i] ELSE p[i - m]
  BY LenProperties, ConcatProperties
<1>2. /\ all \in Seq(Line) /\ Len(all) = m + n
      /\ \A i \in 1 .. m + n : all[i] = audit_hash_chain_sign(Signed(<<>>, c \o p, i), (c \o p)[i])
  BY <1>0, <1>1, LinesSeq
<1>3. /\ one \in Seq(Line) /\ Len(one) = m
      /\ \A i \in 1 .. m : one[i] = audit_hash_chain_sign(Signed(<<>>, c, i), c[i])
  BY <1>0, LinesSeq
<1>4. /\ two \in Seq(Line) /\ Len(two) = n
      /\ \A i \in 1 .. n : two[i] = audit_hash_chain_sign(Signed(c, p, i), p[i])
  BY LinesSeq
<1>5. /\ one \o two \in Seq(Line) /\ Len(one \o two) = m + n
      /\ \A i \in 1 .. m + n : (one \o two)[i] = IF i <= m THEN one[i] ELSE two[i - m]
  <2> HIDE DEF one, two, m, n
  <2>1. one \in Seq(Line) /\ two \in Seq(Line) /\ Len(one) = m /\ Len(two) = n
    BY <1>3, <1>4
  <2>2. /\ one \o two \in Seq(Line) /\ Len(one \o two) = Len(one) + Len(two)
        /\ \A i \in 1 .. Len(one) + Len(two) : (one \o two)[i] = IF i <= Len(one) THEN one[i] ELSE two[i - Len(one)]
    BY <2>1, ConcatProperties
  <2> QED
    BY <2>1, <2>2
<1>6. \A i \in 1 .. m : Signed(<<>>, c \o p, i) = Signed(<<>>, c, i)
  <2> SUFFICES ASSUME NEW i \in 1 .. m PROVE SubSeq(c \o p, 1, i - 1) = SubSeq(c, 1, i - 1)
    BY DEF Signed
  <2>1. CASE i = 1
    BY <2>1, SubSeqEmpty
  <2>2. CASE i # 1
    <3>1. 1 \in 1 .. Len(c) /\ i - 1 \in 1 .. Len(c)
      BY <1>1, <2>2
    <3> QED
      BY <3>1, SubSeqOfConcat1
  <2> QED
    BY <2>1, <2>2
<1>7. ASSUME NEW i \in 1 .. m + n, ~(i <= m)
      PROVE  Signed(<<>>, c \o p, i) = Signed(c, p, i - m)
  <2> DEFINE u == Signed(<<>>, c \o p, i)
             v == Signed(c, p, i - m)
  <2>1. i - m \in 1 .. n /\ i \in 1 .. Len(c \o p)
    BY <1>1, <1>7
  <2>2. /\ u \in Seq(Ev) /\ Len(u) = i - 1 /\ v \in Seq(Ev) /\ Len(v) = i - 1
        /\ SubSeq(c \o p, 1, i - 1) \in Seq(Ev)
        /\ SubSeq(p, 1, i - m - 1) \in Seq(Ev) /\ Len(SubSeq(p, 1, i - m - 1)) = i - m - 1
    <3>1. /\ u \in Seq(Ev) /\ Len(u) = Len(<<>>) + i - 1 /\ SubSeq(c \o p, 1, i - 1) \in Seq(Ev)
      BY <1>0, <1>1, <2>1, SignedSeq
    <3>2. /\ v \in Seq(Ev) /\ Len(v) = m + (i - m) - 1
          /\ SubSeq(p, 1, i - m - 1) \in Seq(Ev) /\ Len(SubSeq(p, 1, i - m - 1)) = i - m - 1
      BY <2>1, SignedSeq
    <3>3. Len(<<>>) = 0
      BY EmptySeq
    <3> HIDE DEF u, v, m, n
    <3> QED
      BY <1>1, <3>1, <3>2, <3>3
  <2>3. u = SubSeq(c \o p, 1, i - 1)
    BY <2>2, ConcatEmptySeq DEF Signed
  <2>4. ASSUME NEW j \in 1 .. i - 1 PROVE u[j] = v[j]
    <3>1. 1 \in Int /\ i - 1 \in Int /\ i - m - 1 \in Int
      BY <1>1
    <3>2. u[j] = (c \o p)[j]
      BY <1>1, <2>3
    <3>3. v[j] = IF j <= m THEN c[j] ELSE SubSeq(p, 1, i - m - 1)[j - m]
      <4> DEFINE w == SubSeq(p, 1, i - m - 1)
      <4>1. w \in Seq(Ev) /\ v = c \o w /\ Len(w) = i - m - 1
        BY <2>2 DEF Signed
      <4>2. j \in 1 .. Len(c) + Len(w)
        BY <1>1, <4>1
      <4> QED
        BY <4>1, <4>2, ConcatProperties
    <3>4. ~(j <= m) => SubSeq(p, 1, i - m - 1)[j - m] = p[j - m]
      BY <1>1
    <3> QED
      BY <1>1, <3>2, <3>3, <3>4
  <2> QED
    BY <2>2, <2>4, SeqEqual
<1> HIDE DEF all, one, two, m, n
<1>8. ASSUME NEW i \in 1 .. m + n PROVE all[i] = (one \o two)[i]
  <2>1. CASE i <= m
    <3>1. i \in 1 .. m
      BY <1>1, <2>1
    <3> QED
      BY <1>1, <1>2, <1>3, <1>5, <1>6, <2>1, <3>1
  <2>2. CASE ~(i <= m)
    <3>1. i - m \in 1 .. n
      BY <1>1, <2>2
    <3>2. all[i] = audit_hash_chain_sign(Signed(c, p, i - m), p[i - m])
      BY <1>1, <1>2, <1>7, <2>2
    <3> QED
      BY <1>4, <1>5, <2>2, <3>1, <3>2
  <2> QED
    BY <2>1, <2>2
<1>9. all = one \o two
  BY <1>2, <1>5, <1>8, SeqEqual
<1> QED
  BY <1>9 DEF all, one, two

\* A chain in which every line fitted the buffer verifies.
LEMMA ChainVerifies ==
    ASSUME NEW c \in Seq(Ev), \A i \in DOMAIN c : c[i].sev # "long"
    PROVE  Verifies(Lines(<<>>, c))
<1> DEFINE ls == Lines(<<>>, c)
           n == Len(c)
<1>0. <<>> \in Seq(Ev)
  BY EmptySeq
<1>1. n \in Nat /\ DOMAIN c = 1 .. n
  BY LenProperties
<1>2. /\ ls \in Seq(Line) /\ Len(ls) = n
      /\ \A i \in 1 .. n : ls[i] = audit_hash_chain_sign(Signed(<<>>, c, i), c[i])
  BY <1>0, LinesSeq
<1>3. DOMAIN ls = 1 .. n
  BY <1>2, LenProperties
<1>4. ASSUME NEW i \in 1 .. n
      PROVE  /\ SubSeq(c, 1, i - 1) \in Seq(Ev) /\ Len(SubSeq(c, 1, i - 1)) = i - 1
             /\ Signed(<<>>, c, i) = SubSeq(c, 1, i - 1)
             /\ ls[i].ev = c[i] /\ ls[i].seq = i /\ ls[i].prev = SubSeq(c, 1, i - 1)
             /\ ls[i].hash = Append(SubSeq(c, 1, i - 1), c[i])
  <2>1. SubSeq(c, 1, i - 1) \in Seq(Ev) /\ Len(SubSeq(c, 1, i - 1)) = i - 1
    BY <1>0, SignedSeq
  <2>2. Signed(<<>>, c, i) = SubSeq(c, 1, i - 1)
    BY <2>1, ConcatEmptySeq DEF Signed
  <2>3. c[i].sev # "long"
    BY <1>1
  <2>4. i - 1 + 1 = i
    BY <1>1
  <2>5. PICK w \in Seq(Ev) : w = SubSeq(c, 1, i - 1) /\ Len(w) = i - 1
    BY <2>1, Zenon
  <2>6. ls[i] = audit_hash_chain_sign(w, c[i])
    BY <1>2, <2>2, <2>5, Zenon
  <2>7. audit_hash_chain_sign(w, c[i]) = [ev |-> c[i], seq |-> i, prev |-> w, hash |-> Append(w, c[i])]
    BY <2>3, <2>4, <2>5, Zenon DEF audit_hash_chain_sign
  <2> HIDE DEF ls
  <2>8. ls[i].ev = c[i] /\ ls[i].seq = i /\ ls[i].prev = w /\ ls[i].hash = Append(w, c[i])
    BY <2>6, <2>7
  <2> QED
    BY <2>1, <2>2, <2>5, <2>8, Zenon
<1>5. ASSUME NEW i \in 1 .. n, i # 1
      PROVE  SubSeq(c, 1, i - 1) = Append(SubSeq(c, 1, (i - 1) - 1), c[i - 1])
  <2>1. 1 \in 1 .. Len(c) /\ i - 1 \in 1 .. Len(c) /\ i - 1 \in 1 .. n
    BY <1>1, <1>5
  <2>2. SubSeq(c, 1, i - 1) = SubSeq(c, 1, (i - 1) - 1) \o <<c[i - 1]>>
    BY <2>1, SubSeqRecursiveSecond
  <2>3. SubSeq(c, 1, (i - 1) - 1) \in Seq(Ev) /\ c[i - 1] \in Ev
    BY <1>4, <2>1, ElementOfSeq
  <2> QED
    BY <2>2, <2>3, AppendIsConcat
<1> HIDE DEF ls, n
<1>6. ASSUME NEW i \in 1 .. n
      PROVE  /\ ls[i].seq = i
             /\ ls[i].prev = IF i = 1 THEN <<>> ELSE ls[i - 1].hash
             /\ ls[i].hash = Append(ls[i].prev, ls[i].ev)
  <2>1. ls[i].seq = i /\ ls[i].hash = Append(ls[i].prev, ls[i].ev) /\ ls[i].prev = SubSeq(c, 1, i - 1)
    BY <1>4, Zenon
  <2>2. CASE i = 1
    <3>1. SubSeq(c, 1, i - 1) = <<>>
      BY <2>2, SubSeqEmpty
    <3> QED
      BY <2>1, <2>2, <3>1
  <2>3. CASE i # 1
    <3>1. i - 1 \in 1 .. n
      BY <1>1, <2>3
    <3>2. PICK k \in 1 .. n : k = i - 1
      BY <3>1
    <3>3. ls[k].hash = Append(SubSeq(c, 1, k - 1), c[k])
      BY <1>4, Zenon
    <3>4. ls[i - 1].hash = Append(SubSeq(c, 1, (i - 1) - 1), c[i - 1])
      BY <3>2, <3>3
    <3>5. SubSeq(c, 1, i - 1) = Append(SubSeq(c, 1, (i - 1) - 1), c[i - 1])
      BY <1>5, <2>3, Zenon
    <3> QED
      BY <2>1, <2>3, <3>4, <3>5, Zenon
  <2> QED
    BY <2>2, <2>3
<1> QED
  BY <1>3, <1>6, Zenon DEF Verifies, ls

-----------------------------------------------------------------------------
(* The files of the log, put together                                        *)

\* f joins the first files of s, up to each of them: what FlattenSeq computes.
Flattens(f, s) == \A i \in 1 .. Len(s) : f[i] = IF i = 1 THEN s[i] ELSE f[i - 1] \o s[i]

LEMMA FlattenExists ==
    ASSUME NEW S, NEW s \in Seq(Seq(S)), Len(s) # 0
    PROVE  \E f \in [1 .. Len(s) -> Seq(S)] : Flattens(f, s)
<1> DEFINE n == Len(s)
           Upto(m) == \E f \in [1 .. m + 1 -> Seq(S)] :
                        \A i \in 1 .. m + 1 : f[i] = IF i = 1 THEN s[i] ELSE f[i - 1] \o s[i]
           T == {m \in Nat : m + 1 <= n => Upto(m)}
<1>1. n \in Nat /\ \A i \in 1 .. n : s[i] \in Seq(S)
  BY LenProperties, ElementOfSeq
<1>2. 0 \in T
  <2> SUFFICES ASSUME 1 <= n PROVE Upto(0)
    OBVIOUS
  <2> DEFINE f == [i \in 1 .. 0 + 1 |-> s[1]]
  <2>1. f \in [1 .. 0 + 1 -> Seq(S)]
    BY <1>1
  <2>2. \A i \in 1 .. 0 + 1 : f[i] = IF i = 1 THEN s[i] ELSE f[i - 1] \o s[i]
    OBVIOUS
  <2> QED
    BY <2>1, <2>2
<1>3. ASSUME NEW m \in Nat, (m + 1) + 1 <= n, Upto(m) PROVE Upto(m + 1)
  <2>1. m \in Nat /\ m + 1 <= n
    BY <1>1, <1>3
  <2>2. PICK f \in [1 .. m + 1 -> Seq(S)] :
          \A i \in 1 .. m + 1 : f[i] = IF i = 1 THEN s[i] ELSE f[i - 1] \o s[i]
    BY <1>3
  <2> DEFINE longer == f[m + 1] \o s[m + 2]
             g == [i \in 1 .. (m + 1) + 1 |-> IF i = m + 2 THEN longer ELSE f[i]]
  <2>3. longer \in Seq(S)
    <3>1. f[m + 1] \in Seq(S) /\ s[m + 2] \in Seq(S)
      <4>1. m + 1 \in 1 .. m + 1 /\ m + 2 \in 1 .. n
        BY <1>1, <1>3, <2>1
      <4> QED
        BY <1>1, <2>2, <4>1
    <3> QED
      BY <3>1, ConcatProperties
  <2>4. g \in [1 .. (m + 1) + 1 -> Seq(S)]
    <3> HIDE DEF longer
    <3> QED
      BY <2>1, <2>2, <2>3
  <2>5. g[m + 2] = longer /\ \A i \in 1 .. m + 1 : g[i] = f[i]
    <3> HIDE DEF longer
    <3> QED
      BY <2>1
  <2> HIDE DEF g
  <2>6. ASSUME NEW i \in 1 .. (m + 1) + 1 PROVE g[i] = IF i = 1 THEN s[i] ELSE g[i - 1] \o s[i]
    <3>1. CASE i = m + 2
      <4>1. i # 1 /\ i - 1 = m + 1 /\ m + 1 \in 1 .. m + 1
        BY <2>1, <3>1
      <4>2. g[i - 1] = f[m + 1]
        BY <2>5, <4>1, Zenon
      <4>3. g[i] = g[i - 1] \o s[i]
        BY <2>5, <3>1, <4>2, Zenon
      <4> QED
        BY <4>1, <4>3, Zenon
    <3>2. CASE i # m + 2
      <4>1. i \in 1 .. m + 1
        BY <2>1, <3>2
      <4>2. CASE i = 1
        BY <2>2, <2>5, <4>1, <4>2, Zenon
      <4>3. CASE i # 1
        <5>1. i - 1 \in 1 .. m + 1
          BY <2>1, <4>1, <4>3
        <5>2. g[i - 1] = f[i - 1] /\ g[i] = f[i] /\ f[i] = f[i - 1] \o s[i]
          BY <2>2, <2>5, <4>1, <4>3, <5>1, Zenon
        <5> QED
          BY <4>3, <5>2, Zenon
      <4> QED
        BY <4>2, <4>3
    <3> QED
      BY <3>1, <3>2
  <2> QED
    BY <2>4, <2>6, Zenon
<1>4. T = Nat
  <2>1. T \in SUBSET Nat
    OBVIOUS
  <2>2. ASSUME NEW m \in T PROVE m + 1 \in T
    <3> HIDE DEF Upto
    <3>1. m \in Nat /\ (m + 1 <= n => Upto(m)) /\ m + 1 \in Nat
      OBVIOUS
    <3>2. (m + 1) + 1 <= n => m + 1 <= n
      BY <1>1, <3>1
    <3>3. (m + 1) + 1 <= n => Upto(m + 1)
      BY <1>3, <3>1, <3>2
    <3> QED
      BY <3>1, <3>3, Zenon
  <2> HIDE DEF T
  <2> QED
    BY <1>2, <2>1, <2>2, AllNumbers, Zenon
<1>5. n - 1 \in Nat /\ (n - 1) + 1 = n
  BY <1>1
<1>6. PICK m \in Nat : m = n - 1 /\ m + 1 = n
  BY <1>5
<1>7. Upto(m)
  <2>1. m \in T
    BY <1>4
  <2> QED
    BY <1>1, <1>6, <2>1
<1>8. \E f \in [1 .. n -> Seq(S)] : \A i \in 1 .. n : f[i] = IF i = 1 THEN s[i] ELSE f[i - 1] \o s[i]
  BY <1>6, <1>7, Zenon
<1> QED
  BY <1>8, Zenon DEF Flattens

\* f and g do so for two logs with the same first n files.
FlattenTwo(f, g, s, t, n) ==
    /\ Len(s) \in Nat /\ Len(t) \in Nat /\ n \in Nat /\ n <= Len(s) /\ n <= Len(t)
    /\ \A i \in 1 .. n : s[i] = t[i]
    /\ Flattens(f, s) /\ Flattens(g, t)

SameUpto(f, g, n) == \A i \in 1 .. n : f[i] = g[i]

LEMMA FlattenAgrees ==
    ASSUME NEW p, NEW q, NEW u, NEW v, NEW k, FlattenTwo(p, q, u, v, k)
    PROVE  SameUpto(p, q, k)
<1> DEFINE T == {m \in Nat : m + 1 <= k => p[m + 1] = q[m + 1]}
<1>0. /\ Len(u) \in Nat /\ Len(v) \in Nat /\ k \in Nat /\ k <= Len(u) /\ k <= Len(v)
      /\ \A i \in 1 .. k : u[i] = v[i]
      /\ Flattens(p, u) /\ Flattens(q, v)
  BY Zenon DEF FlattenTwo
<1>1. \A i \in 1 .. k : /\ p[i] = IF i = 1 THEN u[i] ELSE p[i - 1] \o u[i]
                        /\ q[i] = IF i = 1 THEN u[i] ELSE q[i - 1] \o u[i]
  <2>1. \A i \in 1 .. k : i \in 1 .. Len(u) /\ i \in 1 .. Len(v)
    BY <1>0
  <2> QED
    BY <1>0, <2>1, Zenon DEF Flattens
<1>2. 0 \in T
  <2>1. 1 <= k => 1 \in 1 .. k
    BY <1>0
  <2>2. 1 <= k => p[1] = q[1]
    BY <1>1, <2>1, Zenon
  <2> QED
    BY <2>2
<1>3. ASSUME NEW m \in T PROVE m + 1 \in T
  <2>1. m \in Nat /\ (m + 1 <= k => p[m + 1] = q[m + 1])
    OBVIOUS
  <2>2. ASSUME m + 2 <= k PROVE p[m + 2] = q[m + 2]
    <3>1. m + 2 \in 1 .. k /\ m + 2 # 1 /\ (m + 2) - 1 = m + 1 /\ m + 1 <= k
      BY <1>0, <2>1, <2>2
    <3>2. p[m + 2] = p[(m + 2) - 1] \o u[m + 2] /\ q[m + 2] = q[(m + 2) - 1] \o u[m + 2]
      BY <1>1, <3>1, Zenon
    <3> QED
      BY <2>1, <3>1, <3>2, Zenon
  <2>3. m + 1 \in Nat /\ (m + 1) + 1 = m + 2
    BY <2>1
  <2> QED
    BY <2>2, <2>3, Zenon
<1>4. T = Nat
  <2>1. T \in SUBSET Nat
    OBVIOUS
  <2> HIDE DEF T
  <2> QED
    BY <1>2, <1>3, <2>1, AllNumbers, Zenon
<1> SUFFICES ASSUME NEW i \in 1 .. k PROVE p[i] = q[i]
  BY DEF SameUpto
<1>5. PICK m \in Nat : m = i - 1 /\ m + 1 = i /\ m + 1 <= k
  <2>1. i - 1 \in Nat /\ (i - 1) + 1 = i /\ i <= k
    BY <1>0
  <2> QED
    BY <2>1
<1>6. m \in T
  BY <1>4
<1>7. p[m + 1] = q[m + 1]
  BY <1>5, <1>6
<1> QED
  BY <1>5, <1>7, Zenon

LEMMA FlattenIs ==
    ASSUME NEW S, NEW s \in Seq(Seq(S)), Len(s) # 0
    PROVE  \E f \in [1 .. Len(s) -> Seq(S)] : Flattens(f, s) /\ FlattenSeq(s) = f[Len(s)]
<1> DEFINE Def(f) == f = [i \in 1 .. Len(s) |-> IF i = 1 THEN s[i] ELSE f[i - 1] \o s[i]]
           flatten == CHOOSE f : Def(f)
<1>0. Len(s) \in Nat /\ Len(s) \in 1 .. Len(s) /\ Len(s) <= Len(s)
  BY LenProperties
<1>1. PICK f \in [1 .. Len(s) -> Seq(S)] : Flattens(f, s)
  BY FlattenExists
<1>2. Def(f)
  <2>1. f = [i \in 1 .. Len(s) |-> f[i]]
    BY <1>1
  <2>2. \A i \in 1 .. Len(s) : f[i] = IF i = 1 THEN s[i] ELSE f[i - 1] \o s[i]
    BY <1>1, Zenon DEF Flattens
  <2> QED
    BY <2>1, <2>2, Zenon
<1>3. Def(flatten)
  BY <1>2, Zenon
<1>4. FlattenSeq(s) = flatten[Len(s)]
  BY Zenon DEF FlattenSeq
<1>5. Flattens(flatten, s)
  BY <1>3, Zenon DEF Flattens
<1> HIDE DEF flatten
<1>6. \A i \in 1 .. Len(s) : f[i] = flatten[i]
  <2>1. \A i \in 1 .. Len(s) : s[i] = s[i]
    OBVIOUS
  <2>2. FlattenTwo(f, flatten, s, s, Len(s))
    BY <1>0, <1>1, <1>5, <2>1, Zenon DEF FlattenTwo
  <2>3. SameUpto(f, flatten, Len(s))
    BY <2>2, FlattenAgrees, Zenon
  <2> QED
    BY <2>3, Zenon DEF SameUpto
<1> QED
  BY <1>0, <1>1, <1>4, <1>6, Zenon

LEMMA FlattenAppend ==
    ASSUME NEW S, NEW s \in Seq(Seq(S)), NEW x \in Seq(S)
    PROVE  /\ FlattenSeq(Append(s, x)) = FlattenSeq(s) \o x
           /\ FlattenSeq(s) \in Seq(S)
<1> DEFINE n == Len(s)
           t == Append(s, x)
<1>1. /\ t \in Seq(Seq(S)) /\ Len(t) = n + 1 /\ n \in Nat
      /\ (\A i \in 1 .. n : t[i] = s[i]) /\ t[n + 1] = x
  BY AppendProperties, LenProperties
<1> HIDE DEF t
<1>2. PICK g \in [1 .. Len(t) -> Seq(S)] : Flattens(g, t) /\ FlattenSeq(t) = g[Len(t)]
  <2>1. Len(t) # 0
    BY <1>1
  <2> QED
    BY <1>1, <2>1, FlattenIs
<1>3. g[n + 1] = IF n + 1 = 1 THEN x ELSE g[(n + 1) - 1] \o x
  <2>1. n + 1 \in 1 .. Len(t)
    BY <1>1
  <2> QED
    BY <1>1, <1>2, <2>1, Zenon DEF Flattens
<1>4. CASE n = 0
  <2>1. FlattenSeq(t) = x
    BY <1>1, <1>2, <1>3, <1>4
  <2>2. s = <<>>
    BY <1>4, EmptySeq
  <2>3. FlattenSeq(s) = <<>>
    BY <1>4, <2>2, Zenon DEF FlattenSeq
  <2>4. <<>> \o x = x /\ <<>> \in Seq(S)
    BY ConcatEmptySeq, EmptySeq
  <2> QED
    BY <2>1, <2>3, <2>4, Zenon DEF t
<1>5. CASE n # 0
  <2>1. PICK f \in [1 .. n -> Seq(S)] : Flattens(f, s) /\ FlattenSeq(s) = f[n]
    BY <1>5, FlattenIs
  <2>2. n <= Len(s) /\ n <= Len(t) /\ Len(s) \in Nat /\ Len(t) \in Nat /\ n \in 1 .. n
        /\ (n + 1) - 1 = n /\ n + 1 # 1
    BY <1>1, <1>5
  <2>3. \A i \in 1 .. n : s[i] = t[i]
    BY <1>1
  <2>4. \A i \in 1 .. n : f[i] = g[i]
    <3> HIDE DEF n
    <3>1. n \in Nat /\ Len(s) \in Nat /\ Len(t) \in Nat /\ n <= Len(s) /\ n <= Len(t)
      BY <1>1, <2>2, Zenon
    <3>2. Flattens(f, s) /\ Flattens(g, t)
      BY <1>2, <2>1, Zenon
    <3>3. FlattenTwo(f, g, s, t, n)
      BY <2>3, <3>1, <3>2, Zenon DEF FlattenTwo
    <3>4. SameUpto(f, g, n)
      BY <3>3, FlattenAgrees, Zenon
    <3> QED
      BY <3>4, Zenon DEF SameUpto
  <2>5. g[n] = f[n] /\ f[n] \in Seq(S)
    BY <2>1, <2>2, <2>4
  <2>6. FlattenSeq(t) = f[n] \o x
    BY <1>1, <1>2, <1>3, <2>2, <2>5, Zenon
  <2> QED
    BY <2>1, <2>5, <2>6, Zenon DEF t
<1> QED
  BY <1>4, <1>5

LEMMA FlattenHead ==
    ASSUME NEW S, NEW s \in Seq(Seq(S)), s # <<>>
    PROVE  FlattenSeq(s) = s[1] \o FlattenSeq(Tail(s))
<1> DEFINE n == Len(s)
           t == Tail(s)
<1>1. /\ n \in Nat \ {0} /\ t \in Seq(Seq(S)) /\ Len(t) = n - 1
      /\ \A i \in 1 .. n - 1 : t[i] = s[i + 1]
      /\ \A i \in 1 .. n : s[i] \in Seq(S)
  BY EmptySeq, HeadTailProperties, ElementOfSeq
<1>2. PICK f \in [1 .. n -> Seq(S)] : Flattens(f, s) /\ FlattenSeq(s) = f[n]
  BY <1>1, FlattenIs
<1> HIDE DEF t
<1>3. f[1] = s[1] /\ \A i \in 1 .. n : i # 1 => f[i] = f[i - 1] \o s[i]
  <2>1. 1 \in 1 .. n
    BY <1>1
  <2> QED
    BY <1>2, <2>1, Zenon DEF Flattens
<1>4. CASE n = 1
  <2>1. FlattenSeq(s) = s[1] /\ s[1] \in Seq(S)
    BY <1>1, <1>2, <1>3, <1>4
  <2>2. Len(t) = 0
    BY <1>1, <1>4
  <2>3. t = <<>>
    BY <1>1, <2>2, EmptySeq
  <2>4. FlattenSeq(t) = <<>>
    BY <2>2, <2>3, Zenon DEF FlattenSeq
  <2>5. s[1] \o <<>> = s[1]
    BY <2>1, ConcatEmptySeq
  <2> QED
    BY <2>1, <2>4, <2>5, Zenon DEF t
<1>5. CASE n # 1
  <2>1. n - 1 \in Nat /\ Len(t) # 0 /\ n - 1 \in 1 .. n - 1
    BY <1>1, <1>5
  <2>2. PICK g \in [1 .. Len(t) -> Seq(S)] : Flattens(g, t) /\ FlattenSeq(t) = g[Len(t)]
    BY <1>1, <2>1, FlattenIs
  <2>3. \A i \in 1 .. n - 1 : g[i] \in Seq(S) /\ g[i] = IF i = 1 THEN s[i + 1] ELSE g[i - 1] \o s[i + 1]
    <3>1. \A i \in 1 .. n - 1 : i \in 1 .. Len(t)
      BY <1>1
    <3>2. \A i \in 1 .. n - 1 : g[i] = IF i = 1 THEN t[i] ELSE g[i - 1] \o t[i]
      BY <2>2, <3>1, Zenon DEF Flattens
    <3>3. \A i \in 1 .. n - 1 : g[i] \in Seq(S)
      BY <2>2, <3>1
    <3> QED
      BY <1>1, <3>2, <3>3, Zenon
  <2> DEFINE T == {m \in Nat : m + 2 <= n => f[m + 2] = s[1] \o g[m + 1]}
  <2>4. 0 \in T
    <3>1. 2 <= n => 2 \in 1 .. n /\ 1 \in 1 .. n - 1 /\ 2 # 1 /\ 2 - 1 = 1 /\ 1 + 1 = 2
      BY <1>1
    <3>2. 2 <= n => f[2] = s[1] \o s[2] /\ g[1] = s[2]
      BY <1>3, <2>3, <3>1, Zenon
    <3>3. 2 <= n => f[2] = s[1] \o g[1]
      BY <3>2, Zenon
    <3>4. 0 + 2 = 2 /\ 0 + 1 = 1 /\ 0 \in Nat
      OBVIOUS
    <3> QED
      BY <3>3, <3>4, Zenon
  <2>5. ASSUME NEW m \in T PROVE m + 1 \in T
    <3>1. m \in Nat /\ (m + 2 <= n => f[m + 2] = s[1] \o g[m + 1])
      OBVIOUS
    <3>2. m + 1 \in Nat /\ (m + 1) + 2 = m + 3 /\ (m + 1) + 1 = m + 2
      BY <3>1
    <3>3. ASSUME m + 3 <= n PROVE f[m + 3] = s[1] \o g[m + 2]
      <4>1. /\ m + 3 \in 1 .. n /\ m + 3 # 1 /\ (m + 3) - 1 = m + 2 /\ m + 2 <= n
            /\ m + 2 \in 1 .. n - 1 /\ m + 2 # 1 /\ (m + 2) - 1 = m + 1 /\ (m + 2) + 1 = m + 3
            /\ m + 1 \in 1 .. n - 1 /\ 1 \in 1 .. n
        BY <1>1, <3>1, <3>3
      <4>2. f[m + 3] = f[m + 2] \o s[m + 3]
        BY <1>3, <4>1, Zenon
      <4>3. g[m + 2] = g[m + 1] \o s[m + 3]
        BY <2>3, <4>1, Zenon
      <4>6. s[1] \in Seq(S) /\ g[m + 1] \in Seq(S) /\ s[m + 3] \in Seq(S)
        BY <1>1, <2>3, <4>1, Zenon
      <4>4. PICK a \in Seq(S), b \in Seq(S), c \in Seq(S) : a = s[1] /\ b = g[m + 1] /\ c = s[m + 3]
        BY <4>6, Zenon
      <4> HIDE DEF T
      <4>5. (a \o b) \o c = a \o (b \o c)
        OBVIOUS
      <4> QED
        BY <3>1, <4>1, <4>2, <4>3, <4>4, <4>5, Zenon
    <3> QED
      BY <3>2, <3>3, Zenon
  <2>6. T = Nat
    <3>1. T \in SUBSET Nat
      OBVIOUS
    <3> HIDE DEF T
    <3> QED
      BY <2>4, <2>5, <3>1, AllNumbers, Zenon
  <2>7. PICK m \in Nat : m = n - 2 /\ m + 2 = n /\ m + 1 = n - 1 /\ m + 2 <= n
    <3>1. n - 2 \in Nat /\ (n - 2) + 2 = n /\ (n - 2) + 1 = n - 1 /\ n <= n
      BY <1>1, <1>5
    <3> QED
      BY <3>1
  <2>8. m \in T
    BY <2>6
  <2>9. f[m + 2] = s[1] \o g[m + 1]
    BY <2>7, <2>8
  <2> QED
    BY <1>1, <1>2, <2>2, <2>7, <2>9, Zenon DEF t
<1> QED
  BY <1>4, <1>5

LEMMA ReverseSeq ==
    ASSUME NEW S, NEW s \in Seq(S)
    PROVE  /\ Reverse(s) \in Seq(S) /\ Len(Reverse(s)) = Len(s)
           /\ \A i \in 1 .. Len(s) : Reverse(s)[i] = s[(Len(s) - i) + 1]
<1>1. Len(s) \in Nat /\ \A i \in 1 .. Len(s) : s[i] \in S
  BY LenProperties, ElementOfSeq
<1>2. PICK n \in Nat : n = Len(s)
  BY <1>1
<1>3. Reverse(s) = [i \in 1 .. n |-> s[(n - i) + 1]]
  BY <1>2, Zenon DEF Reverse
<1>4. Reverse(s) \in [1 .. n -> S]
  BY <1>1, <1>2, <1>3
<1>5. Reverse(s) \in Seq(S)
  BY <1>4, SeqDef
<1>6. DOMAIN Reverse(s) = 1 .. n /\ DOMAIN Reverse(s) = 1 .. Len(Reverse(s)) /\ Len(Reverse(s)) \in Nat
  BY <1>4, <1>5, LenProperties
<1> QED
  BY <1>2, <1>3, <1>5, <1>6

LEMMA ReverseFirst ==
    ASSUME NEW S, NEW s \in Seq(S), NEW x \in S
    PROVE  Reverse(<<x>> \o s) = Append(Reverse(s), x) /\ <<x>> \o s \in Seq(S) /\ Len(<<x>> \o s) = Len(s) + 1
<1> DEFINE one == <<x>>
           t == one \o s
           u == Reverse(t)
           v == Append(Reverse(s), x)
<1>1. one \in Seq(S) /\ Len(one) = 1 /\ one[1] = x
  OBVIOUS
<1>2. PICK n \in Nat : n = Len(s)
  BY LenProperties
<1> HIDE DEF one
<1>3. /\ t \in Seq(S) /\ Len(t) = n + 1
      /\ \A i \in 1 .. n + 1 : t[i] = IF i <= 1 THEN one[i] ELSE s[i - 1]
  <2>1. /\ t \in Seq(S) /\ Len(t) = Len(one) + Len(s)
        /\ \A i \in 1 .. Len(one) + Len(s) : t[i] = IF i <= Len(one) THEN one[i] ELSE s[i - Len(one)]
    BY <1>1, ConcatProperties
  <2>2. Len(one) + Len(s) = n + 1
    BY <1>1, <1>2
  <2> QED
    BY <1>1, <2>1, <2>2
<1>4. /\ Reverse(s) \in Seq(S) /\ Len(Reverse(s)) = n
      /\ \A i \in 1 .. n : Reverse(s)[i] = s[(n - i) + 1]
  <2>1. /\ Reverse(s) \in Seq(S) /\ Len(Reverse(s)) = Len(s)
        /\ \A i \in 1 .. Len(s) : Reverse(s)[i] = s[(Len(s) - i) + 1]
    BY ReverseSeq, Zenon
  <2> QED
    BY <1>2, <2>1, Zenon
<1> HIDE DEF t
<1>5. /\ u \in Seq(S) /\ Len(u) = n + 1
      /\ \A i \in 1 .. n + 1 : u[i] = t[((n + 1) - i) + 1]
  <2>1. /\ u \in Seq(S) /\ Len(u) = Len(t)
        /\ \A i \in 1 .. Len(t) : u[i] = t[(Len(t) - i) + 1]
    BY <1>3, ReverseSeq, Zenon
  <2>2. Len(t) = n + 1
    BY <1>3
  <2> QED
    BY <2>1, <2>2, Zenon
<1>6. /\ v \in Seq(S) /\ Len(v) = n + 1
      /\ \A i \in 1 .. n : v[i] = s[(n - i) + 1]
      /\ v[n + 1] = x
  BY <1>4, AppendProperties
<1> HIDE DEF u, v
<1>7. ASSUME NEW i \in 1 .. n + 1 PROVE u[i] = v[i]
  <2>1. CASE i = n + 1
    <3>1. ((n + 1) - i) + 1 = 1 /\ 1 \in 1 .. n + 1
      BY <2>1
    <3>2. u[i] = t[1] /\ t[1] = one[1]
      BY <1>3, <1>5, <3>1
    <3> QED
      BY <1>1, <1>6, <2>1, <3>2, Zenon
  <2>2. CASE i # n + 1
    <3>1. PICK j \in 2 .. n + 1 : j = ((n + 1) - i) + 1 /\ j - 1 = (n - i) + 1
      BY <2>2
    <3>2. i \in 1 .. n /\ j \in 1 .. n + 1 /\ ~(j <= 1)
      BY <2>2
    <3>3. u[i] = t[j] /\ t[j] = s[j - 1]
      BY <1>3, <1>5, <3>1, <3>2
    <3>4. v[i] = s[j - 1]
      BY <1>6, <3>1, <3>2
    <3> QED
      BY <3>3, <3>4
  <2> QED
    BY <2>1, <2>2
<1>8. u = v
  BY <1>5, <1>6, <1>7, SeqEqual
<1> QED
  BY <1>2, <1>3, <1>8 DEF t, u, v, one

LEMMA ReverseLast ==
    ASSUME NEW S, NEW s \in Seq(S), s # <<>>
    PROVE  /\ Reverse(s) # <<>> /\ Reverse(s)[1] = Last(s) /\ Last(s) \in S
           /\ Front(s) \in Seq(S) /\ Len(Front(s)) = Len(s) - 1
           /\ Reverse(Front(s)) = Tail(Reverse(s))
<1>1. PICK n \in Nat \ {0} : n = Len(s)
  BY EmptySeq
<1>2. /\ Reverse(s) \in Seq(S) /\ Len(Reverse(s)) = n
      /\ \A i \in 1 .. n : Reverse(s)[i] = s[(n - i) + 1]
  BY <1>1, ReverseSeq
<1>3. Reverse(s) # <<>>
  BY <1>1, <1>2, EmptySeq
<1>4. Reverse(s)[1] = Last(s) /\ Last(s) \in S
  <2>1. 1 \in 1 .. n /\ (n - 1) + 1 = n /\ n \in 1 .. Len(s)
    BY <1>1
  <2> QED
    BY <1>1, <1>2, <2>1, ElementOfSeq DEF Last
<1>5. /\ Front(s) \in Seq(S) /\ Len(Front(s)) = n - 1
      /\ \A i \in 1 .. n - 1 : Front(s)[i] = s[i]
  <2>1. n - 1 \in 0 .. Len(s)
    BY <1>1
  <2>2. Front(s) \in Seq(S) /\ Len(Front(s)) = n - 1
    BY <1>1, <2>1, CutSeq DEF Front
  <2>3. \A i \in 1 .. n - 1 : Front(s)[i] = s[i]
    BY <1>1 DEF Front
  <2> QED
    BY <2>2, <2>3
<1>6. /\ Reverse(Front(s)) \in Seq(S) /\ Len(Reverse(Front(s))) = n - 1
      /\ \A i \in 1 .. n - 1 : Reverse(Front(s))[i] = Front(s)[((n - 1) - i) + 1]
  BY <1>5, ReverseSeq
<1>7. /\ Tail(Reverse(s)) \in Seq(S) /\ Len(Tail(Reverse(s))) = n - 1
      /\ \A i \in 1 .. n - 1 : Tail(Reverse(s))[i] = Reverse(s)[i + 1]
  BY <1>2, <1>3, HeadTailProperties
<1>8. ASSUME NEW i \in 1 .. n - 1 PROVE Reverse(Front(s))[i] = Tail(Reverse(s))[i]
  <2>1. PICK j \in 1 .. n - 1 : j = ((n - 1) - i) + 1 /\ j = (n - (i + 1)) + 1
    BY <1>1
  <2>2. i + 1 \in 1 .. n
    BY <1>1
  <2>3. Reverse(Front(s))[i] = Front(s)[j] /\ Front(s)[j] = s[j]
    BY <1>5, <1>6, <2>1
  <2>4. Tail(Reverse(s))[i] = Reverse(s)[i + 1] /\ Reverse(s)[i + 1] = s[j]
    BY <1>2, <1>7, <2>1, <2>2
  <2> QED
    BY <2>3, <2>4
<1>9. Reverse(Front(s)) = Tail(Reverse(s))
  BY <1>6, <1>7, <1>8, SeqEqual
<1> QED
  BY <1>1, <1>3, <1>4, <1>5, <1>9

Regrouped(a, b, c) == (a \o b) \o c = a \o (b \o c)

LEMMA Associates ==
    ASSUME NEW S, NEW a \in Seq(S), NEW b \in Seq(S), NEW c \in Seq(S)
    PROVE  Regrouped(a, b, c)
  BY DEF Regrouped

\* Renaming the files b when w becomes the first of them loses and reorders nothing.
Rotates(S, b, w) ==
    /\ FlattenSeq(Reverse(b)) \in Seq(S)
    /\ <<w>> \o b \in Seq(Seq(S)) /\ Len(<<w>> \o b) = Len(b) + 1
    /\ FlattenSeq(Reverse(<<w>> \o b)) = FlattenSeq(Reverse(b)) \o w
    /\ b # <<>> => /\ Last(b) \in Seq(S) /\ <<w>> \o Front(b) \in Seq(Seq(S))
                   /\ Len(<<w>> \o Front(b)) = Len(b)
                   /\ FlattenSeq(Reverse(<<w>> \o Front(b))) \in Seq(S)
                   /\ Last(b) \o FlattenSeq(Reverse(<<w>> \o Front(b))) = FlattenSeq(Reverse(b)) \o w

LEMMA RotationKeeps ==
    ASSUME NEW S, NEW b \in Seq(Seq(S)), NEW w \in Seq(S)
    PROVE  Rotates(S, b, w)
<1>1. Reverse(b) \in Seq(Seq(S)) /\ Len(b) \in Nat
  BY ReverseSeq, LenProperties
<1>2. FlattenSeq(Reverse(b)) \in Seq(S) /\ FlattenSeq(Append(Reverse(b), w)) = FlattenSeq(Reverse(b)) \o w
  BY <1>1, FlattenAppend
<1>3. <<w>> \o b \in Seq(Seq(S)) /\ Len(<<w>> \o b) = Len(b) + 1 /\ Reverse(<<w>> \o b) = Append(Reverse(b), w)
  BY ReverseFirst
<1>4. ASSUME b # <<>>
      PROVE  /\ Last(b) \in Seq(S) /\ <<w>> \o Front(b) \in Seq(Seq(S))
             /\ Len(<<w>> \o Front(b)) = Len(b)
             /\ FlattenSeq(Reverse(<<w>> \o Front(b))) \in Seq(S)
             /\ Last(b) \o FlattenSeq(Reverse(<<w>> \o Front(b))) = FlattenSeq(Reverse(b)) \o w
  <2> DEFINE rest == FlattenSeq(Reverse(Front(b)))
  <2>1. /\ Reverse(b) # <<>> /\ Reverse(b)[1] = Last(b) /\ Last(b) \in Seq(S)
        /\ Front(b) \in Seq(Seq(S)) /\ Len(Front(b)) = Len(b) - 1
        /\ Reverse(Front(b)) = Tail(Reverse(b))
    BY <1>4, ReverseLast
  <2>2. Reverse(Front(b)) \in Seq(Seq(S))
    BY <2>1, ReverseSeq
  <2>3. rest \in Seq(S) /\ FlattenSeq(Append(Reverse(Front(b)), w)) = rest \o w
    BY <2>2, FlattenAppend
  <2>4. /\ <<w>> \o Front(b) \in Seq(Seq(S)) /\ Len(<<w>> \o Front(b)) = Len(Front(b)) + 1
        /\ Reverse(<<w>> \o Front(b)) = Append(Reverse(Front(b)), w)
    BY <2>1, ReverseFirst
  <2>5. FlattenSeq(Reverse(b)) = Last(b) \o rest
    <3>1. FlattenSeq(Reverse(b)) = Reverse(b)[1] \o FlattenSeq(Tail(Reverse(b)))
      BY <1>1, <2>1, FlattenHead, Zenon
    <3> QED
      BY <2>1, <3>1, Zenon
  <2> HIDE DEF rest
  <2>6. FlattenSeq(Reverse(<<w>> \o Front(b))) = rest \o w
    BY <2>3, <2>4, Zenon
  <2>7. (Last(b) \o rest) \o w = Last(b) \o (rest \o w)
    <3>1. PICK x \in Seq(S), y \in Seq(S) : x = Last(b) /\ y = rest
      BY <2>1, <2>3, Zenon
    <3>2. (x \o y) \o w = x \o (y \o w)
      <4>1. Regrouped(x, y, w)
        BY Associates, Zenon
      <4> QED
        BY <4>1, Zenon DEF Regrouped
    <3> QED
      BY <3>1, <3>2, Zenon
  <2>8. rest \o w \in Seq(S)
    BY <2>3, ConcatProperties
  <2>9. Len(<<w>> \o Front(b)) = Len(b)
    BY <1>1, <2>1, <2>4
  <2>10. Last(b) \o FlattenSeq(Reverse(<<w>> \o Front(b))) = FlattenSeq(Reverse(b)) \o w
    BY <2>5, <2>6, <2>7, Zenon
  <2>11. FlattenSeq(Reverse(<<w>> \o Front(b))) \in Seq(S)
    BY <2>6, <2>8, Zenon
  <2> QED
    BY <2>1, <2>4, <2>9, <2>10, <2>11, Zenon
<1> QED
  BY <1>2, <1>3, <1>4, Zenon DEF Rotates

-----------------------------------------------------------------------------
(* The inductive invariant                                                   *)

Threads == [ev : Ev, pc : {"idle", "file", "hook", "live"}]
History == [file : Seq(Ev), hooked : Nat, lost : Nat, n : Nat, old : Seq(Line), from : Nat]

AuditTypes ==
    /\ rec \in [Recorders -> Threads]
    /\ fileRing \in Seq(Ev) /\ popped \in Seq(Ev) /\ hookRing \in Seq(Ev) /\ chain \in Seq(Ev)
    /\ hook \in [batch : Seq(Ev), attempt : Nat]
    /\ dropped \in [file : Nat, hook : Nat] /\ posts \in [ok : Nat, failed : Nat]
    /\ file \in Seq(Line)
    /\ backups \in Seq(Seq(Line)) /\ Len(backups) <= MaxBackups
    /\ hist \in History

\* The events that are signed, with the worker and in the ring, of those that were pushed.
FileAccounted ==
    /\ Embeds((chain \o popped) \o fileRing, hist.file)
    /\ Len(hist.file) = Len(chain) + Len(popped) + Len(fileRing) + dropped.file + hist.lost

HookAccounted == hist.hooked = Len(hookRing) + Len(hook.batch) + posts.ok + posts.failed + dropped.hook

\* The log ends with the lines of this process: those of its chain.
LogIsChain ==
    /\ hist.from <= Len(AllLines)
    /\ OwnLines = Lines(<<>>, chain)

\* The live ring holds the last LiveCap numbers, and the client is somewhere before their end.
LiveAccounted ==
    /\ next \in Nat \ {0} /\ live \in [0 .. LiveCap - 1 -> Nat]
    /\ \A s \in Oldest .. next - 1 : live[(s - 1) % LiveCap] = s
    /\ client \in [after : Nat, base : Nat, got : Seq(Nat), missed : Nat]
    /\ client.after <= next - 1
    /\ Ascending(client.got) /\ \A i \in DOMAIN client.got : client.got[i] <= client.after
    /\ client.after - client.base = Len(client.got) + client.missed
    /\ client.after = 0 => client.got = <<>> /\ client.base = 0 /\ client.missed = 0

AuditInv == AuditTypes /\ FileAccounted /\ HookAccounted /\ LogIsChain /\ LiveAccounted

-----------------------------------------------------------------------------
(* What the operations compute                                               *)

Pushed(q, ring, ev) ==
    /\ q.ring \in Seq(Ev) /\ q.evicted \in Nat
    /\ Len(q.ring) + q.evicted = Len(ring) + 1
    /\ \/ q.ring = Append(ring, ev)
       \/ ring # <<>> /\ q.ring = Append(Tail(ring), ev)

LEMMA PushFacts ==
    ASSUME NEW ring \in Seq(Ev), NEW ev \in Ev, NEW cap \in Nat \ {0}
    PROVE  Pushed(audit_ring_push(ring, ev, cap), ring, ev)
<1> DEFINE q == audit_ring_push(ring, ev, cap)
<1>1. PICK n \in Nat : n = Len(ring)
  BY LenProperties
<1>2. CASE n = cap
  <2>1. q = [ring |-> Append(Tail(ring), ev), evicted |-> 1]
    BY <1>1, <1>2 DEF audit_ring_push
  <2>2. ring # <<>>
    BY <1>1, <1>2, EmptySeq
  <2>3. Tail(ring) \in Seq(Ev) /\ Len(Tail(ring)) = n - 1
    BY <1>1, <2>2, HeadTailProperties
  <2>4. Append(Tail(ring), ev) \in Seq(Ev) /\ Len(Append(Tail(ring), ev)) = n - 1 + 1
    BY <2>3, AppendProperties
  <2> HIDE DEF q
  <2>5. q.ring = Append(Tail(ring), ev) /\ q.evicted = 1
    BY <2>1
  <2>6. Len(q.ring) + q.evicted = Len(ring) + 1
    BY <1>1, <2>4, <2>5
  <2>7. Pushed(q, ring, ev)
    BY <2>2, <2>4, <2>5, <2>6 DEF Pushed
  <2> QED
    BY <2>7 DEF q
<1>3. CASE n # cap
  <2>1. q = [ring |-> Append(ring, ev), evicted |-> 0]
    BY <1>1, <1>3 DEF audit_ring_push
  <2>2. Append(ring, ev) \in Seq(Ev) /\ Len(Append(ring, ev)) = n + 1
    BY <1>1, AppendProperties
  <2> HIDE DEF q
  <2>3. q.ring = Append(ring, ev) /\ q.evicted = 0
    BY <2>1
  <2>4. Len(q.ring) + q.evicted = Len(ring) + 1
    BY <1>1, <2>2, <2>3
  <2>6. q.ring \in Seq(Ev) /\ q.evicted \in Nat
    BY <2>2, <2>3
  <2>7. q.ring = Append(ring, ev)
    BY <2>3
  <2>5. Pushed(q, ring, ev)
    BY <2>4, <2>6, <2>7 DEF Pushed
  <2> QED
    BY <2>5 DEF q
<1> QED
  BY <1>2, <1>3

\* A batch and what stays in the ring.
LEMMA PopFacts ==
    ASSUME NEW ring \in Seq(Ev), NEW batch \in Nat \ {0},
           NEW k, k = IF Len(ring) < batch THEN Len(ring) ELSE batch
    PROVE  /\ SubSeq(ring, 1, k) \in Seq(Ev) /\ SubSeq(ring, k + 1, Len(ring)) \in Seq(Ev)
           /\ SubSeq(ring, 1, k) \o SubSeq(ring, k + 1, Len(ring)) = ring
           /\ Len(SubSeq(ring, 1, k)) + Len(SubSeq(ring, k + 1, Len(ring))) = Len(ring)
<1>1. PICK n \in Nat : n = Len(ring)
  BY LenProperties
<1>2. k \in 0 .. n
  BY <1>1
<1>3. /\ SubSeq(ring, 1, k) \in Seq(Ev) /\ SubSeq(ring, k + 1, Len(ring)) \in Seq(Ev)
      /\ SubSeq(ring, 1, k) \o SubSeq(ring, k + 1, Len(ring)) = ring
      /\ Len(SubSeq(ring, 1, k)) = k /\ Len(SubSeq(ring, k + 1, Len(ring))) = Len(ring) - k
  <2>1. k \in 0 .. Len(ring)
    BY <1>1, <1>2
  <2> QED
    BY <2>1, CutSeq, Zenon
<1>4. k + (n - k) = n
  BY <1>2
<1> QED
  BY <1>1, <1>3, <1>4, Zenon

\* The log of the given files.
Whole(old, b, f) == (old \o FlattenSeq(Reverse(b))) \o f

\* Lines appended to the file come last, and a rotation of the file changes nothing.
WholeKept(old, b, f, ls) ==
    /\ Whole(old, b, f \o ls) = Whole(old, b, f) \o ls
    /\ Whole(old, <<f>> \o b, <<>>) = Whole(old, b, f)
    /\ b # <<>> => Whole(old \o Last(b), <<f>> \o Front(b), <<>>) = Whole(old, b, f)

LEMMA WholeFacts ==
    ASSUME NEW S, NEW old \in Seq(S), NEW b \in Seq(Seq(S)), NEW f \in Seq(S), NEW ls \in Seq(S)
    PROVE  Whole(old, b, f) \in Seq(S) /\ WholeKept(old, b, f, ls)
<1>0. Rotates(S, b, f)
  BY RotationKeeps, Zenon
<1>1. PICK m \in Seq(S) : m = FlattenSeq(Reverse(b))
  BY <1>0, Zenon DEF Rotates
<1>2. old \o m \in Seq(S) /\ (old \o m) \o f \in Seq(S)
  <2>1. old \o m \in Seq(S)
    BY ConcatProperties
  <2> QED
    BY <2>1, ConcatProperties
<1>3. ((old \o m) \o f) \o ls = (old \o m) \o (f \o ls)
  <2>1. PICK x \in Seq(S) : x = old \o m
    BY <1>2
  <2>2. (x \o f) \o ls = x \o (f \o ls)
    <3>1. Regrouped(x, f, ls)
      BY Associates, Zenon
    <3> QED
      BY <3>1, Zenon DEF Regrouped
  <2> QED
    BY <2>1, <2>2, Zenon
<1>4. Whole(old, b, f) \in Seq(S) /\ Whole(old, b, f \o ls) = Whole(old, b, f) \o ls
  BY <1>1, <1>2, <1>3, Zenon DEF Whole
<1>5. Whole(old, <<f>> \o b, <<>>) = Whole(old, b, f)
  <2>1. FlattenSeq(Reverse(<<f>> \o b)) = m \o f
    <3>1. FlattenSeq(Reverse(<<f>> \o b)) = FlattenSeq(Reverse(b)) \o f
      BY <1>0, Zenon DEF Rotates
    <3> QED
      BY <1>1, <3>1, Zenon
  <2>2. (old \o m) \o f = old \o (m \o f)
    <3>1. Regrouped(old, m, f)
      BY Associates, Zenon
    <3> QED
      BY <3>1, Zenon DEF Regrouped
  <2>3. ((old \o m) \o f) \o <<>> = (old \o m) \o f
    BY <1>2, ConcatEmptySeq, Zenon
  <2> QED
    BY <1>1, <2>1, <2>2, <2>3, Zenon DEF Whole
<1>6. ASSUME b # <<>> PROVE Whole(old \o Last(b), <<f>> \o Front(b), <<>>) = Whole(old, b, f)
  <2>1. /\ Last(b) \in Seq(S)
        /\ FlattenSeq(Reverse(<<f>> \o Front(b))) \in Seq(S)
        /\ Last(b) \o FlattenSeq(Reverse(<<f>> \o Front(b))) = m \o f
    BY <1>0, <1>1, <1>6, Zenon DEF Rotates
  <2>2. PICK x \in Seq(S), y \in Seq(S) : x = Last(b) /\ y = FlattenSeq(Reverse(<<f>> \o Front(b)))
    BY <2>1, Zenon
  <2>3. (old \o x) \o y = old \o (x \o y)
    <3>1. Regrouped(old, x, y)
      BY Associates, Zenon
    <3> QED
      BY <3>1, Zenon DEF Regrouped
  <2>4. (old \o m) \o f = old \o (m \o f)
    <3>1. Regrouped(old, m, f)
      BY Associates, Zenon
    <3> QED
      BY <3>1, Zenon DEF Regrouped
  <2>5. (old \o x) \o y = (old \o m) \o f
    BY <2>1, <2>2, <2>3, <2>4, Zenon
  <2>6. ((old \o m) \o f) \o <<>> = (old \o m) \o f
    BY <1>2, ConcatEmptySeq, Zenon
  <2> QED
    BY <1>1, <2>2, <2>5, <2>6, Zenon DEF Whole
<1> QED
  BY <1>4, <1>5, <1>6, Zenon DEF WholeKept

-----------------------------------------------------------------------------
(* The history and the counters, a field at a time                           *)

LEMMA HistoryNumbered ==
    ASSUME NEW h \in History, NEW x \in Nat, NEW g, g = [h EXCEPT !.n = x]
    PROVE  /\ g \in History /\ g.n = x
           /\ g.file = h.file /\ g.hooked = h.hooked /\ g.lost = h.lost /\ g.old = h.old /\ g.from = h.from
  BY DEF History

LEMMA HistoryPushing ==
    ASSUME NEW h \in History, NEW x \in Seq(Ev), NEW g, g = [h EXCEPT !.file = x]
    PROVE  /\ g \in History /\ g.file = x
           /\ g.hooked = h.hooked /\ g.lost = h.lost /\ g.n = h.n /\ g.old = h.old /\ g.from = h.from
  BY DEF History

LEMMA HistoryHooked ==
    ASSUME NEW h \in History, NEW x \in Nat, NEW g, g = [h EXCEPT !.hooked = x]
    PROVE  /\ g \in History /\ g.hooked = x
           /\ g.file = h.file /\ g.lost = h.lost /\ g.n = h.n /\ g.old = h.old /\ g.from = h.from
  BY DEF History

LEMMA HistoryLosing ==
    ASSUME NEW h \in History, NEW x \in Nat, NEW g, g = [h EXCEPT !.lost = x]
    PROVE  /\ g \in History /\ g.lost = x
           /\ g.file = h.file /\ g.hooked = h.hooked /\ g.n = h.n /\ g.old = h.old /\ g.from = h.from
  BY DEF History

LEMMA HistoryUnlinking ==
    ASSUME NEW h \in History, NEW x \in Seq(Line), NEW g, g = [h EXCEPT !.old = x]
    PROVE  /\ g \in History /\ g.old = x
           /\ g.file = h.file /\ g.hooked = h.hooked /\ g.lost = h.lost /\ g.n = h.n /\ g.from = h.from
  BY DEF History

LEMMA DroppedFile ==
    ASSUME NEW d \in [file : Nat, hook : Nat], NEW x \in Nat, NEW g, g = [d EXCEPT !.file = d.file + x]
    PROVE  g \in [file : Nat, hook : Nat] /\ g.file = d.file + x /\ g.hook = d.hook
  OBVIOUS

LEMMA DroppedHook ==
    ASSUME NEW d \in [file : Nat, hook : Nat], NEW x \in Nat, NEW g, g = [d EXCEPT !.hook = d.hook + x]
    PROVE  g \in [file : Nat, hook : Nat] /\ g.hook = d.hook + x /\ g.file = d.file
  OBVIOUS

-----------------------------------------------------------------------------
(* Parts of the invariant that a step leaves alone                           *)

LEMMA FileFrame ==
    ASSUME FileAccounted, UNCHANGED <<chain, popped, fileRing>>,
           dropped'.file = dropped.file, hist'.file = hist.file, hist'.lost = hist.lost
    PROVE  FileAccounted'
  BY DEF FileAccounted

LEMMA HookFrame ==
    ASSUME HookAccounted, UNCHANGED <<hookRing, hook, posts>>, dropped'.hook = dropped.hook, hist'.hooked = hist.hooked
    PROVE  HookAccounted'
  BY DEF HookAccounted

LEMMA LogFrame ==
    ASSUME LogIsChain, UNCHANGED <<file, backups, chain>>, hist'.old = hist.old, hist'.from = hist.from
    PROVE  LogIsChain'
<1>1. AllLines' = AllLines
  BY Zenon DEF AllLines
<1>2. OwnLines' = OwnLines
  BY <1>1, Zenon DEF OwnLines
<1> QED
  BY <1>1, <1>2, Zenon DEF LogIsChain

LEMMA LiveFrame ==
    ASSUME LiveAccounted, UNCHANGED view
    PROVE  LiveAccounted'
<1>1. live' = live /\ next' = next /\ client' = client
  BY DEF view
<1>2. Oldest' = Oldest
  BY <1>1, Zenon DEF Oldest
<1> QED
  BY <1>1, <1>2, Zenon DEF LiveAccounted

LEMMA AllLinesAre ==
    ASSUME AuditTypes
    PROVE  AllLines = Whole(hist.old, backups, file) /\ AllLines \in Seq(Line)
<1>1. hist.old \in Seq(Line) /\ backups \in Seq(Seq(Line)) /\ file \in Seq(Line)
  BY DEF AuditTypes, History
<1>2. AllLines = Whole(hist.old, backups, file)
  BY Zenon DEF AllLines, Whole
<1> QED
  BY <1>1, <1>2, EmptySeq, WholeFacts

-----------------------------------------------------------------------------
(* The first state                                                           *)

LEMMA AuditStarts ==
    ASSUME AuditInit
    PROVE  AuditInv
<1>0. /\ <<>> \in Seq(Ev) /\ <<>> \in Seq(Line) /\ <<>> \in Seq(Seq(Line)) /\ <<>> \in Seq(Nat) /\ Len(<<>>) = 0
      /\ DOMAIN <<>> = 1 .. 0
  <2>1. <<>> \in Seq(Ev) /\ <<>> \in Seq(Line) /\ <<>> \in Seq(Seq(Line)) /\ <<>> \in Seq(Nat) /\ Len(<<>>) = 0
    BY EmptySeq
  <2> QED
    BY <2>1, LenProperties
<1>1. AuditTypes
  <2>1. Quiet \in Threads
    BY DEF Quiet, Threads, Ev, Severities
  <2>2. rec \in [Recorders -> Threads]
    BY <2>1 DEF AuditInit
  <2>3. hist \in History
    BY <1>0 DEF AuditInit, NoPushes, History
  <2>4. Len(backups) <= MaxBackups
    BY <1>0, AuditAssumption DEF AuditInit
  <2> QED
    BY <1>0, <2>2, <2>3, <2>4 DEF AuditInit, AuditTypes
<1>2. FileAccounted
  <2>1. (chain \o popped) \o fileRing = <<>> /\ hist.file = <<>> /\ hist.lost = 0 /\ dropped.file = 0
    BY <1>0, ConcatEmptySeq DEF AuditInit, NoPushes
  <2>2. Embeds(<<>>, <<>>)
    <3> DEFINE f == [i \in DOMAIN <<>> |-> i]
    <3>1. f \in [DOMAIN <<>> -> DOMAIN <<>>]
      OBVIOUS
    <3>2. \A i \in DOMAIN <<>> : FALSE
      BY <1>0
    <3> QED
      BY <3>1, <3>2, Zenon DEF Embeds
  <2> QED
    BY <1>0, <2>1, <2>2 DEF FileAccounted, AuditInit
<1>3. HookAccounted
  BY <1>0 DEF AuditInit, NoPushes, HookAccounted
<1>4. LogIsChain
  <2>1. FlattenSeq(Reverse(<<>>)) = <<>>
    <3>1. Reverse(<<>>) \in Seq(Seq(Line)) /\ Len(Reverse(<<>>)) = 0
      BY <1>0, ReverseSeq
    <3>2. Reverse(<<>>) = <<>>
      BY <3>1, EmptySeq
    <3> QED
      BY <1>0, <3>2, Zenon DEF FlattenSeq
  <2>2. AllLines = <<>>
    <3>1. hist.old = <<>> /\ backups = <<>> /\ file = <<>>
      BY DEF AuditInit, NoPushes
    <3> QED
      BY <1>0, <2>1, <3>1, ConcatEmptySeq, Zenon DEF AllLines
  <2>3. hist.from = 0 /\ chain = <<>>
    BY DEF AuditInit, NoPushes
  <2>4. OwnLines = <<>>
    BY <1>0, <2>2, <2>3, SubSeqEmpty DEF OwnLines
  <2>5. Lines(<<>>, <<>>) = <<>>
    <3>1. Lines(<<>>, <<>>) \in Seq(Line) /\ Len(Lines(<<>>, <<>>)) = 0
      BY <1>0, LinesSeq
    <3> QED
      BY <3>1, EmptySeq
  <2> QED
    BY <1>0, <2>2, <2>3, <2>4, <2>5 DEF LogIsChain
<1>5. LiveAccounted
  <2>1. LiveCap \in Nat \ {0}
    BY AuditAssumption
  <2>2. next = 1 /\ Oldest = 1
    BY <2>1 DEF AuditInit, Oldest
  <2>3. live \in [0 .. LiveCap - 1 -> Nat]
    BY DEF AuditInit
  <2>4. /\ client \in [after : Nat, base : Nat, got : Seq(Nat), missed : Nat]
        /\ client.after = 0 /\ client.base = 0 /\ client.got = <<>> /\ client.missed = 0
    BY <1>0 DEF AuditInit, NewClient
  <2>5. Ascending(client.got) /\ \A i \in DOMAIN client.got : client.got[i] <= client.after
    BY <1>0, <2>4 DEF Ascending
  <2> QED
    BY <1>0, <2>2, <2>3, <2>4, <2>5 DEF LiveAccounted
<1> QED
  BY <1>1, <1>2, <1>3, <1>4, <1>5 DEF AuditInv

-----------------------------------------------------------------------------
(* The steps of the request threads                                          *)

LEMMA RecordingIs ==
    ASSUME NEW ev \in Ev, NEW left
    PROVE  Recording(ev, left) \in Threads
  BY DEF Recording, Threads

LEMMA RecordBegins ==
    ASSUME AuditInv, NEW r \in Recorders, aigate_record_audit_ex(r)
    PROVE  AuditInv'
<1>1. PICK sev \in Severities :
        rec' = [rec EXCEPT ![r] = Recording([n |-> hist.n + 1, sev |-> sev], {"file", "hook"})]
  BY DEF aigate_record_audit_ex
<1>2. /\ hist' \in History /\ hist'.file = hist.file /\ hist'.lost = hist.lost /\ hist'.old = hist.old
      /\ hist'.hooked = hist.hooked /\ hist'.from = hist.from /\ hist.n + 1 \in Nat
  <2>1. hist \in History /\ hist' = [hist EXCEPT !.n = hist.n + 1]
    BY DEF AuditInv, AuditTypes, aigate_record_audit_ex
  <2>2. hist.n + 1 \in Nat
    BY <2>1 DEF History
  <2> QED
    BY <2>1, <2>2, HistoryNumbered
<1>3. UNCHANGED <<fileRing, hookRing, popped, hook, dropped, posts, file, backups, chain, live, next, client>>
  BY DEF aigate_record_audit_ex, rings, disk, view
<1>4. AuditTypes'
  <2>1. [n |-> hist.n + 1, sev |-> sev] \in Ev
    BY <1>2 DEF Ev
  <2>2. Recording([n |-> hist.n + 1, sev |-> sev], {"file", "hook"}) \in Threads
    BY <2>1, RecordingIs
  <2>3. rec' \in [Recorders -> Threads]
    BY <1>1, <2>2 DEF AuditInv, AuditTypes
  <2> QED
    BY <1>2, <1>3, <2>3 DEF AuditInv, AuditTypes
<1>5. FileAccounted'
  BY <1>2, <1>3, FileFrame DEF AuditInv
<1>6. HookAccounted'
  BY <1>2, <1>3, HookFrame DEF AuditInv
<1>7. LogIsChain'
  BY <1>2, <1>3, LogFrame DEF AuditInv
<1>8. LiveAccounted'
  BY <1>3, LiveFrame DEF AuditInv, view
<1> QED
  BY <1>4, <1>5, <1>6, <1>7, <1>8 DEF AuditInv

LEMMA RecordFileStep ==
    ASSUME AuditInv, NEW r \in Recorders, RecordFile(r)
    PROVE  AuditInv'
<1> DEFINE ev == rec[r].ev
           q == audit_ring_push(fileRing, ev, FileCap)
<1>1. /\ ev \in Ev /\ fileRing \in Seq(Ev) /\ hist.file \in Seq(Ev) /\ FileCap \in Nat \ {0}
      /\ hist \in History /\ dropped \in [file : Nat, hook : Nat]
  BY AuditAssumption DEF AuditInv, AuditTypes, Threads, History
<1>2. /\ fileRing' = q.ring /\ dropped' = [dropped EXCEPT !.file = dropped.file + q.evicted]
      /\ hist' = [hist EXCEPT !.file = Append(hist.file, ev)]
      /\ rec' = [rec EXCEPT ![r] = Recording(ev, {"hook"})]
      /\ UNCHANGED <<hookRing, popped, hook, posts, file, backups, chain, live, next, client>>
  BY DEF RecordFile, disk, view, AuditInv, AuditTypes
<1>3. /\ q.ring \in Seq(Ev) /\ q.evicted \in Nat
      /\ Len(q.ring) + q.evicted = Len(fileRing) + 1
      /\ \/ q.ring = Append(fileRing, ev)
         \/ fileRing # <<>> /\ q.ring = Append(Tail(fileRing), ev)
  <2>1. Pushed(q, fileRing, ev)
    BY <1>1, PushFacts, Zenon
  <2> QED
    BY <2>1, Zenon DEF Pushed
<1>4. Append(hist.file, ev) \in Seq(Ev) /\ Len(Append(hist.file, ev)) = Len(hist.file) + 1
  BY <1>1, AppendProperties
<1> HIDE DEF ev, q
<1>5. /\ hist' \in History /\ hist'.file = Append(hist.file, ev) /\ hist'.lost = hist.lost
      /\ hist'.old = hist.old /\ hist'.hooked = hist.hooked /\ hist'.from = hist.from
  <2>1. PICK w \in Seq(Ev) : w = Append(hist.file, ev)
    BY <1>4, Zenon
  <2>2. hist' = [hist EXCEPT !.file = w]
    BY <1>2, <2>1, Zenon
  <2>3. /\ hist' \in History /\ hist'.file = w /\ hist'.lost = hist.lost
        /\ hist'.old = hist.old /\ hist'.hooked = hist.hooked /\ hist'.from = hist.from
    BY <1>1, <2>2, HistoryPushing
  <2> QED
    BY <2>1, <2>3, Zenon
<1>6. /\ dropped' \in [file : Nat, hook : Nat] /\ dropped'.file = dropped.file + q.evicted
      /\ dropped'.hook = dropped.hook
  BY <1>1, <1>2, <1>3, DroppedFile, Zenon
<1>7. AuditTypes'
  <2>1. Recording(ev, {"hook"}) \in Threads
    BY <1>1, RecordingIs
  <2>2. rec' \in [Recorders -> Threads]
    BY <1>2, <2>1 DEF AuditInv, AuditTypes
  <2> QED
    BY <1>2, <1>3, <1>5, <1>6, <2>2 DEF AuditInv, AuditTypes
<1>8. FileAccounted'
  <2>1. PICK w \in Seq(Ev) : w = chain \o popped
    BY ConcatProperties DEF AuditInv, AuditTypes
  <2>2. Embeds(w \o fileRing, hist.file)
    BY <2>1 DEF AuditInv, FileAccounted
  <2>3. Embeds(w \o q.ring, Append(hist.file, ev))
    <3>1. CASE q.ring = Append(fileRing, ev)
      <4>1. w \o Append(fileRing, ev) = Append(w \o fileRing, ev) /\ w \o fileRing \in Seq(Ev)
        BY <1>1, ConcatProperties
      <4>2. Embeds(Append(w \o fileRing, ev), Append(hist.file, ev))
        BY <1>1, <2>2, <4>1, EmbedAppend, Zenon
      <4> QED
        BY <3>1, <4>1, <4>2, Zenon
    <3>2. CASE fileRing # <<>> /\ q.ring = Append(Tail(fileRing), ev)
      <4>1. PICK h \in Seq(Ev), t \in Seq(Ev) : t = Tail(fileRing) /\ fileRing = h \o t
        <5>1. Tail(fileRing) \in Seq(Ev) /\ <<Head(fileRing)>> \in Seq(Ev) /\ fileRing = <<Head(fileRing)>> \o Tail(fileRing)
          BY <1>1, <3>2
        <5> QED
          BY <5>1
      <4>2. Embeds((w \o h) \o t, hist.file)
        <5>1. Regrouped(w, h, t)
          BY Associates, Zenon
        <5> QED
          BY <2>2, <4>1, <5>1, Zenon DEF Regrouped
      <4>3. Embeds(w \o t, hist.file)
        BY <1>1, <4>2, EmbedDrop, Zenon
      <4>4. w \o Append(t, ev) = Append(w \o t, ev) /\ w \o t \in Seq(Ev)
        BY <1>1, ConcatProperties
      <4>5. Embeds(Append(w \o t, ev), Append(hist.file, ev))
        BY <1>1, <4>3, <4>4, EmbedAppend, Zenon
      <4> QED
        BY <3>2, <4>1, <4>4, <4>5, Zenon
    <3> QED
      BY <1>3, <3>1, <3>2
  <2>4. Embeds((chain' \o popped') \o fileRing', hist'.file)
    BY <1>2, <1>5, <2>1, <2>3, Zenon
  <2>5. Len(hist'.file) = Len(chain') + Len(popped') + Len(fileRing') + dropped'.file + hist'.lost
    <3>1. PICK a \in Nat, b \in Nat, c \in Nat, d \in Nat, e \in Nat :
            /\ a = Len(chain) /\ b = Len(popped) /\ c = Len(fileRing) /\ d = dropped.file /\ e = hist.lost
            /\ Len(hist.file) = a + b + c + d + e
      BY LenProperties DEF AuditInv, AuditTypes, FileAccounted, History
    <3>2. PICK x \in Nat, y \in Nat : x = Len(q.ring) /\ y = q.evicted /\ x + y = c + 1
      BY <1>3, <3>1, LenProperties
    <3>3. /\ Len(hist'.file) = a + b + c + d + e + 1 /\ Len(chain') = a /\ Len(popped') = b
          /\ Len(fileRing') = x /\ dropped'.file = d + y /\ hist'.lost = e
      <4>1. Len(hist'.file) = Len(hist.file) + 1
        BY <1>4, <1>5, Zenon
      <4>2. Len(hist'.file) = a + b + c + d + e + 1
        BY <3>1, <4>1, Zenon
      <4>3. Len(chain') = a /\ Len(popped') = b /\ Len(fileRing') = x
        BY <1>2, <3>1, <3>2, Zenon
      <4>4. dropped'.file = d + y /\ hist'.lost = e
        BY <1>5, <1>6, <3>1, <3>2, Zenon
      <4> QED
        BY <4>2, <4>3, <4>4
    <3>4. a + b + c + d + e + 1 = a + b + x + (d + y) + e
      <4>1. x + y = c + 1
        BY <3>2
      <4> QED
        BY <4>1
    <3> QED
      BY <3>3, <3>4
  <2> QED
    BY <2>4, <2>5, Zenon DEF FileAccounted
<1>9. HookAccounted'
  BY <1>2, <1>5, <1>6, HookFrame DEF AuditInv
<1>10. LogIsChain'
  BY <1>2, <1>5, LogFrame DEF AuditInv
<1>11. LiveAccounted'
  BY <1>2, LiveFrame DEF AuditInv, view
<1> QED
  BY <1>7, <1>8, <1>9, <1>10, <1>11 DEF AuditInv

LEMMA RecordHookStep ==
    ASSUME AuditInv, NEW r \in Recorders, RecordHook(r)
    PROVE  AuditInv'
<1> DEFINE ev == rec[r].ev
           q == audit_ring_push(hookRing, ev, HookCap)
<1>1. /\ ev \in Ev /\ hookRing \in Seq(Ev) /\ HookCap \in Nat \ {0}
      /\ hist \in History /\ hist.hooked \in Nat /\ dropped \in [file : Nat, hook : Nat]
  BY AuditAssumption DEF AuditInv, AuditTypes, Threads, History
<1>2. /\ hookRing' = q.ring /\ dropped' = [dropped EXCEPT !.hook = dropped.hook + q.evicted]
      /\ hist' = [hist EXCEPT !.hooked = hist.hooked + 1]
      /\ rec' = [rec EXCEPT ![r] = Recording(ev, {})]
      /\ UNCHANGED <<fileRing, popped, hook, posts, file, backups, chain, live, next, client>>
  BY DEF RecordHook, disk, view, AuditInv, AuditTypes
<1>3. /\ q.ring \in Seq(Ev) /\ q.evicted \in Nat
      /\ Len(q.ring) + q.evicted = Len(hookRing) + 1
  <2>1. Pushed(q, hookRing, ev)
    BY <1>1, PushFacts, Zenon
  <2> QED
    BY <2>1, Zenon DEF Pushed
<1> HIDE DEF ev, q
<1>4. /\ hist' \in History /\ hist'.file = hist.file /\ hist'.lost = hist.lost
      /\ hist'.old = hist.old /\ hist'.hooked = hist.hooked + 1 /\ hist'.from = hist.from
  <2>1. hist.hooked + 1 \in Nat
    BY <1>1
  <2> QED
    BY <1>1, <1>2, <2>1, HistoryHooked
<1>5. /\ dropped' \in [file : Nat, hook : Nat] /\ dropped'.hook = dropped.hook + q.evicted
      /\ dropped'.file = dropped.file
  BY <1>1, <1>2, <1>3, DroppedHook, Zenon
<1>6. AuditTypes'
  <2>1. Recording(ev, {}) \in Threads
    BY <1>1, RecordingIs
  <2>2. rec' \in [Recorders -> Threads]
    BY <1>2, <2>1 DEF AuditInv, AuditTypes
  <2> QED
    BY <1>2, <1>3, <1>4, <1>5, <2>2 DEF AuditInv, AuditTypes
<1>7. FileAccounted'
  BY <1>2, <1>4, <1>5, FileFrame DEF AuditInv
<1>8. HookAccounted'
  <2>1. PICK a \in Nat, b \in Nat, c \in Nat, d \in Nat, e \in Nat :
          /\ a = Len(hookRing) /\ b = Len(hook.batch) /\ c = posts.ok /\ d = posts.failed /\ e = dropped.hook
          /\ hist.hooked = a + b + c + d + e
    BY LenProperties DEF AuditInv, AuditTypes, HookAccounted
  <2>2. PICK x \in Nat, y \in Nat : x = Len(q.ring) /\ y = q.evicted /\ x + y = a + 1
    BY <1>3, <2>1, LenProperties
  <2>3. /\ Len(hookRing') = x /\ Len(hook'.batch) = b /\ posts'.ok = c /\ posts'.failed = d
        /\ dropped'.hook = e + y /\ hist'.hooked = a + b + c + d + e + 1
    <3>1. Len(hookRing') = x /\ Len(hook'.batch) = b /\ posts'.ok = c /\ posts'.failed = d
      BY <1>2, <2>1, <2>2, Zenon
    <3>2. dropped'.hook = e + y /\ hist'.hooked = a + b + c + d + e + 1
      BY <1>4, <1>5, <2>1, <2>2, Zenon
    <3> QED
      BY <3>1, <3>2
  <2>4. a + b + c + d + e + 1 = x + b + c + d + (e + y)
    <3>1. x + y = a + 1
      BY <2>2
    <3> QED
      BY <3>1
  <2> QED
    BY <2>3, <2>4 DEF HookAccounted
<1>9. LogIsChain'
  BY <1>2, <1>4, LogFrame DEF AuditInv
<1>10. LiveAccounted'
  BY <1>2, LiveFrame DEF AuditInv, view
<1> QED
  BY <1>6, <1>7, <1>8, <1>9, <1>10 DEF AuditInv

LEMMA RecordLiveStep ==
    ASSUME AuditInv, NEW r \in Recorders, RecordLive(r)
    PROVE  AuditInv'
<1>1. /\ live' = [live EXCEPT ![(next - 1) % LiveCap] = next] /\ next' = next + 1
      /\ rec' = [rec EXCEPT ![r] = Quiet]
      /\ UNCHANGED <<fileRing, hookRing, popped, hook, dropped, posts, file, backups, chain, client, hist>>
  BY DEF RecordLive, rings, disk
<1>2. AuditTypes'
  <2>1. Quiet \in Threads
    BY DEF Quiet, Threads, Ev, Severities
  <2>2. rec' \in [Recorders -> Threads]
    BY <1>1, <2>1 DEF AuditInv, AuditTypes
  <2> QED
    BY <1>1, <2>2 DEF AuditInv, AuditTypes
<1>3. FileAccounted'
  BY <1>1, FileFrame DEF AuditInv
<1>4. HookAccounted'
  BY <1>1, HookFrame DEF AuditInv
<1>5. LogIsChain'
  BY <1>1, LogFrame DEF AuditInv
<1>6. LiveAccounted'
  <2>1. PICK c \in Nat \ {0} : c = LiveCap
    BY AuditAssumption
  <2>2. PICK n \in Nat \ {0} : n = next
    BY DEF AuditInv, LiveAccounted
  <2>3. live \in [0 .. c - 1 -> Nat] /\ live' = [live EXCEPT ![(n - 1) % c] = n] /\ next' = n + 1
    BY <1>1, <2>1, <2>2, Zenon DEF AuditInv, LiveAccounted
  <2>4. (n - 1) % c \in 0 .. c - 1
    <3>1. c \in Int /\ c > 0 /\ n - 1 \in Int
      BY <2>1
    <3> QED
      BY <3>1, DivMod
  <2>5. live' \in [0 .. c - 1 -> Nat]
    BY <2>3, <2>4
  <2>6. Oldest = (IF n - 1 > c THEN n - c ELSE 1) /\ Oldest' = (IF (n + 1) - 1 > c THEN (n + 1) - c ELSE 1)
    BY <2>1, <2>2, <2>3, Zenon DEF Oldest
  <2>7. PICK o \in Nat : o = Oldest /\ (o = IF n - 1 > c THEN n - c ELSE 1)
    BY <2>6
  <2>8. PICK p \in Nat : p = Oldest' /\ (p = IF (n + 1) - 1 > c THEN (n + 1) - c ELSE 1)
    BY <2>6
  <2>9. \A s \in o .. n - 1 : live[(s - 1) % c] = s
    BY <2>1, <2>2, <2>7, Zenon DEF AuditInv, LiveAccounted
  <2>10. ASSUME NEW s \in p .. n PROVE live'[(s - 1) % c] = s
    <3>1. CASE s = n
      BY <2>3, <2>4, <3>1
    <3>2. CASE s # n
      <4>1. /\ s \in o .. n - 1 /\ s - 1 \in Int /\ n - 1 \in Int /\ s - 1 < n - 1 /\ (n - 1) - (s - 1) < c
            /\ c \in Int /\ c > 0
        BY <2>7, <2>8, <3>2
      <4>2. (s - 1) % c # (n - 1) % c
        BY <4>1, SlotsApart
      <4>3. (s - 1) % c \in 0 .. c - 1
        BY <4>1, DivMod
      <4>4. live'[(s - 1) % c] = live[(s - 1) % c]
        BY <2>3, <2>4, <4>2, <4>3
      <4> QED
        BY <2>9, <4>1, <4>4
    <3> QED
      BY <3>1, <3>2
  <2>11. (n + 1) - 1 = n
    OBVIOUS
  <2>12. \A s \in Oldest' .. next' - 1 : live'[(s - 1) % LiveCap] = s
    BY <2>1, <2>3, <2>8, <2>10, <2>11, Zenon
  <2>13. client'.after <= next' - 1
    <3>1. client.after \in Nat /\ client.after <= n - 1
      BY <2>2 DEF AuditInv, LiveAccounted
    <3> QED
      BY <1>1, <2>3, <3>1
  <2>14. next' \in Nat \ {0}
    BY <2>3
  <2> QED
    BY <1>1, <2>1, <2>5, <2>12, <2>13, <2>14, Zenon DEF AuditInv, LiveAccounted
<1> QED
  BY <1>2, <1>3, <1>4, <1>5, <1>6 DEF AuditInv

-----------------------------------------------------------------------------
(* The admin client                                                          *)

\* A page starts within the live ring, after what the client has seen, and tells how much is between.
LEMMA QueryFacts ==
    ASSUME LiveAccounted, NEW a \in Nat, a <= next - 1, next > 1
    PROVE  /\ Oldest \in Nat \ {0} /\ Oldest <= next - 1
           /\ audit_logger_query_recent(a).missed \in Nat /\ audit_logger_query_recent(a).from \in Nat
           /\ audit_logger_query_recent(a).from >= Oldest
           /\ a = 0 => audit_logger_query_recent(a).missed = 0
           /\ a < audit_logger_query_recent(a).from
           /\ a # 0 => audit_logger_query_recent(a).from = a + 1 + audit_logger_query_recent(a).missed
<1>1. PICK n \in Nat \ {0} : n = next
  BY DEF LiveAccounted
<1>2. PICK c \in Nat \ {0} : c = LiveCap
  BY AuditAssumption
<1>3. PICK g \in Nat \ {0} : g = Page
  BY AuditAssumption
<1>4. PICK o \in Nat \ {0} : o = Oldest /\ o <= n - 1
  <2>1. Oldest = IF n - 1 > c THEN n - c ELSE 1
    BY <1>1, <1>2, Zenon DEF Oldest
  <2>2. n > 1
    BY <1>1
  <2> QED
    BY <1>2, <2>1, <2>2
<1>5. audit_logger_query_recent(a) =
        IF a = 0
        THEN [missed |-> 0, from |-> IF n - 1 > g /\ n - g > o THEN n - g ELSE o]
        ELSE IF a < o - 1 THEN [missed |-> o - 1 - a, from |-> o]
        ELSE [missed |-> 0, from |-> a + 1]
  BY <1>1, <1>3, <1>4, Zenon DEF audit_logger_query_recent
<1>6. CASE a = 0
  <2>1. audit_logger_query_recent(a) = [missed |-> 0, from |-> IF n - 1 > g /\ n - g > o THEN n - g ELSE o]
    BY <1>5, <1>6
  <2>2. /\ audit_logger_query_recent(a).missed = 0
        /\ audit_logger_query_recent(a).from = IF n - 1 > g /\ n - g > o THEN n - g ELSE o
    BY <2>1
  <2> QED
    BY <1>1, <1>4, <1>6, <2>2
<1>7. CASE a # 0 /\ a < o - 1
  <2>1. audit_logger_query_recent(a) = [missed |-> o - 1 - a, from |-> o]
    BY <1>5, <1>7
  <2>2. audit_logger_query_recent(a).missed = o - 1 - a /\ audit_logger_query_recent(a).from = o
    BY <2>1
  <2> QED
    BY <1>1, <1>4, <1>7, <2>2
<1>8. CASE a # 0 /\ ~(a < o - 1)
  <2>1. audit_logger_query_recent(a) = [missed |-> 0, from |-> a + 1]
    BY <1>5, <1>8
  <2>2. audit_logger_query_recent(a).missed = 0 /\ audit_logger_query_recent(a).from = a + 1
    BY <2>1
  <2> QED
    BY <1>1, <1>4, <1>8, <2>2
<1> QED
  BY <1>6, <1>7, <1>8

\* An ascending page appended to an ascending sequence that ends before it.
LEMMA AscendingPages ==
    ASSUME NEW s \in Seq(Nat), NEW t \in Seq(Nat), NEW a \in Nat, NEW from \in Nat, a < from,
           Ascending(s), \A i \in DOMAIN s : s[i] <= a,
           \A i \in DOMAIN t : t[i] = from + i - 1
    PROVE  /\ s \o t \in Seq(Nat) /\ Len(s \o t) = Len(s) + Len(t) /\ Ascending(s \o t)
           /\ t # <<>> => \A i \in DOMAIN (s \o t) : (s \o t)[i] <= from + Len(t) - 1
<1>1. PICK m \in Nat, n \in Nat : m = Len(s) /\ n = Len(t) /\ DOMAIN s = 1 .. m /\ DOMAIN t = 1 .. n
  BY LenProperties
<1>2. PICK u \in Seq(Nat) : u = s \o t
  BY ConcatProperties
<1>3. Len(u) = m + n /\ \A i \in 1 .. m + n : u[i] = IF i <= m THEN s[i] ELSE t[i - m]
  BY <1>1, <1>2, ConcatProperties
<1>4. DOMAIN u = 1 .. m + n
  BY <1>3, LenProperties
<1>5. \A i \in 1 .. m + n : i <= m => u[i] = s[i] /\ u[i] \in Nat /\ u[i] <= a
  <2> SUFFICES ASSUME NEW i \in 1 .. m + n, i <= m PROVE u[i] = s[i] /\ u[i] \in Nat /\ u[i] <= a
    OBVIOUS
  <2>1. i \in 1 .. m /\ i \in DOMAIN s /\ i \in 1 .. Len(s)
    BY <1>1
  <2>2. s[i] \in Nat /\ s[i] <= a
    BY <2>1, ElementOfSeq
  <2> QED
    BY <1>3, <2>2
<1>6. \A i \in 1 .. m + n : ~(i <= m) => u[i] = from + (i - m) - 1
  <2> SUFFICES ASSUME NEW i \in 1 .. m + n, ~(i <= m) PROVE u[i] = from + (i - m) - 1
    OBVIOUS
  <2>1. i - m \in 1 .. n
    OBVIOUS
  <2>2. t[i - m] = from + (i - m) - 1
    BY <1>1, <2>1
  <2> QED
    BY <1>3, <2>2
<1>7. ASSUME NEW i \in 1 .. m + n, NEW j \in 1 .. m + n, i < j PROVE u[i] < u[j]
  <2>1. CASE j <= m
    <3>1. i \in DOMAIN s /\ j \in DOMAIN s /\ i <= m
      BY <1>1, <1>7, <2>1
    <3>2. s[i] < s[j]
      BY <1>7, <3>1 DEF Ascending
    <3> QED
      BY <1>5, <2>1, <3>1, <3>2
  <2>2. CASE ~(j <= m) /\ i <= m
    <3>1. u[j] = from + (j - m) - 1 /\ u[i] \in Nat /\ u[i] <= a
      BY <1>5, <1>6, <2>2
    <3> QED
      BY <2>2, <3>1
  <2>3. CASE ~(j <= m) /\ ~(i <= m)
    <3>1. u[j] = from + (j - m) - 1 /\ u[i] = from + (i - m) - 1
      BY <1>6, <2>3
    <3> QED
      BY <1>7, <3>1
  <2> QED
    BY <2>1, <2>2, <2>3
<1>8. Ascending(u)
  BY <1>4, <1>7 DEF Ascending
<1>9. ASSUME t # <<>>, NEW i \in 1 .. m + n PROVE u[i] <= from + n - 1
  <2>1. n # 0
    BY <1>1, <1>9, EmptySeq
  <2>2. CASE i <= m
    BY <1>5, <2>1, <2>2
  <2>3. CASE ~(i <= m)
    BY <1>6, <2>3
  <2> QED
    BY <2>2, <2>3
<1> QED
  BY <1>1, <1>2, <1>3, <1>4, <1>8, <1>9, Zenon

LEMMA ClientMoves ==
    ASSUME NEW c \in [after : Nat, base : Nat, got : Seq(Nat), missed : Nat],
           NEW a \in Nat, NEW b \in Nat, NEW s \in Seq(Nat), NEW m \in Nat,
           NEW d, d = [c EXCEPT !.after = a, !.base = b, !.got = s, !.missed = m]
    PROVE  /\ d \in [after : Nat, base : Nat, got : Seq(Nat), missed : Nat]
           /\ d.after = a /\ d.base = b /\ d.got = s /\ d.missed = m
  OBVIOUS

LEMMA PollStep ==
    ASSUME AuditInv, admin_audit_events_get
    PROVE  AuditInv'
<1> DEFINE q == audit_logger_query_recent(client.after)
           newest == IF next - 1 < q.from + Page - 1 THEN next - 1 ELSE q.from + Page - 1
           got == [i \in 1 .. newest - q.from + 1 |-> live[(q.from + i - 2) % LiveCap]]
           base == IF client.after = 0 THEN q.from - 1 ELSE client.base
<1>1. /\ UNCHANGED <<rec, fileRing, hookRing, popped, hook, dropped, posts, file, backups, chain, live, next, hist>>
      /\ next > 1 /\ got # <<>>
  BY DEF admin_audit_events_get, rings, disk
<1>2. client' = [client EXCEPT !.after = Last(got), !.base = base, !.got = client.got \o got,
                               !.missed = client.missed + q.missed]
  BY DEF admin_audit_events_get, AuditInv, LiveAccounted
<1>3. AuditTypes'
  BY <1>1 DEF AuditInv, AuditTypes
<1>4. FileAccounted'
  BY <1>1, FileFrame DEF AuditInv
<1>5. HookAccounted'
  BY <1>1, HookFrame DEF AuditInv
<1>6. LogIsChain'
  BY <1>1, LogFrame DEF AuditInv
<1>7. LiveAccounted'
  <2> DEFINE old == client.got
  <2>1. /\ client \in [after : Nat, base : Nat, got : Seq(Nat), missed : Nat]
        /\ client.after \in Nat /\ client.base \in Nat /\ old \in Seq(Nat) /\ client.missed \in Nat
        /\ client.after <= next - 1 /\ next \in Nat \ {0}
        /\ Ascending(old) /\ \A i \in DOMAIN old : old[i] <= client.after
        /\ client.after - client.base = Len(old) + client.missed
        /\ client.after = 0 => old = <<>> /\ client.base = 0 /\ client.missed = 0
        /\ live \in [0 .. LiveCap - 1 -> Nat]
        /\ \A s \in Oldest .. next - 1 : live[(s - 1) % LiveCap] = s
    BY DEF AuditInv, LiveAccounted
  <2>2. PICK n \in Nat, p \in Nat \ {0}, from \in Nat, a \in Nat, missed \in Nat, old1 \in Nat \ {0} :
          n = next /\ p = Page /\ from = q.from /\ a = client.after /\ missed = q.missed /\ old1 = Oldest
    <3>1. LiveAccounted /\ client.after \in Nat
      BY <2>1 DEF AuditInv
    <3>2. /\ Oldest \in Nat \ {0} /\ q.missed \in Nat /\ q.from \in Nat
      BY <1>1, <2>1, <3>1, QueryFacts, Zenon
    <3>3. Page \in Nat \ {0}
      BY AuditAssumption
    <3> QED
      BY <2>1, <3>2, <3>3
  <2>3. /\ old1 <= from /\ (a = 0 => missed = 0) /\ a < from /\ (a # 0 => from = a + 1 + missed)
    <3>1. LiveAccounted /\ client.after \in Nat
      BY <2>1 DEF AuditInv
    <3>2. /\ q.from >= Oldest /\ (client.after = 0 => q.missed = 0) /\ client.after < q.from
          /\ (client.after # 0 => q.from = client.after + 1 + q.missed)
      BY <1>1, <2>1, <3>1, QueryFacts, Zenon
    <3> QED
      BY <2>2, <3>2
  <2>4. newest = (IF n - 1 < from + p - 1 THEN n - 1 ELSE from + p - 1)
    BY <2>2, Zenon
  <2>5. got = [i \in 1 .. newest - from + 1 |-> live[(from + i - 2) % LiveCap]]
    BY <2>2, Zenon
  <2>6. base = IF a = 0 THEN from - 1 ELSE client.base
    BY <2>2, Zenon
  <2> HIDE DEF q, newest, got, base
  <2>7. newest \in Int /\ newest <= n - 1
    BY <2>4
  <2>8. PICK k \in Nat : k = newest - from + 1
    <3>1. CASE newest - from + 1 \in Nat
      BY <3>1
    <3>2. CASE newest - from + 1 \notin Nat
      <4>1. 1 .. newest - from + 1 = {}
        BY <2>7, <3>2
      <4>2. got = <<>>
        BY <2>5, <4>1
      <4> QED
        BY <1>1, <4>2
    <3> QED
      BY <3>1, <3>2
  <2>9. \A i \in 1 .. k : live[(from + i - 2) % LiveCap] = from + i - 1
    <3> SUFFICES ASSUME NEW i \in 1 .. k PROVE live[(from + i - 2) % LiveCap] = from + i - 1
      OBVIOUS
    <3>1. PICK s \in Int : s = from + i - 1 /\ s - 1 = from + i - 2 /\ s \in old1 .. n - 1
      BY <2>3, <2>7, <2>8
    <3>2. live[(s - 1) % LiveCap] = s
      BY <2>1, <2>2, <3>1, Zenon
    <3> QED
      BY <3>1, <3>2, Zenon
  <2>10. got = [i \in 1 .. k |-> from + i - 1]
    BY <2>5, <2>8, <2>9
  <2>11. got \in Seq(Nat) /\ Len(got) = k /\ \A i \in DOMAIN got : got[i] = from + i - 1
    BY <2>3, <2>10
  <2>12. k # 0 /\ Last(got) = newest
    <3>1. k # 0
      BY <1>1, <2>11, EmptySeq
    <3>2. k \in DOMAIN got /\ from + k - 1 = newest
      BY <2>7, <2>8, <2>10, <3>1
    <3> QED
      BY <2>11, <3>1, <3>2 DEF Last
  <2>13. newest \in Nat /\ newest = from + k - 1
    BY <2>7, <2>8, <2>12
  <2>14. base \in Nat
    BY <2>1, <2>3, <2>6
  <2>15. /\ old \o got \in Seq(Nat) /\ Len(old \o got) = Len(old) + k /\ Ascending(old \o got)
         /\ \A i \in DOMAIN (old \o got) : (old \o got)[i] <= newest
    <3>1. a < from /\ \A i \in DOMAIN old : old[i] <= a
      BY <2>1, <2>2, <2>3, Zenon
    <3>2. /\ old \o got \in Seq(Nat) /\ Len(old \o got) = Len(old) + Len(got) /\ Ascending(old \o got)
          /\ got # <<>> => \A i \in DOMAIN (old \o got) : (old \o got)[i] <= from + Len(got) - 1
      BY <2>1, <2>11, <3>1, AscendingPages, Zenon
    <3>3. from + Len(got) - 1 = newest
      BY <2>11, <2>13
    <3> QED
      BY <1>1, <2>11, <3>2, <3>3, Zenon
  <2> HIDE DEF old
  <2>16. client.missed + q.missed \in Nat
    BY <2>1, <2>2
  <2>17. /\ client' \in [after : Nat, base : Nat, got : Seq(Nat), missed : Nat]
         /\ client'.after = newest /\ client'.base = base /\ client'.got = old \o got
         /\ client'.missed = client.missed + q.missed
    <3>1. client' = [client EXCEPT !.after = newest, !.base = base, !.got = old \o got,
                                   !.missed = client.missed + q.missed]
      BY <1>2, <2>12, Zenon DEF old
    <3> QED
      BY <2>1, <2>13, <2>14, <2>15, <2>16, <3>1, ClientMoves
  <2>18. newest - base = Len(old \o got) + (client.missed + q.missed)
    <3>1. PICK x \in Nat, y \in Nat, z \in Nat : x = Len(old) /\ y = client.missed /\ z = client.base
                                                /\ a - z = x + y /\ Len(old \o got) = x + k
                                                /\ base = IF a = 0 THEN from - 1 ELSE z
      BY <2>1, <2>2, <2>6, <2>15, LenProperties
    <3>2. a = 0 => x = 0 /\ y = 0
      BY <2>1, <2>2, <3>1, EmptySeq
    <3>4. newest = from + k - 1 /\ base = IF a = 0 THEN from - 1 ELSE z
      BY <2>13, <3>1, Zenon
    <3>5. Len(old \o got) = x + k /\ client.missed = y /\ q.missed = missed
      BY <2>2, <3>1, Zenon
    <3>6. CASE a = 0
      <4>1. base = from - 1 /\ x = 0 /\ y = 0 /\ missed = 0
        BY <2>3, <3>2, <3>4, <3>6
      <4> QED
        BY <3>4, <3>5, <4>1
    <3>7. CASE a # 0
      <4>1. base = z /\ from = a + 1 + missed /\ a - z = x + y
        BY <2>3, <3>1, <3>4, <3>7
      <4> QED
        BY <3>4, <3>5, <4>1
    <3> QED
      BY <3>6, <3>7
  <2>19. newest # 0
    BY <2>3, <2>12, <2>13
  <2>20. Oldest' = Oldest /\ next' = next /\ live' = live
    BY <1>1, Zenon DEF Oldest
  <2>21. newest <= next - 1
    BY <2>2, <2>7
  <2>22. Ascending(client'.got) /\ \A i \in DOMAIN client'.got : client'.got[i] <= client'.after
    BY <2>15, <2>17, Zenon
  <2>23. client'.after - client'.base = Len(client'.got) + client'.missed
    BY <2>17, <2>18, Zenon
  <2>24. client'.after <= next - 1 /\ client'.after # 0
    BY <2>17, <2>19, <2>21, Zenon
  <2> QED
    BY <2>1, <2>17, <2>20, <2>22, <2>23, <2>24, Zenon DEF LiveAccounted
<1> QED
  BY <1>3, <1>4, <1>5, <1>6, <1>7 DEF AuditInv

-----------------------------------------------------------------------------
(* The steps of the workers                                                  *)

\* Steps that leave everything the invariant speaks of alone.
LEMMA NothingOfTheLog ==
    ASSUME AuditInv, UNCHANGED <<rec, rings, file, backups, chain, view, hist>>
    PROVE  AuditInv'
<1>1. UNCHANGED <<rec, fileRing, hookRing, popped, hook, dropped, posts, file, backups, chain, live, next, client, hist>>
  BY DEF rings, view
<1>2. AuditTypes'
  BY <1>1 DEF AuditInv, AuditTypes
<1>3. FileAccounted'
  BY <1>1, FileFrame DEF AuditInv
<1>4. HookAccounted'
  BY <1>1, HookFrame DEF AuditInv
<1>5. LogIsChain'
  BY <1>1, LogFrame DEF AuditInv
<1>6. LiveAccounted'
  BY <1>1, LiveFrame DEF AuditInv, view
<1> QED
  BY <1>2, <1>3, <1>4, <1>5, <1>6 DEF AuditInv

LEMMA ReloadStep ==
    ASSUME AuditInv, audit_logger_reload
    PROVE  AuditInv'
  BY NothingOfTheLog DEF audit_logger_reload, disk

LEMMA ReopenStep ==
    ASSUME AuditInv, Reopen
    PROVE  AuditInv'
  BY NothingOfTheLog DEF Reopen

LEMMA StopStep ==
    ASSUME AuditInv, audit_logger_stop
    PROVE  AuditInv'
  BY NothingOfTheLog DEF audit_logger_stop, disk

LEMMA JoinedStep ==
    ASSUME AuditInv, Joined
    PROVE  AuditInv'
  BY NothingOfTheLog DEF Joined

LEMMA PopFileStep ==
    ASSUME AuditInv, PopFile
    PROVE  AuditInv'
<1>1. /\ UNCHANGED <<rec, hookRing, hook, dropped, posts, file, backups, chain, view, hist>>
      /\ popped = <<>>
  BY DEF PopFile, disk
<1>2. PICK k : /\ k = IF Len(fileRing) < FileBatch THEN Len(fileRing) ELSE FileBatch
               /\ popped' = SubSeq(fileRing, 1, k) /\ fileRing' = SubSeq(fileRing, k + 1, Len(fileRing))
  BY DEF PopFile
<1>3. /\ popped' \in Seq(Ev) /\ fileRing' \in Seq(Ev) /\ popped' \o fileRing' = fileRing
      /\ Len(popped') + Len(fileRing') = Len(fileRing)
  <2>1. fileRing \in Seq(Ev) /\ FileBatch \in Nat \ {0}
    BY AuditAssumption DEF AuditInv, AuditTypes
  <2> QED
    BY <1>2, <2>1, PopFacts, Zenon
<1>4. AuditTypes'
  BY <1>1, <1>3 DEF AuditInv, AuditTypes
<1>5. FileAccounted'
  <2>1. PICK c \in Seq(Ev), p \in Seq(Ev), r \in Seq(Ev) : c = chain /\ p = popped' /\ r = fileRing'
    BY <1>3 DEF AuditInv, AuditTypes
  <2>2. (c \o p) \o r = c \o (p \o r)
    <3>1. Regrouped(c, p, r)
      BY Associates, Zenon
    <3> QED
      BY <3>1, Zenon DEF Regrouped
  <2>3. (chain \o popped) \o fileRing = c \o (p \o r)
    <3>1. c \o <<>> = c
      BY ConcatEmptySeq
    <3> QED
      BY <1>1, <1>3, <2>1, <3>1, Zenon
  <2>4. Embeds((chain' \o popped') \o fileRing', hist'.file)
    <3>1. (chain' \o popped') \o fileRing' = (chain \o popped) \o fileRing
      BY <1>1, <2>1, <2>2, <2>3, Zenon
    <3> QED
      BY <1>1, <3>1, Zenon DEF AuditInv, FileAccounted
  <2>5. Len(hist'.file) = Len(chain') + Len(popped') + Len(fileRing') + dropped'.file + hist'.lost
    <3>1. PICK a \in Nat, b \in Nat, d \in Nat, e \in Nat, f \in Nat :
            /\ a = Len(chain) /\ b = Len(popped') /\ f = Len(fileRing') /\ d = dropped.file /\ e = hist.lost
            /\ Len(hist.file) = a + Len(popped) + Len(fileRing) + d + e
      <4>1. Len(chain) \in Nat /\ Len(popped') \in Nat /\ Len(fileRing') \in Nat
        BY <1>3, LenProperties DEF AuditInv, AuditTypes
      <4>2. dropped.file \in Nat /\ hist.lost \in Nat
        BY DEF AuditInv, AuditTypes, History
      <4> QED
        BY <4>1, <4>2, Zenon DEF AuditInv, FileAccounted
    <3>2. Len(popped) = 0 /\ Len(fileRing) = b + f
      BY <1>1, <1>3, <3>1, EmptySeq
    <3>3. a + 0 + (b + f) + d + e = a + b + f + d + e
      OBVIOUS
    <3> QED
      BY <1>1, <3>1, <3>2, <3>3, Zenon
  <2> QED
    BY <2>4, <2>5, Zenon DEF FileAccounted
<1>6. HookAccounted'
  BY <1>1, HookFrame DEF AuditInv
<1>7. LogIsChain'
  BY <1>1, LogFrame DEF AuditInv
<1>8. LiveAccounted'
  BY <1>1, LiveFrame DEF AuditInv
<1> QED
  BY <1>4, <1>5, <1>6, <1>7, <1>8 DEF AuditInv

LEMMA LoseBatchStep ==
    ASSUME AuditInv, LoseBatch
    PROVE  AuditInv'
<1>1. /\ UNCHANGED <<rec, fileRing, hookRing, hook, dropped, posts, file, backups, chain, view>>
      /\ popped' = <<>>
  BY DEF LoseBatch
<1>2. PICK b \in Nat : b = Len(popped)
  BY LenProperties DEF AuditInv, AuditTypes
<1>3. /\ hist' \in History /\ hist'.lost = hist.lost + b /\ hist'.file = hist.file /\ hist'.hooked = hist.hooked
      /\ hist'.old = hist.old /\ hist'.from = hist.from /\ hist.lost \in Nat
  <2>1. hist \in History /\ hist' = [hist EXCEPT !.lost = hist.lost + b]
    BY <1>2 DEF AuditInv, AuditTypes, LoseBatch
  <2>2. hist.lost \in Nat /\ hist.lost + b \in Nat
    BY <2>1 DEF History
  <2> QED
    BY <2>1, <2>2, HistoryLosing
<1>4. AuditTypes'
  BY <1>1, <1>3, EmptySeq DEF AuditInv, AuditTypes
<1>5. FileAccounted'
  <2>1. PICK c \in Seq(Ev), p \in Seq(Ev), r \in Seq(Ev), h \in Seq(Ev) :
          c = chain /\ p = popped /\ r = fileRing /\ h = hist.file
    BY DEF AuditInv, AuditTypes, History
  <2>2. Embeds(c \o r, h)
    <3>1. Embeds((c \o p) \o r, h)
      BY <2>1, Zenon DEF AuditInv, FileAccounted
    <3> QED
      BY <3>1, EmbedDrop, Zenon
  <2>3. Embeds((chain' \o popped') \o fileRing', hist'.file)
    <3>1. c \o <<>> = c
      BY ConcatEmptySeq
    <3> QED
      BY <1>1, <1>3, <2>1, <2>2, <3>1, Zenon
  <2>4. Len(hist'.file) = Len(chain') + Len(popped') + Len(fileRing') + dropped'.file + hist'.lost
    <3>1. PICK a \in Nat, d \in Nat, e \in Nat, f \in Nat :
            /\ a = Len(chain) /\ f = Len(fileRing) /\ d = dropped.file /\ e = hist.lost
            /\ Len(hist.file) = a + b + f + d + e
      BY <1>2, LenProperties DEF AuditInv, AuditTypes, FileAccounted, History
    <3>2. Len(popped') = 0
      BY <1>1, EmptySeq
    <3>3. a + 0 + f + d + (e + b) = a + b + f + d + e
      OBVIOUS
    <3> QED
      BY <1>1, <1>3, <3>1, <3>2, <3>3, Zenon
  <2> QED
    BY <2>3, <2>4, Zenon DEF FileAccounted
<1>6. HookAccounted'
  BY <1>1, <1>3, HookFrame DEF AuditInv
<1>7. LogIsChain'
  BY <1>1, <1>3, LogFrame DEF AuditInv
<1>8. LiveAccounted'
  BY <1>1, LiveFrame DEF AuditInv
<1> QED
  BY <1>4, <1>5, <1>6, <1>7, <1>8 DEF AuditInv

LEMMA PopHookStep ==
    ASSUME AuditInv, PopHook
    PROVE  AuditInv'
<1>1. /\ UNCHANGED <<rec, fileRing, popped, dropped, posts, file, backups, chain, view, hist>>
      /\ hook.batch = <<>>
  BY DEF PopHook, disk
<1>2. PICK k : /\ k = IF Len(hookRing) < HookBatch THEN Len(hookRing) ELSE HookBatch
               /\ hook' = [batch |-> SubSeq(hookRing, 1, k), attempt |-> 1]
               /\ hookRing' = SubSeq(hookRing, k + 1, Len(hookRing))
  BY DEF PopHook
<1>3. /\ SubSeq(hookRing, 1, k) \in Seq(Ev) /\ hookRing' \in Seq(Ev)
      /\ Len(SubSeq(hookRing, 1, k)) + Len(hookRing') = Len(hookRing)
  <2>1. hookRing \in Seq(Ev) /\ HookBatch \in Nat \ {0}
    BY AuditAssumption DEF AuditInv, AuditTypes
  <2> QED
    BY <1>2, <2>1, PopFacts, Zenon
<1>4. hook' \in [batch : Seq(Ev), attempt : Nat] /\ hook'.batch = SubSeq(hookRing, 1, k)
  <2>1. PICK s \in Seq(Ev) : s = SubSeq(hookRing, 1, k)
    BY <1>3
  <2>2. hook' = [batch |-> s, attempt |-> 1]
    BY <1>2, <2>1, Zenon
  <2> QED
    BY <2>1, <2>2
<1>5. AuditTypes'
  BY <1>1, <1>3, <1>4 DEF AuditInv, AuditTypes
<1>6. HookAccounted'
  <2>1. PICK b \in Nat, f \in Nat, d \in Nat, e \in Nat, g \in Nat :
          /\ b = Len(hook'.batch) /\ f = Len(hookRing') /\ d = posts.ok /\ e = posts.failed /\ g = dropped.hook
          /\ hist.hooked = Len(hookRing) + Len(hook.batch) + d + e + g
    <3>1. Len(hook'.batch) \in Nat /\ Len(hookRing') \in Nat
      BY <1>3, <1>4, LenProperties
    <3>2. posts.ok \in Nat /\ posts.failed \in Nat /\ dropped.hook \in Nat
      BY DEF AuditInv, AuditTypes
    <3> QED
      BY <3>1, <3>2, Zenon DEF AuditInv, HookAccounted
  <2>2. Len(hook.batch) = 0 /\ Len(hookRing) = b + f
    BY <1>1, <1>3, <1>4, <2>1, EmptySeq
  <2>3. (b + f) + 0 + d + e + g = f + b + d + e + g
    OBVIOUS
  <2> QED
    BY <1>1, <2>1, <2>2, <2>3, Zenon DEF HookAccounted
<1>7. FileAccounted'
  BY <1>1, FileFrame DEF AuditInv
<1>8. LogIsChain'
  BY <1>1, LogFrame DEF AuditInv
<1>9. LiveAccounted'
  BY <1>1, LiveFrame DEF AuditInv
<1> QED
  BY <1>5, <1>6, <1>7, <1>8, <1>9 DEF AuditInv

LEMMA PostStep ==
    ASSUME AuditInv, Post
    PROVE  AuditInv'
<1>1. /\ UNCHANGED <<rec, fileRing, hookRing, popped, dropped, file, backups, chain, view, hist>>
      /\ hook.batch # <<>>
  BY DEF Post, disk
<1>2. /\ hook \in [batch : Seq(Ev), attempt : Nat] /\ posts \in [ok : Nat, failed : Nat]
      /\ hook.batch \in Seq(Ev) /\ hook.attempt \in Nat /\ posts.ok \in Nat /\ posts.failed \in Nat
  BY DEF AuditInv, AuditTypes
<1>3. /\ hook' \in [batch : Seq(Ev), attempt : Nat] /\ posts' \in [ok : Nat, failed : Nat]
      /\ Len(hook'.batch) + posts'.ok + posts'.failed = Len(hook.batch) + posts.ok + posts.failed
  <2>1. CASE hook' = [hook EXCEPT !.attempt = @ + 1] /\ UNCHANGED posts
    <3>1. hook' \in [batch : Seq(Ev), attempt : Nat] /\ hook'.batch = hook.batch
      BY <1>2, <2>1
    <3> QED
      BY <1>2, <2>1, <3>1
  <2>2. ASSUME NEW ok \in BOOLEAN,
               hook' = [batch |-> Tail(hook.batch), attempt |-> 1],
               posts' = IF ok THEN [posts EXCEPT !.ok = @ + 1] ELSE [posts EXCEPT !.failed = @ + 1]
        PROVE  /\ hook' \in [batch : Seq(Ev), attempt : Nat] /\ posts' \in [ok : Nat, failed : Nat]
               /\ Len(hook'.batch) + posts'.ok + posts'.failed = Len(hook.batch) + posts.ok + posts.failed
    <3>1. PICK t \in Seq(Ev) : t = Tail(hook.batch) /\ Len(t) = Len(hook.batch) - 1
      BY <1>1, <1>2, HeadTailProperties
    <3>2. hook' \in [batch : Seq(Ev), attempt : Nat] /\ hook'.batch = t
      <4>1. hook' = [batch |-> t, attempt |-> 1]
        BY <2>2, <3>1, Zenon
      <4> QED
        BY <4>1
    <3>3. /\ posts' \in [ok : Nat, failed : Nat]
          /\ posts'.ok + posts'.failed = posts.ok + posts.failed + 1
      <4>1. PICK u \in Nat, v \in Nat : u = posts.ok /\ v = posts.failed
        BY <1>2
      <4>2. CASE ok
        <5>1. posts' = [posts EXCEPT !.ok = u + 1]
          BY <1>2, <2>2, <4>1, <4>2
        <5>2. posts' \in [ok : Nat, failed : Nat] /\ posts'.ok = u + 1 /\ posts'.failed = v
          BY <1>2, <4>1, <5>1
        <5> QED
          BY <4>1, <5>2
      <4>3. CASE ~ok
        <5>1. posts' = [posts EXCEPT !.failed = v + 1]
          BY <1>2, <2>2, <4>1, <4>3
        <5>2. posts' \in [ok : Nat, failed : Nat] /\ posts'.ok = u /\ posts'.failed = v + 1
          BY <1>2, <4>1, <5>1
        <5>3. u + (v + 1) = u + v + 1
          OBVIOUS
        <5> QED
          BY <4>1, <5>2, <5>3, Zenon
      <4> QED
        BY <4>2, <4>3
    <3>4. Len(hook'.batch) + posts'.ok + posts'.failed = Len(hook.batch) + posts.ok + posts.failed
      <4>1. PICK n \in Nat, a \in Nat, b \in Nat, x \in Nat, y \in Nat, m \in Nat :
              /\ n = Len(hook.batch) /\ a = posts.ok /\ b = posts.failed /\ x = posts'.ok /\ y = posts'.failed
              /\ m = Len(hook'.batch)
        BY <1>2, <3>2, <3>3, LenProperties
      <4>2. m = n - 1 /\ x + y = a + b + 1
        BY <3>1, <3>2, <3>3, <4>1
      <4>3. m + x + y = n + a + b
        BY <4>2
      <4> QED
        BY <4>1, <4>3, Zenon
    <3> QED
      BY <3>2, <3>3, <3>4
  <2> QED
    BY <2>1, <2>2, Zenon DEF Post
<1>4. AuditTypes'
  BY <1>1, <1>3 DEF AuditInv, AuditTypes
<1>5. HookAccounted'
  <2>1. PICK a \in Nat, b \in Nat, c \in Nat, d \in Nat, e \in Nat, x \in Nat, y \in Nat, z \in Nat :
          /\ a = Len(hookRing) /\ b = Len(hook.batch) /\ c = posts.ok /\ d = posts.failed /\ e = dropped.hook
          /\ x = Len(hook'.batch) /\ y = posts'.ok /\ z = posts'.failed
          /\ hist.hooked = a + b + c + d + e
    <3>1. Len(hookRing) \in Nat /\ Len(hook.batch) \in Nat
      BY <1>2, LenProperties DEF AuditInv, AuditTypes
    <3>2. Len(hook'.batch) \in Nat /\ posts'.ok \in Nat /\ posts'.failed \in Nat
      <4>1. hook'.batch \in Seq(Ev)
        BY <1>3
      <4> QED
        BY <1>3, <4>1, LenProperties
    <3>3. posts.ok \in Nat /\ posts.failed \in Nat /\ dropped.hook \in Nat
      BY DEF AuditInv, AuditTypes
    <3> QED
      BY <3>1, <3>2, <3>3, Zenon DEF AuditInv, HookAccounted
  <2>2. a + b + c + d + e = a + x + y + z + e
    <3>1. x + y + z = b + c + d
      BY <1>3, <2>1, Zenon
    <3> QED
      BY <3>1
  <2> QED
    BY <1>1, <2>1, <2>2, Zenon DEF HookAccounted
<1>6. FileAccounted'
  BY <1>1, FileFrame DEF AuditInv
<1>7. LogIsChain'
  BY <1>1, LogFrame DEF AuditInv
<1>8. LiveAccounted'
  BY <1>1, LiveFrame DEF AuditInv
<1> QED
  BY <1>4, <1>5, <1>6, <1>7, <1>8 DEF AuditInv

\* The lines of a batch: the log of this process goes on where its chain does.
LEMMA WriteStep ==
    ASSUME AuditInv, WriteBatch
    PROVE  AuditInv'
<1> DEFINE ls == Lines(chain, popped)
           w == file \o ls
<1>1. /\ UNCHANGED <<rec, fileRing, hookRing, hook, dropped, posts, view>>
      /\ popped' = <<>> /\ chain' = chain \o popped
  BY DEF WriteBatch
<1>2. /\ chain \in Seq(Ev) /\ popped \in Seq(Ev) /\ file \in Seq(Line) /\ backups \in Seq(Seq(Line))
      /\ hist \in History /\ hist.old \in Seq(Line) /\ hist.from \in Nat /\ Len(backups) <= MaxBackups
      /\ MaxBackups \in Nat \ {0}
  BY AuditAssumption DEF AuditInv, AuditTypes, History
<1>3. chain' \in Seq(Ev) /\ Len(chain') = Len(chain) + Len(popped)
  BY <1>1, <1>2, ConcatProperties, Zenon
<1>4. ls \in Seq(Line) /\ w \in Seq(Line)
  <2>1. ls \in Seq(Line)
    BY <1>2, LinesSeq, Zenon
  <2> QED
    BY <1>2, <2>1, ConcatProperties, Zenon
<1>5. Whole(hist.old, backups, w) = AllLines \o ls
  <2>1. Whole(hist.old, backups, w) = Whole(hist.old, backups, file) \o ls
    <3>1. WholeKept(hist.old, backups, file, ls)
      BY <1>2, <1>4, WholeFacts, Zenon
    <3> QED
      BY <3>1, Zenon DEF WholeKept
  <2> QED
    BY <2>1, AllLinesAre, Zenon DEF AuditInv
<1> HIDE DEF ls, w
<1>6. \/ file' = w /\ backups' = backups /\ hist' = hist
      \/ /\ file' = <<>> /\ backups' = Shifted(w) /\ hist' = [hist EXCEPT !.old = hist.old \o Unlinked]
  <2> DEFINE grown == (IF fp THEN size ELSE Len(file)) + Len(popped)
  <2>1. IF grown >= MaxSize THEN audit_file_rotate(w)
        ELSE /\ file' = w /\ size' = grown /\ fp' = TRUE
             /\ UNCHANGED <<backups, hist, auditFaults>>
    BY DEF WriteBatch, w, ls
  <2> HIDE DEF grown
  <2>2. audit_file_rotate(w) => /\ file' = <<>> /\ backups' = Shifted(w)
                                /\ hist' = [hist EXCEPT !.old = hist.old \o Unlinked]
    BY <1>2 DEF audit_file_rotate, History
  <2> QED
    BY <2>1, <2>2
<1>7. /\ file' \in Seq(Line) /\ backups' \in Seq(Seq(Line)) /\ Len(backups') <= MaxBackups
      /\ hist' \in History /\ hist'.file = hist.file /\ hist'.hooked = hist.hooked /\ hist'.lost = hist.lost
      /\ hist'.from = hist.from
      /\ Whole(hist'.old, backups', file') = Whole(hist.old, backups, w)
  <2>1. CASE file' = w /\ backups' = backups /\ hist' = hist
    BY <1>2, <1>4, <2>1, Zenon
  <2>2. CASE /\ file' = <<>> /\ backups' = Shifted(w) /\ hist' = [hist EXCEPT !.old = hist.old \o Unlinked]
    <3>1. Rotates(Line, backups, w)
      BY <1>2, <1>4, RotationKeeps, Zenon
    <3>2. CASE Len(backups) = MaxBackups
      <4>1. backups # <<>>
        BY <1>2, <3>2, EmptySeq
      <4>2. Shifted(w) = <<w>> \o Front(backups) /\ Unlinked = Last(backups)
        BY <3>2, Zenon DEF Shifted, Unlinked
      <4>3. /\ Last(backups) \in Seq(Line) /\ <<w>> \o Front(backups) \in Seq(Seq(Line))
            /\ Len(<<w>> \o Front(backups)) = Len(backups)
        BY <3>1, <4>1, Zenon DEF Rotates
      <4>4. PICK o \in Seq(Line) : o = hist.old \o Unlinked
        BY <1>2, <4>2, <4>3, ConcatProperties
      <4>5. /\ hist' \in History /\ hist'.old = o /\ hist'.file = hist.file /\ hist'.hooked = hist.hooked
            /\ hist'.lost = hist.lost /\ hist'.from = hist.from
        <5>1. hist' = [hist EXCEPT !.old = o]
          BY <2>2, <4>4, Zenon
        <5> QED
          BY <1>2, <5>1, HistoryUnlinking
      <4>6. Whole(hist.old \o Last(backups), <<w>> \o Front(backups), <<>>) = Whole(hist.old, backups, w)
        <5>1. WholeKept(hist.old, backups, w, w)
          BY <1>2, <1>4, WholeFacts, Zenon
        <5> QED
          BY <4>1, <5>1, Zenon DEF WholeKept
      <4>7. Whole(hist'.old, backups', file') = Whole(hist.old, backups, w)
        BY <2>2, <4>2, <4>4, <4>5, <4>6, Zenon
      <4>8. file' \in Seq(Line)
        BY <2>2, EmptySeq
      <4>9. Len(backups') <= MaxBackups /\ backups' \in Seq(Seq(Line))
        BY <1>2, <2>2, <4>2, <4>3, Zenon
      <4> QED
        BY <4>5, <4>7, <4>8, <4>9, Zenon
    <3>3. CASE Len(backups) # MaxBackups
      <4>1. Shifted(w) = <<w>> \o backups /\ Unlinked = <<>>
        BY <3>3, Zenon DEF Shifted, Unlinked
      <4>2. <<w>> \o backups \in Seq(Seq(Line)) /\ Len(<<w>> \o backups) = Len(backups) + 1
        BY <3>1, Zenon DEF Rotates
      <4>3. hist.old \o Unlinked = hist.old
        BY <1>2, <4>1, ConcatEmptySeq
      <4>4. /\ hist' \in History /\ hist'.old = hist.old /\ hist'.file = hist.file /\ hist'.hooked = hist.hooked
            /\ hist'.lost = hist.lost /\ hist'.from = hist.from
        <5>1. hist' = [hist EXCEPT !.old = hist.old]
          BY <2>2, <4>3, Zenon
        <5> QED
          BY <1>2, <5>1, HistoryUnlinking
      <4>5. Whole(hist.old, <<w>> \o backups, <<>>) = Whole(hist.old, backups, w)
        <5>1. WholeKept(hist.old, backups, w, w)
          BY <1>2, <1>4, WholeFacts, Zenon
        <5> QED
          BY <5>1, Zenon DEF WholeKept
      <4>6. Whole(hist'.old, backups', file') = Whole(hist.old, backups, w)
        BY <2>2, <4>1, <4>4, <4>5, Zenon
      <4>7. file' \in Seq(Line)
        BY <2>2, EmptySeq
      <4>8. Len(backups') <= MaxBackups
        <5>1. PICK n \in Nat : n = Len(backups)
          BY <1>2, LenProperties
        <5>2. n + 1 <= MaxBackups
          BY <1>2, <3>3, <5>1
        <5> QED
          BY <2>2, <4>1, <4>2, <5>1, <5>2, Zenon
      <4>9. backups' \in Seq(Seq(Line))
        BY <2>2, <4>1, <4>2, Zenon
      <4> QED
        BY <4>4, <4>6, <4>7, <4>8, <4>9, Zenon
    <3> QED
      BY <3>2, <3>3
  <2> QED
    BY <1>6, <2>1, <2>2
<1>8. AuditTypes'
  BY <1>1, <1>3, <1>7, EmptySeq DEF AuditInv, AuditTypes
<1>9. FileAccounted'
  <2>1. Embeds((chain' \o popped') \o fileRing', hist'.file)
    <3>1. chain' \o <<>> = chain'
      BY <1>3, ConcatEmptySeq
    <3> QED
      BY <1>1, <1>7, <3>1, Zenon DEF AuditInv, FileAccounted
  <2>2. Len(hist'.file) = Len(chain') + Len(popped') + Len(fileRing') + dropped'.file + hist'.lost
    <3>1. PICK a \in Nat, b \in Nat, d \in Nat, e \in Nat, f \in Nat :
            /\ a = Len(chain) /\ b = Len(popped) /\ f = Len(fileRing) /\ d = dropped.file /\ e = hist.lost
            /\ Len(hist.file) = a + b + f + d + e
      <4>1. Len(chain) \in Nat /\ Len(popped) \in Nat /\ Len(fileRing) \in Nat
        BY LenProperties DEF AuditInv, AuditTypes
      <4>2. dropped.file \in Nat /\ hist.lost \in Nat
        BY DEF AuditInv, AuditTypes, History
      <4> QED
        BY <4>1, <4>2, Zenon DEF AuditInv, FileAccounted
    <3>2. Len(popped') = 0 /\ Len(chain') = a + b
      BY <1>1, <1>3, <3>1, EmptySeq, Zenon
    <3>3. a + b + 0 + f + d + e = a + b + f + d + e
      OBVIOUS
    <3> QED
      BY <1>1, <1>7, <3>1, <3>2, <3>3, Zenon
  <2> QED
    BY <2>1, <2>2, Zenon DEF FileAccounted
<1>10. HookAccounted'
  BY <1>1, <1>7, HookFrame DEF AuditInv
<1>11. LogIsChain'
  <2>1. AllLines' = AllLines \o ls
    <3>1. AllLines' = Whole(hist'.old, backups', file')
      BY Zenon DEF AllLines, Whole
    <3> QED
      BY <1>5, <1>7, <3>1, Zenon
  <2>2. PICK all \in Seq(Line), n \in Nat : all = AllLines /\ n = hist.from /\ n <= Len(all)
    BY <1>2, AllLinesAre DEF AuditInv, LogIsChain
  <2>3. SubSeq(all \o ls, n + 1, Len(all \o ls)) = SubSeq(all, n + 1, Len(all)) \o ls
    <3>1. n \in 0 .. Len(all)
      BY <2>2, LenProperties
    <3> QED
      BY <1>4, <3>1, CutConcat, Zenon
  <2>4. OwnLines' = OwnLines \o ls
    <3>1. OwnLines' = SubSeq(all \o ls, n + 1, Len(all \o ls))
      BY <1>7, <2>1, <2>2, Zenon DEF OwnLines
    <3>2. OwnLines = SubSeq(all, n + 1, Len(all))
      BY <2>2, Zenon DEF OwnLines
    <3> QED
      BY <2>3, <3>1, <3>2, Zenon
  <2>5. OwnLines' = Lines(<<>>, chain')
    <3>1. OwnLines = Lines(<<>>, chain)
      BY Zenon DEF AuditInv, LogIsChain
    <3>2. Lines(<<>>, chain \o popped) = Lines(<<>>, chain) \o ls
      BY <1>2, LinesConcat, Zenon DEF ls
    <3> QED
      BY <1>1, <2>4, <3>1, <3>2, Zenon
  <2>6. hist'.from <= Len(AllLines')
    <3>1. PICK m \in Nat, k \in Nat : m = Len(all) /\ k = Len(ls)
      BY <1>4, LenProperties
    <3>2. Len(AllLines') = m + k
      BY <1>4, <2>1, <2>2, <3>1, ConcatProperties, Zenon
    <3>3. n <= m + k
      BY <2>2, <3>1
    <3> QED
      BY <1>7, <2>2, <3>2, <3>3, Zenon
  <2> QED
    BY <2>5, <2>6, Zenon DEF LogIsChain
<1>12. LiveAccounted'
  BY <1>1, LiveFrame DEF AuditInv
<1> QED
  BY <1>8, <1>9, <1>10, <1>11, <1>12 DEF AuditInv

\* The next process begins after all that is on disk.
LEMMA RestartStep ==
    ASSUME AuditInv, AuditRestart
    PROVE  AuditInv'
<1>0. /\ <<>> \in Seq(Ev) /\ <<>> \in Seq(Line) /\ <<>> \in Seq(Nat) /\ Len(<<>>) = 0
      /\ DOMAIN <<>> = 1 .. 0
  <2>1. <<>> \in Seq(Ev) /\ <<>> \in Seq(Line) /\ <<>> \in Seq(Nat) /\ Len(<<>>) = 0
    BY EmptySeq
  <2> QED
    BY <2>1, LenProperties
<1>1. /\ rec' = [r \in Recorders |-> Quiet]
      /\ fileRing' = <<>> /\ hookRing' = <<>> /\ popped' = <<>> /\ chain' = <<>>
      /\ hook' = [batch |-> <<>>, attempt |-> 1]
      /\ dropped' = [file |-> 0, hook |-> 0] /\ posts' = [ok |-> 0, failed |-> 0]
      /\ live' = [i \in 0 .. LiveCap - 1 |-> 0] /\ next' = 1 /\ client' = NewClient
      /\ UNCHANGED <<file, backups>>
  BY DEF AuditRestart, Booted
<1>2. PICK all \in Seq(Line), n \in Nat : all = AllLines /\ n = Len(all)
  BY AllLinesAre, LenProperties DEF AuditInv
<1>3. /\ hist' \in History /\ hist'.file = <<>> /\ hist'.hooked = 0 /\ hist'.lost = 0
      /\ hist'.old = hist.old /\ hist'.from = n
  <2>1. hist.n \in Nat /\ hist.old \in Seq(Line)
    BY DEF AuditInv, AuditTypes, History
  <2>2. hist' = [NoPushes EXCEPT !.n = hist.n, !.from = n, !.old = hist.old]
    BY <1>2, Zenon DEF AuditRestart, AllLines
  <2>3. hist' = [file |-> <<>>, hooked |-> 0, lost |-> 0, n |-> hist.n, old |-> hist.old, from |-> n]
    BY <2>2 DEF NoPushes
  <2> QED
    BY <1>0, <2>1, <2>3 DEF History
<1>4. AuditTypes'
  <2>1. Quiet \in Threads
    BY DEF Quiet, Threads, Ev, Severities
  <2>2. rec' \in [Recorders -> Threads]
    BY <1>1, <2>1
  <2> QED
    BY <1>0, <1>1, <1>3, <2>2 DEF AuditInv, AuditTypes
<1>5. FileAccounted'
  <2>1. (chain' \o popped') \o fileRing' = <<>>
    BY <1>0, <1>1, ConcatEmptySeq
  <2>2. Embeds(<<>>, <<>>)
    <3> DEFINE f == [i \in DOMAIN <<>> |-> i]
    <3>1. f \in [DOMAIN <<>> -> DOMAIN <<>>]
      OBVIOUS
    <3>2. \A i \in DOMAIN <<>> : FALSE
      BY <1>0
    <3> QED
      BY <3>1, <3>2, Zenon DEF Embeds
  <2>3. Len(hist'.file) = Len(chain') + Len(popped') + Len(fileRing') + dropped'.file + hist'.lost
    BY <1>0, <1>1, <1>3
  <2> QED
    BY <1>3, <2>1, <2>2, <2>3, Zenon DEF FileAccounted
<1>6. HookAccounted'
  BY <1>0, <1>1, <1>3 DEF HookAccounted
<1>7. LogIsChain'
  <2>1. AllLines' = all
    BY <1>1, <1>2, <1>3, Zenon DEF AllLines
  <2>2. OwnLines' = <<>>
    <3>1. OwnLines' = SubSeq(all, n + 1, n)
      BY <1>2, <1>3, <2>1, Zenon DEF OwnLines
    <3>2. n + 1 \in Int /\ n \in Int /\ n + 1 > n
      OBVIOUS
    <3> QED
      BY <3>1, <3>2, SubSeqEmpty
  <2>3. Lines(<<>>, <<>>) = <<>>
    <3>1. Lines(<<>>, <<>>) \in Seq(Line) /\ Len(Lines(<<>>, <<>>)) = 0
      BY <1>0, LinesSeq
    <3> QED
      BY <3>1, EmptySeq
  <2>4. hist'.from <= Len(AllLines')
    BY <1>2, <1>3, <2>1
  <2>5. OwnLines' = Lines(<<>>, chain')
    BY <1>1, <2>2, <2>3, Zenon
  <2> QED
    BY <2>4, <2>5, Zenon DEF LogIsChain
<1>8. LiveAccounted'
  <2>1. LiveCap \in Nat \ {0}
    BY AuditAssumption
  <2>2. next' = 1 /\ Oldest' = 1
    BY <1>1, <2>1 DEF Oldest
  <2>3. live' \in [0 .. LiveCap - 1 -> Nat]
    BY <1>1
  <2>4. /\ client' \in [after : Nat, base : Nat, got : Seq(Nat), missed : Nat]
        /\ client'.after = 0 /\ client'.base = 0 /\ client'.got = <<>> /\ client'.missed = 0
    BY <1>0, <1>1 DEF NewClient
  <2>5. Ascending(client'.got) /\ \A i \in DOMAIN client'.got : client'.got[i] <= client'.after
    BY <1>0, <2>4 DEF Ascending
  <2> QED
    BY <1>0, <2>2, <2>3, <2>4, <2>5 DEF LiveAccounted
<1> QED
  BY <1>4, <1>5, <1>6, <1>7, <1>8 DEF AuditInv

LEMMA NoStep ==
    ASSUME AuditInv, UNCHANGED auditVars
    PROVE  AuditInv'
  BY NothingOfTheLog DEF auditVars, rings, view

LEMMA AuditNextKeeps ==
    ASSUME AuditInv, [AuditNext]_auditVars
    PROVE  AuditInv'
<1>1. ASSUME NEW r \in Recorders,
             aigate_record_audit_ex(r) \/ RecordFile(r) \/ RecordHook(r) \/ RecordLive(r)
      PROVE  AuditInv'
  BY <1>1, RecordBegins, RecordFileStep, RecordHookStep, RecordLiveStep, Zenon
<1>2. CASE admin_audit_events_get
  BY <1>2, PollStep
<1>3. CASE audit_logger_reload
  BY <1>3, ReloadStep
<1>4. CASE Reopen
  BY <1>4, ReopenStep
<1>5. CASE PopFile
  BY <1>5, PopFileStep
<1>6. CASE WriteBatch
  BY <1>6, WriteStep
<1>7. CASE LoseBatch
  BY <1>7, LoseBatchStep
<1>8. CASE PopHook
  BY <1>8, PopHookStep
<1>9. CASE Post
  BY <1>9, PostStep
<1>10. CASE audit_logger_stop
  BY <1>10, StopStep
<1>11. CASE Joined
  BY <1>11, JoinedStep
<1>12. CASE AuditRestart
  BY <1>12, RestartStep
<1>13. CASE UNCHANGED auditVars
  BY <1>13, NoStep
<1> QED
  BY <1>1, <1>2, <1>3, <1>4, <1>5, <1>6, <1>7, <1>8, <1>9, <1>10, <1>11, <1>12, <1>13, Zenon DEF AuditNext

-----------------------------------------------------------------------------
(* The theorems                                                              *)

LEMMA AuditIsInductive == AuditSpec => []AuditInv
<1>1. AuditInit => AuditInv
  BY AuditStarts, Zenon
<1>2. AuditInv /\ [AuditNext]_auditVars => AuditInv'
  BY AuditNextKeeps, Zenon
<1> QED
  BY <1>1, <1>2, PTL DEF AuditSpec

\* What the log holds is the signed events, one line each.
LEMMA LogHolds ==
    ASSUME AuditInv
    PROVE  /\ EventsOf(OwnLines) = chain /\ chain \in Seq(Ev)
           /\ Embeds((EventsOf(OwnLines) \o popped) \o fileRing, hist.file)
<1>1. chain \in Seq(Ev)
  BY DEF AuditInv, AuditTypes
<1>2. EventsOf(Lines(<<>>, chain)) = chain
  BY <1>1, EmptySeq, LinesSeq
<1>3. EventsOf(OwnLines) = chain
  <2>1. OwnLines = Lines(<<>>, chain)
    BY Zenon DEF AuditInv, LogIsChain
  <2> QED
    BY <1>2, <2>1, Zenon
<1> QED
  BY <1>1, <1>3, Zenon DEF AuditInv, FileAccounted

\* No event disappears silently: from the ring to the log, to the webhook and to the admin client
\* that polls, what arrives is what was recorded, in that order and once, and what does not is
\* counted (audit_ring_push, audit_file_worker_thread, audit_webhook_worker_thread,
\* audit_logger_query_recent).
THEOREM AuditIsAccounted == AuditSpec => []AuditAccounted
<1>1. ASSUME AuditInv PROVE AuditAccounted
  <2> DEFINE kept == (EventsOf(OwnLines) \o popped) \o fileRing
  <2>1. /\ EventsOf(OwnLines) = chain /\ chain \in Seq(Ev) /\ popped \in Seq(Ev) /\ fileRing \in Seq(Ev)
        /\ Embeds(kept, hist.file)
    <3>1. popped \in Seq(Ev) /\ fileRing \in Seq(Ev)
      BY <1>1 DEF AuditInv, AuditTypes
    <3> QED
      BY <1>1, <3>1, LogHolds, Zenon
  <2>2. Len(kept) = Len(chain) + Len(popped) + Len(fileRing)
    <3>1. chain \o popped \in Seq(Ev) /\ Len(chain \o popped) = Len(chain) + Len(popped)
      BY <2>1, ConcatProperties, Zenon
    <3>2. Len((chain \o popped) \o fileRing) = Len(chain \o popped) + Len(fileRing)
      BY <2>1, <3>1, ConcatProperties, Zenon
    <3> QED
      BY <2>1, <3>1, <3>2, Zenon
  <2>3. Len(hist.file) = Len(kept) + dropped.file + hist.lost
    BY <1>1, <2>2, Zenon DEF AuditInv, FileAccounted
  <2> HIDE DEF kept
  <2>4. /\ \A i \in DOMAIN kept : \E j \in DOMAIN hist.file : hist.file[j] = kept[i]
        /\ \A i, j \in DOMAIN kept : i < j =>
             \E k, m \in DOMAIN hist.file : k < m /\ hist.file[k] = kept[i] /\ hist.file[m] = kept[j]
    <3>1. Found(kept, hist.file)
      BY <2>1, EmbedGives, Zenon
    <3> QED
      BY <3>1, Zenon DEF Found
  <2>5. hist.hooked = Len(hookRing) + Len(hook.batch) + posts.ok + posts.failed + dropped.hook
    BY <1>1 DEF AuditInv, HookAccounted
  <2>6. Ascending(client.got) /\ client.after - client.base = Len(client.got) + client.missed
    BY <1>1, Zenon DEF AuditInv, LiveAccounted
  <2> QED
    BY <2>3, <2>4, <2>5, <2>6, Zenon DEF AuditAccounted, kept
<1> QED
  BY <1>1, AuditIsInductive, PTL

\* The hash chain of a process outlives the files it is written to: whatever rotations, reloads,
\* evictions and lost batches there were, its lines in the backups and the file verify, unless one
\* was too long to sign (audit_hash_chain_sign, audit_file_rotate, audit_hash_chain_verify_file).
THEOREM ChainIsWhole == AuditSpec => []ChainSpansRotation
<1>1. ASSUME AuditInv PROVE ChainSpansRotation
  <2> SUFFICES ASSUME \A i \in DOMAIN hist.file : hist.file[i].sev # "long"
               PROVE  Verifies(OwnLines)
    BY DEF ChainSpansRotation
  <2>1. PICK c \in Seq(Ev), p \in Seq(Ev), r \in Seq(Ev) :
          /\ c = chain /\ p = popped /\ r = fileRing /\ Embeds((c \o p) \o r, hist.file)
    BY <1>1, Zenon DEF AuditInv, AuditTypes, FileAccounted
  <2>2. \A i \in DOMAIN ((c \o p) \o r) : \E j \in DOMAIN hist.file : hist.file[j] = ((c \o p) \o r)[i]
    <3>1. Found((c \o p) \o r, hist.file)
      BY <2>1, EmbedGives, Zenon
    <3> QED
      BY <3>1, Zenon DEF Found
  <2>3. \A i \in DOMAIN c : c[i].sev # "long"
    <3> SUFFICES ASSUME NEW i \in DOMAIN c PROVE c[i].sev # "long"
      OBVIOUS
    <3>1. PICK w \in Seq(Ev) : w = c \o p /\ Len(w) = Len(c) + Len(p)
      BY ConcatProperties
    <3>2. PICK x \in Nat, y \in Nat, z \in Nat : x = Len(c) /\ y = Len(p) /\ z = Len(r)
      BY LenProperties
    <3>3. i \in 1 .. x /\ i \in 1 .. x + y /\ i \in 1 .. x + y + z
      BY <3>2, LenProperties
    <3>4. w[i] = c[i]
      BY <3>1, <3>2, <3>3, ConcatProperties
    <3>5. (w \o r)[i] = w[i] /\ i \in DOMAIN (w \o r)
      <4>1. /\ w \o r \in Seq(Ev) /\ Len(w \o r) = Len(w) + Len(r)
            /\ \A k \in 1 .. Len(w) + Len(r) : (w \o r)[k] = IF k <= Len(w) THEN w[k] ELSE r[k - Len(w)]
        BY ConcatProperties
      <4>2. DOMAIN (w \o r) = 1 .. Len(w \o r)
        BY <4>1, LenProperties
      <4>3. Len(w) = x + y /\ Len(r) = z
        BY <3>1, <3>2
      <4> QED
        BY <3>3, <4>1, <4>2, <4>3
    <3>6. PICK j \in DOMAIN hist.file : hist.file[j] = (w \o r)[i]
      BY <2>2, <3>1, <3>5, Zenon
    <3> QED
      BY <3>4, <3>5, <3>6
  <2>4. Verifies(Lines(<<>>, c))
    BY <2>3, ChainVerifies, Zenon
  <2> QED
    BY <1>1, <2>1, <2>4, Zenon DEF AuditInv, LogIsChain
<1> QED
  BY <1>1, AuditIsInductive, PTL
================================================================================
