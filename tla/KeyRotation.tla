----------------------------- MODULE KeyRotation -----------------------------
(***************************************************************************)
(* aigate --rotate-master-key: pg_store_rotate_master_key re-encrypts the  *)
(* upstream keys of all models (the key of the row and those of its        *)
(* targets) and providers from an old master key to a new one.  The rows   *)
(* are read and tried before the transaction begins; a gateway that still  *)
(* runs on the old master key may store keys meanwhile.  Any call to the   *)
(* database may fail, the answer to COMMIT may be lost, and the command    *)
(* may be killed and run again.                                            *)
(*                                                                         *)
(* A key is a value with the master it is encrypted under; bad stands for  *)
(* a blob that the old master does not decrypt.  The path without a        *)
(* transaction, for test doubles of the store, is left out.                *)
(***************************************************************************)
EXTENDS Naturals, FiniteSets

CONSTANTS
    ModelRows, ProviderRows,
    MaxWrites,     \* bound: keys the gateway stores
    MaxCommands    \* bound: runs of the command

KeyRows == ModelRows \cup ProviderRows
Places(r) == IF r \in ModelRows THEN {"own", "target"} ELSE {"own"}
KeyStates == {"none", "old", "bad"}

VARIABLES
    rows,      \* the stored keys: row -> place -> [v, m]
    cmd,       \* the command: pc, the rows it read
    tx,        \* rows the open transaction has updated: row -> keys
    first,     \* history: the rows before
    touched,   \* history: rows the gateway has written since
    applied,   \* history: the transaction was committed
    writes, commands

rotVars == <<rows, cmd, tx, first, touched, applied, writes, commands>>

NoRead == [r \in {} |-> 0]
NewCmd == [pc |-> "models", read |-> NoRead]

RotInit ==
    /\ rows \in [KeyRows -> UNION {[Places(r) -> {[v |-> 1, m |-> m] : m \in KeyStates}] : r \in KeyRows}]
    /\ \A r \in KeyRows : DOMAIN rows[r] = Places(r)
    /\ cmd = NewCmd /\ tx = NoRead
    /\ first = rows /\ touched = {} /\ applied = FALSE
    /\ writes = 0 /\ commands = 1

Read(rs, s) == [r \in DOMAIN s \cup rs |-> IF r \in rs THEN rows[r] ELSE s[r]]

Goes(pc) == cmd' = [cmd EXCEPT !.pc = pc]

\* Any statement can fail; the transaction is rolled back if it is open.
Fails ==
    /\ cmd.pc \notin {"ok", "failed"}
    /\ Goes("failed") /\ tx' = NoRead
    /\ UNCHANGED <<rows, first, touched, applied, writes, commands>>

SelectModels ==
    /\ cmd.pc = "models"
    /\ cmd' = [pc |-> "providers", read |-> Read(ModelRows, cmd.read)]
    /\ UNCHANGED <<rows, tx, first, touched, applied, writes, commands>>

SelectProviders ==
    /\ cmd.pc = "providers"
    /\ cmd' = [pc |-> "verify", read |-> Read(ProviderRows, cmd.read)]
    /\ UNCHANGED <<rows, tx, first, touched, applied, writes, commands>>

secret_rotate(k) == IF k.m = "old" THEN [k EXCEPT !.m = "new"] ELSE k
Readable(k) == k.m \in {"none", "old"}

\* Mutant: the keys of the targets are not tried.
VerifyOwn == \A r \in DOMAIN cmd.read : Readable(cmd.read[r]["own"])

\* Phase 1: every key that was read is decrypted.
Verified == \A r \in DOMAIN cmd.read : \A p \in Places(r) : Readable(cmd.read[r][p])

Begin ==
    /\ cmd.pc = "verify"
    /\ Goes(IF Verified THEN "update" ELSE "failed")
    /\ UNCHANGED <<rows, tx, first, touched, applied, writes, commands>>

Changed(r) == \E p \in Places(r) : cmd.read[r][p].m = "old"

\* UPDATE of one row, models first, with the keys as they were read. A key that cannot be
\* rotated is left as it is.
UpdateRow(r) ==
    /\ cmd.pc = "update" /\ Changed(r) /\ r \notin DOMAIN tx
    /\ r \in ProviderRows => \A m \in ModelRows : Changed(m) => m \in DOMAIN tx
    /\ tx' = [x \in DOMAIN tx \cup {r} |->
                IF x = r THEN [p \in Places(r) |-> secret_rotate(cmd.read[r][p])] ELSE tx[x]]
    /\ UNCHANGED <<rows, cmd, first, touched, applied, writes, commands>>

\* COMMIT; its answer may be lost.
TxCommit ==
    /\ cmd.pc = "update" /\ \A r \in KeyRows : Changed(r) => r \in DOMAIN tx
    /\ rows' = [r \in KeyRows |-> IF r \in DOMAIN tx THEN tx[r] ELSE rows[r]]
    /\ applied' = TRUE /\ tx' = NoRead
    /\ \E pc \in {"ok", "failed"} : Goes(pc)
    /\ UNCHANGED <<first, touched, writes, commands>>

\* The operator runs the command again with the same two master keys.
RunAgain ==
    /\ cmd.pc = "failed" /\ commands < MaxCommands
    /\ cmd' = NewCmd /\ commands' = commands + 1
    /\ UNCHANGED <<rows, tx, first, touched, applied, writes>>

\* A gateway on the old master key stores a key; rows of the open transaction are locked.
GatewayStores(r, p) ==
    /\ writes < MaxWrites /\ r \notin DOMAIN tx
    /\ writes' = writes + 1
    /\ rows' = [rows EXCEPT ![r][p] = [v |-> 1 + writes', m |-> "old"]]
    /\ touched' = touched \cup {r}
    /\ UNCHANGED <<cmd, tx, first, applied, commands>>

RotNext ==
    \/ SelectModels \/ SelectProviders \/ Begin \/ TxCommit \/ Fails \/ RunAgain
    \/ \E r \in KeyRows : UpdateRow(r) \/ \E p \in Places(r) : GatewayStores(r, p)

RotSpec == RotInit /\ [][RotNext]_rotVars

(***************************************************************************)
(* Properties                                                              *)
(***************************************************************************)
\* The keys nobody else writes are rotated together or not at all, and keep their values: after
\* any failure, crash or second run, either all of them are as they were, or all of them are
\* under the new master, and then the transaction was committed. Success means the latter.
RotationAtomic ==
    LET own == KeyRows \ touched IN
    /\ IF applied
       THEN \A r \in own : \A p \in Places(r) :
              rows[r][p] = secret_rotate(first[r][p]) /\ rows[r][p].m # "bad"
       ELSE \A r \in own : rows[r] = first[r]
    /\ cmd.pc = "ok" => applied
=============================================================================
