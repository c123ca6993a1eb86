------------------------------- MODULE AuditLog -------------------------------
(***************************************************************************)
(* The audit logger of src/observe/audit_logger.c and the signed chain of  *)
(* src/observe/audit_hash_chain.c.  Request threads push an event onto the *)
(* ring of the file worker and, for a violation, onto the ring of the      *)
(* webhook worker, and write it into the live ring that the admin API      *)
(* polls.  Each of the three has a lock of its own.                        *)
(*                                                                         *)
(* Events are numbered in the order they arrive.  A line of the log is the *)
(* event with the sequence number and the hashes it was signed with; a     *)
(* hash stands for everything signed up to it, so it is the sequence of    *)
(* the signed events.  A line that does not fit the signing buffer is      *)
(* written unsigned, but the chain has gone on with it.                    *)
(*                                                                         *)
(* The worker writes and flushes a batch under fp_lock: one step here.     *)
(* Left out: the sampling of INFO events, which only skips some, the       *)
(* texts, and what the violations table of PostgreSQL keeps.               *)
(***************************************************************************)
EXTENDS Integers, Sequences, FiniteSets, SequencesExt

CONSTANTS
    Recorders,      \* request threads
    FileCap,        \* capacity of the file ring
    HookCap,        \* capacity of the webhook ring
    LiveCap,        \* capacity of the live ring
    FileBatch,      \* events the file worker pops at once
    HookBatch,      \* events the webhook worker pops at once
    Page,           \* events an admin poll asks for
    MaxSize,        \* lines after which the file is rotated
    MaxBackups,     \* backups kept
    MaxAuditEvents, \* bound: events recorded
    MaxAuditFaults, \* bound: files that cannot be opened, and reloads
    MaxLives,       \* bound: times the process starts
    Channels        \* configurations: a subset of "file" (log_file), "hook" (webhook_url) and
                    \* "poll" (an admin client watches)

\* audit_logger_create replaces a max_backups of zero or less and audit_ring_create a capacity
\* below four; the batches are arrays, and the admin API asks for at least one event.
ASSUME AuditAssumption ==
    /\ {FileCap, HookCap, LiveCap, FileBatch, HookBatch, Page, MaxBackups} \subseteq Nat \ {0}

VARIABLES
    channels,   \* the configuration
    life,       \* which start of the process this is
    phase,      \* "up", "stopping", "down"
    rec,        \* by request thread: the event it is recording and where it is
    fileRing,   \* events for the file worker
    hookRing,   \* events for the webhook worker
    popped,     \* the batch of the file worker
    hook,       \* the batch of the webhook worker and its attempts at the first event
    dropped,    \* dropped_count of the two rings
    posts,      \* webhook_success_total and webhook_failures_total
    fp,         \* is the log file open
    size,       \* current_file_size, in lines
    reload,     \* reload_requested
    file,       \* the log file
    backups,    \* file.1, file.2, ...
    chain,      \* the signed events: their number is current_seq, they are last_hash
    live,       \* the live ring
    next,       \* next_seq_id
    client,     \* an admin client that polls
    hist,       \* history: pushes onto the rings, what was thrown away, lines deleted
    auditFaults

auditVars == <<channels, life, phase, rec, fileRing, hookRing, popped, hook, dropped, posts, fp, size,
               reload, file, backups, chain, live, next, client, hist, auditFaults>>
rings == <<fileRing, hookRing, popped, hook, dropped, posts>>
disk == <<fp, size, file, backups, chain>>
view == <<live, next, client>>

Severities == {"info", "violation", "long"}     \* long: a violation whose line is too long to sign
Quiet == [pc |-> "idle", ev |-> [n |-> 0, sev |-> "info"]]
NewClient == [after |-> 0, base |-> 0, got |-> <<>>, missed |-> 0]
NoPushes == [file |-> <<>>, hooked |-> 0, lost |-> 0, n |-> 0, old |-> <<>>, from |-> 0]

\* audit_logger_create and audit_logger_start, on whatever log the last process left.
Booted ==
    /\ phase' = "up"
    /\ rec' = [r \in Recorders |-> Quiet]
    /\ fileRing' = <<>> /\ hookRing' = <<>> /\ popped' = <<>>
    /\ hook' = [batch |-> <<>>, attempt |-> 1]
    /\ dropped' = [file |-> 0, hook |-> 0] /\ posts' = [ok |-> 0, failed |-> 0]
    /\ fp' = FALSE /\ size' = 0 /\ reload' = FALSE /\ chain' = <<>>
    /\ live' = [i \in 0 .. LiveCap - 1 |-> 0] /\ next' = 1
    /\ client' = NewClient

AuditInit ==
    /\ channels \in Channels
    /\ life = 1 /\ phase = "up"
    /\ rec = [r \in Recorders |-> Quiet]
    /\ fileRing = <<>> /\ hookRing = <<>> /\ popped = <<>>
    /\ hook = [batch |-> <<>>, attempt |-> 1]
    /\ dropped = [file |-> 0, hook |-> 0] /\ posts = [ok |-> 0, failed |-> 0]
    /\ fp = FALSE /\ size = 0 /\ reload = FALSE /\ chain = <<>>
    /\ file = <<>> /\ backups = <<>>
    /\ live = [i \in 0 .. LiveCap - 1 |-> 0] /\ next = 1
    /\ client = NewClient /\ hist = NoPushes /\ auditFaults = 0

(***************************************************************************)
(* Recording                                                               *)
(***************************************************************************)
\* Mutant: the event that does not fit is dropped, and the count forgotten.
PushNew(ring, ev, cap) ==
    IF Len(ring) = cap THEN [ring |-> ring, evicted |-> 0] ELSE [ring |-> Append(ring, ev), evicted |-> 0]

\* A full ring evicts its oldest event.
audit_ring_push(ring, ev, cap) ==
    IF Len(ring) = cap THEN [ring |-> Append(Tail(ring), ev), evicted |-> 1]
    ELSE [ring |-> Append(ring, ev), evicted |-> 0]

\* Where a thread that still has the given rings to visit goes next.
Recording(ev, left) ==
    [ev |-> ev, pc |-> IF "file" \in left \cap channels THEN "file"
                       ELSE IF "hook" \in left \cap channels /\ ev.sev # "info" THEN "hook" ELSE "live"]

\* aigate_record_audit_ex makes the event and calls audit_logger_record, whose three steps follow.
aigate_record_audit_ex(r) ==
    /\ phase = "up" /\ rec[r].pc = "idle" /\ hist.n < MaxAuditEvents
    /\ \E sev \in Severities :
         rec' = [rec EXCEPT ![r] = Recording([n |-> hist.n + 1, sev |-> sev], {"file", "hook"})]
    /\ hist' = [hist EXCEPT !.n = @ + 1]
    /\ UNCHANGED <<channels, life, phase, rings, disk, view, reload, auditFaults>>

RecordFile(r) ==
    /\ rec[r].pc = "file"
    /\ LET p == audit_ring_push(fileRing, rec[r].ev, FileCap)
       IN  fileRing' = p.ring /\ dropped' = [dropped EXCEPT !.file = @ + p.evicted]
    /\ hist' = [hist EXCEPT !.file = Append(@, rec[r].ev)]
    /\ rec' = [rec EXCEPT ![r] = Recording(@.ev, {"hook"})]
    /\ UNCHANGED <<channels, life, phase, hookRing, popped, hook, posts, disk, view, reload, auditFaults>>

RecordHook(r) ==
    /\ rec[r].pc = "hook"
    /\ LET p == audit_ring_push(hookRing, rec[r].ev, HookCap)
       IN  hookRing' = p.ring /\ dropped' = [dropped EXCEPT !.hook = @ + p.evicted]
    /\ hist' = [hist EXCEPT !.hooked = @ + 1]
    /\ rec' = [rec EXCEPT ![r] = Recording(@.ev, {})]
    /\ UNCHANGED <<channels, life, phase, fileRing, popped, hook, posts, disk, view, reload, auditFaults>>

\* The slot keeps the sequence number it was written with.
RecordLive(r) ==
    /\ rec[r].pc = "live"
    /\ live' = [live EXCEPT ![(next - 1) % LiveCap] = next]
    /\ next' = next + 1
    /\ rec' = [rec EXCEPT ![r] = Quiet]
    /\ UNCHANGED <<channels, life, phase, rings, disk, client, reload, hist, auditFaults>>

(***************************************************************************)
(* The admin client                                                        *)
(***************************************************************************)
Oldest == IF next - 1 > LiveCap THEN next - LiveCap ELSE 1

\* The first sequence number returned, and how many were overwritten before it. A first poll
\* (after_seq = 0) starts a page before the end.
audit_logger_query_recent(after) ==
    IF after = 0
    THEN [missed |-> 0,
          from |-> IF next - 1 > Page /\ next - Page > Oldest THEN next - Page ELSE Oldest]
    ELSE IF after < Oldest - 1 THEN [missed |-> Oldest - 1 - after, from |-> Oldest]
    ELSE [missed |-> 0, from |-> after + 1]

\* The client goes on from the latest_seq of the last answer that had events.
admin_audit_events_get ==
    /\ phase = "up" /\ next > 1 /\ "poll" \in channels
    /\ LET q == audit_logger_query_recent(client.after)
           last == IF next - 1 < q.from + Page - 1 THEN next - 1 ELSE q.from + Page - 1
           got == [i \in 1 .. last - q.from + 1 |-> live[(q.from + i - 2) % LiveCap]]
       IN  /\ got # <<>>
           /\ client' = [client EXCEPT
                !.after = Last(got),
                !.base = IF client.after = 0 THEN q.from - 1 ELSE @,
                !.got = @ \o got,
                !.missed = @ + q.missed]
    /\ UNCHANGED <<channels, life, phase, rec, rings, disk, reload, live, next, hist, auditFaults>>

(***************************************************************************)
(* The file worker                                                         *)
(***************************************************************************)
\* A file is opened in append mode; opening can fail.
Opens(ok) ==
    IF ok THEN fp' = TRUE /\ UNCHANGED auditFaults
    ELSE fp' = FALSE /\ auditFaults < MaxAuditFaults /\ auditFaults' = auditFaults + 1

\* SIGHUP.
audit_logger_reload ==
    /\ phase = "up" /\ "file" \in channels /\ ~reload /\ auditFaults < MaxAuditFaults
    /\ reload' = TRUE /\ auditFaults' = auditFaults + 1
    /\ UNCHANGED <<channels, life, phase, rec, rings, disk, view, hist>>

Reopen ==
    /\ reload /\ popped = <<>> /\ phase \in {"up", "stopping"}
    /\ reload' = FALSE
    /\ \E ok \in BOOLEAN : Opens(ok) /\ size' = IF ok THEN Len(file) ELSE size
    /\ UNCHANGED <<channels, life, phase, rec, rings, file, backups, chain, view, hist>>

PopFile ==
    /\ ~reload /\ popped = <<>> /\ fileRing # <<>> /\ phase \in {"up", "stopping"}
    /\ LET k == IF Len(fileRing) < FileBatch THEN Len(fileRing) ELSE FileBatch
       IN  popped' = SubSeq(fileRing, 1, k) /\ fileRing' = SubSeq(fileRing, k + 1, Len(fileRing))
    /\ UNCHANGED <<channels, life, phase, rec, hookRing, hook, dropped, posts, disk, view, reload, hist, auditFaults>>

\* Mutant: the hash is taken over the line without the hash before it.
SignAlone(signed, ev) ==
    IF ev.sev = "long" THEN [ev |-> ev, seq |-> 0, prev |-> <<>>, hash |-> <<>>]
    ELSE [ev |-> ev, seq |-> Len(signed) + 1, prev |-> signed, hash |-> <<ev>>]

\* The sequence number and the last hash go on before the length is looked at.
audit_hash_chain_sign(signed, ev) ==
    IF ev.sev = "long" THEN [ev |-> ev, seq |-> 0, prev |-> <<>>, hash |-> <<>>]
    ELSE [ev |-> ev, seq |-> Len(signed) + 1, prev |-> signed, hash |-> Append(signed, ev)]

Lines(signed, evs) ==
    [i \in DOMAIN evs |-> audit_hash_chain_sign(signed \o SubSeq(evs, 1, i - 1), evs[i])]

\* Too many backups: the last one is unlinked before the others move up.
Shifted(f) == <<f>> \o (IF Len(backups) = MaxBackups THEN Front(backups) ELSE backups)
Unlinked == IF Len(backups) = MaxBackups THEN Last(backups) ELSE <<>>

\* audit_file_rotate, at the end of a batch; the new file may not open.
audit_file_rotate(f) ==
    /\ file' = <<>> /\ backups' = Shifted(f)
    /\ hist' = [hist EXCEPT !.old = @ \o Unlinked]
    /\ size' = 0
    /\ \E ok \in BOOLEAN : Opens(ok)

WriteBatch ==
    /\ popped # <<>>
    /\ LET written == file \o Lines(chain, popped)
           grown == (IF fp THEN size ELSE Len(file)) + Len(popped)
       IN  /\ chain' = chain \o popped
           /\ IF grown >= MaxSize THEN audit_file_rotate(written)
              ELSE /\ file' = written /\ size' = grown /\ fp' = TRUE
                   /\ UNCHANGED <<backups, hist, auditFaults>>
    /\ popped' = <<>>
    /\ UNCHANGED <<channels, life, phase, rec, fileRing, hookRing, hook, dropped, posts, view, reload>>

\* No file: the batch is thrown away, and nothing counts it.
LoseBatch ==
    /\ popped # <<>> /\ ~fp /\ auditFaults < MaxAuditFaults
    /\ fp' = FALSE /\ auditFaults' = auditFaults + 1
    /\ hist' = [hist EXCEPT !.lost = @ + Len(popped)]
    /\ popped' = <<>>
    /\ UNCHANGED <<channels, life, phase, rec, fileRing, hookRing, hook, dropped, posts, size, file, backups,
                   chain, view, reload>>

(***************************************************************************)
(* The webhook worker                                                      *)
(***************************************************************************)
PopHook ==
    /\ hook.batch = <<>> /\ hookRing # <<>> /\ phase \in {"up", "stopping"}
    /\ LET k == IF Len(hookRing) < HookBatch THEN Len(hookRing) ELSE HookBatch
       IN  /\ hook' = [batch |-> SubSeq(hookRing, 1, k), attempt |-> 1]
           /\ hookRing' = SubSeq(hookRing, k + 1, Len(hookRing))
    /\ UNCHANGED <<channels, life, phase, rec, fileRing, popped, dropped, posts, disk, view, reload, hist, auditFaults>>

\* Three attempts, or one once the logger is being stopped.
Post ==
    /\ hook.batch # <<>>
    /\ \E ok \in BOOLEAN :
         IF ~ok /\ hook.attempt < 3 /\ phase = "up"
         THEN hook' = [hook EXCEPT !.attempt = @ + 1] /\ UNCHANGED posts
         ELSE /\ hook' = [batch |-> Tail(hook.batch), attempt |-> 1]
              /\ posts' = IF ok THEN [posts EXCEPT !.ok = @ + 1] ELSE [posts EXCEPT !.failed = @ + 1]
    /\ UNCHANGED <<channels, life, phase, rec, fileRing, hookRing, popped, dropped, disk, view, reload, hist, auditFaults>>

(***************************************************************************)
(* Stop, crash, restart                                                    *)
(***************************************************************************)
\* aigate_core_shutdown, after the transport has stopped: no request is under way.
audit_logger_stop ==
    /\ phase = "up" /\ \A r \in Recorders : rec[r].pc = "idle"
    /\ phase' = "stopping"
    /\ UNCHANGED <<channels, life, rec, rings, disk, view, reload, hist, auditFaults>>

\* Mutant: a worker leaves its loop without a look at the ring.
WorkersDoneAtOnce == popped = <<>> /\ hook.batch = <<>>

\* Both workers have left their loops.
WorkersDone == popped = <<>> /\ hook.batch = <<>> /\ fileRing = <<>> /\ hookRing = <<>>

\* Joined, and the file is closed.
Joined ==
    /\ phase = "stopping" /\ WorkersDone
    /\ phase' = "down" /\ fp' = FALSE
    /\ UNCHANGED <<channels, life, rec, rings, size, file, backups, chain, view, reload, hist, auditFaults>>

\* The next process appends to the same file. It may also come after a crash.
AuditRestart ==
    /\ life < MaxLives
    /\ life' = life + 1
    /\ Booted
    /\ hist' = [NoPushes EXCEPT !.n = hist.n, !.from = Len(hist.old \o FlattenSeq(Reverse(backups)) \o file),
                                !.old = hist.old]
    /\ UNCHANGED <<channels, file, backups, auditFaults>>

FileWorker == Reopen \/ PopFile \/ WriteBatch \/ LoseBatch
HookWorker == PopHook \/ Post

AuditNext ==
    \/ \E r \in Recorders :
         aigate_record_audit_ex(r) \/ RecordFile(r) \/ RecordHook(r) \/ RecordLive(r)
    \/ admin_audit_events_get \/ audit_logger_reload
    \/ Reopen \/ PopFile \/ WriteBatch \/ LoseBatch \/ PopHook \/ Post
    \/ audit_logger_stop \/ Joined \/ AuditRestart

AuditSpec == AuditInit /\ [][AuditNext]_auditVars

\* The workers run as long as there is something to do, and stop waits for them.
AuditFairness ==
    /\ WF_auditVars(FileWorker) /\ WF_auditVars(HookWorker) /\ WF_auditVars(Joined)

(***************************************************************************)
(* Properties                                                              *)
(***************************************************************************)
\* All lines on disk, deleted ones included, oldest first, and those of this process.
AllLines == hist.old \o FlattenSeq(Reverse(backups)) \o file
OwnLines == SubSeq(AllLines, hist.from + 1, Len(AllLines))
EventsOf(lines) == [i \in DOMAIN lines |-> lines[i].ev]

Ascending(s) == \A i, j \in DOMAIN s : i < j => s[i] < s[j]

\* An event that reached the file ring is in the log, on its way there, or counted: what is in the
\* log, with the worker and in the ring is part of what was pushed, in that order and without
\* doubles, and the rest was evicted and counted by dropped_count or thrown away with its batch
\* for want of a file (audit_ring_push, audit_file_worker_thread). A violation pushed for the
\* webhook is pending, evicted, or counted once as a success or a failure. A client that polls
\* with the latest_seq of the answer before sees every event of the live ring in order and once,
\* and what it did not see was reported in missed_count (admin_audit_events_get).
AuditAccounted ==
    LET kept == EventsOf(OwnLines) \o popped \o fileRing
    IN  /\ \A i \in DOMAIN kept : \E j \in DOMAIN hist.file : hist.file[j] = kept[i]
        /\ \A i, j \in DOMAIN kept : i < j =>
             \E k, m \in DOMAIN hist.file : k < m /\ hist.file[k] = kept[i] /\ hist.file[m] = kept[j]
        /\ Len(hist.file) = Len(kept) + dropped.file + hist.lost
        /\ hist.hooked = Len(hookRing) + Len(hook.batch) + posts.ok + posts.failed + dropped.hook
        /\ Ascending(client.got)
        /\ client.after - client.base = Len(client.got) + client.missed

\* What audit_hash_chain_verify_file answers for a file.
Verifies(lines) ==
    \A i \in DOMAIN lines :
        /\ lines[i].seq = i
        /\ lines[i].prev = IF i = 1 THEN <<>> ELSE lines[i - 1].hash
        /\ lines[i].hash = Append(lines[i].prev, lines[i].ev)

\* The chain of one process goes on through reloads, rotations, lost batches and evictions: its
\* lines in the backups and the file, put together, verify, as long as every line fits the buffer
\* (audit_hash_chain_sign, audit_file_rotate).
ChainSpansRotation ==
    (\A i \in DOMAIN hist.file : hist.file[i].sev # "long") => Verifies(OwnLines)

\* A stop ends, with nothing left in the rings (audit_logger_stop: the workers drain them).
StopDrains ==
    (phase = "stopping") ~> (phase # "stopping" /\ (phase = "down" => fileRing = <<>> /\ hookRing = <<>>))

(***************************************************************************)
(* What the header says and the code does not do                           *)
(***************************************************************************)
\* A log file that nobody touched is valid: "0 if entire file is valid; -1 if tampered, truncated,
\* or broken" (audit_hash_chain.h).
UntouchedVerifies == Verifies(file)
=============================================================================
