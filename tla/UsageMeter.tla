------------------------------ MODULE UsageMeter ------------------------------
(***************************************************************************)
(* The usage meter of src/store/usage_meter.c: request threads record what *)
(* a request used, a worker thread writes it to PostgreSQL every few       *)
(* seconds, and usage_meter_free writes what is left.                      *)
(*                                                                         *)
(* Requests are numbered 1, 2, 3, ... as they are recorded.  The daily     *)
(* table acc keeps, for a key and model pair, the set of the requests its  *)
(* sums stand for; the audit ring keeps one row per request.  Both change  *)
(* only under the meter's mutex, which the worker gives up while it talks  *)
(* to the database: what it drained is then in rows or in out, and request *)
(* threads go on recording.                                                *)
(*                                                                         *)
(* A flush ends in one of three ways (src/store/pg_store.c): stored, error *)
(* (rolled back and reported), or lost (the result of COMMIT is not looked *)
(* at, so a commit that fails is reported as stored).                      *)
(*                                                                         *)
(* Left out: the lifetime counters and the latency histograms, which       *)
(* nothing here reads, and the reset of the daily quotas (rl_reset_day).   *)
(***************************************************************************)
EXTENDS Integers, FiniteSets, Sequences, SequencesExt

CONSTANTS
    Keys,         \* key and model pairs
    AccCap,       \* UM_ACC_CAP, slots of the daily table
    ReqCap,       \* UM_REQ_CAP, slots of the audit ring
    Batch,        \* UM_REQ_BATCH, rows the worker drains from the ring at once
    FinalCap,     \* rows usage_meter_free drains at once
    MaxRequests,  \* bound: requests recorded
    LastDay       \* bound: the last UTC day

ASSUME UsageAssumption ==
    /\ IsFiniteSet(Keys)
    /\ AccCap \in Nat \ {0} /\ ReqCap \in Nat \ {0}
    /\ Batch \in Nat \ {0} /\ FinalCap \in Nat \ {0}
    /\ MaxRequests \in Nat /\ LastDay \in Nat

VARIABLES
    n,          \* requests recorded so far
    today,      \* the UTC day
    madeOn,     \* the day each request was recorded on
    acc,        \* the daily table: requests and day by key, free slots are empty
    rows,       \* what um_drain copied out, until it is flushed or merged back
    stored,     \* requests whose usage is in usage_daily
    lost,       \* requests whose usage is nowhere any more
    ring,       \* req_ring
    head,       \* req_head
    tail,       \* req_tail
    dropped,    \* req_dropped
    out,        \* the audit rows um_drain_requests copied out
    saved,      \* audit rows in usage_requests
    gone,       \* number of audit rows that a failed commit or shutdown lost
    stop,       \* um->stop
    pc,         \* where the worker, and then usage_meter_free, is
    overrun     \* the table was full, or a commit or a final flush failed (history)

daily == <<acc, rows, stored, lost, madeOn>>
audit == <<ring, head, tail, dropped, out, saved, gone>>
vars == <<n, today, daily, audit, stop, pc, overrun>>

Free == [ids |-> {}, day |-> 0]
None == [k \in Keys |-> Free]
Used(table) == {k \in Keys : table[k].ids # {}}

Init ==
    /\ n = 0 /\ today = 0 /\ madeOn = <<>>
    /\ acc = None /\ rows = None /\ stored = {} /\ lost = {}
    /\ ring = [i \in 0 .. ReqCap - 1 |-> 0] /\ head = 0 /\ tail = 0 /\ dropped = 0
    /\ out = <<>> /\ saved = <<>> /\ gone = 0
    /\ stop = FALSE /\ pc = "sleep" /\ overrun = FALSE

Ids(table) == UNION {table[k].ids : k \in Keys}

-----------------------------------------------------------------------------
(* Wrong variants of operators below, one slip each: every property of a run *)
(* is checked to fail when its variant stands in for the operator.           *)

\* the drained slots are not cleared
DrainKeeps ==
    /\ pc = "sleep" /\ ~stop
    /\ rows' = acc
    /\ pc' = IF Used(acc) = {} THEN "reqs" ELSE "flush"
    /\ UNCHANGED <<n, today, acc, stored, lost, madeOn, audit, stop, overrun>>

\* the worker gives up on the first failed flush
FlushGivesUp(result) ==
    /\ pc = "flush"
    /\ pc' = IF result = "error" THEN "returned" ELSE "reqs"
    /\ stored' = IF result = "stored" THEN stored \cup Ids(rows) ELSE stored
    /\ lost' = IF result = "lost" THEN lost \cup Ids(rows) ELSE lost
    /\ overrun' = (overrun \/ result = "lost")
    /\ rows' = IF result = "error" THEN rows ELSE None
    /\ UNCHANGED <<n, today, acc, madeOn, audit, stop>>

\* the day of the drained row wins over the day of the slot
MergedRowDay(slot, row) == [ids |-> slot.ids \cup row.ids, day |-> row.day]

\* rows that were overwritten in the meantime are not counted
RequeueUncounted ==
    /\ pc = "requeue"
    /\ LET back == head - Len(out)
           lim  == tail - ReqCap
       IN  head' = IF back < lim THEN lim ELSE back
    /\ out' = <<>>
    /\ pc' = "sleep"
    /\ UNCHANGED <<n, today, daily, ring, tail, dropped, saved, gone, stop, overrun>>

\* the head goes back past what the ring still has
RequeueUnclamped ==
    /\ pc = "requeue"
    /\ head' = head - Len(out)
    /\ out' = <<>>
    /\ pc' = "sleep"
    /\ UNCHANGED <<n, today, daily, ring, tail, dropped, saved, gone, stop, overrun>>

-----------------------------------------------------------------------------
(* Recording                                                                 *)

\* The accumulator pass of um_record_full: an existing slot takes the new day
\* for all it holds; without a free slot the usage is not accumulated.
Accumulate(k, id) ==
    IF k \in Used(acc) \/ Cardinality(Used(acc)) < AccCap
    THEN /\ acc' = [acc EXCEPT ![k] = [ids |-> @.ids \cup {id}, day |-> today]]
         /\ UNCHANGED <<lost, overrun>>
    ELSE /\ lost' = lost \cup {id}
         /\ overrun' = TRUE
         /\ UNCHANGED acc

\* The ring pass: the row is written at the tail, and taken back and counted
\* if the ring was full (its slot, the oldest pending row's, keeps it).
Enqueue(id) ==
    /\ ring' = [ring EXCEPT ![tail % ReqCap] = id]
    /\ IF tail + 1 - head > ReqCap
       THEN dropped' = dropped + 1 /\ UNCHANGED tail
       ELSE tail' = tail + 1 /\ UNCHANGED dropped

um_record_full(k) ==
    /\ ~stop
    /\ n < MaxRequests
    /\ n' = n + 1
    /\ madeOn' = Append(madeOn, today)
    /\ Accumulate(k, n + 1)
    /\ Enqueue(n + 1)
    /\ UNCHANGED <<today, rows, stored, head, out, saved, gone, stop, pc>>

Midnight ==
    /\ today < LastDay
    /\ today' = today + 1
    /\ UNCHANGED <<n, daily, audit, stop, pc, overrun>>

-----------------------------------------------------------------------------
(* The worker                                                                *)

\* um_drain, first half: the table is copied and cleared under the mutex.
um_drain ==
    /\ pc = "sleep" /\ ~stop
    /\ rows' = acc
    /\ acc' = None
    /\ pc' = IF Used(acc) = {} THEN "reqs" ELSE "flush"
    /\ UNCHANGED <<n, today, stored, lost, madeOn, audit, stop, overrun>>

\* um_drain, second half: flush_usage, one transaction for all rows
flush_usage(result) ==
    /\ pc = "flush"
    /\ pc' = IF result = "error" THEN "unflush" ELSE "reqs"
    /\ stored' = IF result = "stored" THEN stored \cup Ids(rows) ELSE stored
    /\ lost' = IF result = "lost" THEN lost \cup Ids(rows) ELSE lost
    /\ overrun' = (overrun \/ result = "lost")
    /\ rows' = IF result = "error" THEN rows ELSE None
    /\ UNCHANGED <<n, today, acc, madeOn, audit, stop>>

\* The row of a key merged back into its slot, whose day wins.
Merged(slot, row) ==
    IF slot.ids = {} THEN row ELSE [slot EXCEPT !.ids = @ \cup row.ids]

\* um_unflush: row after row, up to the first that finds no slot; kept are the
\* keys whose rows were merged.
um_unflush(kept) ==
    /\ pc = "unflush"
    /\ LET used == Used(acc) \cup kept
           rest == Used(rows) \ kept
       IN  /\ Cardinality(used) <= AccCap
           /\ rest # {} => Cardinality(used) = AccCap /\ ~(rest \subseteq used)
           /\ lost' = lost \cup UNION {rows[k].ids : k \in rest}
           /\ overrun' = (overrun \/ rest # {})
    /\ acc' = [k \in Keys |-> IF k \in kept THEN Merged(acc[k], rows[k]) ELSE acc[k]]
    /\ rows' = None
    /\ pc' = "reqs"
    /\ UNCHANGED <<n, today, stored, madeOn, audit, stop>>

\* The oldest rows of the ring, at most cap of them.
Oldest(cap) ==
    LET m == IF tail - head > cap THEN cap ELSE tail - head
    IN  [i \in 1 .. m |-> ring[(head + i - 1) % ReqCap]]

\* um_flush_request_batch, first half: the rows leave the ring
um_drain_requests ==
    /\ pc = "reqs" /\ ~stop
    /\ out' = Oldest(Batch)
    /\ head' = head + Len(out')
    /\ pc' = IF out' = <<>> THEN "sleep" ELSE "reqflush"
    /\ UNCHANGED <<n, today, daily, ring, tail, dropped, saved, gone, stop, overrun>>

\* second half: flush_usage_requests; after a full batch the worker goes on
flush_usage_requests(result) ==
    /\ pc = "reqflush"
    /\ saved' = IF result = "stored" THEN saved \o out ELSE saved
    /\ gone' = IF result = "lost" THEN gone + Len(out) ELSE gone
    /\ pc' = IF result = "error" THEN "requeue" ELSE IF Len(out) = Batch THEN "reqs" ELSE "sleep"
    /\ out' = IF result = "error" THEN out ELSE <<>>
    /\ overrun' = (overrun \/ result = "lost")
    /\ UNCHANGED <<n, today, daily, ring, head, tail, dropped, stop>>

\* um_requeue_requests: the head goes back, not past what the ring still has
um_requeue_requests ==
    /\ pc = "requeue"
    /\ LET back == head - Len(out)
           lim  == tail - ReqCap
       IN  IF back < lim
           THEN head' = lim /\ dropped' = dropped + (lim - back)
           ELSE head' = back /\ UNCHANGED dropped
    /\ out' = <<>>
    /\ pc' = "sleep"
    /\ UNCHANGED <<n, today, daily, ring, tail, saved, gone, stop, overrun>>

-----------------------------------------------------------------------------
(* usage_meter_free: the server has stopped, so nothing records any more.    *)

Stop ==
    /\ ~stop
    /\ stop' = TRUE
    /\ UNCHANGED <<n, today, daily, audit, pc, overrun>>

\* The worker returns and is joined.
WorkerExit ==
    /\ stop /\ pc \in {"sleep", "reqs"}
    /\ pc' = "final"
    /\ UNCHANGED <<n, today, daily, audit, stop, overrun>>

\* One round of the final drain.  When more slots are used than the buffer has
\* rows, um_drain has already cleared the first ones when it gives up, and
\* the loop ends.
FinalDrain(result) ==
    /\ pc = "final"
    /\ LET flushed == Used(acc) # {} /\ Cardinality(Used(acc)) <= FinalCap
           kept    == flushed /\ result = "stored"
       IN  /\ pc' = IF flushed /\ result # "error" THEN "final" ELSE "finalreqs"
           /\ stored' = IF kept THEN stored \cup Ids(acc) ELSE stored
           /\ lost' = IF kept THEN lost ELSE lost \cup Ids(acc)
           /\ overrun' = (overrun \/ (flushed /\ ~kept))
    /\ acc' = None
    /\ UNCHANGED <<n, today, rows, madeOn, audit, stop>>

\* One round of the final audit drain: a failed flush loses its batch and
\* leaves the rest in the ring that is freed.
FinalRequests(result) ==
    /\ pc = "finalreqs"
    /\ LET last == Oldest(FinalCap)
           kept == result = "stored"
       IN  /\ head' = head + Len(last)
           /\ saved' = IF kept THEN saved \o last ELSE saved
           /\ gone' = IF kept THEN gone ELSE gone + Len(last)
           /\ pc' = IF result = "error" \/ last = <<>> THEN "freed" ELSE "finalreqs"
           /\ overrun' = (overrun \/ (last # <<>> /\ ~kept))
    /\ UNCHANGED <<n, today, daily, ring, tail, dropped, out, stop>>

-----------------------------------------------------------------------------
Results == {"stored", "error", "lost"}

Worker ==
    \/ um_drain
    \/ \E result \in Results : flush_usage(result)
    \/ \E kept \in SUBSET Used(rows) : um_unflush(kept)
    \/ um_drain_requests
    \/ \E result \in Results : flush_usage_requests(result)
    \/ um_requeue_requests
    \/ WorkerExit
    \/ \E result \in Results : FinalDrain(result)
    \/ \E result \in Results : FinalRequests(result)

Next ==
    \/ \E k \in Keys : um_record_full(k)
    \/ Midnight
    \/ Worker
    \/ Stop

\* The worker runs, and the database is not away for ever.
Spec ==
    /\ Init
    /\ [][Next]_vars
    /\ WF_vars(Worker)
    /\ SF_vars(flush_usage("stored"))
    /\ SF_vars(flush_usage_requests("stored"))

-----------------------------------------------------------------------------
Phases == {"sleep", "flush", "unflush", "reqs", "reqflush", "requeue",
           "final", "finalreqs", "freed"}

Slot == [ids : SUBSET (1 .. n), day : 0 .. LastDay]

\* The types of the meter; the ring never holds more rows than it has slots.
TypeOK ==
    /\ n \in 0 .. MaxRequests /\ today \in 0 .. LastDay
    /\ madeOn \in [1 .. n -> 0 .. LastDay]
    /\ acc \in [Keys -> Slot] /\ rows \in [Keys -> Slot]
    /\ stored \subseteq 1 .. n /\ lost \subseteq 1 .. n
    /\ ring \in [0 .. ReqCap - 1 -> 0 .. n]
    /\ head \in Nat /\ tail \in Nat /\ tail - head \in 0 .. ReqCap
    /\ dropped \in Nat /\ gone \in Nat
    /\ out \in Seq(1 .. n) /\ saved \in Seq(1 .. n)
    /\ stop \in BOOLEAN /\ overrun \in BOOLEAN
    /\ pc \in Phases

\* The usage of every request is in exactly one place: in the table, drained,
\* stored or lost; and before the shutdown none is lost unless the table was
\* full or a commit failed, however many flushes fail and whatever is
\* recorded while they run (worker_main: "flush failed: re-queue drained rows
\* so nothing is lost").
UsageCountedOnce ==
    LET place == <<Ids(acc), Ids(rows), stored, lost>>
    IN  /\ UNION Range(place) = 1 .. n
        /\ \A i, j \in 1 .. 4 : i # j => place[i] \cap place[j] = {}
        /\ \A k, l \in Keys : k # l => acc[k].ids \cap acc[l].ids = {}
        /\ lost # {} => overrun \/ pc \in {"finalreqs", "freed"}

\* Usage may be accounted to a later day than the one it was made on, because
\* a slot has one day for all it holds, but never to an earlier one: neither
\* recording after midnight nor a re-queued row turns the day of a slot back.
NeverBackdated ==
    \A k \in Keys : \A slot \in {acc[k], rows[k]} : \A id \in slot.ids :
        madeOn[id] <= slot.day

\* The rows the ring holds, oldest first.
PendingRows == [i \in 1 .. tail - head |-> ring[(head + i - 1) % ReqCap]]

\* Every audit row is saved, pending, drained, counted in req_dropped or in a
\* batch that a failed commit or the shutdown lost: an overflow is counted
\* once, in um_record_full or in um_requeue_requests, and the counter
\* accounts for everything missing from usage_requests.
DropsAreCounted ==
    n = Len(saved) + Len(PendingRows) + Len(out) + dropped + gone

\* No request has two audit rows: a batch that is re-queued while new rows
\* were written over its slots is retried without them.
NoRowTwice == IsInjective(saved \o out \o PendingRows)

\* Whatever a request recorded leaves the meter, as long as the database comes
\* back often enough: a failed flush is retried, and a table that is drained
\* and refilled, or a ring that is re-queued, does not keep anything for ever.
EventuallyFlushed ==
    \A id \in 1 .. MaxRequests :
        LET held == id \in Ids(acc) \cup Ids(rows) \cup Range(out \o PendingRows)
        IN  held ~> (~held \/ pc = "freed")

-----------------------------------------------------------------------------
(* What the comments say and the code does not do                            *)

\* A pending row stays in its slot until it is drained (um_record_full: "ring
\* full: backpressure on a brand-new slot would evict an unflushed row, so
\* drop this one and count it").
PendingRowsStay ==
    [][\A i \in head .. tail - 1 :
          i >= head' => ring'[i % ReqCap] = ring[i % ReqCap]]_vars

\* When the meter is freed and neither the table overflowed nor a flush or
\* commit failed, all usage is stored (usage_meter.h: "Stop the worker,
\* perform a final drain + flush, and free.").
FinalDrainComplete ==
    pc = "freed" /\ ~overrun => stored = 1 .. n
=============================================================================
