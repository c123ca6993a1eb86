--------------------------- MODULE UsageMeterProofs ---------------------------
(***************************************************************************)
(* Proofs about the usage meter (UsageMeter), for any number of keys,      *)
(* requests and days and any capacities.                                   *)
(*                                                                         *)
(* The daily table and the audit ring have invariants of their own.        *)
(* UsageCountedOnce is not inductive: a drain would overwrite rows that    *)
(* are still to be flushed, so DailyInv adds that there are none outside   *)
(* the flush, and that drained keys are apart.  NeverBackdated needs that  *)
(* a slot filled after the drain is no older than the row drained from it. *)
(* NoRowTwice needs to know what the ring still keeps of a batch that was  *)
(* copied out: the slots that no later row has taken, in their places.     *)
(***************************************************************************)
EXTENDS UsageMeter, SequenceTheorems, FiniteSetTheorems, TLAPS

DailyTypes ==
    /\ n \in Nat /\ n <= MaxRequests /\ today \in 0 .. LastDay
    /\ madeOn \in Seq(0 .. LastDay) /\ Len(madeOn) = n
    /\ acc \in [Keys -> Slot] /\ rows \in [Keys -> Slot]
    /\ stored \subseteq 1 .. n /\ lost \subseteq 1 .. n
    /\ overrun \in BOOLEAN /\ pc \in Phases

\* The usage of a request is in one place at most, and in one at least.
Exclusive ==
    /\ \A k \in Keys : \A x \in acc[k].ids :
         x \notin stored /\ x \notin lost /\ \A l \in Keys : x \notin rows[l].ids /\ (l # k => x \notin acc[l].ids)
    /\ \A k \in Keys : \A x \in rows[k].ids :
         x \notin stored /\ x \notin lost /\ \A l \in Keys : l # k => x \notin rows[l].ids
    /\ \A x \in stored : x \notin lost

Complete ==
    \A x \in 1 .. n : x \in stored \/ x \in lost \/ \E k \in Keys : x \in acc[k].ids \/ x \in rows[k].ids

NothingDrained == pc \notin {"flush", "unflush"} => \A k \in Keys : rows[k].ids = {}

LossIsMarked == lost # {} => overrun \/ pc \in {"finalreqs", "freed"}

\* The day of a slot is not before that of the row drained from it.
Days ==
    /\ \A id \in 1 .. n : madeOn[id] <= today
    /\ \A k \in Keys : acc[k].day <= today /\ rows[k].day <= today
    /\ \A k \in Keys : acc[k].ids # {} => rows[k].day <= acc[k].day

DailyInv ==
    DailyTypes /\ Exclusive /\ Complete /\ NothingDrained /\ LossIsMarked /\ Days /\ NeverBackdated

Row(i) == ring[i % ReqCap]

\* The first row of the batch that was copied out, as an index of the ring, and the first of them
\* that the ring still keeps.
Back == head - Len(out)
Kept == IF Back < tail - ReqCap THEN tail - ReqCap ELSE Back

AuditTypes ==
    /\ n \in Nat /\ ring \in [0 .. ReqCap - 1 -> 0 .. n]
    /\ head \in Nat /\ tail \in Nat /\ head <= tail /\ tail - head <= ReqCap
    /\ dropped \in Nat /\ gone \in Nat
    /\ out \in Seq(1 .. n) /\ saved \in Seq(1 .. n) /\ Len(out) <= head
    /\ pc \in Phases

NothingOut == pc \notin {"reqflush", "requeue"} => out = <<>>

Accounted == n = Len(saved) + (tail - head) + Len(out) + dropped + gone

\* No id twice among what is saved, out and pending.
Apart ==
    /\ \A a, b \in 1 .. Len(saved) : saved[a] = saved[b] => a = b
    /\ \A a, b \in 1 .. Len(out) : out[a] = out[b] => a = b
    /\ \A i, j \in head .. tail - 1 : Row(i) = Row(j) => i = j
    /\ \A i \in head .. tail - 1 : Row(i) \in 1 .. n
    /\ \A a \in 1 .. Len(saved), b \in 1 .. Len(out) : saved[a] # out[b]
    /\ \A a \in 1 .. Len(saved), i \in head .. tail - 1 : saved[a] # Row(i)
    /\ \A b \in 1 .. Len(out), i \in head .. tail - 1 : out[b] # Row(i)

RingKeepsOut == \A i \in Kept .. head - 1 : Row(i) = out[i - Back + 1]

AuditInv == AuditTypes /\ NothingOut /\ Accounted /\ Apart /\ RingKeepsOut

-----------------------------------------------------------------------------
(* The daily table                                                           *)

LEMMA IdsIn == \A table, x : x \in Ids(table) <=> \E k \in Keys : x \in table[k].ids
  BY DEF Ids

LEMMA NoneIds == \A k \in Keys : None[k] = Free /\ None[k].ids = {} /\ None[k].day = 0
  BY DEF None, Free

LEMMA NoneTyped == ASSUME DailyTypes PROVE None \in [Keys -> Slot]
<1>1. Free \in Slot
  BY UsageAssumption DEF Free, Slot
<1> QED
  BY <1>1 DEF None

LEMMA SlotFields ==
    ASSUME NEW table \in [Keys -> Slot], NEW k \in Keys
    PROVE  table[k] \in Slot /\ table[k].ids \in SUBSET (1 .. n) /\ table[k].day \in 0 .. LastDay
  BY DEF Slot

LEMMA DailyInit == Init => DailyInv
<1> SUFFICES ASSUME Init PROVE DailyInv
  OBVIOUS
<1>1. n = 0 /\ today = 0 /\ madeOn = <<>> /\ acc = None /\ rows = None /\ stored = {} /\ lost = {}
      /\ pc = "sleep" /\ overrun = FALSE
  BY DEF Init
<1>2. Free \in Slot
  BY <1>1, UsageAssumption DEF Free, Slot
<1>3. DailyTypes
  <2>1. n \in Nat /\ n <= MaxRequests /\ today \in 0 .. LastDay
    BY <1>1, UsageAssumption
  <2>4. pc \in Phases /\ overrun \in BOOLEAN
    BY <1>1 DEF Phases
  <2>2. madeOn \in Seq(0 .. LastDay) /\ Len(madeOn) = n
    BY <1>1, EmptySeq
  <2>3. acc \in [Keys -> Slot] /\ rows \in [Keys -> Slot]
    BY <1>1, <1>2 DEF None
  <2> QED
    BY <1>1, <2>1, <2>2, <2>3, <2>4 DEF DailyTypes
<1>4. \A id \in 1 .. n : FALSE
  BY <1>1
<1>5. Exclusive /\ Complete /\ NothingDrained /\ LossIsMarked /\ Days /\ NeverBackdated
  BY <1>1, <1>4, NoneIds DEF Exclusive, Complete, NothingDrained, LossIsMarked, Days, NeverBackdated
<1> QED
  BY <1>3, <1>5 DEF DailyInv

\* A step that leaves the table and the drained rows alone, and does not leave the flush.
LEMMA DailyKept ==
    ASSUME DailyInv, UNCHANGED <<n, today, madeOn, acc, rows, stored, lost>>,
           pc \in {"flush", "unflush"} => pc' = pc,
           pc \in {"finalreqs", "freed"} => pc' \in {"finalreqs", "freed"},
           pc' \in Phases, overrun' \in BOOLEAN, overrun => overrun'
    PROVE  DailyInv'
<1>1. DailyTypes'
  BY DEF DailyInv, DailyTypes, Slot
<1>2. Exclusive' /\ Complete' /\ Days' /\ NeverBackdated'
  BY DEF DailyInv, Exclusive, Complete, Days, NeverBackdated
<1>3. NothingDrained' /\ LossIsMarked'
  BY DEF DailyInv, NothingDrained, LossIsMarked
<1> QED
  BY <1>1, <1>2, <1>3 DEF DailyInv

LEMMA RecordDaily ==
    ASSUME DailyInv, NEW k \in Keys, um_record_full(k)
    PROVE  DailyInv'
<1> DEFINE id == n + 1
           new == [ids |-> acc[k].ids \cup {id}, day |-> today]
<1>1. /\ n' = id /\ madeOn' = Append(madeOn, today) /\ UNCHANGED <<today, rows, stored, pc>>
      /\ n \in Nat /\ id \in Nat /\ n < MaxRequests /\ id \notin 1 .. n
  BY DEF um_record_full, DailyInv, DailyTypes
<1>2. \/ acc' = [acc EXCEPT ![k] = new] /\ UNCHANGED <<lost, overrun>>
      \/ lost' = lost \cup {id} /\ overrun' = TRUE /\ acc' = acc
  BY DEF um_record_full, Accumulate
<1>3. /\ 1 .. n' = 1 .. n \cup {id}
      /\ \A x \in Slot : x \in [ids : SUBSET (1 .. n'), day : 0 .. LastDay]
  BY <1>1 DEF Slot
<1>4. new \in [ids : SUBSET (1 .. n'), day : 0 .. LastDay] /\ new.ids = acc[k].ids \cup {id} /\ new.day = today
  BY <1>3, SlotFields DEF DailyInv, DailyTypes
<1>5. madeOn' \in Seq(0 .. LastDay) /\ Len(madeOn') = n' /\ madeOn'[id] = today
      /\ \A x \in 1 .. n : madeOn'[x] = madeOn[x] /\ madeOn[x] \in 0 .. LastDay
  <2>1. madeOn \in Seq(0 .. LastDay) /\ Len(madeOn) = n /\ today \in 0 .. LastDay
    BY DEF DailyInv, DailyTypes
  <2>2. /\ Append(madeOn, today) \in Seq(0 .. LastDay) /\ Len(Append(madeOn, today)) = n + 1
        /\ Append(madeOn, today)[n + 1] = today
        /\ \A x \in 1 .. n : Append(madeOn, today)[x] = madeOn[x]
    BY <2>1, AppendProperties
  <2>3. \A x \in 1 .. n : madeOn[x] \in 0 .. LastDay
    BY <2>1, ElementOfSeq
  <2> QED
    BY <1>1, <2>2, <2>3
<1>6. /\ \A l \in Keys : id \notin acc[l].ids /\ id \notin rows[l].ids
      /\ id \notin stored /\ id \notin lost
  BY <1>1, SlotFields DEF DailyInv, DailyTypes
<1> HIDE DEF id, new
<1>7. DailyTypes'
  <2>1. acc' \in [Keys -> Slot'] /\ rows' \in [Keys -> Slot']
    <3>1. Slot \subseteq Slot' /\ new \in Slot'
      BY <1>3, <1>4 DEF Slot
    <3> QED
      BY <1>1, <1>2, <3>1 DEF DailyInv, DailyTypes
  <2>2. stored' \subseteq 1 .. n' /\ lost' \subseteq 1 .. n' /\ overrun' \in BOOLEAN
    BY <1>1, <1>2, <1>3 DEF DailyInv, DailyTypes
  <2>3. n' \in Nat /\ n' <= MaxRequests
    BY <1>1, UsageAssumption DEF id
  <2> QED
    BY <1>1, <1>5, <2>1, <2>2, <2>3 DEF DailyInv, DailyTypes
<1>8. \A l \in Keys : acc'[l] = IF l = k /\ acc' # acc THEN new ELSE acc[l]
  BY <1>2 DEF DailyInv, DailyTypes
<1>9. Days'
  <2>1. \A x \in 1 .. n' : madeOn'[x] <= today'
    BY <1>1, <1>3, <1>5 DEF DailyInv, DailyTypes, Days
  <2>2. \A l \in Keys : /\ acc'[l].day <= today /\ rows[l].day <= today
                        /\ acc'[l].ids # {} => rows[l].day <= acc'[l].day
    BY <1>4, <1>8 DEF DailyInv, DailyTypes, Days
  <2> QED
    BY <1>1, <2>1, <2>2 DEF Days
<1>10. NeverBackdated'
  <2> SUFFICES ASSUME NEW l \in Keys, NEW slot \in {acc'[l], rows[l]}, NEW x \in slot.ids
               PROVE  madeOn'[x] <= slot.day
    BY <1>1 DEF NeverBackdated
  <2>1. CASE slot \in {acc[l], rows[l]}
    <3>1. x \in 1 .. n
      BY <2>1, SlotFields DEF DailyInv, DailyTypes
    <3> QED
      BY <1>5, <2>1, <3>1 DEF DailyInv, NeverBackdated
  <2>2. CASE slot = new /\ l = k
    <3>1. x \in 1 .. n \/ x = id
      BY <1>4, <2>2, SlotFields DEF DailyInv, DailyTypes
    <3> QED
      BY <1>4, <1>5, <2>2, <3>1 DEF DailyInv, DailyTypes, Days
  <2> QED
    BY <1>8, <2>1, <2>2
<1>11. Exclusive'
  <2>1. CASE acc' = [acc EXCEPT ![k] = new] /\ lost' = lost
    <3>1. \A l \in Keys : \A x : x \in acc'[l].ids <=> x \in acc[l].ids \/ (l = k /\ x = id)
      BY <1>4, <2>1 DEF DailyInv, DailyTypes
    <3> QED
      BY <1>1, <1>6, <2>1, <3>1 DEF DailyInv, Exclusive
  <2>2. CASE acc' = acc /\ lost' = lost \cup {id}
    BY <1>1, <1>6, <2>2 DEF DailyInv, Exclusive
  <2> QED
    BY <1>2, <2>1, <2>2
<1>12. Complete'
  <2>1. \A l \in Keys : \A x \in acc[l].ids : x \in acc'[l].ids
    BY <1>4, <1>8
  <2>2. id \in acc'[k].ids \/ id \in lost'
    BY <1>2, <1>4 DEF DailyInv, DailyTypes
  <2> QED
    BY <1>1, <1>2, <1>3, <2>1, <2>2 DEF DailyInv, Complete
<1>13. NothingDrained' /\ LossIsMarked'
  BY <1>1, <1>2 DEF DailyInv, NothingDrained, LossIsMarked
<1> QED
  BY <1>7, <1>9, <1>10, <1>11, <1>12, <1>13 DEF DailyInv

LEMMA MidnightDaily == DailyInv /\ Midnight => DailyInv'
<1> SUFFICES ASSUME DailyInv, Midnight PROVE DailyInv'
  OBVIOUS
<1>1. today' = today + 1 /\ today' \in 0 .. LastDay /\ today <= today'
      /\ UNCHANGED <<n, madeOn, acc, rows, stored, lost, pc, overrun>>
  BY UsageAssumption DEF Midnight, daily, DailyInv, DailyTypes
<1>2. DailyTypes'
  BY <1>1 DEF DailyInv, DailyTypes, Slot
<1>3. Exclusive' /\ Complete' /\ NothingDrained' /\ LossIsMarked' /\ NeverBackdated'
  BY <1>1 DEF DailyInv, Exclusive, Complete, NothingDrained, LossIsMarked, NeverBackdated
<1>4. \A id \in 1 .. n : madeOn[id] \in 0 .. LastDay
  BY ElementOfSeq DEF DailyInv, DailyTypes
<1>5. Days'
  <2>1. \A id \in 1 .. n : madeOn[id] <= today'
    BY <1>1, <1>4 DEF DailyInv, DailyTypes, Days
  <2>2. \A k \in Keys : acc[k].day <= today' /\ rows[k].day <= today'
    BY <1>1, SlotFields DEF DailyInv, DailyTypes, Days
  <2> QED
    BY <1>1, <2>1, <2>2 DEF DailyInv, Days
<1> QED
  BY <1>2, <1>3, <1>5 DEF DailyInv

LEMMA DrainDaily == DailyInv /\ um_drain => DailyInv'
<1> SUFFICES ASSUME DailyInv, um_drain PROVE DailyInv'
  OBVIOUS
<1>1. /\ pc = "sleep" /\ rows' = acc /\ acc' = None /\ pc' = IF Used(acc) = {} THEN "reqs" ELSE "flush"
      /\ UNCHANGED <<n, today, stored, lost, madeOn, overrun>>
  BY DEF um_drain
<1>2. \A k \in Keys : rows[k].ids = {}
  BY <1>1 DEF DailyInv, NothingDrained
<1>3. None \in [Keys -> Slot] /\ pc' \in Phases
  BY <1>1, NoneTyped DEF DailyInv, Phases
<1>4. DailyTypes'
  BY <1>1, <1>3 DEF DailyInv, DailyTypes, Slot
<1>5. Exclusive' /\ Complete'
  BY <1>1, <1>2, NoneIds DEF DailyInv, Exclusive, Complete
<1>6. NothingDrained' /\ LossIsMarked'
  BY <1>1 DEF DailyInv, NothingDrained, LossIsMarked, Used
<1>7. Days' /\ NeverBackdated'
  <2>1. \A k \in Keys : None[k].day <= today
    BY NoneIds DEF DailyInv, DailyTypes
  <2> QED
    BY <1>1, <2>1, NoneIds DEF DailyInv, Days, NeverBackdated
<1> QED
  BY <1>4, <1>5, <1>6, <1>7 DEF DailyInv

LEMMA FlushDaily ==
    ASSUME DailyInv, NEW result \in Results, flush_usage(result)
    PROVE  DailyInv'
<1>1. /\ pc = "flush" /\ pc' = IF result = "error" THEN "unflush" ELSE "reqs"
      /\ stored' = IF result = "stored" THEN stored \cup Ids(rows) ELSE stored
      /\ lost' = IF result = "lost" THEN lost \cup Ids(rows) ELSE lost
      /\ overrun' = (overrun \/ result = "lost")
      /\ rows' = IF result = "error" THEN rows ELSE None
      /\ UNCHANGED <<n, today, acc, madeOn>>
  BY DEF flush_usage
<1>2. Ids(rows) \subseteq 1 .. n
  BY IdsIn, SlotFields DEF DailyInv, DailyTypes
<1>3. None \in [Keys -> Slot] /\ pc' \in Phases /\ overrun' \in BOOLEAN
  BY <1>1, NoneTyped DEF DailyInv, Phases
<1>4. DailyTypes'
  BY <1>1, <1>2, <1>3 DEF DailyInv, DailyTypes, Slot
<1>5. Exclusive'
  BY <1>1, IdsIn, NoneIds DEF DailyInv, Exclusive, Results
<1>6. Complete'
  BY <1>1, IdsIn, NoneIds DEF DailyInv, Complete, Results
<1>7. NothingDrained' /\ LossIsMarked'
  BY <1>1, NoneIds DEF DailyInv, NothingDrained, LossIsMarked
<1>8. Days' /\ NeverBackdated'
  <2>1. \A k \in Keys : None[k].day <= today /\ None[k].day <= acc[k].day
    BY NoneIds, SlotFields DEF DailyInv, DailyTypes
  <2> QED
    BY <1>1, <2>1, NoneIds DEF DailyInv, Days, NeverBackdated
<1> QED
  BY <1>4, <1>5, <1>6, <1>7, <1>8 DEF DailyInv

\* What merging a row back into its slot gives.
LEMMA MergedSlot ==
    ASSUME NEW slot \in Slot, NEW row \in Slot
    PROVE  /\ Merged(slot, row) \in Slot
           /\ Merged(slot, row).ids = slot.ids \cup row.ids
           /\ Merged(slot, row).day = IF slot.ids = {} THEN row.day ELSE slot.day
<1>1. slot.ids \in SUBSET (1 .. n) /\ row.ids \in SUBSET (1 .. n)
  BY DEF Slot
<1> QED
  BY <1>1 DEF Merged, Slot

LEMMA UnflushDaily ==
    ASSUME DailyInv, NEW kept \in SUBSET Used(rows), um_unflush(kept)
    PROVE  DailyInv'
<1> DEFINE rest == Used(rows) \ kept
           given == UNION {rows[k].ids : k \in rest}
<1>1. /\ pc = "unflush" /\ pc' = "reqs" /\ rows' = None
      /\ lost' = lost \cup given /\ overrun' = (overrun \/ rest # {})
      /\ acc' = [k \in Keys |-> IF k \in kept THEN Merged(acc[k], rows[k]) ELSE acc[k]]
      /\ UNCHANGED <<n, today, stored, madeOn>>
  BY DEF um_unflush
<1>2. /\ kept \subseteq Keys /\ rest \subseteq Keys /\ kept \cap rest = {}
      /\ \A k \in Keys : rows[k].ids # {} => k \in kept \/ k \in rest
  BY DEF Used
<1>3. /\ \A x : x \in given <=> \E k \in rest : x \in rows[k].ids
      /\ given # {} => rest # {}
  OBVIOUS
<1> HIDE DEF rest, given
<1>4. \A k \in Keys : /\ acc'[k] \in Slot
                      /\ acc'[k].ids = IF k \in kept THEN acc[k].ids \cup rows[k].ids ELSE acc[k].ids
                      /\ acc'[k].day = IF k \in kept /\ acc[k].ids = {} THEN rows[k].day ELSE acc[k].day
  BY <1>1, MergedSlot DEF DailyInv, DailyTypes
<1>5. DailyTypes'
  <2>1. given \subseteq 1 .. n
    BY <1>2, <1>3, SlotFields DEF DailyInv, DailyTypes
  <2>2. acc' \in [Keys -> Slot] /\ rows' \in [Keys -> Slot] /\ pc' \in Phases /\ overrun' \in BOOLEAN
    BY <1>1, <1>4, NoneTyped DEF DailyInv, Phases
  <2> QED
    BY <1>1, <2>1, <2>2 DEF DailyInv, DailyTypes, Slot
<1>6. Exclusive'
  <2>1. \A k \in Keys : \A x : x \in acc'[k].ids => x \in acc[k].ids \/ (k \in kept /\ x \in rows[k].ids)
    BY <1>4
  <2>2. \A x \in given : x \notin stored /\ \A k \in Keys : x \notin acc'[k].ids
    BY <1>2, <1>3, <2>1 DEF DailyInv, Exclusive
  <2>3. \A k \in Keys : \A x \in acc'[k].ids : x \notin stored /\ x \notin lost'
    BY <1>1, <2>1, <2>2 DEF DailyInv, Exclusive
  <2>4. \A k, l \in Keys : \A x \in acc'[k].ids : k # l => x \notin acc'[l].ids
    BY <2>1 DEF DailyInv, Exclusive
  <2> QED
    BY <1>1, <2>2, <2>3, <2>4, NoneIds DEF DailyInv, Exclusive
<1>7. Complete'
  <2>1. \A k \in Keys : \A x : x \in acc[k].ids => x \in acc'[k].ids
    BY <1>4
  <2>2. \A k \in Keys : \A x : x \in rows[k].ids => x \in acc'[k].ids \/ x \in given
    BY <1>2, <1>3, <1>4
  <2> QED
    BY <1>1, <2>1, <2>2 DEF DailyInv, Complete
<1>8. NothingDrained' /\ LossIsMarked'
  <2>1. lost' # {} => overrun'
    BY <1>1, <1>3 DEF DailyInv, LossIsMarked
  <2> QED
    BY <1>1, <2>1, NoneIds DEF NothingDrained, LossIsMarked
<1>9. Days'
  <2>1. \A k \in Keys : acc'[k].day <= today /\ None[k].day <= today /\ None[k].day <= acc'[k].day
    <3> SUFFICES ASSUME NEW k \in Keys
                 PROVE  acc'[k].day <= today /\ None[k].day <= today /\ None[k].day <= acc'[k].day
      OBVIOUS
    <3>1. acc[k].day \in 0 .. LastDay /\ rows[k].day \in 0 .. LastDay /\ acc[k].day <= today /\ rows[k].day <= today
          /\ today \in 0 .. LastDay
      BY SlotFields DEF DailyInv, DailyTypes, Days
    <3>2. acc'[k].day = acc[k].day \/ acc'[k].day = rows[k].day
      BY <1>4
    <3> QED
      BY <3>1, <3>2, NoneIds
  <2> QED
    BY <1>1, <2>1 DEF DailyInv, Days
<1>10. NeverBackdated'
  <2>1. ASSUME NEW k \in Keys, NEW x \in acc'[k].ids PROVE madeOn[x] <= acc'[k].day
    <3>1. CASE k \in kept /\ x \in rows[k].ids /\ acc[k].ids # {}
      <4>1. x \in 1 .. n /\ madeOn[x] \in 0 .. LastDay /\ rows[k].day \in 0 .. LastDay /\ acc[k].day \in 0 .. LastDay
        BY <3>1, SlotFields, ElementOfSeq DEF DailyInv, DailyTypes
      <4>2. madeOn[x] <= rows[k].day /\ rows[k].day <= acc[k].day /\ acc'[k].day = acc[k].day
        BY <1>4, <3>1 DEF DailyInv, Days, NeverBackdated
      <4> QED
        BY <4>1, <4>2
    <3>2. CASE k \in kept /\ x \in rows[k].ids /\ acc[k].ids = {}
      BY <1>4, <3>2 DEF DailyInv, NeverBackdated
    <3>3. CASE x \in acc[k].ids
      BY <1>4, <3>3 DEF DailyInv, NeverBackdated
    <3> QED
      BY <1>4, <2>1, <3>1, <3>2, <3>3
  <2> QED
    BY <1>1, <2>1, NoneIds DEF NeverBackdated
<1> QED
  BY <1>5, <1>6, <1>7, <1>8, <1>9, <1>10 DEF DailyInv

LEMMA FinalDaily ==
    ASSUME DailyInv, NEW result \in Results, FinalDrain(result)
    PROVE  DailyInv'
<1> DEFINE flushed == Used(acc) # {} /\ Cardinality(Used(acc)) <= FinalCap
           keeps == flushed /\ result = "stored"
<1>1. /\ pc = "final" /\ pc' = IF flushed /\ result # "error" THEN "final" ELSE "finalreqs"
      /\ stored' = IF keeps THEN stored \cup Ids(acc) ELSE stored
      /\ lost' = IF keeps THEN lost ELSE lost \cup Ids(acc)
      /\ overrun' = (overrun \/ (flushed /\ ~keeps))
      /\ acc' = None
      /\ UNCHANGED <<n, today, rows, madeOn>>
  BY DEF FinalDrain
<1>2. Ids(acc) \subseteq 1 .. n
  BY IdsIn, SlotFields DEF DailyInv, DailyTypes
<1>3. None \in [Keys -> Slot] /\ pc' \in Phases /\ overrun' \in BOOLEAN
  BY <1>1, NoneTyped DEF DailyInv, Phases
<1>4. \A k \in Keys : rows[k].ids = {}
  BY <1>1 DEF DailyInv, NothingDrained
<1>5. LossIsMarked' /\ NothingDrained'
  <2>1. CASE keeps
    BY <1>1, <1>4, <2>1 DEF DailyInv, LossIsMarked, NothingDrained
  <2>2. CASE ~keeps
    BY <1>1, <1>4, <2>2 DEF DailyInv, LossIsMarked, NothingDrained
  <2> QED
    BY <2>1, <2>2
<1> HIDE DEF flushed, keeps
<1>6. DailyTypes'
  BY <1>1, <1>2, <1>3 DEF DailyInv, DailyTypes, Slot
<1>7. Exclusive'
  BY <1>1, <1>4, IdsIn, NoneIds DEF DailyInv, Exclusive
<1>8. Complete'
  BY <1>1, <1>4, IdsIn DEF DailyInv, Complete
<1>9. Days' /\ NeverBackdated'
  <2>1. \A k \in Keys : None[k].day <= today
    BY NoneIds DEF DailyInv, DailyTypes
  <2> QED
    BY <1>1, <2>1, NoneIds DEF DailyInv, Days, NeverBackdated
<1> QED
  BY <1>5, <1>6, <1>7, <1>8, <1>9 DEF DailyInv

LEMMA DailyNext == DailyInv /\ [Next]_vars => DailyInv'
<1> SUFFICES ASSUME DailyInv, [Next]_vars PROVE DailyInv'
  OBVIOUS
<1>0. overrun \in BOOLEAN /\ pc \in Phases
  BY DEF DailyInv, DailyTypes
<1>1. CASE UNCHANGED vars
  BY <1>0, <1>1, DailyKept DEF vars, daily
<1>2. CASE um_drain_requests
  BY <1>0, <1>2, DailyKept DEF um_drain_requests, daily, Phases
<1>3. ASSUME NEW result \in Results, flush_usage_requests(result) PROVE DailyInv'
  <2>1. overrun' = (overrun \/ result = "lost") /\ pc' \in {"requeue", "reqs", "sleep"} /\ pc = "reqflush"
        /\ UNCHANGED <<n, today, daily>>
    BY <1>3 DEF flush_usage_requests
  <2> QED
    BY <1>0, <2>1, DailyKept DEF daily, Phases
<1>4. CASE um_requeue_requests
  BY <1>0, <1>4, DailyKept DEF um_requeue_requests, daily, Phases
<1>5. CASE Stop \/ WorkerExit
  BY <1>0, <1>5, DailyKept DEF Stop, WorkerExit, daily, Phases
<1>6. ASSUME NEW result \in Results, FinalRequests(result) PROVE DailyInv'
  <2>1. (overrun => overrun') /\ overrun' \in BOOLEAN /\ pc' \in {"freed", "finalreqs"} /\ pc = "finalreqs"
        /\ UNCHANGED <<n, today, daily>>
    BY <1>0, <1>6 DEF FinalRequests
  <2> QED
    BY <1>0, <2>1, DailyKept DEF daily, Phases
<1> QED
  BY <1>1, <1>2, <1>3, <1>4, <1>5, <1>6, MidnightDaily, RecordDaily, DrainDaily, FlushDaily, UnflushDaily, FinalDaily
  DEF Next, Worker

\* The usage of every request is in exactly one of the table, the drained rows, the database and what
\* is lost, and before the shutdown nothing is lost unless the table overflowed or a commit failed
\* (um_record_full, um_drain, um_unflush, usage_meter_free).
THEOREM UsageIsCountedOnce == Spec => []UsageCountedOnce
<1>1. DailyInv => UsageCountedOnce
  <2> SUFFICES ASSUME DailyInv PROVE UsageCountedOnce
    OBVIOUS
  <2> DEFINE place == <<Ids(acc), Ids(rows), stored, lost>>
  <2>1. Ids(acc) \cup Ids(rows) \cup stored \cup lost = 1 .. n
    <3>1. Ids(acc) \subseteq 1 .. n /\ Ids(rows) \subseteq 1 .. n
      BY IdsIn, SlotFields DEF DailyInv, DailyTypes
    <3>2. \A x \in 1 .. n : x \in Ids(acc) \/ x \in Ids(rows) \/ x \in stored \/ x \in lost
      BY IdsIn DEF DailyInv, Complete
    <3> QED
      BY <3>1, <3>2 DEF DailyInv, DailyTypes
  <2>2. UNION Range(place) = Ids(acc) \cup Ids(rows) \cup stored \cup lost
    <3>1. DOMAIN place = 1 .. 4 /\ place[1] = Ids(acc) /\ place[2] = Ids(rows) /\ place[3] = stored /\ place[4] = lost
      OBVIOUS
    <3>2. 1 .. 4 = {1, 2, 3, 4}
      OBVIOUS
    <3> HIDE DEF place
    <3>3. Range(place) = {Ids(acc), Ids(rows), stored, lost}
      BY <3>1, <3>2 DEF Range
    <3> QED
      BY <3>3
  <2>3. /\ Ids(acc) \cap Ids(rows) = {} /\ Ids(acc) \cap stored = {} /\ Ids(acc) \cap lost = {}
        /\ Ids(rows) \cap stored = {} /\ Ids(rows) \cap lost = {} /\ stored \cap lost = {}
    BY IdsIn DEF DailyInv, Exclusive
  <2>4. \A i, j \in 1 .. 4 : i # j => place[i] \cap place[j] = {}
    BY <2>3
  <2>5. \A k, l \in Keys : k # l => acc[k].ids \cap acc[l].ids = {}
    BY DEF DailyInv, Exclusive
  <2> HIDE DEF place
  <2> QED
    BY <2>1, <2>2, <2>4, <2>5 DEF UsageCountedOnce, place, DailyInv, LossIsMarked
<1> QED
  BY <1>1, DailyInit, DailyNext, PTL DEF Spec

\* No usage is accounted to a day before the one it was made on, whatever is recorded after midnight
\* while a flush of the day before fails and is merged back (um_record_full, um_unflush).
THEOREM UsageNeverBackdated == Spec => []NeverBackdated
<1>1. DailyInv => NeverBackdated
  BY DEF DailyInv
<1> QED
  BY <1>1, DailyInit, DailyNext, PTL DEF Spec

-----------------------------------------------------------------------------
(* The audit ring                                                            *)

LEMMA DivMod ==
    ASSUME NEW c \in Int, c > 0, NEW x \in Int
    PROVE  x = c * (x \div c) + (x % c) /\ x \div c \in Int /\ x % c \in 0 .. c - 1
  BY SMT

LEMMA TimesFacts ==
    ASSUME NEW c \in Int, c > 0, NEW d \in Int
    PROVE  (d >= 1 => c * d >= c) /\ (d <= 0 => c * d <= 0)
  OBVIOUS

\* Indexes less than a ring apart have slots of their own.
LEMMA SlotsApart ==
    ASSUME NEW c \in Int, c > 0, NEW x \in Int, NEW y \in Int, x < y, y - x < c
    PROVE  x % c # y % c
<1> SUFFICES ASSUME x % c = y % c PROVE FALSE
  OBVIOUS
<1> DEFINE a == x \div c
           b == y \div c
           u == x % c
           v == y % c
<1>1. x = c * a + u /\ y = c * b + v /\ a \in Int /\ b \in Int /\ u \in Int /\ v \in Int /\ u = v
  BY DivMod
<1> HIDE DEF a, b, u, v
<1>2. y - x = c * (b - a) /\ b - a \in Int
  BY <1>1
<1>3. CASE b - a >= 1
  BY <1>2, <1>3, TimesFacts
<1>4. CASE b - a <= 0
  BY <1>2, <1>4, TimesFacts
<1> QED
  BY <1>2, <1>3, <1>4

\* Indexes a ring apart share a slot.
LEMMA SlotShared ==
    ASSUME NEW c \in Int, c > 0, NEW x \in Int
    PROVE  (x + c) % c = x % c
<1> DEFINE a == x \div c
           b == (x + c) \div c
           u == x % c
           v == (x + c) % c
<1>1. x = c * a + u /\ x + c = c * b + v /\ a \in Int /\ b \in Int /\ u \in 0 .. c - 1 /\ v \in 0 .. c - 1
  BY DivMod
<1> HIDE DEF a, b, u, v
<1>2. c * ((a + 1) - b) = v - u /\ (a + 1) - b \in Int
  BY <1>1
<1>3. c * (b - (a + 1)) = u - v /\ b - (a + 1) \in Int
  BY <1>1
<1>4. CASE (a + 1) - b >= 1
  BY <1>1, <1>2, <1>4, TimesFacts
<1>5. CASE b - (a + 1) >= 1
  BY <1>1, <1>3, <1>5, TimesFacts
<1>6. CASE b = a + 1
  BY <1>1, <1>6
<1>7. u = v
  BY <1>1, <1>4, <1>5, <1>6
<1> QED
  BY <1>7 DEF u, v

LEMMA SeqGrows ==
    ASSUME NEW S, NEW T, S \subseteq T, NEW s \in Seq(S)
    PROVE  s \in Seq(T)
  OBVIOUS

\* A step that leaves the ring and the batch alone.
LEMMA AuditKept ==
    ASSUME AuditInv, UNCHANGED <<n, ring, head, tail, dropped, out, saved, gone>>,
           pc \in {"reqflush", "requeue"} => pc' \in {"reqflush", "requeue"}, pc' \in Phases
    PROVE  AuditInv'
<1>1. AuditTypes' /\ NothingOut' /\ Accounted'
  BY DEF AuditInv, AuditTypes, NothingOut, Accounted
<1>2. Apart'
  BY DEF AuditInv, Apart, Row
<1>3. RingKeepsOut'
  BY DEF AuditInv, RingKeepsOut, Row, Kept, Back
<1> QED
  BY <1>1, <1>2, <1>3 DEF AuditInv

LEMMA AuditInit == Init => AuditInv
<1> SUFFICES ASSUME Init PROVE AuditInv
  OBVIOUS
<1>1. n = 0 /\ ring = [i \in 0 .. ReqCap - 1 |-> 0] /\ head = 0 /\ tail = 0 /\ dropped = 0
      /\ out = <<>> /\ saved = <<>> /\ gone = 0 /\ pc = "sleep"
  BY DEF Init
<1>2. Len(out) = 0 /\ Len(saved) = 0 /\ out \in Seq(1 .. n) /\ saved \in Seq(1 .. n)
  BY <1>1, EmptySeq
<1>3. AuditTypes /\ NothingOut /\ Accounted
  BY <1>1, <1>2, UsageAssumption DEF AuditTypes, NothingOut, Accounted, Phases
<1>4. head .. tail - 1 = {} /\ 1 .. Len(out) = {} /\ 1 .. Len(saved) = {} /\ Kept .. head - 1 = {}
  BY <1>1, <1>2, UsageAssumption DEF Kept, Back
<1> QED
  BY <1>3, <1>4 DEF AuditInv, Apart, RingKeepsOut

LEMMA RecordAudit ==
    ASSUME AuditInv, NEW k \in Keys, um_record_full(k)
    PROVE  AuditInv'
<1> DEFINE id == n + 1
           c == ReqCap
<1>1. /\ n' = id /\ ring' = [ring EXCEPT ![tail % c] = id] /\ UNCHANGED <<head, out, saved, gone, pc>>
      /\ IF tail + 1 - head > c THEN dropped' = dropped + 1 /\ tail' = tail ELSE tail' = tail + 1 /\ dropped' = dropped
  BY DEF um_record_full, Enqueue
<1>2. /\ n \in Nat /\ head \in Nat /\ tail \in Nat /\ head <= tail /\ tail - head <= c /\ c \in Nat \ {0}
      /\ Len(out) \in Nat /\ Len(saved) \in Nat /\ Len(out) <= head /\ dropped \in Nat /\ gone \in Nat
      /\ out \in Seq(1 .. n) /\ saved \in Seq(1 .. n) /\ ring \in [0 .. c - 1 -> 0 .. n]
  BY UsageAssumption, LenProperties DEF AuditInv, AuditTypes
<1>3. /\ id \in Nat /\ 1 .. n' = 1 .. n \cup {id} /\ id \notin 1 .. n /\ 0 .. n' = 0 .. n \cup {id}
  BY <1>1, <1>2
<1>4. tail % c \in 0 .. c - 1
  BY <1>2, DivMod
<1>5. ring'[tail % c] = id /\ \A i \in 0 .. c - 1 : i # tail % c => ring'[i] = ring[i]
  BY <1>1, <1>2, <1>4
<1> HIDE DEF id, c
<1>6. ASSUME NEW i \in Int, tail - c < i, i < tail
      PROVE  ring'[i % c] = ring[i % c]
  <2>1. c \in Int /\ c > 0 /\ tail \in Int /\ tail - i < c
    BY <1>2, <1>6
  <2>2. i % c # tail % c
    BY <1>6, <2>1, SlotsApart
  <2>3. i % c \in 0 .. c - 1
    BY <2>1, DivMod
  <2> QED
    BY <1>5, <2>2, <2>3
\* The new row is at j, and no other pending row moved.
<1>7. \E j \in Int : /\ ring'[j % c] = id
                     /\ \A i \in head .. tail' - 1 : i # j => i \in head .. tail - 1 /\ ring'[i % c] = ring[i % c]
  <2>1. CASE ~(tail + 1 - head > c)
    <3>1. tail' = tail + 1 /\ tail - c < head
      BY <1>1, <1>2, <2>1 DEF c
    <3>2. \A i \in head .. tail' - 1 : i # tail => i \in Int /\ i \in head .. tail - 1 /\ tail - c < i /\ i < tail
      BY <1>2, <3>1
    <3>3. tail \in Int
      BY <1>2
    <3> QED
      BY <1>5, <1>6, <3>2, <3>3
  <2>2. CASE tail + 1 - head > c
    <3>1. tail' = tail /\ tail = head + c /\ c \in Int /\ c > 0 /\ head \in Int
      BY <1>1, <1>2, <2>2 DEF c
    <3>2. tail % c = head % c
      BY <3>1, SlotShared
    <3>3. \A i \in head .. tail' - 1 : i # head => i \in Int /\ i \in head .. tail - 1 /\ tail - c < i /\ i < tail
      BY <1>2, <3>1
    <3> QED
      BY <1>5, <1>6, <3>1, <3>2, <3>3
  <2> QED
    BY <2>1, <2>2
<1>8. PICK j \in Int : /\ ring'[j % c] = id
                       /\ \A i \in head .. tail' - 1 : i # j => i \in head .. tail - 1 /\ ring'[i % c] = ring[i % c]
  BY <1>7
<1>9. Apart'
  <2>1. /\ \A a \in 1 .. Len(saved) : saved[a] \in 1 .. n
        /\ \A b \in 1 .. Len(out) : out[b] \in 1 .. n
    BY <1>2, ElementOfSeq
  <2>2. ASSUME NEW i \in head .. tail' - 1
        PROVE  \/ i = j /\ Row(i)' = id
               \/ i # j /\ i \in head .. tail - 1 /\ Row(i)' = Row(i) /\ Row(i) \in 1 .. n
    BY <1>8 DEF AuditInv, Apart, Row, c
  <2>3. \A i \in head .. tail' - 1 : Row(i)' \in 1 .. n'
    BY <1>3, <2>2
  <2>4. \A i, l \in head .. tail' - 1 : Row(i)' = Row(l)' => i = l
    <3> SUFFICES ASSUME NEW i \in head .. tail' - 1, NEW l \in head .. tail' - 1, Row(i)' = Row(l)' PROVE i = l
      OBVIOUS
    <3>1. Row(i) = Row(l) /\ i \in head .. tail - 1 /\ l \in head .. tail - 1 => i = l
      BY DEF AuditInv, Apart
    <3> QED
      BY <1>3, <2>2, <3>1
  <2>5. \A a \in 1 .. Len(saved), i \in head .. tail' - 1 : saved[a] # Row(i)'
    BY <1>3, <2>1, <2>2 DEF AuditInv, Apart
  <2>6. \A b \in 1 .. Len(out), i \in head .. tail' - 1 : out[b] # Row(i)'
    BY <1>3, <2>1, <2>2 DEF AuditInv, Apart
  <2> HIDE DEF Row
  <2> QED
    BY <1>1, <2>3, <2>4, <2>5, <2>6 DEF AuditInv, Apart
<1>10. /\ head \in Nat /\ tail \in Nat /\ head <= tail /\ tail - head <= c /\ c \in Nat /\ c > 0
       /\ dropped \in Nat /\ gone \in Nat
  BY <1>2
<1>11. \/ tail' = tail /\ dropped' = dropped + 1 /\ tail = head + c
       \/ tail' = tail + 1 /\ dropped' = dropped /\ tail + 1 <= head + c
  <2>1. CASE tail + 1 - head > c
    <3>1. tail' = tail /\ dropped' = dropped + 1
      BY <1>1, <2>1 DEF c
    <3> QED
      BY <1>10, <2>1, <3>1
  <2>2. CASE ~(tail + 1 - head > c)
    <3>1. tail' = tail + 1 /\ dropped' = dropped
      BY <1>1, <2>2 DEF c
    <3> QED
      BY <1>10, <2>2, <3>1
  <2> QED
    BY <2>1, <2>2
<1>12. RingKeepsOut'
  <2> SUFFICES ASSUME NEW i \in Kept' .. head - 1 PROVE ring'[i % c] = out[i - Back + 1]
    BY <1>1 DEF RingKeepsOut, Row, Back, c
  <2>1. Kept \in Int /\ Kept' \in Int /\ Kept <= Kept' /\ (tail' = tail => Kept' >= head) /\ (tail' = tail + 1 => tail - c < Kept')
    <3> DEFINE y == Len(out)
    <3>1. /\ y \in Nat /\ Kept = IF head - y < tail - c THEN tail - c ELSE head - y
          /\ Kept' = IF head - y < tail' - c THEN tail' - c ELSE head - y
      BY <1>1, <1>2 DEF Kept, Back, c
    <3> HIDE DEF y
    <3> QED
      BY <1>10, <1>11, <3>1
  <2>2. tail' = tail \/ tail' = tail + 1
    BY <1>1
  <2>3. i \in Int /\ i \in Kept .. head - 1 /\ tail - c < i /\ i < tail
    BY <1>2, <2>1, <2>2
  <2>4. ring'[i % c] = ring[i % c]
    BY <1>6, <2>3
  <2> QED
    BY <2>3, <2>4 DEF AuditInv, RingKeepsOut, Row, c
<1>13. AuditTypes'
  <2>1. out' \in Seq(1 .. n') /\ saved' \in Seq(1 .. n')
    BY <1>1, <1>2, <1>3, SeqGrows
  <2>2. ring' \in [0 .. c - 1 -> 0 .. n']
    BY <1>1, <1>2, <1>3 DEF id
  <2>3. tail' \in Nat /\ head <= tail' /\ tail' - head <= c /\ dropped' \in Nat
    BY <1>10, <1>11
  <2> QED
    BY <1>1, <1>2, <1>3, <2>1, <2>2, <2>3 DEF AuditInv, AuditTypes, c
<1>14. NothingOut' /\ Accounted'
  <2> DEFINE x == Len(saved)
             y == Len(out)
  <2>1. n = x + (tail - head) + y + dropped + gone /\ x \in Nat /\ y \in Nat
    BY <1>2 DEF AuditInv, Accounted
  <2> HIDE DEF x, y
  <2>2. n' = x + (tail' - head) + y + dropped' + gone
    <3>1. n' = n + 1
      BY <1>1 DEF id
    <3> QED
      BY <1>10, <1>11, <2>1, <3>1
  <2> QED
    BY <1>1, <2>2 DEF AuditInv, NothingOut, Accounted, x, y
<1> QED
  BY <1>9, <1>12, <1>13, <1>14 DEF AuditInv

\* The rows that leave the ring together.
LEMMA OldestRows ==
    ASSUME AuditInv, NEW cap \in Nat \ {0}
    PROVE  /\ Oldest(cap) \in Seq(1 .. n) /\ Len(Oldest(cap)) \in Nat /\ head + Len(Oldest(cap)) <= tail
           /\ \A i \in 1 .. Len(Oldest(cap)) :
                Oldest(cap)[i] = Row(head + i - 1) /\ head + i - 1 \in head .. (head + Len(Oldest(cap))) - 1
<1> DEFINE m == IF tail - head > cap THEN cap ELSE tail - head
           o == [i \in 1 .. m |-> ring[(head + i - 1) % ReqCap]]
<1>1. Oldest(cap) = o
  BY DEF Oldest
<1>2. head \in Nat /\ tail \in Nat /\ head <= tail
  BY DEF AuditInv, AuditTypes
<1>3. m \in Nat /\ head + m <= tail
  BY <1>2
<1> HIDE DEF m
<1>4. \A i \in 1 .. m : head + i - 1 \in head .. (head + m) - 1 /\ head + i - 1 \in head .. tail - 1
  BY <1>2, <1>3
<1>5. \A i \in 1 .. m : ring[(head + i - 1) % ReqCap] \in 1 .. n
  BY <1>4 DEF AuditInv, Apart, Row
<1>6. o \in Seq(1 .. n) /\ Len(o) = m
  BY <1>3, <1>5
<1> QED
  BY <1>1, <1>3, <1>4, <1>6 DEF Row

LEMMA DrainAudit == AuditInv /\ um_drain_requests => AuditInv'
<1> SUFFICES ASSUME AuditInv, um_drain_requests PROVE AuditInv'
  OBVIOUS
<1> DEFINE m == Len(out')
<1>1. /\ out = <<>> /\ out' = Oldest(Batch) /\ head' = head + m
      /\ pc' = IF out' = <<>> THEN "sleep" ELSE "reqflush"
      /\ UNCHANGED <<n, ring, tail, dropped, saved, gone>>
  BY DEF um_drain_requests, AuditInv, NothingOut
<1>2. /\ out' \in Seq(1 .. n) /\ m \in Nat /\ head + m <= tail
      /\ \A i \in 1 .. m : out'[i] = Row(head + i - 1) /\ head + i - 1 \in head .. (head + m) - 1
  BY <1>1, OldestRows, UsageAssumption
<1>3. head \in Nat /\ tail \in Nat /\ head <= tail /\ tail - head <= ReqCap /\ Len(out) = 0 /\ ReqCap \in Nat
      /\ Len(saved) \in Nat /\ dropped \in Nat /\ gone \in Nat
  BY <1>1, UsageAssumption, EmptySeq, LenProperties DEF AuditInv, AuditTypes
<1>4. AuditTypes'
  <2>1. head' \in Nat /\ head' <= tail /\ tail - head' <= ReqCap /\ m <= head'
    BY <1>1, <1>2, <1>3
  <2>2. pc' \in Phases
    BY <1>1 DEF Phases
  <2> QED
    BY <1>1, <1>2, <2>1, <2>2 DEF AuditInv, AuditTypes
<1>5. NothingOut'
  BY <1>1 DEF NothingOut
<1>6. Accounted'
  <2> DEFINE x == Len(saved)
  <2>1. n = x + (tail - head) + dropped + gone /\ x \in Nat
    BY <1>3 DEF AuditInv, Accounted
  <2> HIDE DEF m, x
  <2>2. n = x + (tail - head') + m + dropped + gone
    BY <1>1, <1>2, <1>3, <2>1
  <2> QED
    BY <1>1, <2>2 DEF Accounted, x, m
<1> HIDE DEF m
<1>7. Row(head)' = Row(head') /\ \A i : Row(i)' = Row(i)
  BY <1>1 DEF Row
<1>8. /\ \A i \in head' .. tail - 1 : i \in head .. tail - 1
      /\ \A i \in head .. (head + m) - 1 : i \in head .. tail - 1 /\ i \notin head' .. tail - 1
      /\ \A a, b \in 1 .. m : head + a - 1 = head + b - 1 => a = b
  BY <1>1, <1>2, <1>3
<1>9. Apart'
  <2>1. \A a, b \in 1 .. m : out'[a] = out'[b] => a = b
    <3> SUFFICES ASSUME NEW a \in 1 .. m, NEW b \in 1 .. m, out'[a] = out'[b] PROVE a = b
      OBVIOUS
    <3>1. head + a - 1 \in head .. tail - 1 /\ head + b - 1 \in head .. tail - 1 /\ Row(head + a - 1) = Row(head + b - 1)
      BY <1>2, <1>8
    <3> QED
      BY <1>8, <3>1 DEF AuditInv, Apart
  <2>2. \A a \in 1 .. Len(saved), b \in 1 .. m : saved[a] # out'[b]
    BY <1>2, <1>8 DEF AuditInv, Apart
  <2>3. \A b \in 1 .. m, i \in head' .. tail - 1 : out'[b] # Row(i)
    <3> SUFFICES ASSUME NEW b \in 1 .. m, NEW i \in head' .. tail - 1, out'[b] = Row(i) PROVE FALSE
      OBVIOUS
    <3>1. Row(head + b - 1) = Row(i) /\ head + b - 1 \in head .. tail - 1 /\ i \in head .. tail - 1 /\ head + b - 1 # i
      BY <1>2, <1>8
    <3> QED
      BY <3>1 DEF AuditInv, Apart
  <2>4. /\ \A i, j \in head' .. tail - 1 : Row(i) = Row(j) => i = j
        /\ \A i \in head' .. tail - 1 : Row(i) \in 1 .. n
        /\ \A a \in 1 .. Len(saved), i \in head' .. tail - 1 : saved[a] # Row(i)
        /\ \A a, b \in 1 .. Len(saved) : saved[a] = saved[b] => a = b
    BY <1>8 DEF AuditInv, Apart
  <2> HIDE DEF Row
  <2> QED
    BY <1>1, <1>7, <2>1, <2>2, <2>3, <2>4 DEF Apart, m
<1>10. RingKeepsOut'
  <2>1. Kept' = head /\ Back' = head
    <3>1. head' - m = head
      BY <1>1, <1>2, <1>3
    <3> QED
      BY <1>1, <1>3, <3>1 DEF Kept, Back, m
  <2>2. ASSUME NEW i \in head .. head' - 1 PROVE Row(i) = out'[i - head + 1]
    <3>1. i - head + 1 \in 1 .. m /\ head + (i - head + 1) - 1 = i
      BY <1>1, <1>2, <1>3
    <3> QED
      BY <1>2, <3>1
  <2> QED
    BY <1>7, <2>1, <2>2 DEF RingKeepsOut
<1> QED
  BY <1>4, <1>5, <1>6, <1>9, <1>10 DEF AuditInv

NoneTwice(q) == \A a, b \in 1 .. Len(q) : q[a] = q[b] => a = b
Strangers(p, q) == \A a \in 1 .. Len(p), b \in 1 .. Len(q) : p[a] # q[b]

LEMMA JoinedApart ==
    ASSUME NEW p \in Seq(1 .. n), NEW q \in Seq(1 .. n), NoneTwice(p), NoneTwice(q), Strangers(p, q)
    PROVE  /\ p \o q \in Seq(1 .. n) /\ Len(p \o q) = Len(p) + Len(q) /\ NoneTwice(p \o q)
           /\ \A a \in 1 .. Len(p \o q) : \/ \E b \in 1 .. Len(p) : (p \o q)[a] = p[b]
                                          \/ \E b \in 1 .. Len(q) : (p \o q)[a] = q[b]
<1> DEFINE r == p \o q
           l == Len(p)
           m == Len(q)
<1>1. r \in Seq(1 .. n) /\ Len(r) = l + m /\ l \in Nat /\ m \in Nat
  BY ConcatProperties, LenProperties
<1>2. \A i \in 1 .. l + m : r[i] = IF i <= l THEN p[i] ELSE q[i - l]
  BY ConcatProperties
<1> HIDE DEF r, l, m
<1>3. \A a \in 1 .. l + m : \/ a \in 1 .. l /\ r[a] = p[a]
                            \/ a > l /\ a - l \in 1 .. m /\ r[a] = q[a - l]
  BY <1>1, <1>2
<1>4. ASSUME NEW a \in 1 .. l + m, NEW b \in 1 .. l + m, r[a] = r[b] PROVE a = b
  <2>1. CASE a \in 1 .. l /\ r[a] = p[a] /\ b \in 1 .. l /\ r[b] = p[b]
    BY <1>4, <2>1 DEF NoneTwice, l
  <2>2. CASE a - l \in 1 .. m /\ r[a] = q[a - l] /\ b - l \in 1 .. m /\ r[b] = q[b - l]
    <3>1. a - l = b - l
      BY <1>4, <2>2 DEF NoneTwice, m
    <3> QED
      BY <1>1, <3>1
  <2>3. CASE a \in 1 .. l /\ r[a] = p[a] /\ b - l \in 1 .. m /\ r[b] = q[b - l]
    BY <1>4, <2>3 DEF Strangers, l, m
  <2>4. CASE b \in 1 .. l /\ r[b] = p[b] /\ a - l \in 1 .. m /\ r[a] = q[a - l]
    BY <1>4, <2>4 DEF Strangers, l, m
  <2> QED
    BY <1>3, <2>1, <2>2, <2>3, <2>4
<1>5. NoneTwice(r)
  BY <1>1, <1>4 DEF NoneTwice
<1>6. \A a \in 1 .. Len(r) : (\E b \in 1 .. l : r[a] = p[b]) \/ (\E b \in 1 .. m : r[a] = q[b])
  BY <1>1, <1>3
<1> QED
  BY <1>1, <1>5, <1>6 DEF r, l, m

LEMMA FlushAudit ==
    ASSUME AuditInv, NEW result \in Results, flush_usage_requests(result)
    PROVE  AuditInv'
<1>1. /\ saved' = IF result = "stored" THEN saved \o out ELSE saved
      /\ gone' = IF result = "lost" THEN gone + Len(out) ELSE gone
      /\ pc' = IF result = "error" THEN "requeue" ELSE IF Len(out) = Batch THEN "reqs" ELSE "sleep"
      /\ out' = IF result = "error" THEN out ELSE <<>>
      /\ UNCHANGED <<n, ring, head, tail, dropped>>
  BY DEF flush_usage_requests
<1>2. CASE result = "error"
  BY <1>1, <1>2, AuditKept DEF Phases
<1>3. CASE result # "error"
  <2>1. out' = <<>> /\ Len(out') = 0 /\ pc' \in {"reqs", "sleep"}
    BY <1>1, <1>3, EmptySeq
  <2>2. /\ saved \in Seq(1 .. n) /\ out \in Seq(1 .. n) /\ Len(saved) \in Nat /\ Len(out) \in Nat
        /\ head \in Nat /\ tail \in Nat /\ tail - head <= ReqCap /\ gone \in Nat /\ dropped \in Nat
    BY LenProperties DEF AuditInv, AuditTypes
  <2>3. /\ saved \o out \in Seq(1 .. n) /\ Len(saved \o out) = Len(saved) + Len(out) /\ NoneTwice(saved \o out)
        /\ \A a \in 1 .. Len(saved \o out) : \/ \E b \in 1 .. Len(saved) : (saved \o out)[a] = saved[b]
                                             \/ \E b \in 1 .. Len(out) : (saved \o out)[a] = out[b]
    <3>1. NoneTwice(saved) /\ NoneTwice(out) /\ Strangers(saved, out)
      BY DEF AuditInv, Apart, NoneTwice, Strangers
    <3> QED
      BY <2>2, <3>1, JoinedApart, Zenon
  <2>4. /\ saved' \in Seq(1 .. n) /\ NoneTwice(saved')
        /\ Len(saved') = IF result = "stored" THEN Len(saved) + Len(out) ELSE Len(saved)
        /\ \A a \in 1 .. Len(saved'), i \in head .. tail - 1 : saved'[a] # Row(i)
    <3>1. CASE result = "stored"
      <4> DEFINE r == saved \o out
      <4>1. saved' = r
        BY <1>1, <3>1
      <4>2. r \in Seq(1 .. n) /\ NoneTwice(r) /\ Len(r) = Len(saved) + Len(out)
        BY <2>3
      <4>3. \A a \in 1 .. Len(r) : (\E b \in 1 .. Len(saved) : r[a] = saved[b]) \/ (\E b \in 1 .. Len(out) : r[a] = out[b])
        BY <2>3
      <4> HIDE DEF r, Row
      <4>4. \A a \in 1 .. Len(r), i \in head .. tail - 1 : r[a] # Row(i)
        BY <4>3 DEF AuditInv, Apart
      <4> QED
        BY <3>1, <4>1, <4>2, <4>4
    <3>2. CASE result # "stored"
      BY <1>1, <2>2, <3>2 DEF AuditInv, Apart, NoneTwice
    <3> QED
      BY <3>1, <3>2
  <2>5. gone' \in Nat /\ out' \in Seq(1 .. n) /\ Len(out') <= head' /\ pc' \in Phases
    <3>1. gone' \in Nat /\ Len(out') <= head'
      BY <1>1, <2>1, <2>2
    <3> QED
      BY <2>1, <3>1, EmptySeq DEF Phases
  <2>6. AuditTypes'
    BY <1>1, <2>4, <2>5 DEF AuditInv, AuditTypes
  <2>7. NothingOut'
    BY <2>1 DEF NothingOut
  <2>8. Accounted'
    <3> DEFINE x == Len(saved)
               y == Len(out)
    <3>1. n = x + (tail - head) + y + dropped + gone /\ x \in Nat /\ y \in Nat
      BY <2>2 DEF AuditInv, Accounted
    <3>2. (Len(saved') = x + y /\ gone' = gone) \/ (Len(saved') = x /\ gone' = gone + y)
      BY <1>1, <1>3, <2>4 DEF Results
    <3> DEFINE z == Len(saved')
    <3>3. (z = x + y /\ gone' = gone) \/ (z = x /\ gone' = gone + y)
      BY <3>2
    <3>4. head \in Nat /\ tail \in Nat /\ gone \in Nat /\ dropped \in Nat
      BY <2>2
    <3> HIDE DEF x, y, z
    <3>5. n = z + (tail - head) + 0 + dropped + gone'
      BY <3>1, <3>3, <3>4
    <3> QED
      BY <1>1, <2>1, <3>5 DEF Accounted, z
  <2>9. Apart'
    <3>1. 1 .. Len(out') = {} /\ \A i : Row(i)' = Row(i)
      BY <1>1, <2>1 DEF Row
    <3> HIDE DEF Row
    <3> QED
      BY <1>1, <2>4, <3>1 DEF AuditInv, Apart, NoneTwice
  <2>10. RingKeepsOut'
    <3>1. Kept' .. head' - 1 = {}
      BY <1>1, <2>1, <2>2, UsageAssumption DEF Kept, Back
    <3> QED
      BY <3>1 DEF RingKeepsOut
  <2> QED
    BY <2>6, <2>7, <2>8, <2>9, <2>10 DEF AuditInv
<1> QED
  BY <1>2, <1>3

LEMMA RequeueAudit == AuditInv /\ um_requeue_requests => AuditInv'
<1> SUFFICES ASSUME AuditInv, um_requeue_requests PROVE AuditInv'
  OBVIOUS
<1>1. /\ head' = Kept /\ dropped' = dropped + (Kept - Back) /\ out' = <<>> /\ pc' = "sleep"
      /\ UNCHANGED <<n, ring, tail, saved, gone>>
  <2> DEFINE y == Len(out)
  <2>1. y \in Nat /\ head \in Nat /\ tail \in Nat /\ dropped \in Nat /\ ReqCap \in Nat
    BY UsageAssumption, LenProperties DEF AuditInv, AuditTypes
  <2>2. /\ head' = Kept /\ (Back < tail - ReqCap => dropped' = dropped + ((tail - ReqCap) - Back))
        /\ (~(Back < tail - ReqCap) => dropped' = dropped)
    BY DEF um_requeue_requests, Kept, Back
  <2>3. Back \in Int
    BY <2>1 DEF Back
  <2> QED
    BY <2>1, <2>2, <2>3 DEF um_requeue_requests, Kept
<1>2. /\ head \in Nat /\ tail \in Nat /\ head <= tail /\ tail - head <= ReqCap /\ ReqCap \in Nat /\ dropped \in Nat
      /\ Back = head - Len(out) /\ Len(out) \in Nat /\ Len(out) <= head /\ gone \in Nat /\ Len(saved) \in Nat
  BY UsageAssumption, LenProperties DEF AuditInv, AuditTypes, Back
<1>3. /\ Back \in Nat /\ Back <= head /\ Kept \in Nat /\ Back <= Kept /\ Kept <= head /\ tail - Kept <= ReqCap
  BY <1>2 DEF Kept
<1>4. Len(out') = 0 /\ out' \in Seq(1 .. n)
  BY <1>1, EmptySeq
<1>5. AuditTypes'
  <2>1. head' \in Nat /\ head' <= tail /\ tail - head' <= ReqCap /\ dropped' \in Nat /\ Len(out') <= head'
    BY <1>1, <1>2, <1>3, <1>4
  <2> QED
    BY <1>1, <1>4, <2>1 DEF AuditInv, AuditTypes, Phases
<1>6. NothingOut' /\ Accounted'
  <2> DEFINE x == Len(saved)
             y == Len(out)
             b == Back
             k == Kept
  <2>1. n = x + (tail - head) + y + dropped + gone /\ x \in Nat /\ y \in Nat /\ b = head - y /\ k \in Nat
        /\ head' = k /\ dropped' = dropped + (k - b)
    BY <1>1, <1>2, <1>3 DEF AuditInv, Accounted
  <2> HIDE DEF x, y, b, k
  <2>2. n = x + (tail - head') + 0 + dropped' + gone
    BY <1>2, <2>1
  <2> QED
    BY <1>1, <1>4, <2>2 DEF Accounted, NothingOut, x
<1>7. ASSUME NEW i \in Kept .. tail - 1
      PROVE  \/ i \in head .. tail - 1
             \/ (i - Back) + 1 \in 1 .. Len(out) /\ Row(i) = out[(i - Back) + 1] /\ i \in Kept .. head - 1
  <2> DEFINE y == Len(out)
             b == Back
             k == Kept
  <2>1. i \in head .. tail - 1 \/ (i \in k .. head - 1 /\ (i - b) + 1 \in 1 .. y)
    <3>1. /\ head \in Nat /\ tail \in Nat /\ y \in Nat /\ b = head - y /\ k \in Nat /\ b <= k /\ i \in k .. tail - 1
      BY <1>2, <1>3
    <3> HIDE DEF y, b, k
    <3> QED
      BY <3>1
  <2> QED
    BY <2>1 DEF AuditInv, RingKeepsOut
<1>8. Apart'
  <2>1. \A b \in 1 .. Len(out) : out[b] \in 1 .. n
    BY ElementOfSeq DEF AuditInv, AuditTypes
  <2>2. \A i \in Kept .. tail - 1 : Row(i) \in 1 .. n
    BY <1>7, <2>1 DEF AuditInv, Apart
  <2>3. \A a \in 1 .. Len(saved), i \in Kept .. tail - 1 : saved[a] # Row(i)
    BY <1>7 DEF AuditInv, Apart
  <2>4. ASSUME NEW i \in Kept .. tail - 1, NEW j \in Kept .. tail - 1, Row(i) = Row(j) PROVE i = j
    <3>1. CASE i \in head .. tail - 1 /\ j \in head .. tail - 1
      BY <2>4, <3>1 DEF AuditInv, Apart
    <3>2. CASE i \notin head .. tail - 1 /\ j \notin head .. tail - 1
      <4>1. (i - Back) + 1 = (j - Back) + 1
        BY <1>7, <2>4, <3>2 DEF AuditInv, Apart
      <4> QED
        BY <1>3, <4>1
    <3>3. CASE i \in head .. tail - 1 /\ j \notin head .. tail - 1
      BY <1>7, <2>4, <3>3 DEF AuditInv, Apart
    <3>4. CASE i \notin head .. tail - 1 /\ j \in head .. tail - 1
      BY <1>7, <2>4, <3>4 DEF AuditInv, Apart
    <3> QED
      BY <3>1, <3>2, <3>3, <3>4
  <2>5. 1 .. Len(out') = {} /\ \A i : Row(i)' = Row(i)
    BY <1>1, <1>4 DEF Row
  <2> HIDE DEF Row, Kept
  <2> QED
    BY <1>1, <2>2, <2>3, <2>4, <2>5 DEF AuditInv, Apart
<1>9. RingKeepsOut'
  <2>1. Kept' .. head' - 1 = {}
    BY <1>1, <1>2, <1>3, <1>4 DEF Kept, Back
  <2> QED
    BY <2>1 DEF RingKeepsOut
<1> QED
  BY <1>5, <1>6, <1>8, <1>9 DEF AuditInv

LEMMA FinalAudit ==
    ASSUME AuditInv, NEW result \in Results, FinalRequests(result)
    PROVE  AuditInv'
<1> DEFINE last == Oldest(FinalCap)
           m == Len(last)
           keeps == result = "stored"
<1>1. /\ pc = "finalreqs" /\ head' = head + m
      /\ saved' = IF keeps THEN saved \o last ELSE saved
      /\ gone' = IF keeps THEN gone ELSE gone + m
      /\ pc' \in {"freed", "finalreqs"}
      /\ UNCHANGED <<n, ring, tail, dropped, out>>
  BY DEF FinalRequests
<1>2. out = <<>> /\ Len(out) = 0
  BY <1>1, EmptySeq DEF AuditInv, NothingOut
<1>3. /\ last \in Seq(1 .. n) /\ m \in Nat /\ head + m <= tail
      /\ \A i \in 1 .. m : last[i] = Row(head + i - 1) /\ head + i - 1 \in head .. (head + m) - 1
  BY OldestRows, UsageAssumption
<1>4. /\ head \in Nat /\ tail \in Nat /\ head <= tail /\ tail - head <= ReqCap /\ ReqCap \in Nat
      /\ saved \in Seq(1 .. n) /\ Len(saved) \in Nat /\ dropped \in Nat /\ gone \in Nat
  BY UsageAssumption, LenProperties DEF AuditInv, AuditTypes
<1> HIDE DEF last, m, keeps
<1>5. /\ \A i \in head' .. tail - 1 : i \in head .. tail - 1
      /\ \A i \in head .. (head + m) - 1 : i \in head .. tail - 1 /\ i \notin head' .. tail - 1
      /\ \A a, b \in 1 .. m : head + a - 1 = head + b - 1 => a = b
  BY <1>1, <1>3, <1>4
<1>6. NoneTwice(last)
  <2> SUFFICES ASSUME NEW a \in 1 .. m, NEW b \in 1 .. m, last[a] = last[b] PROVE a = b
    BY DEF NoneTwice, m
  <2>1. head + a - 1 \in head .. tail - 1 /\ head + b - 1 \in head .. tail - 1 /\ Row(head + a - 1) = Row(head + b - 1)
    BY <1>3, <1>5
  <2> QED
    BY <1>5, <2>1 DEF AuditInv, Apart
<1>7. Strangers(saved, last) /\ NoneTwice(saved)
  <2>1. \A a \in 1 .. Len(saved), b \in 1 .. m : saved[a] # last[b]
    BY <1>3, <1>5 DEF AuditInv, Apart
  <2> QED
    BY <2>1 DEF Strangers, NoneTwice, m, AuditInv, Apart
<1>8. \A b \in 1 .. m, i \in head' .. tail - 1 : last[b] # Row(i)
  <2> SUFFICES ASSUME NEW b \in 1 .. m, NEW i \in head' .. tail - 1, last[b] = Row(i) PROVE FALSE
    OBVIOUS
  <2>1. Row(head + b - 1) = Row(i) /\ head + b - 1 \in head .. tail - 1 /\ i \in head .. tail - 1 /\ head + b - 1 # i
    BY <1>3, <1>5
  <2> QED
    BY <2>1 DEF AuditInv, Apart
<1>9. /\ saved' \in Seq(1 .. n) /\ NoneTwice(saved')
      /\ Len(saved') = IF keeps THEN Len(saved) + m ELSE Len(saved)
      /\ \A a \in 1 .. Len(saved'), i \in head' .. tail - 1 : saved'[a] # Row(i)
  <2>1. CASE keeps
    <3> DEFINE r == saved \o last
    <3>1. saved' = r
      BY <1>1, <2>1
    <3>2. /\ r \in Seq(1 .. n) /\ NoneTwice(r) /\ Len(r) = Len(saved) + Len(last)
          /\ \A a \in 1 .. Len(r) : (\E b \in 1 .. Len(saved) : r[a] = saved[b]) \/ (\E b \in 1 .. Len(last) : r[a] = last[b])
      BY <1>3, <1>4, <1>6, <1>7, JoinedApart, Zenon
    <3> HIDE DEF r, Row
    <3>3. \A a \in 1 .. Len(r), i \in head' .. tail - 1 : r[a] # Row(i)
      BY <1>5, <1>8, <3>2 DEF AuditInv, Apart, m
    <3> QED
      BY <2>1, <3>1, <3>2, <3>3 DEF m
  <2>2. CASE ~keeps
    BY <1>1, <1>4, <1>5, <1>7, <2>2 DEF AuditInv, Apart
  <2> QED
    BY <2>1, <2>2
<1>10. AuditTypes'
  <2>1. head' \in Nat /\ head' <= tail /\ tail - head' <= ReqCap /\ Len(out) <= head' /\ gone' \in Nat
    BY <1>1, <1>2, <1>3, <1>4
  <2> QED
    BY <1>1, <1>9, <2>1 DEF AuditInv, AuditTypes, Phases
<1>11. NothingOut'
  BY <1>1, <1>2 DEF NothingOut
<1>12. Accounted'
  <2> DEFINE x == Len(saved)
             z == Len(saved')
  <2>1. n = x + (tail - head) + 0 + dropped + gone /\ x \in Nat
    BY <1>2, <1>4 DEF AuditInv, Accounted
  <2>2. (z = x + m /\ gone' = gone) \/ (z = x /\ gone' = gone + m)
    BY <1>1, <1>9
  <2>3. head \in Nat /\ tail \in Nat /\ gone \in Nat /\ dropped \in Nat /\ m \in Nat /\ head' = head + m
    BY <1>1, <1>3, <1>4
  <2> HIDE DEF x, z
  <2>4. n = z + (tail - head') + 0 + dropped + gone'
    BY <2>1, <2>2, <2>3
  <2> QED
    BY <1>1, <1>2, <2>4 DEF Accounted, z
<1>13. Apart'
  <2>1. 1 .. Len(out) = {} /\ \A i : Row(i)' = Row(i)
    BY <1>1, <1>2 DEF Row
  <2>2. /\ \A i, j \in head' .. tail - 1 : Row(i) = Row(j) => i = j
        /\ \A i \in head' .. tail - 1 : Row(i) \in 1 .. n
    BY <1>5 DEF AuditInv, Apart
  <2> HIDE DEF Row
  <2> QED
    BY <1>1, <1>9, <2>1, <2>2 DEF Apart, NoneTwice
<1>14. RingKeepsOut'
  <2>1. Kept' .. head' - 1 = {}
    BY <1>1, <1>2, <1>3, <1>4 DEF Kept, Back
  <2> QED
    BY <2>1 DEF RingKeepsOut
<1> QED
  BY <1>10, <1>11, <1>12, <1>13, <1>14 DEF AuditInv

LEMMA AuditNext == AuditInv /\ [Next]_vars => AuditInv'
<1> SUFFICES ASSUME AuditInv, [Next]_vars PROVE AuditInv'
  OBVIOUS
<1>0. pc \in Phases
  BY DEF AuditInv, AuditTypes
<1>1. CASE UNCHANGED vars
  BY <1>0, <1>1, AuditKept DEF vars, audit
<1>2. CASE Midnight \/ Stop \/ WorkerExit
  BY <1>0, <1>2, AuditKept DEF Midnight, Stop, WorkerExit, audit, Phases
<1>3. CASE um_drain
  BY <1>0, <1>3, AuditKept DEF um_drain, audit, Phases
<1>4. ASSUME NEW result \in Results, flush_usage(result) PROVE AuditInv'
  BY <1>0, <1>4, AuditKept DEF flush_usage, audit, Phases
<1>5. ASSUME NEW kept \in SUBSET Used(rows), um_unflush(kept) PROVE AuditInv'
  BY <1>0, <1>5, AuditKept DEF um_unflush, audit, Phases
<1>6. ASSUME NEW result \in Results, FinalDrain(result) PROVE AuditInv'
  <2>1. pc = "final" /\ pc' \in {"final", "finalreqs"} /\ UNCHANGED <<n, audit>>
    BY <1>6 DEF FinalDrain
  <2> QED
    BY <2>1, AuditKept DEF audit, Phases
<1> QED
  BY <1>1, <1>2, <1>3, <1>4, <1>5, <1>6, RecordAudit, DrainAudit, FlushAudit, RequeueAudit, FinalAudit
  DEF Next, Worker

\* Every audit row is saved, pending, drained or counted as dropped or lost: the counter of dropped
\* rows accounts for every overflow once, in um_record_full or in um_requeue_requests.
THEOREM DropsAreAllCounted == Spec => []DropsAreCounted
<1>1. AuditInv => DropsAreCounted
  <2> SUFFICES ASSUME AuditInv PROVE DropsAreCounted
    OBVIOUS
  <2>1. tail - head \in Nat
    BY DEF AuditInv, AuditTypes
  <2>2. Len(PendingRows) = tail - head
    BY <2>1 DEF PendingRows
  <2> QED
    BY <2>2 DEF AuditInv, Accounted, DropsAreCounted
<1> QED
  BY <1>1, AuditInit, AuditNext, PTL DEF Spec

\* No request has two audit rows among those saved, drained and pending, although a batch that failed
\* is put back into a ring that was written to meanwhile (um_requeue_requests).
THEOREM NoRowSavedTwice == Spec => []NoRowTwice
<1>1. AuditInv => NoRowTwice
  <2> SUFFICES ASSUME AuditInv PROVE NoRowTwice
    OBVIOUS
  <2> DEFINE d == tail - head
             w == PendingRows
             r == saved \o out
             f == r \o w
  <2>1. d \in Nat /\ head \in Nat /\ tail \in Nat
    BY DEF AuditInv, AuditTypes
  <2>2. \A i \in 1 .. d : head + i - 1 \in head .. tail - 1
    BY <2>1
  <2>3. \A i \in 1 .. d : ring[(head + i - 1) % ReqCap] \in 1 .. n
    BY <2>2 DEF AuditInv, Apart, Row
  <2>4. w \in Seq(1 .. n) /\ Len(w) = d /\ \A i \in 1 .. d : w[i] = Row(head + i - 1)
    BY <2>1, <2>3 DEF PendingRows, Row
  <2>5. saved \in Seq(1 .. n) /\ out \in Seq(1 .. n) /\ NoneTwice(saved) /\ NoneTwice(out) /\ Strangers(saved, out)
    BY DEF AuditInv, AuditTypes, Apart, NoneTwice, Strangers
  <2>6. /\ r \in Seq(1 .. n) /\ NoneTwice(r)
        /\ \A a \in 1 .. Len(r) : (\E b \in 1 .. Len(saved) : r[a] = saved[b]) \/ (\E b \in 1 .. Len(out) : r[a] = out[b])
    BY <2>5, JoinedApart, Zenon
  <2> HIDE DEF r, w, d, Row
  <2>7. NoneTwice(w)
    <3> SUFFICES ASSUME NEW a \in 1 .. d, NEW b \in 1 .. d, w[a] = w[b] PROVE a = b
      BY <2>4 DEF NoneTwice
    <3>1. head + a - 1 = head + b - 1
      BY <2>2, <2>4 DEF AuditInv, Apart
    <3> QED
      BY <2>1, <3>1
  <2>8. Strangers(r, w)
    <3> SUFFICES ASSUME NEW a \in 1 .. Len(r), NEW b \in 1 .. d, r[a] = w[b] PROVE FALSE
      BY <2>4 DEF Strangers
    <3>1. w[b] = Row(head + b - 1) /\ head + b - 1 \in head .. tail - 1
      BY <2>2, <2>4
    <3> QED
      BY <2>6, <3>1 DEF AuditInv, Apart
  <2>9. f \in Seq(1 .. n) /\ NoneTwice(f)
    BY <2>4, <2>6, <2>7, <2>8, JoinedApart, Zenon
  <2>10. f = saved \o out \o PendingRows
    BY DEF r, w
  <2> HIDE DEF f
  <2>11. DOMAIN f = 1 .. Len(f)
    BY <2>9, LenProperties
  <2> QED
    BY <2>9, <2>10, <2>11 DEF NoRowTwice, NoneTwice, IsInjective
<1> QED
  BY <1>1, AuditInit, AuditNext, PTL DEF Spec

StopTyped == stop \in BOOLEAN

\* The types of the meter, with the ring never fuller than its capacity (um_record_full,
\* um_requeue_requests).
THEOREM UsageTypes == Spec => []TypeOK
<1>1. StopTyped /\ [Next]_vars => StopTyped'
  <2> SUFFICES ASSUME StopTyped, [Next]_vars PROVE stop' = stop \/ stop' = TRUE
    BY DEF StopTyped
  <2>1. ASSUME NEW k \in Keys, um_record_full(k) PROVE stop' = stop
    BY <2>1 DEF um_record_full
  <2>2. CASE Midnight \/ um_drain \/ um_drain_requests \/ um_requeue_requests \/ WorkerExit
    BY <2>2 DEF Midnight, um_drain, um_drain_requests, um_requeue_requests, WorkerExit
  <2>3. ASSUME NEW result \in Results,
               flush_usage(result) \/ flush_usage_requests(result) \/ FinalDrain(result) \/ FinalRequests(result)
        PROVE  stop' = stop
    BY <2>3 DEF flush_usage, flush_usage_requests, FinalDrain, FinalRequests
  <2>4. ASSUME NEW kept \in SUBSET Used(rows), um_unflush(kept) PROVE stop' = stop
    BY <2>4 DEF um_unflush
  <2>5. CASE UNCHANGED vars
    BY <2>5 DEF vars
  <2>6. CASE Stop
    BY <2>6 DEF Stop
  <2> QED
    BY <2>1, <2>2, <2>3, <2>4, <2>5, <2>6 DEF Next, Worker
<1>2. Init => StopTyped
  BY DEF Init, StopTyped
<1>3. DailyInv /\ AuditInv /\ StopTyped => TypeOK
  <2> SUFFICES ASSUME DailyInv, AuditInv, StopTyped PROVE TypeOK
    OBVIOUS
  <2>1. n \in 0 .. MaxRequests /\ tail - head \in 0 .. ReqCap
    BY UsageAssumption DEF DailyInv, DailyTypes, AuditInv, AuditTypes
  <2>2. madeOn \in [1 .. n -> 0 .. LastDay]
    <3>1. madeOn \in Seq(0 .. LastDay) /\ Len(madeOn) = n
      BY DEF DailyInv, DailyTypes
    <3>2. madeOn \in [1 .. Len(madeOn) -> 0 .. LastDay]
      BY <3>1, LenProperties
    <3> QED
      BY <3>1, <3>2
  <2> QED
    BY <2>1, <2>2 DEF DailyInv, DailyTypes, AuditInv, AuditTypes, StopTyped, TypeOK
<1> QED
  BY <1>1, <1>2, <1>3, DailyInit, DailyNext, AuditInit, AuditNext, PTL DEF Spec
==============================================================================
