------------------------------- MODULE Failover -------------------------------
(***************************************************************************)
(* How a request finds an upstream target: the candidate selection of      *)
(* src/upstream/model_router.c, the in-flight slots of the same file, and  *)
(* the failover loops of the pipelines in src/core, composed with the      *)
(* breaker entries of CbEntry.                                             *)
(*                                                                         *)
(* One model with the targets 1 .. N in declaration order.  Each request   *)
(* thread runs: ask the breaker about every target in turn, order the      *)
(* admitted ones, then try them one after the other.  Every access to the  *)
(* breaker is one step (its mutex), and so is every atomic operation on a  *)
(* slot; the calls to upstream lie between steps.                          *)
(*                                                                         *)
(* Kinds of request: "sync" (chat without streaming, embeddings), "stream" *)
(* (chat), "hedged" (chat without streaming on a route with hedging, until *)
(* the hedged attempt is over), "direct" (the Anthropic, Gemini and        *)
(* Responses pipelines, which take no slot).                               *)
(*                                                                         *)
(* Left out: the latency samples of the breaker (no SLA configuration, so  *)
(* cb_record_sla_sample does nothing) and the retry after 200 ms when      *)
(* there is one candidate, which is inside Call.                           *)
(***************************************************************************)
EXTENDS CbEntry, SequencesExt

CONSTANTS
    N,              \* number of targets of the model
    Prio,           \* priority of each target, 0 is the highest tier
    MaxConcurrent,  \* in-flight limit of each target, 0 is none
    Requests,       \* request threads
    Kinds           \* the kinds of request each thread may serve

Targets == 1 .. N

ASSUME FailoverAssumption ==
    /\ N \in Nat \ {0}
    /\ Prio \in [Targets -> Nat]
    /\ MaxConcurrent \in [Targets -> Nat]
    /\ IsFiniteSet(Requests)
    /\ Kinds \in [Requests -> SUBSET {"sync", "stream", "hedged", "direct"}]

VARIABLES
    entry,      \* the breaker entry of each target
    slot,       \* in_flight of each target's slot
    req         \* the request threads

vars == <<entry, slot, req>>

-----------------------------------------------------------------------------
\* Idle and the three ways a request ends are its resting places.
Ended == {"idle", "answered", "failed", "busy"}

Steps == Ended \cup {"ask", "select", "hedge", "hedge2", "loop",
                     "call", "release", "clear", "record"}

\* ok     what the breaker snapshot allows
\* cand   the candidates whose turn has not come yet
\* full   the loop has candidates and found every one so far saturated, so that
\*        concurrency_saturated_count will equal n_candidates - start_ci
\* at     the targets of the attempt under way, whose slots are held
\* built  the attempt made its call, and last the targets it called
\* tried  the targets called so far (a history, no field of the code)
Resting(pc) == [pc |-> pc, kind |-> "none", next |-> 0, ok |-> {}, cand |-> <<>>,
                full |-> FALSE, at |-> <<>>, built |-> FALSE,
                last |-> <<>>, tried |-> {}]

Init ==
    /\ entry = [t \in Targets |-> Fresh]
    /\ slot = [t \in Targets |-> 0]
    /\ req = [r \in Requests |-> Resting("idle")]

Slotted(q) == q.kind # "direct"

\* The kind of a request whose hedged attempt is over, or was never made.
Unhedged(k) == IF k = "hedged" THEN "sync" ELSE k

Free(t) == MaxConcurrent[t] = 0 \/ slot[t] < MaxConcurrent[t]

-----------------------------------------------------------------------------
(* Wrong variants of operators and actions below, one slip each: every        *)
(* property of the run is checked to fail when its variant stands in.         *)

\* free slots count for more than tiers
BeforeByLoad(t, u, ok) ==
    IF Free(t) # Free(u) THEN Free(t) ELSE Prio[t] <= Prio[u]

\* the first slot of a hedged call is kept when the second is not to be had
HedgeSecondLeak(r) ==
    /\ req[r].pc = "hedge2"
    /\ LET t   == req[r].cand[2]
           got == req[r].at
       IN  IF Free(t) /\ got # <<>>
           THEN /\ slot' = [slot EXCEPT ![t] = @ + 1]
                /\ req' = [req EXCEPT ![r].pc = "call", ![r].at = Append(got, t)]
           ELSE /\ req' = [req EXCEPT ![r].pc = "loop", ![r].kind = "sync",
                                      ![r].at = <<>>]
                /\ UNCHANGED slot
    /\ UNCHANGED entry

\* a target that failed goes to the end of the candidates
RecordRequeues(r, t, out) ==
    /\ req[r].pc = "record"
    /\ t \in Range(req[r].last)
    /\ out \in {"ok", "fail"}
    /\ entry' = [entry EXCEPT ![t] = IF out = "ok" THEN Success(@)
                                     ELSE Failure(OnTime(@))]
    /\ req' = [req EXCEPT ![r] =
                 IF out = "fail"
                 THEN [@ EXCEPT !.pc = "loop", !.last = <<>>, !.cand = Append(@, t)]
                 ELSE Resting("answered")]
    /\ UNCHANGED slot

-----------------------------------------------------------------------------
(* Candidate selection                                                       *)

\* What may become of a request whose candidates are s: it is answered before
\* one is tried (an inbound filter stops it, or the response cache has the
\* answer), a hedged attempt comes first (two candidates with an adapter), or
\* the loop starts.
Begun(q, s) ==
    LET c == [q EXCEPT !.cand = s, !.full = s # <<>>]
    IN  {Resting("answered"), [c EXCEPT !.pc = "loop", !.kind = Unhedged(q.kind)]}
        \cup IF q.kind = "hedged" /\ Len(s) >= 2 THEN {[c EXCEPT !.pc = "hedge"]} ELSE {}

Arrive(r, k) ==
    /\ req[r].pc \in Ended
    /\ req' = [req EXCEPT ![r] = [Resting("ask") EXCEPT !.kind = k, !.next = 1]]
    /\ UNCHANGED <<entry, slot>>

\* The request names a provider: its target comes first, the others follow in
\* declaration order, and the breaker is not asked.
ArriveTargeted(r, k, t) ==
    /\ req[r].pc \in Ended
    /\ k # "direct"
    /\ LET others == [i \in 1 .. N - 1 |-> IF i < t THEN i ELSE i + 1]
       IN  \E q \in Begun([Resting("select") EXCEPT !.kind = k], <<t>> \o others) :
              req' = [req EXCEPT ![r] = q]
    /\ UNCHANGED <<entry, slot>>

\* One cb_allow_request of the snapshot loop.
Ask(r) ==
    /\ req[r].pc = "ask"
    /\ LET q == req[r]
           t == q.next
           e == OnTime(entry[t])
       IN  /\ entry' = [entry EXCEPT ![t] = IF Allowed(e) THEN Allow(e) ELSE e]
           /\ req' = [req EXCEPT ![r] =
                 [q EXCEPT !.ok = IF Allowed(e) THEN q.ok \cup {t} ELSE q.ok,
                           !.next = IF t = N THEN 0 ELSE t + 1,
                           !.pc = IF t = N THEN "select" ELSE "ask"]]
    /\ UNCHANGED slot

\* Whether t may come before u: tier by tier; in a tier the targets with a
\* free slot first, in any order (the load-balancing policies), then the
\* saturated ones in declaration order.  A tier without a free slot is
\* ordered by the policy.
Before(t, u, ok) ==
    LET tier == {v \in ok : Prio[v] = Prio[t]}
    IN  IF Prio[t] # Prio[u] THEN Prio[t] < Prio[u]
        ELSE \/ Free(t)
             \/ ~Free(u) /\ ((\E v \in tier : Free(v)) => t < u)

Ordered(s, LT(_, _)) == \A i, j \in DOMAIN s : i < j => LT(s[i], s[j])

SelectHealthy(r) ==
    /\ req[r].pc = "select"
    /\ req[r].ok # {}
    /\ \E s \in SetToSeqs(req[r].ok) :
          /\ Ordered(s, LAMBDA t, u : Before(t, u, req[r].ok))
          /\ \E q \in Begun(req[r], s) : req' = [req EXCEPT ![r] = q]
    /\ UNCHANGED <<entry, slot>>

\* Emergency fallback: no target is allowed, so all are candidates, the one
\* whose window ends first in front, then by priority.
SelectTripped(r) ==
    /\ req[r].pc = "select"
    /\ req[r].ok = {}
    /\ entry' = [t \in Targets |-> OnTime(entry[t])]
    /\ LET until(t) == IF entry'[t].state = "open" THEN entry'[t].left ELSE 0
           earlier(t, u) == \/ until(t) < until(u)
                            \/ until(t) = until(u) /\ Prio[t] <= Prio[u]
       IN  \E s \in SetToSeqs(Targets) :
              /\ Ordered(s, earlier)
              /\ \E q \in Begun(req[r], s) : req' = [req EXCEPT ![r] = q]
    /\ UNCHANGED slot

-----------------------------------------------------------------------------
(* Slots                                                                     *)

\* model_router_acquire_target for the first two candidates of a hedged call
HedgeFirst(r) ==
    /\ req[r].pc = "hedge"
    /\ LET q == req[r]
           t == q.cand[1]
       IN  IF Free(t)
           THEN /\ slot' = [slot EXCEPT ![t] = slot[t] + 1]
                /\ req' = [req EXCEPT ![r] = [q EXCEPT !.pc = "hedge2", !.at = <<t>>]]
           ELSE /\ req' = [req EXCEPT ![r] = [q EXCEPT !.pc = "hedge2"]]
                /\ UNCHANGED slot
    /\ UNCHANGED entry

\* With both slots the hedged call starts; otherwise the one taken is given
\* back and the loop tries the candidates one by one.
HedgeSecond(r) ==
    /\ req[r].pc = "hedge2"
    /\ LET q   == req[r]
           t   == q.cand[2]
           got == q.at # <<>>
       IN  IF Free(t)
           THEN /\ slot' = [slot EXCEPT ![t] = slot[t] + 1]
                /\ req' = [req EXCEPT ![r] =
                      [q EXCEPT !.pc = IF got THEN "call" ELSE "release",
                                !.at = Append(q.at, t)]]
           ELSE /\ req' = [req EXCEPT ![r] =
                      [q EXCEPT !.pc = IF got THEN "release" ELSE "loop",
                                !.kind = IF got THEN q.kind ELSE "sync"]]
                /\ UNCHANGED slot
    /\ UNCHANGED entry

\* The next candidate's slot is taken; a direct request takes none.
Try(r) ==
    /\ req[r].pc = "loop" /\ req[r].cand # <<>>
    /\ LET q == req[r]
           t == Head(q.cand)
       IN  /\ Slotted(q) => Free(t)
           /\ slot' = IF Slotted(q) THEN [slot EXCEPT ![t] = slot[t] + 1] ELSE slot
           /\ req' = [req EXCEPT ![r] =
                 [q EXCEPT !.pc = "call", !.at = <<t>>, !.cand = Tail(q.cand),
                           !.full = FALSE]]
    /\ UNCHANGED entry

Saturated(r) ==
    /\ req[r].pc = "loop" /\ req[r].cand # <<>>
    /\ Slotted(req[r]) /\ ~Free(Head(req[r].cand))
    /\ req' = [req EXCEPT ![r] = [req[r] EXCEPT !.cand = Tail(req[r].cand)]]
    /\ UNCHANGED <<entry, slot>>

\* No adapter for the candidate's provider, or one without the call.
Skip(r) ==
    /\ req[r].pc = "loop" /\ req[r].cand # <<>>
    /\ req' = [req EXCEPT ![r] =
          [req[r] EXCEPT !.cand = Tail(req[r].cand), !.full = FALSE]]
    /\ UNCHANGED <<entry, slot>>

\* The slot of the first target is given back; when it was the last one the
\* request records the outcome of its call, or goes on if it made none.
DropFirst(q) ==
    IF Len(q.at) > 1 THEN [q EXCEPT !.pc = "release", !.at = Tail(q.at)]
    ELSE [q EXCEPT !.pc = IF q.built THEN "record" ELSE "loop",
                   !.at = <<>>, !.built = FALSE,
                   !.kind = IF q.built THEN q.kind ELSE Unhedged(q.kind)]

\* model_router_release_target is not one atomic step: the decrement ...
Release(r) ==
    /\ req[r].pc = "release"
    /\ LET q == req[r]
           t == Head(q.at)
       IN  /\ slot' = [slot EXCEPT ![t] = slot[t] - 1]
           /\ req' = [req EXCEPT ![r] = IF slot[t] <= 1
                                        THEN [q EXCEPT !.pc = "clear"]
                                        ELSE DropFirst(q)]
    /\ UNCHANGED entry

\* ... and, if it found 1 or less, the store of 0
ReleaseClear(r) ==
    /\ req[r].pc = "clear"
    /\ slot' = [slot EXCEPT ![Head(req[r].at)] = 0]
    /\ req' = [req EXCEPT ![r] = DropFirst(req[r])]
    /\ UNCHANGED entry

-----------------------------------------------------------------------------
(* The attempt                                                               *)

\* The request cannot be built for the target, or the call is made and
\* returns.  What it returned matters when the slots have been given back.
Call(r, built) ==
    /\ req[r].pc = "call"
    /\ LET q == req[r]
           p == [q EXCEPT !.built = built,
                          !.last = IF built THEN q.at ELSE <<>>,
                          !.pc = IF Slotted(q) THEN "release"
                                 ELSE IF built THEN "record" ELSE "loop",
                          !.at = IF Slotted(q) THEN q.at ELSE <<>>,
                          !.tried = IF built THEN q.tried \cup Range(q.at) ELSE q.tried]
       IN  req' = [req EXCEPT ![r] =
                     IF q.kind = "hedged" /\ built
                     THEN [p EXCEPT !.cand = SubSeq(q.cand, 3, Len(q.cand)),
                                    !.full = Len(q.cand) > 2]
                     ELSE p]
    /\ UNCHANGED <<entry, slot>>

\* ok       below 400
\* fail     transport error without a status, 429, 500 to 504
\* silent   transport error after the status line of a stream or of a hedged
\*          call, or a stream that ends before its first event
\* fatal    505 to 599
\* client   any other 4xx
\* broken   a stream that breaks after its headers went to the client
Outcomes(kind) ==
    {"ok", "fail", "fatal", "client"}
    \cup (IF kind = "sync" THEN {} ELSE {"silent"})
    \cup (IF kind \in {"stream", "direct"} THEN {"broken"} ELSE {})

Retried == {"fail", "silent"}

\* The breaker entry of a target after a call with this outcome: only "fail"
\* and "fatal" have a status that cb_record_failure counts, and a broken
\* stream is not recorded.
Recorded(e, out) ==
    CASE out = "ok" -> Success(e)
      [] out \in {"fail", "fatal"} -> Failure(OnTime(e))
      [] OTHER -> e

\* The breaker learns the outcome of a call to t, and the request ends or goes
\* on to the next candidate.  Of a hedged call it learns only the winner's
\* (a 200, perhaps without a body) or, if there is none, the primary's.
Record(r, t, out) ==
    /\ req[r].pc = "record"
    /\ out \in Outcomes(req[r].kind)
    /\ t \in Range(req[r].last)
    /\ t = Head(req[r].last) \/ out \in {"ok", "silent"}
    /\ entry' = [entry EXCEPT ![t] = Recorded(entry[t], out)]
    /\ req' = [req EXCEPT ![r] =
                 IF out \in Retried
                 THEN [req[r] EXCEPT !.pc = "loop", !.last = <<>>,
                                     !.kind = Unhedged(req[r].kind)]
                 ELSE Resting(IF out = "ok" THEN "answered" ELSE "failed")]
    /\ UNCHANGED slot

\* No candidate is left: 429 if every one was saturated, else 502.
Exhausted(r) ==
    /\ req[r].pc = "loop" /\ req[r].cand = <<>>
    /\ req' = [req EXCEPT ![r] = Resting(IF req[r].full THEN "busy" ELSE "failed")]
    /\ UNCHANGED <<entry, slot>>

Tick ==
    /\ entry' = [t \in Targets |-> Elapse(entry[t])]
    /\ UNCHANGED <<slot, req>>

Step(r) ==
    \/ Ask(r) \/ SelectHealthy(r) \/ SelectTripped(r)
    \/ HedgeFirst(r) \/ HedgeSecond(r)
    \/ Try(r) \/ Saturated(r) \/ Skip(r) \/ Exhausted(r)
    \/ \E built \in BOOLEAN : Call(r, built)
    \/ Release(r) \/ ReleaseClear(r)
    \/ \E t \in Targets, out \in Outcomes("stream") : Record(r, t, out)

Next ==
    \/ \E r \in Requests : \E k \in Kinds[r] : Arrive(r, k)
    \/ \E r \in Requests : \E k \in Kinds[r], t \in Targets : ArriveTargeted(r, k, t)
    \/ \E r \in Requests : Step(r)
    \/ Tick

Spec == Init /\ [][Next]_vars

-----------------------------------------------------------------------------
Holds(r, t) ==
    LET q == req[r]
    IN  /\ Slotted(q)
        /\ \/ q.pc \in {"hedge2", "call", "release"} /\ t \in Range(q.at)
           \/ q.pc = "clear" /\ t \in Range(Tail(q.at))

Clearing(r, t) == req[r].pc = "clear" /\ Head(req[r].at) = t

Holders(t) == {r \in Requests : Holds(r, t)}

Request == [pc : Steps, kind : {"sync", "stream", "hedged", "direct", "none"}, next : 0 .. N,
            ok : SUBSET Targets, cand : Seq(Targets), full : BOOLEAN,
            at : Seq(Targets),
            built : BOOLEAN, last : Seq(Targets),
            tried : SUBSET Targets]

\* The types of the breaker table, of the slots and of the request threads.
TypeOK ==
    /\ entry \in [Targets -> Entry]
    /\ slot \in [Targets -> Int]
    /\ req \in [Requests -> Request]

\* No slot leaks: in_flight never counts more requests than hold the slot, and
\* is 0 whenever none does and no release is under way, on every way out of
\* the loops (saturated second target of a hedged call, request that cannot
\* be built, failed call, broken stream), whatever the non-atomic releases of
\* other requests do in between.
SlotsReturn ==
    \A t \in Targets :
        /\ slot[t] <= Cardinality(Holders(t))
        /\ Holders(t) = {} /\ (\A r \in Requests : ~Clearing(r, t)) => slot[t] = 0

\* The failover loop never calls a target twice for one request, the hedged
\* attempt and the loop that follows it taken together: upstream would run,
\* and bill, the same completion again.
NoTargetTwice ==
    \A r \in Requests : req[r].pc = "call" => Range(req[r].at) \cap req[r].tried = {}

\* A request calls a target only when the admitted targets of every higher
\* tier have had their turn.
BestTierFirst ==
    \A r \in Requests :
        LET q == req[r]
        IN  q.pc = "call" /\ q.kind # "hedged" =>
              \A t \in Range(q.at), u \in q.ok \cap Range(q.cand) : Prio[t] <= Prio[u]

\* How far a request is from its answer: the snapshot, then the candidates
\* left, then the steps of the attempt under way.
Rank(q) ==
    LET left == 20 * Len(q.cand)
    IN  CASE q.pc \in Ended -> -1
          [] q.pc = "ask" -> 20 * (N + 1) + (N + 1 - q.next)
          [] q.pc = "select" -> 20 * (N + 1)
          [] q.pc = "hedge" -> left + 19
          [] q.pc = "hedge2" -> left + 18
          [] q.pc = "call" -> left + 17
          [] q.pc = "release" -> left + 2 + 2 * Len(q.at)
          [] q.pc = "clear" -> left + 1 + 2 * Len(q.at)
          [] q.pc = "record" -> left + 1
          [] q.pc = "loop" -> left

\* Every step of a request brings it closer to its answer, whatever the
\* breakers, the slots and the other requests do: no path through selection,
\* hedging, saturation and failover comes back to where it was.
EveryStepAdvances ==
    [][\A r \in Requests :
          req[r].pc \notin Ended /\ req'[r] # req[r] => Rank(req'[r]) < Rank(req[r])]_vars

-----------------------------------------------------------------------------
(* What the headers say and the code does not do                             *)

\* While a half-open target turns requests away, its probe is pending: some
\* request that the breaker admitted has still to try the target or to record
\* how that went (circuit_breaker.h, "false for concurrent requests while
\* probe pending").
ProbeIsPending ==
    \A t \in Targets :
        entry[t].state = "half_open" /\ entry[t].probe =>
          \E r \in Requests :
             LET q == req[r]
             IN  /\ t \in q.ok
                 /\ \/ q.pc \in {"ask", "select"}
                    \/ t \in Range(q.cand) \cup Range(q.at)
                    \/ q.pc = "record" /\ t \in Range(q.last)

\* No more requests hold a target's slot than its limit (pg_store.h,
\* "max in-flight requests").
WithinLimit ==
    \A t \in Targets :
        MaxConcurrent[t] > 0 => Cardinality(Holders(t)) <= MaxConcurrent[t]
=============================================================================
