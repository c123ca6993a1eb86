------------------------------ MODULE HedgedCall ------------------------------
(***************************************************************************)
(* The hedged upstream call of src/upstream/upstream_hedged.c: a request   *)
(* thread starts a primary transfer on a detached worker thread, waits,    *)
(* starts a secondary one if there is no winner yet and the hedge budget   *)
(* of src/policy/latency_tracker.c admits it, takes the first 200 (or what *)
(* the primary returned) and leaves.  The loser goes on alone and shares   *)
(* the control block, which the last of the three threads frees.           *)
(*                                                                         *)
(* race[c] is the control block of the call c and the threads around it.   *)
(* Every action is one critical section of ctrl->mutex, or one step        *)
(* outside it.  What a transfer returns is 200, another status or an       *)
(* error; a response is a buffer that is there or not.                     *)
(***************************************************************************)
EXTENDS Integers

CONSTANTS
    Calls,      \* hedged calls under way at the same time
    Budget,     \* hedge_budget_pct of the model
    MaxCalls    \* bound: calls begun

ASSUME HedgeAssumption == Budget \in 1 .. 100 /\ MaxCalls \in Nat

VARIABLES
    race,       \* the calls
    hedged,     \* hedged_requests of the latency tracker's entry of the model
    total,      \* total_requests of the same entry
    begun       \* hedged calls begun so far (history)

hedgeVars == <<race, hedged, total, begun>>

Both == {0, 1}

\* main    the request thread          hedge   should_hedge
\* alive   the control block exists    ref     ref_count
\* win     winning_idx                 second  secondary_started
\* got     the transfer whose response was harvested, -1 before
\* work    the worker threads, and by worker: done, cancel_flags, what the
\*         transfer returned, and who has its response buffer
Idle == [main |-> "idle", hedge |-> FALSE, alive |-> FALSE, ref |-> 0, win |-> -1,
         second |-> FALSE, got |-> -1,
         work |-> [i \in Both |-> "none"], done |-> [i \in Both |-> FALSE],
         cancel |-> [i \in Both |-> FALSE], out |-> [i \in Both |-> "none"],
         buf |-> [i \in Both |-> "none"]]

HedgeInit ==
    /\ race = [c \in Calls |-> Idle]
    /\ hedged = 0 /\ total = 0 /\ begun = 0

-----------------------------------------------------------------------------
(* Wrong variants of actions below, one slip each: every property of a run   *)
(* is checked to fail when its variant stands in for the action.             *)

Dispatched(q, created, refs) ==
    [q EXCEPT !.main = "await", !.second = created,
              !.ref = @ + refs, !.work[1] = IF created THEN "run" ELSE @]

\* the secondary takes no reference
DispatchNoRef(c, made) ==
    /\ race[c].main = "delay"
    /\ race' = [race EXCEPT ![c] =
          IF @.win # -1 \/ ~@.hedge THEN [@ EXCEPT !.main = "await"]
          ELSE Dispatched(@, made = "thread", 0)]
    /\ UNCHANGED <<hedged, total, begun>>

\* the response buffer stays with the control block
HarvestShares(c) ==
    /\ race[c].main = "await"
    /\ race[c].win # -1 \/ (race[c].done[0] /\ (race[c].second => race[c].done[1]))
    /\ race' = [race EXCEPT ![c].main = "release",
                            ![c].got = IF race[c].win = 1 THEN 1 ELSE 0]
    /\ UNCHANGED <<hedged, total, begun>>

\* the primary's response is taken whenever it is there
HarvestPrimary(c) ==
    /\ race[c].main = "await"
    /\ race[c].win # -1 \/ (race[c].done[0] /\ (race[c].second => race[c].done[1]))
    /\ race' = [race EXCEPT ![c].main = "release",
                            ![c].got = IF race[c].done[0] THEN 0 ELSE 1]
    /\ UNCHANGED <<hedged, total, begun>>

\* a failed primary ends the wait although the secondary still runs
HarvestEarly(c) ==
    /\ race[c].main = "await"
    /\ race[c].win # -1 \/ race[c].done[0]
    /\ race' = [race EXCEPT ![c].main = "release",
                            ![c].got = IF race[c].win = 1 THEN 1 ELSE 0]
    /\ UNCHANGED <<hedged, total, begun>>

\* the error path does not release the control block
FinishErrorKeeps(c, i, out) ==
    /\ race[c].work[i] \in {"run", "abort"}
    /\ race[c].work[i] = "abort" => out = "error"
    /\ race' = [race EXCEPT ![c].done[i] = TRUE, ![c].out[i] = out,
                            ![c].work[i] = IF out = "error" THEN "ended" ELSE "release"]
    /\ UNCHANGED <<hedged, total, begun>>

-----------------------------------------------------------------------------
(* The request thread                                                        *)

\* latency_tracker_hedge_admitted
Admitted(h, t) == (h * 100) \div (t + 1) <= Budget

\* Phases 1 to 3: the budget is read and the primary's thread is created.
\* Without memory or a thread the call returns at once.
BeginCall(c, created) ==
    /\ race[c].main = "idle" /\ begun < MaxCalls
    /\ begun' = begun + 1
    /\ race' = IF created
               THEN [race EXCEPT ![c] =
                       [@ EXCEPT !.main = "delay", !.hedge = Admitted(hedged, total),
                                 !.alive = TRUE, !.ref = 2, !.work[0] = "run"]]
               ELSE race
    /\ UNCHANGED <<hedged, total>>

\* Phases 4 and 5: the delay is over, or the primary is done.  Without a winner
\* the secondary is started: made is what there was memory for, its context or
\* its thread as well.  The hedge is counted before the thread is created.
Dispatch(c, made) ==
    /\ race[c].main = "delay"
    /\ IF race[c].win = -1 /\ race[c].hedge /\ made # "nothing"
       THEN /\ hedged' = hedged + 1
            /\ race' = [race EXCEPT ![c] =
                 IF made = "thread"
                 THEN [@ EXCEPT !.main = "await", !.second = TRUE, !.ref = race[c].ref + 1,
                                !.work[1] = "run"]
                 ELSE [@ EXCEPT !.main = "await"]]
       ELSE race' = [race EXCEPT ![c].main = "await"] /\ UNCHANGED hedged
    /\ UNCHANGED <<total, begun>>

\* The transfer whose response is taken.
Chosen(q) ==
    IF q.win = 1 THEN 1 ELSE IF q.win = 0 \/ q.done[0] THEN 0 ELSE 1

\* Phase 6: there is a winner, or every worker is done.  The loser is told to
\* stop and the response buffer changes hands.
Harvest(c) ==
    LET q   == race[c]
        got == Chosen(q)
    IN  /\ q.main = "await"
        /\ q.win # -1 \/ (q.done[0] /\ (q.second => q.done[1]))
        /\ race' = [race EXCEPT ![c] =
              [q EXCEPT !.main = "release", !.got = got,
                        !.buf[got] = IF q.buf[got] = "ctrl" THEN "caller" ELSE q.buf[got],
                        !.cancel = [i \in Both |->
                           \/ q.cancel[i]
                           \/ q.win = 1 - i /\ (i = 1 => q.second)]]]
        /\ UNCHANGED <<hedged, total, begun>>

\* ctrl_release: the count under the mutex ...
MainRelease(c) ==
    /\ race[c].main = "release"
    /\ race' = [race EXCEPT ![c].ref = @ - 1,
                            ![c].main = IF race[c].ref - 1 <= 0 THEN "free" ELSE "returned"]
    /\ UNCHANGED <<hedged, total, begun>>

\* ... and the last one frees what the block still owns
Freed(q) ==
    [q EXCEPT !.alive = FALSE,
              !.buf = [i \in Both |-> IF @[i] = "ctrl" THEN "freed" ELSE @[i]]]

MainFree(c) ==
    /\ race[c].main = "free"
    /\ race' = [race EXCEPT ![c] = [Freed(@) EXCEPT !.main = "returned"]]
    /\ UNCHANGED <<hedged, total, begun>>

\* The caller is done with the response and all threads of the call are gone;
\* another request takes the place.
Again(c) ==
    /\ race[c].main = "returned"
    /\ \A i \in Both : race[c].work[i] \in {"none", "ended"}
    /\ race' = [race EXCEPT ![c] = Idle]
    /\ UNCHANGED <<hedged, total, begun>>

-----------------------------------------------------------------------------
(* The worker threads                                                        *)

\* hedged_write_cb: a chunk is appended to the buffer
Write(c, i) ==
    /\ race[c].work[i] = "run"
    /\ ~race[c].cancel[i]
    /\ race' = [race EXCEPT ![c].buf[i] = "ctrl"]
    /\ UNCHANGED <<hedged, total, begun>>

\* hedged_write_cb or hedged_xferinfo_cb ends the transfer: the worker was
\* cancelled, the response is too long, or there is no memory for it
Abort(c, i) ==
    /\ race[c].work[i] = "run"
    /\ race' = [race EXCEPT ![c].work[i] = "abort"]
    /\ UNCHANGED <<hedged, total, begun>>

\* hedged_worker_run, step 4: the first 200 wins and cancels the other
Finish(c, i, out) ==
    /\ race[c].work[i] \in {"run", "abort"}
    /\ race[c].work[i] = "abort" => out = "error"
    /\ LET q    == race[c]
           wins == out = "200" /\ q.win = -1
       IN  race' = [race EXCEPT ![c] =
                      [q EXCEPT !.done[i] = TRUE, !.out[i] = out,
                                !.win = IF wins THEN i ELSE q.win,
                                !.cancel[1 - i] = q.cancel[1 - i] \/ wins,
                                !.work[i] = "release"]]
    /\ UNCHANGED <<hedged, total, begun>>

WorkerRelease(c, i) ==
    /\ race[c].work[i] = "release"
    /\ race' = [race EXCEPT ![c].ref = @ - 1,
                            ![c].work[i] = IF race[c].ref - 1 <= 0 THEN "free" ELSE "ended"]
    /\ UNCHANGED <<hedged, total, begun>>

WorkerFree(c, i) ==
    /\ race[c].work[i] = "free"
    /\ race' = [race EXCEPT ![c] = [Freed(@) EXCEPT !.work[i] = "ended"]]
    /\ UNCHANGED <<hedged, total, begun>>

-----------------------------------------------------------------------------
Outcomes == {"200", "other", "error"}

Main(c) ==
    \/ \E made \in {"nothing", "context", "thread"} : Dispatch(c, made)
    \/ Harvest(c)
    \/ MainRelease(c) \/ MainFree(c)

Worker(c, i) ==
    \/ \E out \in Outcomes : Finish(c, i, out)
    \/ WorkerRelease(c, i) \/ WorkerFree(c, i)

HedgeNext ==
    \E c \in Calls :
        \/ \E created \in BOOLEAN : BeginCall(c, created)
        \/ Main(c)
        \/ Again(c)
        \/ \E i \in Both : Worker(c, i) \/ Write(c, i) \/ Abort(c, i)

HedgeSpec == HedgeInit /\ [][HedgeNext]_hedgeVars

\* Threads run, the delay ends, and a transfer ends (CURLOPT_TIMEOUT_MS).
HedgeFairness ==
    \A c \in Calls : WF_hedgeVars(Main(c)) /\ \A i \in Both : WF_hedgeVars(Worker(c, i))

-----------------------------------------------------------------------------
\* The types of the control block, the threads and the budget counters.
TypeOK ==
    /\ race \in [Calls ->
         [main : {"idle", "delay", "await", "release", "free", "returned"},
          hedge : BOOLEAN, alive : BOOLEAN, ref : 0 .. 3, win : -1 .. 1,
          second : BOOLEAN, got : -1 .. 1,
          work : [Both -> {"none", "run", "abort", "release", "free", "ended"}],
          done : [Both -> BOOLEAN], cancel : [Both -> BOOLEAN],
          out : [Both -> Outcomes \cup {"none"}],
          buf : [Both -> {"none", "ctrl", "caller", "freed"}]]]
    /\ hedged \in Nat /\ total \in Nat /\ begun \in 0 .. MaxCalls

\* No thread touches the control block after it is freed, and it is freed once:
\* whichever of the request thread, the winner and the loser lets go last.
NoUseAfterFree ==
    \A c \in Calls :
        LET busy == race[c].main \in {"delay", "await", "release", "free"}
            left == \E i \in Both : race[c].work[i] \notin {"none", "ended"}
        IN  busy \/ left => race[c].alive

\* A response buffer is never shared: what the caller has got is not the
\* control block's any more, no worker still writes to it, and when the block
\* is gone no buffer is left that nobody frees.
BodyHasOneOwner ==
    \A c \in Calls :
        LET q == race[c]
        IN  /\ q.got # -1 => q.buf[q.got] \in {"caller", "none"} /\ q.done[q.got]
            /\ ~q.alive => \A i \in Both : q.buf[i] # "ctrl"

\* If a transfer came back with 200 before the call returned, the caller gets a
\* 200: a failed primary never hides the answer of the secondary.
AnswerIfAny ==
    \A c \in Calls :
        LET q == race[c]
        IN  q.got # -1 /\ q.out[q.got] # "200" => \A i \in Both : q.out[i] # "200"

\* When the call has returned, a worker that still runs has been told to stop:
\* no transfer goes on for its whole timeout with nobody waiting for it.
LoserCancelled ==
    \A c \in Calls : \A i \in Both :
        race[c].got # -1 /\ race[c].work[i] = "run" => race[c].cancel[i]

\* Every control block is freed in the end, whatever fails on the way.
Reclaimed ==
    \A c \in Calls : race[c].alive ~> ~race[c].alive

-----------------------------------------------------------------------------
(* What the headers say and the code does not do                             *)

\* A call is denied its hedge only when the hedges made are more than the
\* budgeted share of the calls begun (pg_store.h, hedge_budget_pct: "Max % of
\* requests that can trigger hedge"): total_requests is what the code compares
\* with, and latency_tracker_record_request, which would count it, has no
\* caller.
DeniedOnlyOverBudget ==
    [][\A c \in Calls :
          race[c].main = "idle" /\ race'[c].main = "delay" /\ ~race'[c].hedge =>
             ~Admitted(hedged, begun)]_hedgeVars
=============================================================================
