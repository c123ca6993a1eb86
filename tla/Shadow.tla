-------------------------------- MODULE Shadow --------------------------------
(***************************************************************************)
(* The shadow engine of src/policy/shadow.c as src/core/aigate_core.c and  *)
(* the chat pipeline use it.  A shadowed request takes a pairing slot and  *)
(* queues a task; its own answer and the answer of the task, which a       *)
(* worker thread makes, arrive in either order, and the second of them     *)
(* moves the pair to the ring of evaluations and gives the slot back.      *)
(* Neither a slot that was not to be had nor a task that did not fit the   *)
(* queue stops the request.                                                *)
(*                                                                         *)
(* Evaluations are numbered.  What was measured is left out, except which  *)
(* report of the primary it came from: the pipeline reports an answer, and *)
(* chat_req_cleanup reports once more, with constants.                     *)
(***************************************************************************)
EXTENDS Integers, Sequences, FiniteSets, SequencesExt

CONSTANTS
    ShadowReqs,    \* request threads
    PairSlots,     \* SHADOW_PAIRING_SLOTS_CAPACITY
    TaskCap,       \* capacity of the task queue
    EvalCap,       \* capacity of the ring of evaluations
    MaxEvals       \* bound: shadowed requests

ASSUME ShadowAssumption ==
    /\ PairSlots \in Nat /\ TaskCap \in Nat /\ EvalCap \in Nat \ {0} /\ MaxEvals \in Nat

VARIABLES
    pairs,      \* pairing_slots
    tasks,      \* the queue
    unqueued,   \* tasks that did not fit (dropped_count)
    worker,     \* the task the worker has popped
    shadowOn,   \* running: "on", "stopping", "off"
    evals,      \* the ring of evaluations, oldest first
    sreq,       \* by request thread
    sdone       \* history: committed evaluations, and those with an answer of the pipeline

shadowVars == <<pairs, tasks, unqueued, worker, shadowOn, evals, sreq, sdone>>

NoPair == [id |-> 0, primary |-> "none", shadow |-> FALSE]
NoReq == [pc |-> "idle", id |-> 0]
PairIdx == 1 .. PairSlots

ShadowInit ==
    /\ pairs = [i \in PairIdx |-> NoPair]
    /\ tasks = <<>> /\ unqueued = {} /\ worker = 0 /\ shadowOn = "on" /\ evals = <<>>
    /\ sreq = [r \in ShadowReqs |-> NoReq]
    /\ sdone = [n |-> 0, commits |-> <<>>, answered |-> {}]

Holding(id) == {i \in PairIdx : pairs[i].id = id}

\* resolve_chat_target: the first free slot, if there is one.
shadow_engine_start_pairing(r) ==
    /\ shadowOn = "on" /\ sreq[r].pc = "idle" /\ sdone.n < MaxEvals
    /\ LET id == sdone.n + 1
           free == {i \in PairIdx : pairs[i].id = 0}
       IN  /\ pairs' = IF free = {} THEN pairs
                       ELSE [pairs EXCEPT ![CHOOSE i \in free : \A j \in free : i <= j].id = id]
           /\ sreq' = [sreq EXCEPT ![r] = [pc |-> "submit", id |-> id]]
           /\ sdone' = [sdone EXCEPT !.n = id]
    /\ UNCHANGED <<tasks, unqueued, worker, shadowOn, evals>>

shadow_engine_submit_task(r) ==
    /\ sreq[r].pc = "submit"
    /\ IF Len(tasks) >= TaskCap THEN unqueued' = unqueued \cup {sreq[r].id} /\ UNCHANGED tasks
       ELSE tasks' = Append(tasks, sreq[r].id) /\ UNCHANGED unqueued
    /\ sreq' = [sreq EXCEPT ![r].pc = "called"]
    /\ UNCHANGED <<pairs, worker, shadowOn, evals, sdone>>

\* commit_pairing_slot_locked and shadow_eval_cache_record: the slot is free, the ring keeps the last ones.
Commit(i) ==
    /\ pairs' = [pairs EXCEPT ![i] = NoPair]
    /\ evals' = IF Len(evals) < EvalCap THEN Append(evals, pairs[i].id) ELSE Append(Tail(evals), pairs[i].id)

Reported(id, from, commits) ==
    sdone' = [sdone EXCEPT !.answered = IF from = "answer" THEN @ \cup {id} ELSE @, !.commits = @ \o commits]

\* Mutant: the report of the request never completes a pair.
RecordPrimaryOnly(id, from) ==
    /\ pairs' = [i \in PairIdx |-> IF i \in Holding(id) /\ pairs[i].primary = "none"
                                   THEN [pairs[i] EXCEPT !.primary = from] ELSE pairs[i]]
    /\ UNCHANGED evals /\ Reported(id, from, <<>>)

\* The first report counts; with the shadow's there it completes the pair.
shadow_engine_record_primary(id, from) ==
    IF \A i \in Holding(id) : pairs[i].primary # "none"
    THEN UNCHANGED <<pairs, evals>> /\ Reported(id, from, <<>>)
    ELSE \E i \in Holding(id) :
        IF pairs[i].shadow THEN Commit(i) /\ Reported(id, from, <<[id |-> id, by |-> from]>>)
        ELSE /\ pairs' = [pairs EXCEPT ![i].primary = from]
             /\ UNCHANGED evals /\ Reported(id, from, <<>>)

\* The pipeline, when the request has an answer.
Answered(r) ==
    /\ sreq[r].pc = "called"
    /\ shadow_engine_record_primary(sreq[r].id, "answer")
    /\ sreq' = [sreq EXCEPT ![r].pc = "answered"]
    /\ UNCHANGED <<tasks, unqueued, worker, shadowOn>>

\* chat_req_cleanup, for every request.
Cleanup(r) ==
    /\ sreq[r].pc \in {"called", "answered"}
    /\ shadow_engine_record_primary(sreq[r].id, "cleanup")
    /\ sreq' = [sreq EXCEPT ![r] = NoReq]
    /\ UNCHANGED <<tasks, unqueued, worker, shadowOn>>

shadow_queue_pop ==
    /\ shadowOn = "on" /\ worker = 0 /\ tasks # <<>>
    /\ worker' = Head(tasks) /\ tasks' = Tail(tasks)
    /\ UNCHANGED <<pairs, unqueued, shadowOn, evals, sreq, sdone>>

\* A task whose slot is not there is thrown away.
shadow_engine_record_shadow ==
    /\ worker # 0
    /\ IF Holding(worker) = {} THEN UNCHANGED <<pairs, evals, sdone>>
       ELSE \E i \in Holding(worker) :
            IF pairs[i].primary # "none"
            THEN Commit(i) /\ Reported(worker, "shadow", <<[id |-> worker, by |-> pairs[i].primary]>>)
            ELSE pairs' = [pairs EXCEPT ![i].shadow = TRUE] /\ UNCHANGED <<evals, sdone>>
    /\ worker' = 0
    /\ UNCHANGED <<tasks, unqueued, shadowOn, sreq>>

\* Shutdown, after the requests: the worker ends its task, those in the queue are freed.
shadow_engine_stop ==
    /\ shadowOn = "on" /\ \A r \in ShadowReqs : sreq[r] = NoReq
    /\ shadowOn' = "stopping"
    /\ UNCHANGED <<pairs, tasks, unqueued, worker, evals, sreq, sdone>>

shadow_engine_destroy ==
    /\ shadowOn = "stopping" /\ worker = 0
    /\ shadowOn' = "off" /\ tasks' = <<>>
    /\ UNCHANGED <<pairs, unqueued, worker, evals, sreq, sdone>>

ShadowNext ==
    \/ \E r \in ShadowReqs :
         shadow_engine_start_pairing(r) \/ shadow_engine_submit_task(r) \/ Answered(r) \/ Cleanup(r)
    \/ shadow_queue_pop \/ shadow_engine_record_shadow \/ shadow_engine_stop \/ shadow_engine_destroy

ShadowSpec == ShadowInit /\ [][ShadowNext]_shadowVars

\* A pairing slot is held only as long as one of the two reports is still to come: the request is
\* under way, or its task is queued or with the worker. The one exception is a task that the full
\* queue refused, which shadow_queue_dropped counts. A pair is committed at most once, with the
\* first report of its request, and the ring shows the last ones in the order of their commits.
PairsSettle ==
    /\ shadowOn = "on" => \A i \in PairIdx : pairs[i].id # 0 =>
         \/ \E r \in ShadowReqs : sreq[r].id = pairs[i].id
         \/ pairs[i].id = worker \/ \E t \in DOMAIN tasks : tasks[t] = pairs[i].id
         \/ pairs[i].id \in unqueued
    /\ \A a, b \in DOMAIN sdone.commits : sdone.commits[a].id = sdone.commits[b].id => a = b
    /\ \A a \in DOMAIN sdone.commits :
         /\ sdone.commits[a].id \notin unqueued
         /\ sdone.commits[a].id \in sdone.answered => sdone.commits[a].by = "answer"
    /\ LET k == Len(sdone.commits)
           m == IF k < EvalCap THEN k ELSE EvalCap
       IN  evals = [i \in 1 .. m |-> sdone.commits[k - m + i].id]
=============================================================================
