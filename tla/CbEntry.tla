------------------------------- MODULE CbEntry -------------------------------
(***************************************************************************)
(* One cb_entry_t of the circuit breaker (src/policy/circuit_breaker.c)    *)
(* and what each call of the breaker does to it.  Every operator is one    *)
(* critical section of the breaker's mutex: it takes the entry the call    *)
(* finds under the lock and gives the entry the call leaves there.         *)
(*                                                                         *)
(* open_until is kept as the seconds that are left of the cool-off window, *)
(* left = max(0, open_until - now), so "now >= open_until" is left = 0 and *)
(* no clock value has to be bounded.  An absent entry is Fresh: find_entry *)
(* returning NULL and a calloc'ed entry are told apart by no caller.       *)
(***************************************************************************)
EXTENDS Integers, FiniteSets

CONSTANTS
    Threshold,    \* failure_threshold: consecutive failures that trip
    Cooloff,      \* cooloff_sec: length of the open window
    Window,       \* window_size of the model's SLA configuration
    RatioPct,     \* violation_ratio in percent
    RecoverNeed   \* consecutive_recover_need

ASSUME CbAssumption ==
    /\ Threshold \in Nat \ {0}
    /\ Cooloff \in Nat
    /\ Window \in Nat \ {0}
    /\ RatioPct \in 0 .. 100
    /\ RecoverNeed \in Nat \ {0}

States == {"closed", "open", "half_open", "sla_degraded"}

\* fails and normal are only ever compared with Threshold and RecoverNeed, so
\* both counters stop there instead of growing without a bound.
Entry == [state  : States,
          fails  : 0 .. Threshold,
          left   : 0 .. Cooloff,
          probe  : BOOLEAN,
          ring   : [0 .. Window - 1 -> BOOLEAN],
          count  : 0 .. Window,
          head   : 0 .. Window - 1,
          normal : 0 .. RecoverNeed]

\* get_or_create_entry_locked: a new entry is CLOSED and zeroed; a zeroed
\* sample is within every limit.
Fresh == [state |-> "closed", fails |-> 0, left |-> 0, probe |-> FALSE,
          ring |-> [i \in 0 .. Window - 1 |-> FALSE],
          count |-> 0, head |-> 0, normal |-> 0]

UpTo(n, bound) == IF n < bound THEN n + 1 ELSE bound

-----------------------------------------------------------------------------
(* Wrong variants of the operators below, one slip each: every property of   *)
(* a run is checked to fail when its variant stands in for the operator.     *)

\* the deadline is met one second early
OnTimeEarly(e) ==
    IF e.state = "open" /\ e.left <= 1
    THEN [e EXCEPT !.state = "half_open", !.probe = FALSE]
    ELSE e

\* the admitted probe is not marked
AllowUnmarked(e) == e

\* only the probe's success resets the failure count
SuccessKeepsFails(e) ==
    [e EXCEPT !.state = IF e.state = "half_open" THEN "closed" ELSE e.state,
              !.fails = IF e.state = "half_open" THEN 0 ELSE e.fails,
              !.left = 0, !.probe = FALSE]

\* a failure while open starts the window again
FailureRefreshes(e) ==
    LET f == [e EXCEPT !.fails = UpTo(e.fails, Threshold)]
    IN  IF e.state \in {"half_open", "open"} \/ f.fails >= Threshold
        THEN [f EXCEPT !.state = "open", !.left = Cooloff, !.probe = FALSE]
        ELSE f

\* the sample goes to the slot of the count while the window fills
PushAtCount(e, slow) ==
    [e EXCEPT !.ring[IF e.count < Window THEN e.count ELSE e.head] = slow,
              !.head = (e.head + 1) % Window,
              !.count = IF e.count < Window THEN e.count + 1 ELSE e.count,
              !.normal = IF slow THEN 0 ELSE UpTo(e.normal, RecoverNeed)]

-----------------------------------------------------------------------------
\* update_state_on_time_locked
OnTime(e) ==
    IF e.state = "open" /\ e.left = 0
    THEN [e EXCEPT !.state = "half_open", !.probe = FALSE]
    ELSE e

\* What cb_allow_request answers for an entry that OnTime has advanced.
Allowed(e) ==
    \/ e.state \in {"closed", "sla_degraded"}
    \/ e.state = "half_open" /\ ~e.probe

\* What cb_allow_request leaves behind: a half-open entry that admits the
\* caller marks its one probe as taken.
Allow(e) ==
    IF e.state = "half_open" THEN [e EXCEPT !.probe = TRUE] ELSE e

\* cb_record_success.  An OPEN entry stays OPEN but loses its deadline.
Success(e) ==
    [e EXCEPT !.state = IF e.state = "half_open" THEN "closed" ELSE e.state,
              !.fails = 0, !.left = 0, !.probe = FALSE]

Trip(e) == [e EXCEPT !.state = "open", !.left = Cooloff, !.probe = FALSE]

\* cb_record_failure with a status that counts (429, 5xx, transport error).
Failure(e) ==
    CASE e.state = "half_open" -> Trip(e)
      [] e.state \in {"closed", "sla_degraded"} ->
            LET f == [e EXCEPT !.fails = UpTo(e.fails, Threshold)]
            IN  IF f.fails >= Threshold THEN Trip(f) ELSE f
      [] e.state = "open" -> e

\* The slots of the sample ring that cb_record_sla_sample counts.
Violations(e) == Cardinality({i \in 0 .. e.count - 1 : e.ring[i]})

Push(e, slow) ==
    [e EXCEPT !.ring[e.head] = slow,
              !.head = (e.head + 1) % Window,
              !.count = IF e.count < Window THEN e.count + 1 ELSE e.count,
              !.normal = IF slow THEN 0 ELSE UpTo(e.normal, RecoverNeed)]

\* cb_record_sla_sample; slow says that the sample exceeds a configured limit.
Sample(e, slow) ==
    LET p == Push(e, slow)
    IN  CASE p.state = "closed" /\ p.count >= Window
             /\ 100 * Violations(p) >= RatioPct * p.count ->
                [p EXCEPT !.state = "sla_degraded", !.normal = 0]
          [] p.state = "sla_degraded" /\ p.normal >= RecoverNeed ->
                [p EXCEPT !.state = "closed", !.count = 0, !.head = 0,
                          !.normal = 0]
          [] OTHER -> p

\* cb_override_state: "reset", "open" and "degrade" of the admin API.
Override(e, s) ==
    CASE s = "closed" -> [e EXCEPT !.state = s, !.fails = 0, !.left = 0,
                                   !.probe = FALSE, !.count = 0, !.normal = 0]
      [] s = "open" -> [e EXCEPT !.state = s, !.left = Cooloff, !.probe = FALSE]
      [] s = "sla_degraded" -> [e EXCEPT !.state = s, !.normal = 0]

\* A second passes: every open window is one second closer to its end.
Elapse(e) == [e EXCEPT !.left = IF e.left > 0 THEN e.left - 1 ELSE 0]
=============================================================================
