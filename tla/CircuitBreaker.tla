---------------------------- MODULE CircuitBreaker ----------------------------
(***************************************************************************)
(* The per-endpoint circuit breaker of src/policy/circuit_breaker.c in     *)
(* local mode (no Redis pool), with the request threads that call it.      *)
(*                                                                         *)
(* entry[k] is the cb_entry_t of the key k (a model and endpoint pair).    *)
(* A request thread asks cb_allow_request, is in flight on the key when    *)
(* admitted, and ends with one of the records the pipelines make: success, *)
(* counted failure, a status cb_record_failure ignores, or none at all     *)
(* (src/core/pipeline_chat.c: a stream that breaks after its headers were  *)
(* sent, a candidate that was selected and never tried).                   *)
(*                                                                         *)
(* hist is a history variable: what a property needs to know of the past   *)
(* and the code does not keep.                                             *)
(***************************************************************************)
EXTENDS CbEntry, Sequences

CONSTANTS
    Keys,       \* model:endpoint pairs
    Requests    \* request threads

VARIABLES
    entry,      \* the breaker's hash table, by key
    slaOn,      \* find_sla_cfg_locked finds a configuration for the model
    req,        \* the key a request is in flight on, or Idle
    hist        \* history, by key

vars == <<entry, slaOn, req, hist>>

Idle == "idle"

\* age      seconds since the key last tripped (up to Cooloff)
\* relieved a success was recorded since that trip
\* admitted requests admitted since the entry last became half-open
\* streak   counted failures since the last success or reset (up to Threshold)
\* recent   the samples since the ring was last emptied, the last Window of them
History == [age : 0 .. Cooloff, relieved : BOOLEAN, admitted : Nat,
            streak : 0 .. Threshold, recent : Seq(BOOLEAN)]

NoHistory == [age |-> 0, relieved |-> FALSE, admitted |-> 0,
              streak |-> 0, recent |-> <<>>]

Init ==
    /\ entry = [k \in Keys |-> Fresh]
    /\ slaOn = FALSE
    /\ req = [r \in Requests |-> Idle]
    /\ hist = [k \in Keys |-> NoHistory]

-----------------------------------------------------------------------------
\* The history of a key whose entry goes from e to f.
Age(h, e, f) ==
    LET tripped == f.state = "open" /\ e.state # "open"
        opened  == f.state = "half_open" /\ e.state # "half_open"
    IN  [h EXCEPT !.age = IF tripped THEN 0 ELSE h.age,
                  !.relieved = IF tripped THEN FALSE ELSE h.relieved,
                  !.admitted = IF opened THEN 0 ELSE h.admitted]

\* A call under the lock: the entry is e once time has advanced it, and f when
\* the call returns.
Become(k, e, f, h) ==
    /\ entry' = [entry EXCEPT ![k] = f]
    /\ hist' = [hist EXCEPT ![k] = Age(Age(h, entry[k], e), e, f)]

\* cb_get_state and cb_get_open_until: the query that advances an entry
cb_get_state(k) ==
    /\ Become(k, OnTime(entry[k]), OnTime(entry[k]), hist[k])
    /\ UNCHANGED <<slaOn, req>>

\* cb_allow_request: true, and the caller goes on to the endpoint
cb_allow_request(r, k) ==
    /\ req[r] = Idle
    /\ LET e == OnTime(entry[k])
           h == Age(hist[k], entry[k], e)
       IN  /\ Allowed(e)
           /\ entry' = [entry EXCEPT ![k] = Allow(e)]
           /\ hist' = [hist EXCEPT ![k] =
                          [h EXCEPT !.admitted = IF e.state = "half_open"
                                                 THEN @ + 1 ELSE @]]
    /\ req' = [req EXCEPT ![r] = k]
    /\ UNCHANGED slaOn

\* A request is sent to an endpoint the breaker was not asked about, or
\* rejected: the router's provider override and its emergency fallback
SendUnasked(r, k) ==
    /\ req[r] = Idle
    /\ req' = [req EXCEPT ![r] = k]
    /\ UNCHANGED <<entry, slaOn, hist>>

\* cb_record_success by a request in flight
cb_record_success(r) ==
    /\ req[r] \in Keys
    /\ LET k == req[r]
       IN  Become(k, entry[k], Success(entry[k]),
                  [hist[k] EXCEPT !.relieved = TRUE, !.streak = 0])
    /\ req' = [req EXCEPT ![r] = Idle]
    /\ UNCHANGED slaOn

\* cb_record_failure by a request in flight, 429, 5xx or no status
cb_record_failure(r) ==
    /\ req[r] \in Keys
    /\ LET k == req[r]
           e == OnTime(entry[k])
       IN  Become(k, e, Failure(e),
                  [hist[k] EXCEPT !.streak = UpTo(hist[k].streak, Threshold)])
    /\ req' = [req EXCEPT ![r] = Idle]
    /\ UNCHANGED slaOn

\* A request ends and the breaker learns nothing: cb_record_failure returns
\* early on any other status, or no record is made.
EndUnrecorded(r) ==
    /\ req[r] \in Keys
    /\ req' = [req EXCEPT ![r] = Idle]
    /\ UNCHANGED <<entry, slaOn, hist>>

\* cb_record_sla_sample by a request in flight (the first chunk of a stream,
\* the end of a call); a no-op until the model has an SLA configuration
cb_record_sla_sample(r, slow) ==
    /\ slaOn
    /\ req[r] \in Keys
    /\ LET k    == req[r]
           e    == OnTime(entry[k])
           f    == Sample(e, slow)
           next == Append(hist[k].recent, slow)
           kept == IF Len(next) > Window THEN Tail(next) ELSE next
       IN  Become(k, e, f, [hist[k] EXCEPT !.recent =
                                  IF f.count = 0 THEN <<>> ELSE kept])
    /\ UNCHANGED <<slaOn, req>>

\* cb_configure_sla: the admin API always configures the same limits
cb_configure_sla ==
    /\ ~slaOn
    /\ slaOn' = TRUE
    /\ UNCHANGED <<entry, req, hist>>

\* cb_override_state
cb_override_state(k, s) ==
    /\ LET h == [hist[k] EXCEPT !.streak = IF s = "closed" THEN 0 ELSE @,
                                !.recent = IF s = "closed" THEN <<>> ELSE @]
       IN  Become(k, entry[k], Override(entry[k], s), h)
    /\ UNCHANGED <<slaOn, req>>

\* A second passes.
Tick ==
    /\ entry' = [k \in Keys |-> Elapse(entry[k])]
    /\ hist' = [k \in Keys |-> [hist[k] EXCEPT !.age = UpTo(@, Cooloff)]]
    /\ UNCHANGED <<slaOn, req>>

Next ==
    \/ \E k \in Keys : cb_get_state(k)
    \/ \E r \in Requests, k \in Keys : cb_allow_request(r, k)
    \/ \E r \in Requests, k \in Keys : SendUnasked(r, k)
    \/ \E r \in Requests : cb_record_success(r)
    \/ \E r \in Requests : cb_record_failure(r)
    \/ \E r \in Requests : EndUnrecorded(r)
    \/ \E r \in Requests, slow \in BOOLEAN : cb_record_sla_sample(r, slow)
    \/ cb_configure_sla
    \/ \E k \in Keys, s \in {"closed", "open", "sla_degraded"} : cb_override_state(k, s)
    \/ Tick

\* Time passes.  Nothing is assumed of the clients or of the administrator.
Spec == Init /\ [][Next]_vars /\ WF_vars(Tick)

-----------------------------------------------------------------------------
\* The types of the breaker's table and of the request threads.
TypeOK ==
    /\ entry \in [Keys -> Entry]
    /\ slaOn \in BOOLEAN
    /\ req \in [Requests -> Keys \cup {Idle}]
    /\ hist \in [Keys -> History]

\* A half-open entry has admitted at most one request since it became
\* half-open, whatever late answers, samples and overrides came in between
\* (cb_allow_request: "true for 1 probe request").
OneProbePerEpisode ==
    \A k \in Keys : entry[k].state = "half_open" => hist[k].admitted <= 1

\* Unless a success has been recorded since the trip, an endpoint becomes
\* half-open only when the whole cool-off window has passed: neither failures,
\* nor samples, nor a second override shorten it (update_state_on_time_locked).
CooloffUnlessRelieved ==
    \A k \in Keys :
        entry[k].state = "half_open" /\ ~hist[k].relieved => hist[k].age = Cooloff

\* consecutive_failures never exceeds the counted failures since the last
\* success, so a breaker trips on failures that really were consecutive.
FailuresAreConsecutive ==
    \A k \in Keys : entry[k].fails <= hist[k].streak

\* When the SLA window is full, the ring holds the last Window samples: the
\* violation ratio is computed over the sliding window, also after an
\* override emptied the window without moving sample_head.
RingIsLastWindow ==
    \A k \in Keys :
        LET e == entry[k]
            h == hist[k].recent
        IN  /\ Len(h) = e.count
            /\ e.count = Window =>
                  \A i \in 1 .. Window : h[i] = e.ring[(e.head + i - 1) % Window]

\* Only an override moves the deadline of an open window that has not run out:
\* failures that arrive while the endpoint is open keep the original window.
OpenWindowNotExtended ==
    [][\A k \in Keys :
          /\ entry[k].state = "open" /\ entry[k].left > 0
          /\ entry'[k].state = "open" /\ entry'[k].left > entry[k].left
          => cb_override_state(k, "open")]_vars

\* An open window runs out, unless the endpoint is forced open again and
\* again, however much failing traffic still reaches it.
OpenWindowEnds ==
    \A k \in Keys :
        \/ entry[k].state = "open" ~> entry[k].state # "open" \/ entry[k].left = 0
        \/ []<><<cb_override_state(k, "open")>>_vars
=============================================================================
