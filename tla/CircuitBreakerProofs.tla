------------------------- MODULE CircuitBreakerProofs -------------------------
(***************************************************************************)
(* Safety of the circuit breaker for any number of endpoints and request   *)
(* threads, any threshold, cool-off time and SLA window.                   *)
(***************************************************************************)
EXTENDS CircuitBreaker, TLAPS

-----------------------------------------------------------------------------
\* What relates one entry to its history.

\* the time an unrelieved open window has run and the time it has left
OpenAge(e, h) ==
    e.state = "open" /\ ~h.relieved => h.age + e.left >= Cooloff

HalfOpenAge(e, h) ==
    e.state = "half_open" /\ ~h.relieved => h.age = Cooloff

\* the probe flag tells whether this half-open episode has admitted its request
ProbeCount(e, h) ==
    e.state = "half_open" => h.admitted = IF e.probe THEN 1 ELSE 0

FailsBound(e, h) == e.fails <= h.streak

TimeInv(e, h) == OpenAge(e, h) /\ HalfOpenAge(e, h) /\ ProbeCount(e, h)

\* The inductive invariant.
IInv ==
    /\ TypeOK
    /\ \A k \in Keys : TimeInv(entry[k], hist[k]) /\ FailsBound(entry[k], hist[k])

\* The steps a call may take from the entry e to f, as far as time goes: into
\* open only with a whole window, within open without shortening the window
\* (unless relieved), into half-open only from an open window that has run
\* out, within half-open without touching the probe flag.
Legal(e, f, h) ==
    /\ f.state = "open" =>
          \/ e.state # "open" /\ f.left = Cooloff
          \/ e.state = "open" /\ (f.left >= e.left \/ h.relieved)
    /\ f.state = "half_open" =>
          \/ e.state = "half_open" /\ f.probe = e.probe
          \/ e.state = "open" /\ e.left = 0 /\ ~f.probe

-----------------------------------------------------------------------------
\* Every operator on entries yields an entry.

\* A new entry is well typed.
LEMMA FreshType == Fresh \in Entry
  BY CbAssumption DEF Fresh, Entry, States

\* Advancing an entry in time (update_state_on_time_locked) keeps its type.
LEMMA OnTimeType ==
    ASSUME NEW e \in Entry
    PROVE  OnTime(e) \in Entry
  BY CbAssumption DEF OnTime, Entry, States

\* Marking the probe keeps the type.
LEMMA AllowType ==
    ASSUME NEW e \in Entry
    PROVE  Allow(e) \in Entry
  BY CbAssumption DEF Allow, Entry, States

\* Assigning the breaker fields of an entry values of their types.
LEMMA BreakerFields ==
    ASSUME NEW e \in Entry, NEW s \in States, NEW f \in 0 .. Threshold,
           NEW l \in 0 .. Cooloff, NEW p \in BOOLEAN
    PROVE  [e EXCEPT !.state = s, !.fails = f, !.left = l, !.probe = p] \in Entry
  BY DEF Entry

\* Assigning the SLA fields of an entry values of their types.
LEMMA SlaFields ==
    ASSUME NEW e \in Entry, NEW i \in 0 .. Window - 1, NEW b \in BOOLEAN,
           NEW h \in 0 .. Window - 1, NEW c \in 0 .. Window,
           NEW n \in 0 .. RecoverNeed
    PROVE  [e EXCEPT !.ring[i] = b, !.head = h, !.count = c, !.normal = n] \in Entry
  <1>1. [e.ring EXCEPT ![i] = b] \in [0 .. Window - 1 -> BOOLEAN]
    BY DEF Entry
  <1>2. QED
    BY <1>1 DEF Entry

\* Tripping an entry keeps its type.
LEMMA TripType ==
    ASSUME NEW e \in Entry
    PROVE  Trip(e) \in Entry
  <1>1. "open" \in States /\ Cooloff \in 0 .. Cooloff
    BY CbAssumption DEF States
  <1>2. QED
    BY <1>1 DEF Trip, Entry

\* Counting a failure keeps the type.
LEMMA FailsType ==
    ASSUME NEW e \in Entry
    PROVE  [e EXCEPT !.fails = UpTo(e.fails, Threshold)] \in Entry
  <1>1. UpTo(e.fails, Threshold) \in 0 .. Threshold
    BY CbAssumption DEF UpTo, Entry
  <1>2. QED
    BY <1>1 DEF Entry

\* A recorded success keeps the type.
LEMMA SuccessType ==
    ASSUME NEW e \in Entry
    PROVE  Success(e) \in Entry
  <1>1. (IF e.state = "half_open" THEN "closed" ELSE e.state) \in States
    BY DEF Entry, States
  <1>2. 0 \in 0 .. Threshold /\ 0 \in 0 .. Cooloff
    BY CbAssumption
  <1>3. QED
    BY <1>1, <1>2, BreakerFields DEF Success

\* A counted failure keeps the type.
LEMMA FailureType ==
    ASSUME NEW e \in Entry
    PROVE  Failure(e) \in Entry
  <1> DEFINE f == [e EXCEPT !.fails = UpTo(e.fails, Threshold)]
  <1>1. Trip(e) \in Entry /\ f \in Entry /\ Trip(f) \in Entry
    BY TripType, FailsType
  <1>2. e.state \in States
    BY DEF Entry
  <1>3. QED
    BY <1>1, <1>2 DEF Failure, States

\* A pushed sample keeps the ring, its head and its count in range.
LEMMA PushType ==
    ASSUME NEW e \in Entry, NEW slow \in BOOLEAN
    PROVE  Push(e, slow) \in Entry
  <1>1. /\ e.head \in 0 .. Window - 1
        /\ (e.head + 1) % Window \in 0 .. Window - 1
    BY CbAssumption DEF Entry
  <1>2. (IF e.count < Window THEN e.count + 1 ELSE e.count) \in 0 .. Window
    BY CbAssumption DEF Entry
  <1>3. (IF slow THEN 0 ELSE UpTo(e.normal, RecoverNeed)) \in 0 .. RecoverNeed
    BY CbAssumption DEF Entry, UpTo
  <1>4. QED
    BY <1>1, <1>2, <1>3, SlaFields DEF Push

\* The two SLA transitions of a sample keep the type.
LEMMA SlaTransitionType ==
    ASSUME NEW e \in Entry
    PROVE  /\ [e EXCEPT !.state = "sla_degraded", !.normal = 0] \in Entry
           /\ [e EXCEPT !.state = "closed", !.count = 0, !.head = 0,
                        !.normal = 0] \in Entry
  <1>1. /\ "sla_degraded" \in States /\ "closed" \in States
        /\ 0 \in 0 .. RecoverNeed /\ 0 \in 0 .. Window /\ 0 \in 0 .. Window - 1
    BY CbAssumption DEF States
  <1>2. QED
    BY <1>1 DEF Entry

\* So does the whole of cb_record_sla_sample.
LEMMA SampleType ==
    ASSUME NEW e \in Entry, NEW slow \in BOOLEAN
    PROVE  Sample(e, slow) \in Entry
  <1> DEFINE p == Push(e, slow)
  <1>1. p \in Entry
    BY PushType
  <1> HIDE DEF p
  <1>2. /\ [p EXCEPT !.state = "sla_degraded", !.normal = 0] \in Entry
        /\ [p EXCEPT !.state = "closed", !.count = 0, !.head = 0, !.normal = 0] \in Entry
    BY <1>1, SlaTransitionType
  <1>3. QED
    BY <1>1, <1>2 DEF Sample, p

\* An override by the administrator keeps the type.
LEMMA OverrideType ==
    ASSUME NEW e \in Entry, NEW s \in {"closed", "open", "sla_degraded"}
    PROVE  Override(e, s) \in Entry
  <1>1. /\ s \in States /\ 0 \in 0 .. Threshold /\ 0 \in 0 .. Cooloff
        /\ Cooloff \in 0 .. Cooloff /\ 0 \in 0 .. Window /\ 0 \in 0 .. RecoverNeed
    BY CbAssumption DEF States
  <1>2. CASE s = "closed"
    <2>1. [e EXCEPT !.state = s, !.fails = 0, !.left = 0, !.probe = FALSE,
                    !.count = 0, !.normal = 0] \in Entry
      BY <1>1 DEF Entry
    <2>2. QED
      BY <1>2, <2>1 DEF Override
  <1>3. CASE s = "open"
    <2>1. [e EXCEPT !.state = s, !.left = Cooloff, !.probe = FALSE] \in Entry
      BY <1>1 DEF Entry
    <2>2. QED
      BY <1>3, <2>1 DEF Override
  <1>4. CASE s = "sla_degraded"
    <2>1. [e EXCEPT !.state = s, !.normal = 0] \in Entry
      BY <1>1 DEF Entry
    <2>2. QED
      BY <1>4, <2>1 DEF Override
  <1>5. QED
    BY <1>2, <1>3, <1>4

\* A second passing keeps the type.
LEMMA ElapseType ==
    ASSUME NEW e \in Entry
    PROVE  Elapse(e) \in Entry
  <1>1. (IF e.left > 0 THEN e.left - 1 ELSE 0) \in 0 .. Cooloff
    BY CbAssumption DEF Entry
  <1>2. QED
    BY <1>1 DEF Elapse, Entry

-----------------------------------------------------------------------------
\* The history.

\* What Age does to each field of a history.
LEMMA AgeFields ==
    ASSUME NEW h \in History, NEW e \in Entry, NEW f \in Entry
    PROVE  /\ Age(h, e, f) \in History
           /\ Age(h, e, f).age =
                 IF f.state = "open" /\ e.state # "open" THEN 0 ELSE h.age
           /\ Age(h, e, f).relieved =
                 IF f.state = "open" /\ e.state # "open" THEN FALSE ELSE h.relieved
           /\ Age(h, e, f).admitted =
                 IF f.state = "half_open" /\ e.state # "half_open" THEN 0 ELSE h.admitted
           /\ Age(h, e, f).streak = h.streak
  <1> DEFINE t == f.state = "open" /\ e.state # "open"
             o == f.state = "half_open" /\ e.state # "half_open"
             a == IF t THEN 0 ELSE h.age
             r == IF t THEN FALSE ELSE h.relieved
             n == IF o THEN 0 ELSE h.admitted
  <1>1. a \in 0 .. Cooloff /\ n \in Nat
    BY CbAssumption DEF History
  <1>2. r \in BOOLEAN
    BY DEF History
  <1> HIDE DEF a, r, n
  <1>3. /\ [h EXCEPT !.age = a, !.relieved = r, !.admitted = n] \in History
        /\ [h EXCEPT !.age = a, !.relieved = r, !.admitted = n].age = a
        /\ [h EXCEPT !.age = a, !.relieved = r, !.admitted = n].relieved = r
        /\ [h EXCEPT !.age = a, !.relieved = r, !.admitted = n].admitted = n
        /\ [h EXCEPT !.age = a, !.relieved = r, !.admitted = n].streak = h.streak
    BY <1>1, <1>2 DEF History
  <1>4. QED
    BY <1>3 DEF Age, a, r, n

\* A legal step of the entry keeps entry and history in agreement.
LEMMA LegalStep ==
    ASSUME NEW e \in Entry, NEW f \in Entry, NEW h \in History,
           TimeInv(e, h), Legal(e, f, h)
    PROVE  TimeInv(f, Age(h, e, f))
  <1> DEFINE g == Age(h, e, f)
  <1>1. /\ g.age = IF f.state = "open" /\ e.state # "open" THEN 0 ELSE h.age
        /\ g.relieved = IF f.state = "open" /\ e.state # "open" THEN FALSE ELSE h.relieved
        /\ g.admitted = IF f.state = "half_open" /\ e.state # "half_open"
                        THEN 0 ELSE h.admitted
    BY AgeFields
  <1>2. /\ e.left \in 0 .. Cooloff /\ f.left \in 0 .. Cooloff
        /\ h.age \in 0 .. Cooloff /\ Cooloff \in Nat
    BY CbAssumption DEF Entry, History
  <1> HIDE DEF g
  <1>3. OpenAge(f, g)
    BY <1>1, <1>2 DEF TimeInv, Legal, OpenAge
  <1>4. HalfOpenAge(f, g)
    BY <1>1, <1>2 DEF TimeInv, Legal, OpenAge, HalfOpenAge
  <1>5. ProbeCount(f, g)
    BY <1>1 DEF TimeInv, Legal, ProbeCount
  <1>6. QED
    BY <1>3, <1>4, <1>5 DEF TimeInv, g

\* Two legal steps in a row: the entry is advanced in time, then changed.
LEMMA LegalSteps ==
    ASSUME NEW e \in Entry, NEW m \in Entry, NEW f \in Entry, NEW h \in History,
           TimeInv(e, h), Legal(e, m, h), Legal(m, f, Age(h, e, m))
    PROVE  /\ TimeInv(f, Age(Age(h, e, m), m, f))
           /\ Age(Age(h, e, m), m, f) \in History
           /\ Age(Age(h, e, m), m, f).streak = h.streak
  <1>1. Age(h, e, m) \in History /\ Age(h, e, m).streak = h.streak
    BY AgeFields
  <1>2. TimeInv(m, Age(h, e, m))
    BY LegalStep
  <1>3. QED
    BY <1>1, <1>2, LegalStep, AgeFields

\* Not moving is legal.
LEMMA SameLegal ==
    ASSUME NEW e \in Entry, NEW h \in History
    PROVE  Legal(e, e, h)
  BY CbAssumption DEF Legal, Entry

\* Advancing an entry in time is legal and counts no failure.
LEMMA OnTimeLegal ==
    ASSUME NEW e \in Entry, NEW h \in History
    PROVE  Legal(e, OnTime(e), h) /\ OnTime(e).fails = e.fails
  <1> DEFINE f == [e EXCEPT !.state = "half_open", !.probe = FALSE]
  <1>1. f.state = "half_open" /\ ~f.probe /\ f.fails = e.fails
    BY DEF Entry
  <1> HIDE DEF f
  <1>2. CASE e.state = "open" /\ e.left = 0
    <2>1. OnTime(e) = f
      BY <1>2 DEF OnTime, f
    <2>2. QED
      BY <1>1, <1>2, <2>1 DEF Legal
  <1>3. CASE ~(e.state = "open" /\ e.left = 0)
    <2>1. OnTime(e) = e
      BY <1>3 DEF OnTime
    <2>2. QED
      BY <2>1, SameLegal
  <1>4. QED
    BY <1>2, <1>3

\* A success is legal when it relieves the history.
LEMMA SuccessLegal ==
    ASSUME NEW e \in Entry, NEW h \in History, h.relieved
    PROVE  Legal(e, Success(e), h) /\ Success(e).fails = 0
  <1> DEFINE s == IF e.state = "half_open" THEN "closed" ELSE e.state
  <1>1. /\ s # "half_open"
        /\ s = "open" => e.state = "open"
    OBVIOUS
  <1> HIDE DEF s
  <1>2. LET f == [e EXCEPT !.state = s, !.fails = 0, !.left = 0, !.probe = FALSE]
        IN  f.state = s /\ f.fails = 0
    BY DEF Entry
  <1>3. Success(e).state = s /\ Success(e).fails = 0
    BY <1>2 DEF Success, s
  <1>4. QED
    BY <1>1, <1>3 DEF Legal

\* A counted failure is legal, and counts at most one failure.
LEMMA FailureLegal ==
    ASSUME NEW e \in Entry, NEW h \in History
    PROVE  Legal(e, Failure(e), h) /\ Failure(e).fails <= UpTo(e.fails, Threshold)
  <1> DEFINE f == [e EXCEPT !.fails = UpTo(e.fails, Threshold)]
  <1>1. /\ e.state \in States /\ e.fails \in 0 .. Threshold /\ e.left \in 0 .. Cooloff
        /\ f.fails = UpTo(e.fails, Threshold) /\ f.state = e.state
        /\ f.left = e.left /\ f.probe = e.probe
        /\ e.fails <= UpTo(e.fails, Threshold)
    BY CbAssumption DEF Entry, UpTo
  <1>2. /\ Trip(e).state = "open" /\ Trip(e).left = Cooloff /\ Trip(e).fails = e.fails
        /\ Trip(f).state = "open" /\ Trip(f).left = Cooloff /\ Trip(f).fails = f.fails
    BY DEF Trip, Entry
  <1>3. UpTo(e.fails, Threshold) \in Int /\ Cooloff \in Nat
    BY CbAssumption DEF UpTo, Entry
  <1> HIDE DEF f
  <1>4. CASE e.state = "half_open"
    <2>1. Failure(e) = Trip(e)
      BY <1>4 DEF Failure
    <2>2. QED
      BY <2>1, <1>1, <1>2, <1>4 DEF Legal
  <1>5. CASE e.state = "open"
    <2>1. Failure(e) = e
      BY <1>5 DEF Failure
    <2>2. QED
      BY <2>1, <1>1, <1>5, SameLegal
  <1>6. CASE e.state \in {"closed", "sla_degraded"}
    <2>1. Failure(e) = IF f.fails >= Threshold THEN Trip(f) ELSE f
      BY <1>6 DEF Failure, f
    <2>2. QED
      BY <2>1, <1>1, <1>2, <1>3, <1>6 DEF Legal
  <1>7. QED
    BY <1>1, <1>4, <1>5, <1>6 DEF States

\* A sample moves an entry only between closed and degraded.
LEMMA SampleLegal ==
    ASSUME NEW e \in Entry, NEW slow \in BOOLEAN, NEW h \in History
    PROVE  Legal(e, Sample(e, slow), h) /\ Sample(e, slow).fails = e.fails
  <1> DEFINE p == Push(e, slow)
  <1>1. /\ p \in Entry /\ p.state = e.state /\ p.left = e.left
        /\ p.probe = e.probe /\ p.fails = e.fails
    BY PushType DEF Push, Entry
  <1>2. e.left \in 0 .. Cooloff
    BY DEF Entry
  <1> HIDE DEF p
  <1>3. \/ Sample(e, slow) = p
        \/ /\ p.state = "closed"
           /\ Sample(e, slow) = [p EXCEPT !.state = "sla_degraded", !.normal = 0]
        \/ /\ p.state = "sla_degraded"
           /\ Sample(e, slow) = [p EXCEPT !.state = "closed", !.count = 0,
                                          !.head = 0, !.normal = 0]
    BY DEF Sample, p
  <1>4. CASE Sample(e, slow) = p
    BY <1>1, <1>2, <1>4 DEF Legal
  <1>5. CASE /\ p.state = "closed"
             /\ Sample(e, slow) = [p EXCEPT !.state = "sla_degraded", !.normal = 0]
    BY <1>1, <1>5 DEF Legal, Entry
  <1>6. CASE /\ p.state = "sla_degraded"
             /\ Sample(e, slow) = [p EXCEPT !.state = "closed", !.count = 0,
                                            !.head = 0, !.normal = 0]
    BY <1>1, <1>6 DEF Legal, Entry
  <1>7. QED
    BY <1>3, <1>4, <1>5, <1>6

\* Whatever the administrator forces is legal.
LEMMA OverrideLegal ==
    ASSUME NEW e \in Entry, NEW s \in {"closed", "open", "sla_degraded"},
           NEW h \in History
    PROVE  /\ Legal(e, Override(e, s), h)
           /\ Override(e, s).fails = IF s = "closed" THEN 0 ELSE e.fails
  <1>1. CASE s = "closed"
    <2>1. LET f == [e EXCEPT !.state = s, !.fails = 0, !.left = 0, !.probe = FALSE,
                             !.count = 0, !.normal = 0]
          IN  f.state = s /\ f.fails = 0
      BY DEF Entry
    <2>2. Override(e, s).state = s /\ Override(e, s).fails = 0
      BY <1>1, <2>1 DEF Override
    <2>3. QED
      BY <1>1, <2>2 DEF Legal
  <1>2. CASE s = "open"
    <2>1. LET f == [e EXCEPT !.state = s, !.left = Cooloff, !.probe = FALSE]
          IN  f.state = s /\ f.left = Cooloff /\ f.fails = e.fails
      BY DEF Entry
    <2>2. /\ Override(e, s).state = s /\ Override(e, s).left = Cooloff
          /\ Override(e, s).fails = e.fails
      BY <1>2, <2>1 DEF Override
    <2>3. Cooloff >= e.left
      BY CbAssumption DEF Entry
    <2>4. QED
      BY <1>2, <2>2, <2>3 DEF Legal
  <1>3. CASE s = "sla_degraded"
    BY <1>3 DEF Override, Legal, Entry
  <1>4. QED
    BY <1>1, <1>2, <1>3

-----------------------------------------------------------------------------
\* The invariant is preserved by a call under the lock that advances the entry
\* to e, changes it to f and leaves the key's history at h before aging.
LEMMA BecomeInv ==
    ASSUME IInv, NEW k \in Keys, NEW e \in Entry, NEW f \in Entry, NEW h \in History,
           h.age = hist[k].age, h.admitted = hist[k].admitted,
           h.relieved \/ ~hist[k].relieved,
           Legal(entry[k], e, h), Legal(e, f, Age(h, entry[k], e)),
           f.fails <= h.streak,
           Become(k, e, f, h),
           req' \in [Requests -> Keys \cup {Idle}], slaOn' \in BOOLEAN
    PROVE  IInv'
  <1> DEFINE g == Age(Age(h, entry[k], e), e, f)
  <1>1. entry[k] \in Entry /\ TimeInv(entry[k], hist[k])
    BY DEF IInv, TypeOK
  <1>2. TimeInv(entry[k], h)
    BY <1>1 DEF TimeInv, OpenAge, HalfOpenAge, ProbeCount
  <1>3. TimeInv(f, g) /\ g \in History /\ g.streak = h.streak
    BY <1>1, <1>2, LegalSteps
  <1> HIDE DEF g
  <1>4. entry' = [entry EXCEPT ![k] = f] /\ hist' = [hist EXCEPT ![k] = g]
    BY DEF Become, g
  <1>5. TypeOK'
    BY <1>3, <1>4 DEF IInv, TypeOK
  <1>6. ASSUME NEW j \in Keys
        PROVE  TimeInv(entry'[j], hist'[j]) /\ FailsBound(entry'[j], hist'[j])
    <2>1. CASE j = k
      <3>1. entry'[j] = f /\ hist'[j] = g
        BY <1>4, <2>1 DEF IInv, TypeOK
      <3>2. QED
        BY <1>3, <3>1 DEF FailsBound
    <2>2. CASE j # k
      <3>1. entry'[j] = entry[j] /\ hist'[j] = hist[j]
        BY <1>4, <2>2 DEF IInv, TypeOK
      <3>2. QED
        BY <3>1 DEF IInv
    <2>3. QED
      BY <2>1, <2>2
  <1>7. QED
    BY <1>5, <1>6 DEF IInv

\* The initial state satisfies the invariant.
LEMMA InitInv == Init => IInv
  <1> SUFFICES ASSUME Init PROVE IInv
    OBVIOUS
  <1>1. NoHistory \in History
    BY CbAssumption DEF NoHistory, History
  <1>2. TypeOK
    BY <1>1, FreshType DEF Init, TypeOK
  <1>3. ASSUME NEW k \in Keys
        PROVE  TimeInv(entry[k], hist[k]) /\ FailsBound(entry[k], hist[k])
    <2>1. entry[k].state = "closed" /\ entry[k].fails = 0 /\ hist[k].streak = 0
      BY DEF Init, Fresh, NoHistory
    <2>2. QED
      BY <2>1 DEF TimeInv, OpenAge, HalfOpenAge, ProbeCount, FailsBound
  <1>4. QED
    BY <1>2, <1>3 DEF IInv

\* cb_allow_request preserves the invariant: the probe flag it sets and the
\* request it admits go together.
LEMMA AllowInv ==
    ASSUME IInv, NEW r \in Requests, NEW k \in Keys, cb_allow_request(r, k)
    PROVE  IInv'
  <1> DEFINE e == OnTime(entry[k])
             h == Age(hist[k], entry[k], e)
             f == Allow(e)
             n == IF e.state = "half_open" THEN h.admitted + 1 ELSE h.admitted
             g == [h EXCEPT !.admitted = n]
  <1>1. entry[k] \in Entry /\ hist[k] \in History /\ TimeInv(entry[k], hist[k])
    BY DEF IInv, TypeOK
  <1>2. e \in Entry /\ Legal(entry[k], e, hist[k]) /\ e.fails = entry[k].fails
    BY <1>1, OnTimeType, OnTimeLegal
  <1>3. h \in History /\ h.streak = hist[k].streak /\ TimeInv(e, h)
    BY <1>1, <1>2, AgeFields, LegalStep
  <1>4. entry[k].fails <= hist[k].streak
    BY DEF IInv, FailsBound
  <1>5. Allowed(e)
    BY DEF cb_allow_request
  <1>6. entry' = [entry EXCEPT ![k] = f] /\ hist' = [hist EXCEPT ![k] = g]
    BY DEF cb_allow_request
  <1>7. req' \in [Requests -> Keys \cup {Idle}] /\ slaOn' \in BOOLEAN
    BY DEF cb_allow_request, IInv, TypeOK
  <1> HIDE DEF e, h
  <1>8. f \in Entry /\ f.state = e.state /\ f.left = e.left /\ f.fails = e.fails
    BY <1>2, AllowType DEF Allow, Entry
  <1>9. e.state = "half_open" => ~e.probe /\ f.probe
    BY <1>2, <1>5 DEF Allowed, Allow, Entry
  <1>10. n \in Nat
    BY <1>3 DEF History
  <1> HIDE DEF f, n
  <1>11. /\ g \in History /\ g.age = h.age /\ g.relieved = h.relieved
         /\ g.streak = h.streak /\ g.admitted = n
    BY <1>3, <1>10 DEF History
  <1> HIDE DEF g
  <1>12. OpenAge(f, g) /\ HalfOpenAge(f, g)
    BY <1>3, <1>8, <1>11 DEF TimeInv, OpenAge, HalfOpenAge
  <1>13. ProbeCount(f, g)
    BY <1>3, <1>8, <1>9, <1>11 DEF TimeInv, ProbeCount, n
  <1>14. FailsBound(f, g)
    BY <1>2, <1>3, <1>4, <1>8, <1>11 DEF FailsBound
  <1>15. TypeOK'
    BY <1>6, <1>7, <1>8, <1>11 DEF IInv, TypeOK
  <1>16. ASSUME NEW j \in Keys
         PROVE  TimeInv(entry'[j], hist'[j]) /\ FailsBound(entry'[j], hist'[j])
    <2>1. CASE j = k
      <3>1. entry'[j] = f /\ hist'[j] = g
        BY <1>6, <2>1 DEF IInv, TypeOK
      <3>2. QED
        BY <1>12, <1>13, <1>14, <3>1 DEF TimeInv
    <2>2. CASE j # k
      <3>1. entry'[j] = entry[j] /\ hist'[j] = hist[j]
        BY <1>6, <2>2 DEF IInv, TypeOK
      <3>2. QED
        BY <3>1 DEF IInv
    <2>3. QED
      BY <2>1, <2>2
  <1>17. QED
    BY <1>15, <1>16 DEF IInv

\* A second passing preserves the invariant: what an open window loses, its
\* age gains.
LEMMA TickInv ==
    ASSUME IInv, Tick
    PROVE  IInv'
  <1>1. ASSUME NEW k \in Keys
        PROVE  /\ hist'[k] \in History /\ entry'[k] \in Entry
               /\ TimeInv(entry'[k], hist'[k]) /\ FailsBound(entry'[k], hist'[k])
    <2> DEFINE e == entry[k]
               h == hist[k]
               l == IF e.left > 0 THEN e.left - 1 ELSE 0
               a == UpTo(h.age, Cooloff)
               g == [h EXCEPT !.age = a]
    <2>1. e \in Entry /\ h \in History /\ TimeInv(e, h) /\ FailsBound(e, h)
      BY DEF IInv, TypeOK
    <2>2. entry'[k] = Elapse(e) /\ hist'[k] = g
      BY DEF Tick
    <2> HIDE DEF e, h
    <2>3. /\ l \in 0 .. Cooloff /\ a \in 0 .. Cooloff
          /\ h.age + e.left >= Cooloff => a + l >= Cooloff
          /\ h.age = Cooloff => a = Cooloff
      <3>1. h.age \in 0 .. Cooloff /\ e.left \in 0 .. Cooloff /\ Cooloff \in Nat
        BY <2>1, CbAssumption DEF Entry, History
      <3>2. QED
        BY <3>1 DEF UpTo
    <2>4. /\ Elapse(e).state = e.state /\ Elapse(e).left = l
          /\ Elapse(e).probe = e.probe /\ Elapse(e).fails = e.fails
      BY <2>1 DEF Elapse, Entry
    <2> HIDE DEF a, l
    <2>5. /\ g \in History /\ g.age = a /\ g.relieved = h.relieved
          /\ g.admitted = h.admitted /\ g.streak = h.streak
      BY <2>1, <2>3 DEF History
    <2>6. TimeInv(Elapse(e), g)
      BY <2>1, <2>3, <2>4, <2>5 DEF TimeInv, OpenAge, HalfOpenAge, ProbeCount
    <2>7. FailsBound(Elapse(e), g)
      BY <2>1, <2>4, <2>5 DEF FailsBound
    <2>8. QED
      BY <2>1, <2>2, <2>5, <2>6, <2>7, ElapseType
  <1>2. /\ entry' = [k \in Keys |-> entry'[k]] /\ hist' = [k \in Keys |-> hist'[k]]
        /\ req' = req /\ slaOn' = slaOn
    BY DEF Tick
  <1>3. TypeOK'
    BY <1>1, <1>2 DEF IInv, TypeOK
  <1>4. QED
    BY <1>1, <1>3 DEF IInv

\* Every step preserves the invariant.
LEMMA NextInv == IInv /\ [Next]_vars => IInv'
  <1> SUFFICES ASSUME IInv, [Next]_vars PROVE IInv'
    OBVIOUS
  <1>0. /\ \A k \in Keys : entry[k] \in Entry /\ hist[k] \in History
        /\ \A k \in Keys : entry[k].fails <= hist[k].streak
        /\ req \in [Requests -> Keys \cup {Idle}] /\ slaOn \in BOOLEAN
    BY DEF IInv, TypeOK, FailsBound
  <1>1. ASSUME NEW k \in Keys, cb_get_state(k) PROVE IInv'
    <2> DEFINE e == OnTime(entry[k])
    <2>1. e \in Entry /\ e.fails = entry[k].fails /\ Legal(entry[k], e, hist[k])
      BY <1>0, OnTimeType, OnTimeLegal
    <2>2. Legal(e, e, Age(hist[k], entry[k], e))
      BY <1>0, <2>1, AgeFields, SameLegal
    <2>3. /\ Become(k, e, e, hist[k])
          /\ req' \in [Requests -> Keys \cup {Idle}] /\ slaOn' \in BOOLEAN
      BY <1>0, <1>1 DEF cb_get_state
    <2> HIDE DEF e
    <2>4. QED
      BY <1>0, <2>1, <2>2, <2>3, BecomeInv
  <1>2. ASSUME NEW r \in Requests, NEW k \in Keys, cb_allow_request(r, k) PROVE IInv'
    BY <1>2, AllowInv
  <1>3. ASSUME NEW r \in Requests, NEW k \in Keys, SendUnasked(r, k) PROVE IInv'
    <2>1. entry' = entry /\ hist' = hist /\ slaOn' = slaOn
      BY <1>3 DEF SendUnasked
    <2>2. req' \in [Requests -> Keys \cup {Idle}]
      BY <1>0, <1>3 DEF SendUnasked
    <2>3. QED
      BY <2>1, <2>2 DEF IInv, TypeOK
  <1>4. ASSUME NEW r \in Requests, cb_record_success(r) PROVE IInv'
    <2> DEFINE k == req[r]
               h == [hist[k] EXCEPT !.relieved = TRUE, !.streak = 0]
               f == Success(entry[k])
    <2>1. k \in Keys
      BY <1>4 DEF cb_record_success
    <2>2. 0 \in 0 .. Threshold
      BY CbAssumption
    <2>3. /\ h \in History /\ h.relieved /\ h.streak = 0
          /\ h.age = hist[k].age /\ h.admitted = hist[k].admitted
      BY <1>0, <2>1, <2>2 DEF History
    <2>4. /\ Become(k, entry[k], f, h)
          /\ req' \in [Requests -> Keys \cup {Idle}] /\ slaOn' \in BOOLEAN
      BY <1>0, <1>4 DEF cb_record_success
    <2> HIDE DEF h, k
    <2>5. f \in Entry
      BY <1>0, <2>1, SuccessType
    <2>6. Legal(entry[k], entry[k], h)
      BY <1>0, <2>1, <2>3, SameLegal
    <2>7. /\ Age(h, entry[k], entry[k]) \in History
          /\ Age(h, entry[k], entry[k]).relieved
      BY <1>0, <2>1, <2>3, AgeFields
    <2>8. Legal(entry[k], f, Age(h, entry[k], entry[k])) /\ f.fails = 0
      BY <1>0, <2>1, <2>7, SuccessLegal
    <2> HIDE DEF f
    <2>9. QED
      BY <1>0, <2>1, <2>3, <2>4, <2>5, <2>6, <2>8, BecomeInv
  <1>5. ASSUME NEW r \in Requests, cb_record_failure(r) PROVE IInv'
    <2> DEFINE k == req[r]
               u == UpTo(hist[k].streak, Threshold)
               h == [hist[k] EXCEPT !.streak = u]
               e == OnTime(entry[k])
               f == Failure(e)
    <2>1. k \in Keys
      BY <1>5 DEF cb_record_failure
    <2>2. u \in 0 .. Threshold
      BY <1>0, <2>1, CbAssumption DEF UpTo, History
    <2>3. /\ Become(k, e, f, h)
          /\ req' \in [Requests -> Keys \cup {Idle}] /\ slaOn' \in BOOLEAN
      BY <1>0, <1>5 DEF cb_record_failure
    <2> HIDE DEF k
    <2>4. e \in Entry /\ e.fails = entry[k].fails
      BY <1>0, <2>1, OnTimeType, OnTimeLegal
    <2>5. UpTo(e.fails, Threshold) <= u /\ UpTo(e.fails, Threshold) \in Int
      <3>1. /\ hist[k].streak \in 0 .. Threshold /\ e.fails \in 0 .. Threshold
            /\ e.fails <= hist[k].streak
        BY <1>0, <2>1, <2>4 DEF Entry, History
      <3>2. QED
        BY <3>1, CbAssumption DEF UpTo
    <2> HIDE DEF u
    <2>6. /\ h \in History /\ h.streak = u /\ h.relieved = hist[k].relieved
          /\ h.age = hist[k].age /\ h.admitted = hist[k].admitted
      BY <1>0, <2>1, <2>2 DEF History
    <2> HIDE DEF h
    <2>7. Legal(entry[k], e, h)
      BY <1>0, <2>1, <2>6, OnTimeLegal
    <2> HIDE DEF e
    <2>8. Age(h, entry[k], e) \in History
      BY <1>0, <2>1, <2>4, <2>6, AgeFields
    <2>9. /\ f \in Entry /\ Legal(e, f, Age(h, entry[k], e))
          /\ f.fails <= UpTo(e.fails, Threshold)
      BY <2>4, <2>8, FailureType, FailureLegal
    <2>10. f.fails <= h.streak
      BY <2>2, <2>5, <2>6, <2>9 DEF Entry
    <2> HIDE DEF f
    <2>11. QED
      BY <1>0, <2>1, <2>3, <2>4, <2>6, <2>7, <2>9, <2>10, BecomeInv
  <1>6. ASSUME NEW r \in Requests, EndUnrecorded(r) PROVE IInv'
    <2>1. entry' = entry /\ hist' = hist /\ slaOn' = slaOn
      BY <1>6 DEF EndUnrecorded
    <2>2. req' \in [Requests -> Keys \cup {Idle}]
      BY <1>0, <1>6 DEF EndUnrecorded
    <2>3. QED
      BY <2>1, <2>2 DEF IInv, TypeOK
  <1>7. ASSUME NEW r \in Requests, NEW slow \in BOOLEAN, cb_record_sla_sample(r, slow)
        PROVE  IInv'
    <2> DEFINE k == req[r]
               e == OnTime(entry[k])
               f == Sample(e, slow)
               next == Append(hist[k].recent, slow)
               kept == IF Len(next) > Window THEN Tail(next) ELSE next
               s == IF f.count = 0 THEN <<>> ELSE kept
               h == [hist[k] EXCEPT !.recent = s]
    <2>1. k \in Keys
      BY <1>7 DEF cb_record_sla_sample
    <2>2. /\ Become(k, e, f, h)
          /\ req' \in [Requests -> Keys \cup {Idle}] /\ slaOn' \in BOOLEAN
      BY <1>0, <1>7 DEF cb_record_sla_sample
    <2> HIDE DEF k
    <2>3. e \in Entry /\ e.fails = entry[k].fails
      BY <1>0, <2>1, OnTimeType, OnTimeLegal
    <2>4. next \in Seq(BOOLEAN) /\ next # <<>>
      <3>1. hist[k].recent \in Seq(BOOLEAN)
        BY <1>0, <2>1 DEF History
      <3>2. QED
        BY <3>1, <1>7
    <2> HIDE DEF next
    <2>5. s \in Seq(BOOLEAN)
      <3>1. Tail(next) \in Seq(BOOLEAN) /\ <<>> \in Seq(BOOLEAN)
        BY <2>4
      <3>2. QED
        BY <2>4, <3>1
    <2> HIDE DEF s
    <2>6. /\ h \in History /\ h.streak = hist[k].streak
          /\ h.relieved = hist[k].relieved
          /\ h.age = hist[k].age /\ h.admitted = hist[k].admitted
      BY <1>0, <2>1, <2>5 DEF History
    <2> HIDE DEF h
    <2>7. Legal(entry[k], e, h)
      BY <1>0, <2>1, <2>6, OnTimeLegal
    <2> HIDE DEF e
    <2>8. Age(h, entry[k], e) \in History
      BY <1>0, <2>1, <2>3, <2>6, AgeFields
    <2>9. /\ f \in Entry /\ Legal(e, f, Age(h, entry[k], e)) /\ f.fails = e.fails
      BY <1>7, <2>3, <2>8, SampleType, SampleLegal
    <2> HIDE DEF f
    <2>10. f.fails <= h.streak
      BY <1>0, <2>1, <2>3, <2>6, <2>9
    <2>11. QED
      BY <1>0, <2>1, <2>2, <2>3, <2>6, <2>7, <2>9, <2>10, BecomeInv
  <1>8. ASSUME cb_configure_sla PROVE IInv'
    BY <1>8 DEF cb_configure_sla, IInv, TypeOK
  <1>9. ASSUME NEW k \in Keys, NEW s \in {"closed", "open", "sla_degraded"},
               cb_override_state(k, s)
        PROVE  IInv'
    <2> DEFINE n == IF s = "closed" THEN 0 ELSE hist[k].streak
               q == IF s = "closed" THEN <<>> ELSE hist[k].recent
               h == [hist[k] EXCEPT !.streak = n, !.recent = q]
               f == Override(entry[k], s)
    <2>1. n \in 0 .. Threshold
      BY <1>0, CbAssumption DEF History
    <2>2. q \in Seq(BOOLEAN)
      <3>1. hist[k].recent \in Seq(BOOLEAN) /\ <<>> \in Seq(BOOLEAN)
        BY <1>0 DEF History
      <3>2. QED
        BY <3>1
    <2>3. /\ Become(k, entry[k], f, h)
          /\ req' \in [Requests -> Keys \cup {Idle}] /\ slaOn' \in BOOLEAN
      BY <1>0, <1>9 DEF cb_override_state
    <2>4. s = "closed" => n = 0
      OBVIOUS
    <2>5. s # "closed" => n = hist[k].streak
      OBVIOUS
    <2> HIDE DEF n, q
    <2>6. /\ h \in History /\ h.streak = n /\ h.relieved = hist[k].relieved
          /\ h.age = hist[k].age /\ h.admitted = hist[k].admitted
      BY <1>0, <2>1, <2>2 DEF History
    <2> HIDE DEF h
    <2>7. Legal(entry[k], entry[k], h)
      BY <1>0, <2>6, SameLegal
    <2>8. Age(h, entry[k], entry[k]) \in History
      BY <1>0, <2>6, AgeFields
    <2>9. /\ f \in Entry /\ Legal(entry[k], f, Age(h, entry[k], entry[k]))
          /\ f.fails = IF s = "closed" THEN 0 ELSE entry[k].fails
      BY <1>0, <2>8, OverrideType, OverrideLegal
    <2> HIDE DEF f
    <2>10. f.fails <= h.streak
      BY <1>0, <2>4, <2>5, <2>6, <2>9
    <2>11. QED
      BY <1>0, <2>3, <2>6, <2>7, <2>9, <2>10, BecomeInv
  <1>10. ASSUME Tick PROVE IInv'
    BY <1>10, TickInv
  <1>11. ASSUME UNCHANGED vars PROVE IInv'
    BY <1>11 DEF vars, IInv, TypeOK
  <1>12. QED
    BY <1>1, <1>2, <1>3, <1>4, <1>5, <1>6, <1>7, <1>8, <1>9, <1>10, <1>11 DEF Next

-----------------------------------------------------------------------------
\* The invariant holds in every reachable state.
THEOREM Invariant == Spec => []IInv
  BY InitInv, NextInv, PTL DEF Spec

\* Type correctness of the breaker's table for all constants.
THEOREM TypeCorrect == Spec => []TypeOK
  <1>1. IInv => TypeOK
    BY DEF IInv
  <1>2. QED
    BY <1>1, Invariant, PTL

\* For every number of endpoints and callers: a half-open endpoint admits at
\* most one request per episode (cb_allow_request).
THEOREM OneProbe == Spec => []OneProbePerEpisode
  <1>1. IInv => OneProbePerEpisode
    BY DEF IInv, TimeInv, ProbeCount, OneProbePerEpisode
  <1>2. QED
    BY <1>1, Invariant, PTL

\* For every cool-off time: unless a success arrived since the trip, half-open
\* is reached only after the whole window (update_state_on_time_locked).
THEOREM Cooloffs == Spec => []CooloffUnlessRelieved
  <1>1. IInv => CooloffUnlessRelieved
    BY DEF IInv, TimeInv, HalfOpenAge, CooloffUnlessRelieved
  <1>2. QED
    BY <1>1, Invariant, PTL

\* For every threshold: the failures a breaker has counted are consecutive
\* (cb_record_success resets what cb_record_failure counts).
THEOREM Consecutive == Spec => []FailuresAreConsecutive
  <1>1. IInv => FailuresAreConsecutive
    BY DEF IInv, FailsBound, FailuresAreConsecutive
  <1>2. QED
    BY <1>1, Invariant, PTL

-----------------------------------------------------------------------------
(* The SLA sample ring.  RingIsLastWindow alone is not inductive: it says    *)
(* nothing of the slots while the window fills, and an override empties the  *)
(* window with sample_head anywhere.  RingHolds places every sample.         *)

\* The slot d places after sample_head.
SlotAt(head, d) == (head + d) % Window

\* The samples since the ring was last emptied are the last count slots
\* before sample_head, oldest first.
RingHolds(e, s) ==
    /\ Len(s) = e.count
    /\ \A i \in 1 .. e.count : s[i] = e.ring[SlotAt(e.head, Window - e.count + i - 1)]

RingInv == \A k \in Keys : RingHolds(entry[k], hist[k].recent)

SameRing(e, f) == f.ring = e.ring /\ f.count = e.count /\ f.head = e.head

\* A slot of the ring seen from the head, without the remainder.
LEMMA SlotWrap ==
    ASSUME NEW h \in 0 .. Window - 1, NEW d \in 0 .. Window
    PROVE  SlotAt(h, d) = IF h + d < Window THEN h + d ELSE
                          IF h + d < 2 * Window THEN h + d - Window ELSE 0
  <1>1. Window \in Nat \ {0}
    BY CbAssumption
  <1>2. QED
    BY <1>1 DEF SlotAt

\* Moving the head by one brings every slot one place nearer.
LEMMA SlotNearer ==
    ASSUME NEW h \in 0 .. Window - 1, NEW d \in 1 .. Window
    PROVE  SlotAt((h + 1) % Window, d - 1) = SlotAt(h, d)
  <1>1. Window \in Nat \ {0}
    BY CbAssumption
  <1>2. (h + 1) % Window = IF h + 1 < Window THEN h + 1 ELSE 0
    BY <1>1
  <1>3. (h + 1) % Window \in 0 .. Window - 1 /\ d - 1 \in 0 .. Window /\ d \in 0 .. Window
    BY <1>1, <1>2
  <1>4. /\ SlotAt(h, d) = IF h + d < Window THEN h + d ELSE
                          IF h + d < 2 * Window THEN h + d - Window ELSE 0
        /\ SlotAt((h + 1) % Window, d - 1) =
              IF ((h + 1) % Window) + (d - 1) < Window THEN ((h + 1) % Window) + (d - 1) ELSE
              IF ((h + 1) % Window) + (d - 1) < 2 * Window
              THEN ((h + 1) % Window) + (d - 1) - Window ELSE 0
    BY <1>3, SlotWrap
  <1> DEFINE g == (h + 1) % Window
  <1> HIDE DEF g
  <1>5. QED
    BY <1>1, <1>2, <1>4

\* The slot a whole turn away is the head's, and no nearer one is.
LEMMA SlotOfHead ==
    ASSUME NEW h \in 0 .. Window - 1
    PROVE  /\ SlotAt(h, Window) = h
           /\ \A d \in 1 .. Window - 1 : SlotAt(h, d) \in 0 .. Window - 1 /\ SlotAt(h, d) # h
  <1>1. Window \in Nat \ {0}
    BY CbAssumption
  <1>2. SlotAt(h, Window) = h
    BY <1>1, SlotWrap
  <1>3. ASSUME NEW d \in 1 .. Window - 1
        PROVE  SlotAt(h, d) \in 0 .. Window - 1 /\ SlotAt(h, d) # h
    <2>1. d \in 0 .. Window
      BY <1>1
    <2>2. QED
      BY <1>1, <2>1, SlotWrap
  <1>4. QED
    BY <1>2, <1>3

\* What a push does to the ring.
LEMMA PushRing ==
    ASSUME NEW e \in Entry, NEW slow \in BOOLEAN
    PROVE  /\ Push(e, slow).ring = [e.ring EXCEPT ![e.head] = slow]
           /\ Push(e, slow).head = (e.head + 1) % Window
           /\ Push(e, slow).count = IF e.count < Window THEN e.count + 1 ELSE e.count
           /\ Push(e, slow).state = e.state
           /\ Push(e, slow).left = e.left
  <1> DEFINE c == IF e.count < Window THEN e.count + 1 ELSE e.count
             n == IF slow THEN 0 ELSE UpTo(e.normal, RecoverNeed)
             g == (e.head + 1) % Window
  <1>1. Push(e, slow) = [e EXCEPT !.ring[e.head] = slow, !.head = g, !.count = c,
                                  !.normal = n]
    BY DEF Push
  <1> HIDE DEF c, n, g
  <1>2. QED
    BY <1>1 DEF Entry, c, g

\* A pushed sample takes its place after the ones before it: in a window that
\* fills as one more, in a full one as the last of Window.
LEMMA PushHolds ==
    ASSUME NEW e \in Entry, NEW slow \in BOOLEAN, NEW s \in Seq(BOOLEAN), RingHolds(e, s)
    PROVE  RingHolds(Push(e, slow),
                     IF Len(Append(s, slow)) > Window THEN Tail(Append(s, slow))
                                                      ELSE Append(s, slow))
  <1> DEFINE p == Push(e, slow)
             t == Append(s, slow)
             c == e.count
             g == (e.head + 1) % Window
  <1>1. /\ e.head \in 0 .. Window - 1 /\ c \in 0 .. Window /\ Window \in Nat \ {0}
        /\ e.ring \in [0 .. Window - 1 -> BOOLEAN]
    BY CbAssumption DEF Entry
  <1>2. /\ p.ring = [e.ring EXCEPT ![e.head] = slow]
        /\ p.head = g
        /\ p.count = IF c < Window THEN c + 1 ELSE c
    BY PushRing
  <1>3. Len(s) = c /\ \A i \in 1 .. c : s[i] = e.ring[SlotAt(e.head, Window - c + i - 1)]
    BY DEF RingHolds
  <1>4. /\ Len(t) = c + 1 /\ t \in Seq(BOOLEAN) /\ t[c + 1] = slow
        /\ \A i \in 1 .. c : t[i] = s[i]
    BY <1>1, <1>3
  <1> HIDE DEF p, t, c, g
  \* seen from the new head, the slots hold the samples after the push
  <1>5. ASSUME NEW d \in 1 .. Window
        PROVE  /\ SlotAt(g, d - 1) = SlotAt(e.head, d)
               /\ d = Window => p.ring[SlotAt(g, d - 1)] = slow
               /\ d < Window => p.ring[SlotAt(g, d - 1)] = e.ring[SlotAt(e.head, d)]
    <2>1. SlotAt(g, d - 1) = SlotAt(e.head, d)
      BY <1>1, SlotNearer DEF g
    <2>2. CASE d = Window
      <3>1. SlotAt(e.head, d) = e.head
        BY <1>1, <2>2, SlotOfHead
      <3>2. QED
        BY <1>1, <1>2, <2>1, <2>2, <3>1
    <2>3. CASE d < Window
      <3>1. d \in 1 .. Window - 1
        BY <1>1, <2>3
      <3>2. SlotAt(e.head, d) \in 0 .. Window - 1 /\ SlotAt(e.head, d) # e.head
        BY <1>1, <3>1, SlotOfHead
      <3>3. QED
        BY <1>1, <1>2, <2>1, <2>3, <3>2
    <2>4. QED
      BY <1>1, <2>2, <2>3
  <1>6. CASE c < Window
    <2>1. Len(t) = p.count /\ p.count = c + 1 /\ ~(Len(t) > Window)
      BY <1>1, <1>2, <1>4, <1>6
    <2>2. ASSUME NEW i \in 1 .. c + 1
          PROVE  t[i] = p.ring[SlotAt(g, Window - (c + 1) + i - 1)]
      <3> DEFINE d == Window - c + i - 1
      <3>1. /\ d \in 1 .. Window /\ Window - (c + 1) + i - 1 = d - 1
            /\ i = c + 1 => d = Window
            /\ i # c + 1 => d < Window /\ i \in 1 .. c
        BY <1>1, <1>6
      <3>2. CASE i = c + 1
        BY <1>4, <1>5, <3>1, <3>2
      <3>3. CASE i # c + 1
        <4>1. t[i] = e.ring[SlotAt(e.head, d)]
          BY <1>3, <1>4, <3>1, <3>3
        <4> HIDE DEF d
        <4>2. QED
          BY <1>5, <3>1, <3>3, <4>1
      <3>4. QED
        BY <3>2, <3>3
    <2>3. RingHolds(p, t)
      BY <1>2, <2>1, <2>2 DEF RingHolds
    <2>4. QED
      BY <2>1, <2>3 DEF p, t
  <1>7. CASE c = Window
    <2>1. /\ Len(t) > Window /\ p.count = Window
          /\ Len(Tail(t)) = Window
          /\ \A i \in 1 .. Window : Tail(t)[i] = t[i + 1]
      BY <1>1, <1>2, <1>4, <1>7
    <2>2. ASSUME NEW i \in 1 .. Window
          PROVE  Tail(t)[i] = p.ring[SlotAt(g, Window - Window + i - 1)]
      <3>1. /\ Window - Window + i - 1 = i - 1
            /\ i # Window => i < Window /\ i + 1 \in 1 .. c /\ Window - c + (i + 1) - 1 = i
        BY <1>1, <1>7
      <3>2. CASE i = Window
        BY <1>4, <1>5, <1>7, <2>1, <3>1, <3>2
      <3>3. CASE i # Window
        <4>1. t[i + 1] = e.ring[SlotAt(e.head, i)]
          BY <1>3, <1>4, <3>1, <3>3
        <4>2. QED
          BY <1>5, <2>1, <3>1, <3>3, <4>1
      <3>4. QED
        BY <3>2, <3>3
    <2>3. RingHolds(p, Tail(t))
      BY <1>2, <2>1, <2>2 DEF RingHolds
    <2>4. QED
      BY <2>1, <2>3 DEF p, t
  <1>8. QED
    BY <1>1, <1>6, <1>7

\* cb_record_sla_sample: the sample is pushed, and a recovery empties the ring.
LEMMA SampleHolds ==
    ASSUME NEW e \in Entry, NEW slow \in BOOLEAN, NEW s \in Seq(BOOLEAN), RingHolds(e, s)
    PROVE  RingHolds(Sample(e, slow),
                     IF Sample(e, slow).count = 0 THEN <<>> ELSE
                     IF Len(Append(s, slow)) > Window THEN Tail(Append(s, slow))
                                                      ELSE Append(s, slow))
  <1> DEFINE p == Push(e, slow)
             f == Sample(e, slow)
             t == IF Len(Append(s, slow)) > Window THEN Tail(Append(s, slow))
                                                   ELSE Append(s, slow)
  <1>1. p \in Entry /\ RingHolds(p, t)
    BY PushType, PushHolds
  <1>2. p.count # 0
    <2>1. p.count = IF e.count < Window THEN e.count + 1 ELSE e.count
      BY PushRing
    <2>2. e.count \in 0 .. Window /\ Window \in Nat \ {0}
      BY CbAssumption DEF Entry
    <2>3. QED
      BY <2>1, <2>2
  <1> HIDE DEF t
  <1>3. f.count = 0 \/ SameRing(p, f)
    <2> HIDE DEF p
    <2>1. /\ SameRing(p, [p EXCEPT !.state = "sla_degraded", !.normal = 0])
          /\ [p EXCEPT !.state = "closed", !.count = 0, !.head = 0, !.normal = 0].count = 0
          /\ SameRing(p, p)
      BY <1>1 DEF Entry, SameRing
    <2>2. QED
      BY <2>1 DEF Sample, p
  <1> HIDE DEF p, f
  <1>4. CASE f.count = 0
    BY <1>4 DEF RingHolds, f
  <1>5. CASE f.count # 0
    <2>1. SameRing(p, f)
      BY <1>3, <1>5
    <2>2. RingHolds(f, t)
      BY <1>1, <2>1 DEF SameRing, RingHolds
    <2>3. QED
      BY <1>5, <2>2 DEF f, t
  <1>6. QED
    BY <1>4, <1>5

\* Of the other calls only a reset by the administrator touches the ring.
LEMMA RingKept ==
    ASSUME NEW e \in Entry
    PROVE  /\ SameRing(e, OnTime(e)) /\ SameRing(e, Allow(e)) /\ SameRing(e, Success(e))
           /\ SameRing(e, Failure(e)) /\ SameRing(e, Elapse(e))
           /\ Override(e, "closed").count = 0
           /\ \A s \in {"open", "sla_degraded"} : SameRing(e, Override(e, s))
  <1>1. SameRing(e, OnTime(e)) /\ SameRing(e, Allow(e))
    BY DEF OnTime, Allow, SameRing, Entry
  <1>2. SameRing(e, Success(e))
    <2> DEFINE v == IF e.state = "half_open" THEN "closed" ELSE e.state
    <2>1. Success(e) = [e EXCEPT !.state = v, !.fails = 0, !.left = 0, !.probe = FALSE]
      BY DEF Success
    <2> HIDE DEF v
    <2>2. QED
      BY <2>1 DEF SameRing, Entry
  <1>3. SameRing(e, Failure(e))
    <2> DEFINE u == UpTo(e.fails, Threshold)
               f == [e EXCEPT !.fails = u]
    <2>1. Failure(e) \in {e, Trip(e), f, Trip(f)}
      BY DEF Failure, Entry, States
    <2> HIDE DEF u
    <2>2. SameRing(e, e) /\ SameRing(e, f) /\ SameRing(e, Trip(e)) /\ SameRing(e, Trip(f))
      BY DEF SameRing, Trip, Entry
    <2> HIDE DEF f
    <2>3. QED
      BY <2>1, <2>2
  <1>4. SameRing(e, Elapse(e))
    <2> DEFINE l == IF e.left > 0 THEN e.left - 1 ELSE 0
    <2>1. Elapse(e) = [e EXCEPT !.left = l]
      BY DEF Elapse
    <2> HIDE DEF l
    <2>2. QED
      BY <2>1 DEF SameRing, Entry
  <1>5. /\ Override(e, "closed").count = 0
        /\ SameRing(e, Override(e, "open")) /\ SameRing(e, Override(e, "sla_degraded"))
    BY DEF Override, SameRing, Entry
  <1>6. QED
    BY <1>1, <1>2, <1>3, <1>4, <1>5

\* Aging a history leaves the samples alone.
LEMMA AgeRecent ==
    ASSUME NEW h \in History, NEW e \in Entry, NEW f \in Entry
    PROVE  Age(h, e, f).recent = h.recent
  <1> DEFINE t == f.state = "open" /\ e.state # "open"
             a == IF t THEN 0 ELSE h.age
             r == IF t THEN FALSE ELSE h.relieved
             n == IF f.state = "half_open" /\ e.state # "half_open" THEN 0 ELSE h.admitted
  <1>1. Age(h, e, f) = [h EXCEPT !.age = a, !.relieved = r, !.admitted = n]
    BY DEF Age
  <1> HIDE DEF a, r, n
  <1>2. QED
    BY <1>1 DEF History

\* A call under the lock that leaves ring and samples in agreement for its key
\* leaves them so for every key.
LEMMA BecomeRing ==
    ASSUME TypeOK, RingInv, NEW k \in Keys, NEW e \in Entry, NEW f \in Entry,
           NEW h \in History, Become(k, e, f, h), RingHolds(f, h.recent)
    PROVE  RingInv'
  <1> DEFINE g == Age(Age(h, entry[k], e), e, f)
  <1>1. entry[k] \in Entry
    BY DEF TypeOK
  <1>2. g.recent = h.recent
    <2>1. /\ Age(h, entry[k], e) \in History
          /\ Age(h, entry[k], e).recent = h.recent
      BY <1>1, AgeFields, AgeRecent
    <2>2. QED
      BY <2>1, AgeRecent
  <1>3. entry' = [entry EXCEPT ![k] = f] /\ hist' = [hist EXCEPT ![k] = g]
    BY DEF Become
  <1> HIDE DEF g
  <1>4. ASSUME NEW j \in Keys PROVE RingHolds(entry'[j], hist'[j].recent)
    <2>1. CASE j = k
      <3>1. entry'[j] = f /\ hist'[j] = g
        BY <1>3, <2>1 DEF TypeOK
      <3>2. QED
        BY <1>2, <3>1
    <2>2. CASE j # k
      <3>1. entry'[j] = entry[j] /\ hist'[j] = hist[j]
        BY <1>3, <2>2 DEF TypeOK
      <3>2. QED
        BY <3>1 DEF RingInv
    <2>3. QED
      BY <2>1, <2>2
  <1>5. QED
    BY <1>4 DEF RingInv

\* An entry whose ring was not touched holds the same samples.
LEMMA SameHolds ==
    ASSUME NEW e, NEW f, NEW s, SameRing(e, f), RingHolds(e, s)
    PROVE  RingHolds(f, s)
  BY DEF SameRing, RingHolds

\* Every step keeps ring and samples in agreement.
LEMMA RingNext == IInv /\ RingInv /\ [Next]_vars => RingInv'
  <1> SUFFICES ASSUME IInv, RingInv, [Next]_vars PROVE RingInv'
    OBVIOUS
  <1>0. /\ TypeOK
        /\ \A k \in Keys : /\ entry[k] \in Entry /\ hist[k] \in History
                           /\ RingHolds(entry[k], hist[k].recent)
    BY DEF IInv, TypeOK, RingInv
  <1>1. ASSUME NEW k \in Keys, cb_get_state(k) PROVE RingInv'
    <2> DEFINE e == OnTime(entry[k])
    <2>1. e \in Entry /\ RingHolds(e, hist[k].recent)
      BY <1>0, OnTimeType, RingKept, SameHolds
    <2>2. Become(k, e, e, hist[k])
      BY <1>1 DEF cb_get_state
    <2> HIDE DEF e
    <2>3. QED
      BY <1>0, <2>1, <2>2, BecomeRing
  <1>2. ASSUME NEW r \in Requests, NEW k \in Keys, cb_allow_request(r, k) PROVE RingInv'
    <2> DEFINE e == OnTime(entry[k])
               h == Age(hist[k], entry[k], e)
               n == IF e.state = "half_open" THEN h.admitted + 1 ELSE h.admitted
               g == [h EXCEPT !.admitted = n]
    <2>1. e \in Entry /\ RingHolds(e, hist[k].recent)
      BY <1>0, OnTimeType, RingKept, SameHolds
    <2>2. h \in History /\ h.recent = hist[k].recent
      BY <1>0, <2>1, AgeFields, AgeRecent
    <2>3. entry' = [entry EXCEPT ![k] = Allow(e)] /\ hist' = [hist EXCEPT ![k] = g]
      BY <1>2 DEF cb_allow_request
    <2> HIDE DEF e, h, n
    <2>4. g.recent = hist[k].recent
      BY <2>2 DEF History
    <2>5. RingHolds(Allow(e), g.recent)
      BY <2>1, <2>4, RingKept, SameHolds
    <2> HIDE DEF g
    <2>6. ASSUME NEW j \in Keys PROVE RingHolds(entry'[j], hist'[j].recent)
      <3>1. CASE j = k
        BY <1>0, <2>3, <2>5, <3>1 DEF TypeOK
      <3>2. CASE j # k
        BY <1>0, <2>3, <3>2 DEF TypeOK
      <3>3. QED
        BY <3>1, <3>2
    <2>7. QED
      BY <2>6 DEF RingInv
  <1>3. ASSUME NEW r \in Requests, NEW k \in Keys, SendUnasked(r, k) PROVE RingInv'
    BY <1>3 DEF SendUnasked, RingInv
  <1>4. ASSUME NEW r \in Requests, cb_record_success(r) PROVE RingInv'
    <2> DEFINE k == req[r]
               h == [hist[k] EXCEPT !.relieved = TRUE, !.streak = 0]
    <2>1. k \in Keys
      BY <1>4 DEF cb_record_success
    <2>2. Become(k, entry[k], Success(entry[k]), h)
      BY <1>4 DEF cb_record_success
    <2> HIDE DEF k
    <2>3. h \in History /\ h.recent = hist[k].recent
      <3>1. 0 \in 0 .. Threshold
        BY CbAssumption
      <3>2. QED
        BY <1>0, <2>1, <3>1 DEF History
    <2> HIDE DEF h
    <2>4. Success(entry[k]) \in Entry /\ RingHolds(Success(entry[k]), h.recent)
      BY <1>0, <2>1, <2>3, SuccessType, RingKept, SameHolds
    <2>5. QED
      BY <1>0, <2>1, <2>2, <2>3, <2>4, BecomeRing
  <1>5. ASSUME NEW r \in Requests, cb_record_failure(r) PROVE RingInv'
    <2> DEFINE k == req[r]
               u == UpTo(hist[k].streak, Threshold)
               h == [hist[k] EXCEPT !.streak = u]
               e == OnTime(entry[k])
    <2>1. k \in Keys
      BY <1>5 DEF cb_record_failure
    <2>2. Become(k, e, Failure(e), h)
      BY <1>5 DEF cb_record_failure
    <2>3. u \in 0 .. Threshold
      BY <1>0, <2>1, CbAssumption DEF UpTo, History
    <2> HIDE DEF k, u
    <2>4. h \in History /\ h.recent = hist[k].recent
      BY <1>0, <2>1, <2>3 DEF History
    <2> HIDE DEF h
    <2>5. e \in Entry /\ RingHolds(e, h.recent)
      BY <1>0, <2>1, <2>4, OnTimeType, RingKept, SameHolds
    <2> HIDE DEF e
    <2>6. Failure(e) \in Entry /\ RingHolds(Failure(e), h.recent)
      BY <2>5, FailureType, RingKept, SameHolds
    <2>7. QED
      BY <1>0, <2>1, <2>2, <2>4, <2>5, <2>6, BecomeRing
  <1>6. ASSUME NEW r \in Requests, EndUnrecorded(r) PROVE RingInv'
    BY <1>6 DEF EndUnrecorded, RingInv
  <1>7. ASSUME NEW r \in Requests, NEW slow \in BOOLEAN, cb_record_sla_sample(r, slow)
        PROVE  RingInv'
    <2> DEFINE k == req[r]
               e == OnTime(entry[k])
               f == Sample(e, slow)
               next == Append(hist[k].recent, slow)
               kept == IF Len(next) > Window THEN Tail(next) ELSE next
               s == IF f.count = 0 THEN <<>> ELSE kept
               h == [hist[k] EXCEPT !.recent = s]
    <2>1. k \in Keys
      BY <1>7 DEF cb_record_sla_sample
    <2>2. Become(k, e, f, h)
      BY <1>7 DEF cb_record_sla_sample
    <2> HIDE DEF k
    <2>3. e \in Entry /\ RingHolds(e, hist[k].recent) /\ hist[k].recent \in Seq(BOOLEAN)
      <3>1. hist[k].recent \in Seq(BOOLEAN)
        BY <1>0, <2>1 DEF History
      <3>2. QED
        BY <1>0, <2>1, <3>1, OnTimeType, RingKept, SameHolds
    <2> HIDE DEF e
    <2>4. f \in Entry /\ RingHolds(f, s)
      BY <1>7, <2>3, SampleType, SampleHolds
    <2>5. s \in Seq(BOOLEAN)
      <3>1. next \in Seq(BOOLEAN) /\ next # <<>>
        BY <1>7, <2>3
      <3> HIDE DEF next
      <3>2. Tail(next) \in Seq(BOOLEAN) /\ <<>> \in Seq(BOOLEAN)
        BY <3>1
      <3>3. QED
        BY <3>1, <3>2
    <2> HIDE DEF f, s
    <2>6. h \in History /\ h.recent = s
      BY <1>0, <2>1, <2>5 DEF History
    <2> HIDE DEF h
    <2>7. QED
      BY <1>0, <2>1, <2>2, <2>3, <2>4, <2>6, BecomeRing
  <1>8. ASSUME cb_configure_sla PROVE RingInv'
    BY <1>8 DEF cb_configure_sla, RingInv
  <1>9. ASSUME NEW k \in Keys, NEW s \in {"closed", "open", "sla_degraded"},
               cb_override_state(k, s)
        PROVE  RingInv'
    <2> DEFINE n == IF s = "closed" THEN 0 ELSE hist[k].streak
               q == IF s = "closed" THEN <<>> ELSE hist[k].recent
               h == [hist[k] EXCEPT !.streak = n, !.recent = q]
               f == Override(entry[k], s)
    <2>1. Become(k, entry[k], f, h)
      BY <1>9 DEF cb_override_state
    <2>2. n \in 0 .. Threshold
      BY <1>0, CbAssumption DEF History
    <2>3. q \in Seq(BOOLEAN)
      <3>1. hist[k].recent \in Seq(BOOLEAN) /\ <<>> \in Seq(BOOLEAN)
        BY <1>0 DEF History
      <3>2. QED
        BY <3>1
    <2>4. f \in Entry
      BY <1>0, OverrideType
    <2>5. RingHolds(f, q)
      <3>1. CASE s = "closed"
        <4>1. f.count = 0 /\ q = <<>>
          BY <1>0, <3>1, RingKept
        <4>2. QED
          BY <4>1 DEF RingHolds
      <3>2. CASE s # "closed"
        <4>1. SameRing(entry[k], f) /\ q = hist[k].recent
          BY <1>0, <1>9, <3>2, RingKept
        <4>2. QED
          BY <1>0, <4>1, SameHolds
      <3>3. QED
        BY <3>1, <3>2
    <2> HIDE DEF n, q, f
    <2>6. h \in History /\ h.recent = q
      BY <1>0, <2>2, <2>3 DEF History
    <2> HIDE DEF h
    <2>7. QED
      BY <1>0, <2>1, <2>4, <2>5, <2>6, BecomeRing
  <1>10. ASSUME Tick PROVE RingInv'
    <2>1. ASSUME NEW k \in Keys PROVE RingHolds(entry'[k], hist'[k].recent)
      <3> DEFINE a == UpTo(hist[k].age, Cooloff)
      <3>1. entry'[k] = Elapse(entry[k]) /\ hist'[k] = [hist[k] EXCEPT !.age = a]
        BY <1>10 DEF Tick
      <3> HIDE DEF a
      <3>2. hist'[k].recent = hist[k].recent
        BY <1>0, <3>1 DEF History
      <3>3. RingHolds(Elapse(entry[k]), hist[k].recent)
        BY <1>0, RingKept, SameHolds
      <3>4. QED
        BY <3>1, <3>2, <3>3
    <2>2. QED
      BY <2>1 DEF RingInv
  <1>11. ASSUME UNCHANGED vars PROVE RingInv'
    BY <1>11 DEF vars, RingInv
  <1>12. QED
    BY <1>1, <1>2, <1>3, <1>4, <1>5, <1>6, <1>7, <1>8, <1>9, <1>10, <1>11 DEF Next

\* The ring is empty at the start.
LEMMA RingInit == Init => RingInv
  BY DEF Init, RingInv, RingHolds, Fresh, NoHistory

\* For every window size: a full ring holds the last Window samples in order,
\* whatever resets and recoveries came before (cb_record_sla_sample).
THEOREM RingWindow == Spec => []RingIsLastWindow
  <1>1. IInv /\ RingInv => RingIsLastWindow
    <2> SUFFICES ASSUME IInv, RingInv, NEW k \in Keys
                 PROVE  /\ Len(hist[k].recent) = entry[k].count
                        /\ entry[k].count = Window =>
                              \A i \in 1 .. Window :
                                  hist[k].recent[i] =
                                      entry[k].ring[(entry[k].head + i - 1) % Window]
      BY DEF RingIsLastWindow
    <2>1. RingHolds(entry[k], hist[k].recent) /\ entry[k].head \in Int /\ Window \in Int
      BY CbAssumption DEF RingInv, IInv, TypeOK, Entry
    <2>2. \A i \in 1 .. Window :
             entry[k].head + (Window - Window + i - 1) = entry[k].head + i - 1
      BY <2>1
    <2>3. QED
      BY <2>1, <2>2 DEF RingHolds, SlotAt
  <1>2. QED
    BY <1>1, RingInit, RingNext, InitInv, NextInv, PTL DEF Spec

-----------------------------------------------------------------------------
\* No call but an override lengthens an open window that has not run out.
LEMMA WindowNotLonger ==
    ASSUME NEW e \in Entry, e.state = "open", e.left > 0
    PROVE  /\ OnTime(e) = e
           /\ Failure(e) = e
           /\ Success(e).left <= e.left
           /\ Elapse(e).left <= e.left
           /\ \A slow \in BOOLEAN : Sample(e, slow).left = e.left
           /\ \A s \in {"closed", "sla_degraded"} : Override(e, s).state # "open"
  <1>0. e.left \in Nat
    BY CbAssumption DEF Entry
  <1>1. OnTime(e) = e /\ Failure(e) = e
    BY <1>0 DEF OnTime, Failure
  <1>2. Success(e).left = 0
    BY DEF Success, Entry
  <1>3. Elapse(e).left = e.left - 1
    BY <1>0 DEF Elapse, Entry
  <1>4. ASSUME NEW slow \in BOOLEAN PROVE Sample(e, slow).left = e.left
    <2> DEFINE p == Push(e, slow)
    <2>1. p.state = "open" /\ p.left = e.left
      BY PushRing
    <2> HIDE DEF p
    <2>2. QED
      BY <2>1 DEF Sample, p
  <1>5. \A s \in {"closed", "sla_degraded"} : Override(e, s).state # "open"
    BY DEF Override, Entry
  <1>6. QED
    BY <1>0, <1>1, <1>2, <1>3, <1>4, <1>5

\* A step that lengthens an open window of k that has not run out.
Extends(k) ==
    /\ entry[k].state = "open" /\ entry[k].left > 0
    /\ entry'[k].state = "open" /\ entry'[k].left > entry[k].left

\* The only such step is the administrator's override to open.
LEMMA ExtendsIsOverride ==
    ASSUME TypeOK, Next, NEW k \in Keys, Extends(k)
    PROVE  cb_override_state(k, "open")
  <1> DEFINE e == entry[k]
  <1>0. /\ e \in Entry /\ e.state = "open" /\ e.left > 0 /\ e.left \in Int
        /\ entry'[k].state = "open" /\ entry'[k].left > e.left
    BY DEF TypeOK, Extends, Entry
  <1>1. /\ entry'[k] # e
        /\ OnTime(e) = e /\ Failure(e) = e /\ Allow(e) = e
        /\ entry'[k] # Success(e) /\ entry'[k] # Elapse(e)
        /\ \A slow \in BOOLEAN : entry'[k] # Sample(e, slow)
        /\ \A s \in {"closed", "sla_degraded"} : entry'[k] # Override(e, s)
    <2>1. /\ OnTime(e) = e /\ Failure(e) = e
          /\ Success(e).left <= e.left /\ Elapse(e).left <= e.left
          /\ \A slow \in BOOLEAN : Sample(e, slow).left = e.left
          /\ \A s \in {"closed", "sla_degraded"} : Override(e, s).state # "open"
      BY <1>0, WindowNotLonger
    <2>2. /\ Allow(e) = e /\ Success(e) \in Entry /\ Elapse(e) \in Entry
      BY <1>0, SuccessType, ElapseType DEF Allow
    <2>3. \A f \in Entry : f.left \in Int
      BY DEF Entry
    <2> HIDE DEF e
    <2>4. /\ entry'[k] # e /\ entry'[k] # Success(e) /\ entry'[k] # Elapse(e)
      BY <1>0, <2>1, <2>2, <2>3
    <2>5. ASSUME NEW slow \in BOOLEAN PROVE entry'[k] # Sample(e, slow)
      BY <1>0, <2>1
    <2>6. ASSUME NEW s \in {"closed", "sla_degraded"} PROVE entry'[k] # Override(e, s)
      BY <1>0, <2>1
    <2>7. QED
      BY <2>1, <2>2, <2>4, <2>5, <2>6
  <1> HIDE DEF e
  \* a call on the key j leaves f there, and every other key alone
  <1>2. ASSUME NEW j \in Keys, NEW f, entry' = [entry EXCEPT ![j] = f]
        PROVE  j = k /\ entry'[k] = f
    BY <1>1, <1>2 DEF TypeOK, e
  <1>3. ASSUME NEW j \in Keys, cb_get_state(j) PROVE FALSE
    <2>1. entry' = [entry EXCEPT ![j] = OnTime(entry[j])]
      BY <1>3 DEF cb_get_state, Become
    <2>2. QED
      BY <1>1, <1>2, <2>1 DEF e
  <1>4. ASSUME NEW r \in Requests, NEW j \in Keys, cb_allow_request(r, j) PROVE FALSE
    <2>1. entry' = [entry EXCEPT ![j] = Allow(OnTime(entry[j]))]
      BY <1>4 DEF cb_allow_request
    <2>2. QED
      BY <1>1, <1>2, <2>1 DEF e
  <1>5. ASSUME NEW r \in Requests, cb_record_success(r) PROVE FALSE
    <2>1. req[r] \in Keys /\ entry' = [entry EXCEPT ![req[r]] = Success(entry[req[r]])]
      BY <1>5 DEF cb_record_success, Become
    <2>2. QED
      BY <1>1, <1>2, <2>1 DEF e
  <1>6. ASSUME NEW r \in Requests, cb_record_failure(r) PROVE FALSE
    <2>1. /\ req[r] \in Keys
          /\ entry' = [entry EXCEPT ![req[r]] = Failure(OnTime(entry[req[r]]))]
      BY <1>6 DEF cb_record_failure, Become
    <2>2. QED
      BY <1>1, <1>2, <2>1 DEF e
  <1>7. ASSUME NEW r \in Requests, NEW slow \in BOOLEAN, cb_record_sla_sample(r, slow)
        PROVE  FALSE
    <2>1. /\ req[r] \in Keys
          /\ entry' = [entry EXCEPT ![req[r]] = Sample(OnTime(entry[req[r]]), slow)]
      BY <1>7 DEF cb_record_sla_sample, Become
    <2>2. QED
      BY <1>1, <1>2, <1>7, <2>1 DEF e
  <1>8. ASSUME NEW j \in Keys, NEW s \in {"closed", "open", "sla_degraded"},
               cb_override_state(j, s)
        PROVE  cb_override_state(k, "open")
    <2>1. entry' = [entry EXCEPT ![j] = Override(entry[j], s)]
      BY <1>8 DEF cb_override_state, Become
    <2>2. j = k /\ entry'[k] = Override(e, s)
      BY <1>2, <2>1 DEF e
    <2>3. s = "open"
      BY <1>1, <1>8, <2>2
    <2>4. QED
      BY <1>8, <2>2, <2>3
  <1>9. ASSUME Tick PROVE FALSE
    <2>1. entry'[k] = Elapse(e)
      BY <1>9 DEF Tick, e
    <2>2. QED
      BY <1>1, <2>1
  <1>10. ASSUME entry' = entry PROVE FALSE
    BY <1>1, <1>10 DEF e
  <1>11. QED
    BY <1>3, <1>4, <1>5, <1>6, <1>7, <1>8, <1>9, <1>10
       DEF Next, SendUnasked, EndUnrecorded, cb_configure_sla

\* For every cool-off time: failures, samples and queries that arrive while an
\* endpoint is open keep the original deadline (cb_record_failure's OPEN case).
THEOREM WindowKept == Spec => OpenWindowNotExtended
  <1> DEFINE A == \A k \in Keys :
                     /\ entry[k].state = "open" /\ entry[k].left > 0
                     /\ entry'[k].state = "open" /\ entry'[k].left > entry[k].left
                     => cb_override_state(k, "open")
  <1>1. IInv /\ [Next]_vars => [A]_vars
    BY ExtendsIsOverride DEF IInv, Extends
  <1>2. QED
    BY <1>1, Invariant, PTL DEF Spec, OpenWindowNotExtended
=============================================================================
