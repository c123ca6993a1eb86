------------------------------ MODULE MCUpstream ------------------------------
(***************************************************************************)
(* The two threaded callers of upstream providers for model checking: the  *)
(* hedged call and the health prober.  They share nothing, so a behaviour  *)
(* runs one of them.                                                       *)
(***************************************************************************)
EXTENDS HedgedCall, HealthProber

VARIABLE part

vars == <<hedgeVars, proberVars, part>>

Init == HedgeInit /\ ProberInit /\ part \in {"hedge", "prober"}

Next ==
    \/ part = "hedge" /\ HedgeNext /\ UNCHANGED <<proberVars, part>>
    \/ part = "prober" /\ ProberNext /\ UNCHANGED <<hedgeVars, part>>

Spec == Init /\ [][Next]_vars /\ HedgeFairness /\ ProberFairness
===============================================================================
