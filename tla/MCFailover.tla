----------------------------- MODULE MCFailover -----------------------------
(***************************************************************************)
(* Instances of Failover for TLC.                                          *)
(***************************************************************************)
EXTENDS Failover

\* Two targets in two tiers; the first has one slot, the second no limit.
TwoTiers == <<0, 1>>
LimitFirst == <<1, 0>>

\* The first thread serves hedged and direct requests, the second streams, so
\* every pair of a request with slots and another one occurs.
MixedKinds == <<{"hedged", "direct"}, {"stream"}>>
=============================================================================
