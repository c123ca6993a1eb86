-------------------------------- MODULE MCGate --------------------------------
(* Two keys of one group; a second group without keys can be created. *)
EXTENDS Gate, TLC

CONSTANT g1

MCGroupOf == [k \in Keys |-> g1]

\* Threads are alike, and so are the keys of the one group.
GateSymmetry == Permutations(Reqs) \cup Permutations(Keys)
===============================================================================
