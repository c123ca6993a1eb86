------------------------------ MODULE MCRecords ------------------------------
(* Records for model checking. Admin threads are interchangeable, and so   *)
(* are the models. The key cache and the route cache share no state: it is *)
(* enough to look at behaviours that fill one of the two.                  *)
EXTENDS Records

Symmetry == Permutations(Admins) \cup Permutations(Models)
OneCacheInUse == routes = <<>> \/ (recs = <<>> /\ neg = <<>> /\ ~late)
=============================================================================
