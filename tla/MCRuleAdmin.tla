---------------------------- MODULE MCRuleAdmin ----------------------------
(* RuleAdmin for model checking: the admin threads are interchangeable.    *)
EXTENDS RuleAdmin, TLC

AdminSymmetry == Permutations(Admins)
=============================================================================
