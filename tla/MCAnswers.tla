------------------------------- MODULE MCAnswers -------------------------------
(***************************************************************************)
(* Answers for model checking: how they are streamed to the client, and    *)
(* the response cache that keeps them.  Stream has the calls of the cache  *)
(* in it, ResponseCache what concurrent calls do to its entries; a         *)
(* behaviour runs one of the two.                                          *)
(***************************************************************************)
EXTENDS Stream, ResponseCache

VARIABLE part

vars == <<streamVars, cacheVars, part>>

MCModelOf == [k \in CacheKeys |-> IF k = "k1" THEN "m1" ELSE "m2"]
MCRoutes ==
    {[kind |-> k, tag |-> t, single |-> s] :
        k \in {"openai", "anthropic", "gemini"}, t \in BOOLEAN, s \in BOOLEAN}
    \cup {[kind |-> k, tag |-> FALSE, single |-> s] :
        k \in {"responses", "messages", "claude", "genai"}, s \in BOOLEAN}

Init ==
    /\ StreamInit /\ CacheInit
    /\ part \in {"stream", "cache"}
    /\ part = "stream" \/ route = [kind |-> "openai", tag |-> FALSE, single |-> FALSE]

Next ==
    \/ part = "stream" /\ StreamNext /\ UNCHANGED <<cacheVars, part>>
    \/ part = "cache" /\ CacheNext /\ UNCHANGED <<streamVars, part>>

Spec == Init /\ [][Next]_vars

\* The readers of the cache are alike.
ReaderSymmetry == Permutations(Readers)
================================================================================
